------------------------- MODULE InteractionStore -------------------------
(***************************************************************************)
(* What a storage backend promises of interactions: replies, quotes,       *)
(* mentions, likes and boosts (src/rust/src/storage/mod.rs), in the words  *)
(* of the SQL backend (storage/db.rs), which holds one connection mutex    *)
(* for the whole of a call: a call is a step.                              *)
(***************************************************************************)
CONSTANTS
  Actors,     (* remote and local actors                                   *)
  Resources,  (* URLs an interaction may be about                          *)
  NoObject    (* an empty object id                                        *)

VARIABLE table  (* the stored interactions *)

Types == {"reply", "like", "boost", "mention", "quote"}

(* Of these an actor may have several on one resource, one per object.     *)
MultiTypes == {"reply", "quote"}

Statuses == {"confirmed", "deleted"}

(* The rows that store_interaction(i) replaces. *)
SameRow(r, i) ==
  /\ <<r.source, r.target, r.type>> = <<i.source, i.target, i.type>>
  /\ i.type \in MultiTypes => r.object = i.object

(* The table after store_interaction(i). *)
Upserted(rows, i) == {r \in rows : ~SameRow(r, i)} \union {i}

(* What a row may mention whose upsert fails between two statements: what  *)
(* the row it updates did, or a part of its own.                           *)
MayMention(rows, i, m) == m \subseteq i.mentions \/ \E r \in rows : SameRow(r, i) /\ m = r.mentions

(* A second reply or quote without object id meets the unique index.       *)
Refused(rows, i) ==
  i.type \in MultiTypes /\ i.object = NoObject /\ \E r \in rows : SameRow(r, i)

(* The table after the rows R are marked. *)
Marked(rows, R) == (rows \ R) \union {[r EXCEPT !.status = "deleted"] : r \in R}

(* The rows delete_interaction marks. *)
OfResource(rows, source, target, type) ==
  {r \in rows : <<r.source, r.target, r.type>> = <<source, target, type>>}

(* Faulty variant: one of them is taken for the whole. *)
OfObject_First(rows, source, object) ==
  LET found == {r \in rows : r.source = source /\ r.object = object /\ r.status # "deleted"}
  IN  IF found = {} THEN {} ELSE {CHOOSE r \in found : TRUE}

(* Faulty variant: whoever asks may delete an object.                      *)
OfObject_Anyone(rows, source, object) ==
  {r \in rows : r.object = object /\ r.status # "deleted"}

(* The rows delete_interaction_by_object_id marks; it reports whether      *)
(* there were any.                                                         *)
OfObject(rows, source, object) ==
  {r \in rows : r.source = source /\ r.object = object /\ r.status # "deleted"}

----------------------------------------------------------------------------
(* The promise as a specification: interactions are put under their key    *)
(* and marked, one source at a time, and never disappear.                  *)

StoreInit == \A r, s \in table : SameRow(r, s) => r = s

Put(i) == i.status = "confirmed" /\ table' = Upserted(table, i)

MarkAll(R) == (\E r \in R : \A s \in R : s.source = r.source) /\ table' = Marked(table, R)

StoreNext == (\E i \in table' : Put(i)) \/ (\E R \in SUBSET table : MarkAll(R))

StoreSpec == StoreInit /\ [][StoreNext]_table

=============================================================================
