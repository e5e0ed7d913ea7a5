---------------------------- MODULE RecencyStore ----------------------------
(***************************************************************************)
(* What InMemoryDocumentStore promises: "a bounded LRU" (cache.rs).  The   *)
(* state is the set of keys held and which of them was used before which;  *)
(* an insertion that overflows the store drops expired entries or the      *)
(* least recently used one, and never the entry it inserts.                *)
(***************************************************************************)
EXTENDS Naturals, FiniteSets

CONSTANTS Keys, MaxEntries, NoKey

VARIABLES
  held,   (* keys with an entry                                             *)
  older,  (* pairs <<a, b>> of held keys: a was used before b               *)
  used    (* the key last looked up with success or inserted                *)

recencyVars == <<held, older, used>>

Init == held = {} /\ older = {} /\ used = NoKey

(* The order once k has been used after everything else in H. *)
Renewed(H, O, k) == {p \in H \X H : p[1] # k /\ (p[2] = k \/ p \in O)}

LeastRecent(H, O) == {v \in H : \A j \in H : <<j, v>> \notin O}

Use(k) ==
  /\ k \in held
  /\ older' = Renewed(held, older, k)
  /\ used' = k
  /\ UNCHANGED held

(* Entries may expire or be deleted at any time. *)
Forget ==
  \E S \in SUBSET held :
    /\ held' = held \ S
    /\ older' = {p \in older : p[1] \in held' /\ p[2] \in held'}
    /\ UNCHANGED used

(* Insert k; drop expired entries or evict only when that overflows.       *)
Put(k) ==
  LET all == held \union {k}
  IN  \E dead \in SUBSET (held \ {k}) :
        LET rest == all \ dead
        IN  /\ Cardinality(all) <= MaxEntries => dead = {}
            /\ \/ Cardinality(rest) <= MaxEntries /\ held' = rest
               \/ \E v \in LeastRecent(rest, Renewed(rest, older, k)) \ {k} :
                    Cardinality(rest) > MaxEntries /\ held' = rest \ {v}
            /\ older' = Renewed(held', older, k)
            /\ used' = k

Next == Forget \/ \E k \in Keys : Use(k) \/ Put(k)

Spec == Init /\ [][Next]_recencyVars

=============================================================================
