---------------------------- MODULE FileStorage ----------------------------
(***************************************************************************)
(* Interactions as files (src/rust/src/storage/file.rs): one file per      *)
(* interaction, an index of the interactions that mention an actor, an     *)
(* index of the place of an object, and the migrations that bring an older *)
(* directory to this layout before the server starts.                      *)
(*                                                                         *)
(* A file is replaced by a rename and read under the same lock, so one     *)
(* read, one write and one update of an index are steps; nothing holds     *)
(* across two of them, and a crash may fall between any two.               *)
(***************************************************************************)
EXTENDS Naturals

CONSTANTS
  Threads,        (* threads of the server                                  *)
  Actors, Resources, Objects,
  Inputs,         (* the interactions that may be stored                    *)
  Withdrawals,    (* [source, target, type]: what may be deleted             *)
  Deletions,      (* [source, object]: what may be deleted                   *)
  Legacies,       (* what an older server may have left behind              *)
  Tags,           (* the actors the raw object of an interaction tags       *)
  Versions,       (* the schema versions it may have left it in             *)
  MaxCrashes,     (* bound on crashes and failing calls                     *)
  NoObject, NoFile, NoEntry, NoPath, NoWork

MultiTypes == {"reply", "quote"}
SchemaVersion == 4

(* interaction_path: replies and quotes under their object if they have    *)
(* one, everything else under its author.                                  *)
Path(i) ==
  [target |-> i.target, type |-> i.type,
   key |-> IF i.type \in MultiTypes /\ i.object # NoObject THEN i.object ELSE i.source]

(* Where a server before version 3 kept it. *)
OldPath(i) == [target |-> i.target, type |-> i.type, key |-> i.source]

All == Inputs \union UNION Legacies

Paths == {Path(i) : i \in All} \union {OldPath(i) : i \in UNION Legacies}

Interaction ==
  [source: Actors, target: Resources, type: MultiTypes \union {"like", "boost", "mention"},
   object: Objects \union {NoObject}, mentions: SUBSET Actors, status: {"confirmed", "deleted"}]

(* An entry of an index. *)
Entry(i) == [source |-> i.source, target |-> i.target, type |-> i.type, object |-> i.object]

ASSUME FilesAssumption ==
  /\ \A i \in All : i \in Interaction /\ i.status = "confirmed"
  /\ \A L \in Legacies : \A i, j \in L : OldPath(i) = OldPath(j) => i = j
  /\ Versions \subseteq 0..SchemaVersion
  /\ NoObject \notin Objects /\ Objects \intersect Actors = {}
  /\ NoFile \notin Interaction /\ NoPath \notin Paths
  /\ \A i \in All : Entry(i) # NoEntry
  /\ Tags \in [Objects \union {NoObject} -> SUBSET Actors]
  /\ Deletions \subseteq [source: Actors, object: Objects]
  /\ Withdrawals \subseteq [source: Actors, target: Resources,
                            type: MultiTypes \union {"like", "boost", "mention"}]
  /\ MaxCrashes \in Nat

(* A condition on what arrives: an object is of one author.  The storage   *)
(* does not check it, and what it promises depends on it.  The inbox       *)
(* checks no more, under strict_attribution, than that an object names its *)
(* author, if any, and the author's host.                                  *)
OneAuthor ==
  \A i, j \in All : i.object = j.object /\ i.object # NoObject => i.source = j.source

VARIABLES
  files,         (* the interaction files                                   *)
  mentionIndex,  (* _mentions: the entries of each actor                    *)
  objectIndex,   (* _object_ids: the entry of each object                   *)
  version,       (* .schema_version                                         *)
  phase,         (* what the process does: a migration, or serving          *)
  snapshot,      (* the interactions a migration still has to look at       *)
  pc, work,      (* where a thread is, and the call it executes             *)
  todo,          (* the mentions it has to index, or the files to look at   *)
  chosen,        (* the files a delete_interaction has to mark              *)
  at, data,      (* the file it works on, and what it read there            *)
  crashes,       (* crashes and failed calls so far                         *)
  known,         (* history: what has been stored, by its identity          *)
  broken         (* history: files at which a call was cut short since they *)
                 (* were last stored                                        *)

disk == <<files, mentionIndex, objectIndex, version>>
locals == <<pc, work, todo, chosen, at, data>>
history == <<known, broken>>
vars == <<disk, phase, snapshot, locals, crashes, history>>

(* An older server kept replies and quotes under their author, and had no  *)
(* index of objects before version 2.                                      *)
OldFiles(L, v) ==
  [p \in Paths |->
     IF \E i \in L : p = IF v < 3 THEN OldPath(i) ELSE Path(i)
     THEN CHOOSE i \in L : p = IF v < 3 THEN OldPath(i) ELSE Path(i)
     ELSE NoFile]

(* What makes it the same interaction, whatever its file.                  *)
Identity(i) ==
  [Entry(i) EXCEPT !.object = IF i.type \in MultiTypes THEN i.object ELSE NoObject]

Init ==
  /\ \E L \in Legacies, v \in Versions :
       /\ version = v
       /\ files = OldFiles(L, v)
       /\ mentionIndex = [a \in Actors |-> {Entry(i) : i \in {j \in L : a \in j.mentions}}]
       /\ objectIndex =
            [o \in Objects |-> IF v >= 2 /\ \E i \in L : i.object = o
                               THEN Entry(CHOOSE i \in L : i.object = o) ELSE NoEntry]
       /\ known = {Identity(i) : i \in L}
  /\ phase = "down"
  /\ snapshot = {}
  /\ pc = [t \in Threads |-> "idle"]
  /\ work = [t \in Threads |-> NoWork]
  /\ todo = [t \in Threads |-> {}]
  /\ chosen = [t \in Threads |-> {}]
  /\ at = [t \in Threads |-> NoPath]
  /\ data = [t \in Threads |-> NoFile]
  /\ crashes = 0
  /\ broken = {}

Present == {p \in Paths : files[p] # NoFile}
Contents == {files[p] : p \in Present}

----------------------------------------------------------------------------
(* run_migrations, each version over a snapshot of all files               *)

(* Faulty variant: the migrations begin at the one after the next. *)
Start_Skips ==
  /\ phase = "down"
  /\ phase' = CASE version >= SchemaVersion -> "serving"
                [] version = 3              -> "finish"
                [] version < 3              -> "multi_files"
  /\ snapshot' = IF version < 3 THEN Contents ELSE {}
  /\ UNCHANGED <<disk, locals, crashes, history>>

(* FileActivityPubStorage::new: the migrations after the version it finds; *)
(* the last one has nothing to do.                                         *)
Start ==
  /\ phase = "down"
  /\ phase' = CASE version >= SchemaVersion -> "serving"
                [] version = 3              -> "finish"
                [] version = 2              -> "multi_files"
                [] version < 2              -> "object_ids"
  /\ snapshot' = IF version < 3 THEN Contents ELSE {}
  /\ UNCHANGED <<disk, locals, crashes, history>>

(* migrate_to_v2_object_id_index *)
MigrateObjectId(i) ==
  /\ phase = "object_ids" /\ i \in snapshot
  /\ snapshot' = snapshot \ {i}
  /\ objectIndex' = IF i.object # NoObject THEN [objectIndex EXCEPT ![i.object] = Entry(i)]
                    ELSE objectIndex
  /\ UNCHANGED <<files, mentionIndex, version, phase, locals, crashes, history>>

NextMigration ==
  /\ phase = "object_ids" /\ snapshot = {}
  /\ phase' = "multi_files"
  /\ snapshot' = Contents
  /\ UNCHANGED <<disk, locals, crashes, history>>

(* Faulty variant: the old file is removed first and then written anew.    *)
Rekeyed_Truncated(i) == [files EXCEPT ![OldPath(i)] = NoFile]

(* migrate_to_v3_multi_reply_files, one interaction: renamed, or written   *)
(* again where another one has taken the old name.                         *)
Rekeyed(i) ==
  CASE OldPath(i) = Path(i) \/ i.type \notin MultiTypes -> files
    [] OTHER ->
       IF files[OldPath(i)] # NoFile /\ files[OldPath(i)].object = i.object
       THEN [files EXCEPT ![Path(i)] = files[OldPath(i)], ![OldPath(i)] = NoFile]
       ELSE IF files[OldPath(i)] # NoFile \/ files[Path(i)] = NoFile
       THEN [files EXCEPT ![Path(i)] = i]
       ELSE files

MigrateMultiFile(i) ==
  /\ phase = "multi_files" /\ i \in snapshot
  /\ snapshot' = snapshot \ {i}
  /\ files' = Rekeyed(i)
  /\ UNCHANGED <<mentionIndex, objectIndex, version, phase, locals, crashes, history>>

EndMigrations ==
  /\ phase = "multi_files" /\ snapshot = {}
  /\ phase' = "finish"
  /\ UNCHANGED <<disk, snapshot, locals, crashes, history>>

(* set_schema_version, after the last of them.  fs::write first empties    *)
(* the file, and a file that is empty reads as version 0.                  *)
EmptyVersion ==
  /\ phase = "finish"
  /\ version' = 0
  /\ phase' = "stamp"
  /\ UNCHANGED <<files, mentionIndex, objectIndex, snapshot, locals, crashes, history>>

FinishMigrations ==
  /\ phase = "stamp"
  /\ version' = SchemaVersion
  /\ phase' = "serving"
  /\ UNCHANGED <<files, mentionIndex, objectIndex, snapshot, locals, crashes, history>>

----------------------------------------------------------------------------
Reset(f, t, none) == [f EXCEPT ![t] = none]

Leave(t) ==
  /\ pc' = Reset(pc, t, "idle") /\ work' = Reset(work, t, NoWork)
  /\ todo' = Reset(todo, t, {}) /\ chosen' = Reset(chosen, t, {})
  /\ at' = Reset(at, t, NoPath) /\ data' = Reset(data, t, NoFile)

Begin(t, p, w) ==
  /\ phase = "serving" /\ pc[t] = "idle"
  /\ pc' = [pc EXCEPT ![t] = p]
  /\ work' = [work EXCEPT ![t] = w]
  /\ UNCHANGED <<disk, phase, snapshot, todo, chosen, at, data, crashes, history>>

(* store_interaction: the file, then the index of each mentioned actor,    *)
(* then the index of the object.                                           *)
BeginStore(t, i) == Begin(t, "file", i)

WriteFile(t) ==
  /\ pc[t] = "file"
  /\ files' = [files EXCEPT ![Path(work[t])] = work[t]]
  /\ pc' = [pc EXCEPT ![t] = "mentions"]
  /\ todo' = [todo EXCEPT ![t] = work[t].mentions]
  /\ at' = [at EXCEPT ![t] = Path(work[t])]
  /\ known' = known \union {Identity(work[t])}
  /\ broken' = broken \ {Path(work[t])}
  /\ UNCHANGED <<mentionIndex, objectIndex, version, phase, snapshot, work, chosen, data,
                 crashes>>

(* update_mention_index(interaction, true), one actor. *)
AddMention(t, a) ==
  /\ pc[t] = "mentions" /\ a \in todo[t]
  /\ mentionIndex' = [mentionIndex EXCEPT ![a] = @ \union {Entry(work[t])}]
  /\ todo' = [todo EXCEPT ![t] = @ \ {a}]
  /\ UNCHANGED <<files, objectIndex, version, phase, snapshot, pc, work, chosen, at, data, crashes, history>>

(* update_object_id_index, and the end of the call. *)
WriteObjectIndex(t) ==
  /\ pc[t] = "mentions" /\ todo[t] = {}
  /\ objectIndex' = IF work[t].object # NoObject
                    THEN [objectIndex EXCEPT ![work[t].object] = Entry(work[t])] ELSE objectIndex
  /\ Leave(t)
  /\ UNCHANGED <<files, mentionIndex, version, phase, snapshot, crashes, history>>

----------------------------------------------------------------------------
(* delete_interaction: the file under the author, and for replies and      *)
(* quotes a scan of the directory for the author's other files.            *)
BeginDelete(t, w) == Begin(t, "scan", w)

ListFiles(t) ==
  /\ pc[t] = "scan"
  /\ LET own == [target |-> work[t].target, type |-> work[t].type, key |-> work[t].source]
     IN  /\ chosen' = [chosen EXCEPT ![t] = {own} \intersect Present]
         /\ todo' = [todo EXCEPT ![t] =
              IF work[t].type \in MultiTypes
              THEN {p \in Present \ {own} : p.target = own.target /\ p.type = own.type} ELSE {}]
  /\ pc' = [pc EXCEPT ![t] = "each"]
  /\ UNCHANGED <<disk, phase, snapshot, work, at, data, crashes, history>>

ScanFile(t, p) ==
  /\ pc[t] = "each" /\ p \in todo[t]
  /\ todo' = [todo EXCEPT ![t] = @ \ {p}]
  /\ chosen' = IF files[p] # NoFile /\ files[p].source = work[t].source /\ files[p].status # "deleted"
               THEN [chosen EXCEPT ![t] = @ \union {p}] ELSE chosen
  /\ UNCHANGED <<disk, phase, snapshot, pc, work, at, data, crashes, history>>

NextFile(t, p) ==
  /\ pc[t] = "each" /\ todo[t] = {} /\ p \in chosen[t]
  /\ pc' = [pc EXCEPT ![t] = "read"]
  /\ at' = [at EXCEPT ![t] = p]
  /\ chosen' = [chosen EXCEPT ![t] = @ \ {p}]
  /\ UNCHANGED <<disk, phase, snapshot, work, todo, data, crashes, history>>

EndDelete(t) ==
  /\ pc[t] = "each" /\ todo[t] = {} /\ chosen[t] = {}
  /\ Leave(t)
  /\ UNCHANGED <<disk, phase, snapshot, crashes, history>>

(* delete_interaction_by_object_id: the index must name the author. *)
BeginDeleteObject(t, w) == Begin(t, "lookup", w)

LookupObject(t) ==
  /\ pc[t] = "lookup"
  /\ LET e == objectIndex[work[t].object]
     IN  IF e # NoEntry /\ e.source = work[t].source
         THEN /\ pc' = [pc EXCEPT ![t] = "read"]
              /\ at' = [at EXCEPT ![t] = Path([e EXCEPT !.object = work[t].object])]
              /\ UNCHANGED <<work, todo, chosen, data>>
         ELSE Leave(t)
  /\ UNCHANGED <<disk, phase, snapshot, crashes, history>>


(* The file may be gone; by its object it may also be deleted already.     *)
ReadFile(t) ==
  /\ pc[t] = "read"
  /\ LET i == files[at[t]]
     IN  IF i = NoFile \/ (DOMAIN work[t] = {"source", "object"} /\ i.status = "deleted")
         THEN /\ pc' = [pc EXCEPT ![t] = "each"]
              /\ at' = [at EXCEPT ![t] = NoPath]
              /\ UNCHANGED <<todo, data>>
         ELSE /\ pc' = [pc EXCEPT ![t] = "unlist"]
              /\ data' = [data EXCEPT ![t] = i]
              /\ todo' = [todo EXCEPT ![t] = i.mentions]
              /\ UNCHANGED at
  /\ UNCHANGED <<disk, phase, snapshot, work, chosen, crashes, history>>

(* update_mention_index(interaction, false), one actor. *)
Unlist(t, a) ==
  /\ pc[t] = "unlist" /\ a \in todo[t]
  /\ mentionIndex' = [mentionIndex EXCEPT ![a] = @ \ {Entry(data[t])}]
  /\ todo' = [todo EXCEPT ![t] = @ \ {a}]
  /\ UNCHANGED <<files, objectIndex, version, phase, snapshot, pc, work, chosen, at, data,
                 crashes, history>>

(* Faulty variant: the file is removed. *)
MarkFile_Removes(t) ==
  /\ pc[t] = "unlist" /\ todo[t] = {}
  /\ files' = [files EXCEPT ![at[t]] = NoFile]
  /\ pc' = [pc EXCEPT ![t] = "each"]
  /\ at' = [at EXCEPT ![t] = NoPath]
  /\ data' = [data EXCEPT ![t] = NoFile]
  /\ UNCHANGED <<mentionIndex, objectIndex, version, phase, snapshot, work, todo, chosen,
                 crashes, history>>

(* What was read is written back, marked. *)
MarkFile(t) ==
  /\ pc[t] = "unlist" /\ todo[t] = {}
  /\ files' = [files EXCEPT ![at[t]] = [data[t] EXCEPT !.status = "deleted"]]
  /\ pc' = [pc EXCEPT ![t] = "each"]
  /\ at' = [at EXCEPT ![t] = NoPath]
  /\ data' = [data EXCEPT ![t] = NoFile]
  /\ UNCHANGED <<mentionIndex, objectIndex, version, phase, snapshot, work, todo, chosen,
                 crashes, history>>

----------------------------------------------------------------------------
(* The maintenance tools: each looks at a snapshot of the files and stores *)
(* from it what lacks, so what it writes may be out of date.               *)

(* backfill_mentions *)
BackfillMentions(t, p) ==
  /\ p \in Present
  /\ files[p].mentions = {} /\ Tags[files[p].object] # {}
  /\ Begin(t, "file", [files[p] EXCEPT !.mentions = Tags[files[p].object]])

(* backfill_object_id_index *)
BackfillObjectId(t, p) ==
  /\ p \in Present
  /\ files[p].object # NoObject /\ objectIndex[files[p].object] = NoEntry
  /\ Begin(t, "mentions", files[p])

----------------------------------------------------------------------------
(* An input or output error ends a call where it is. *)
Fail(t) ==
  /\ pc[t] # "idle" /\ crashes < MaxCrashes
  /\ crashes' = crashes + 1
  /\ broken' = broken \union ({at[t]} \ {NoPath})
  /\ Leave(t)
  /\ UNCHANGED <<disk, phase, snapshot, known>>

(* The process stops; what is on the disk stays. *)
Crash ==
  /\ phase # "down" /\ crashes < MaxCrashes
  /\ crashes' = crashes + 1
  /\ broken' = broken \union ({at[t] : t \in Threads} \ {NoPath})
  /\ phase' = "down"
  /\ snapshot' = {}
  /\ pc' = [t \in Threads |-> "idle"]
  /\ work' = [t \in Threads |-> NoWork]
  /\ todo' = [t \in Threads |-> {}]
  /\ chosen' = [t \in Threads |-> {}]
  /\ at' = [t \in Threads |-> NoPath]
  /\ data' = [t \in Threads |-> NoFile]
  /\ UNCHANGED <<disk, known>>

Next ==
  \/ Start \/ NextMigration \/ EndMigrations \/ EmptyVersion \/ FinishMigrations \/ Crash
  \/ \E i \in snapshot : MigrateObjectId(i) \/ MigrateMultiFile(i)
  \/ \E t \in Threads :
       \/ \E i \in Inputs : BeginStore(t, i)
       \/ WriteFile(t) \/ WriteObjectIndex(t)
       \/ \E a \in Actors : AddMention(t, a) \/ Unlist(t, a)
       \/ \E w \in Withdrawals : BeginDelete(t, w)
       \/ \E w \in Deletions : BeginDeleteObject(t, w)
       \/ ListFiles(t) \/ EndDelete(t) \/ LookupObject(t) \/ ReadFile(t) \/ MarkFile(t)
       \/ \E p \in Paths : \/ ScanFile(t, p) \/ NextFile(t, p)
                           \/ BackfillMentions(t, p) \/ BackfillObjectId(t, p)
       \/ Fail(t)

Spec == Init /\ [][Next]_vars

----------------------------------------------------------------------------
(* get_interactions_mentioning: through the index, then the file.          *)
Mentioning(a, status) ==
  {files[Path(e)] : e \in {x \in mentionIndex[a] :
                             files[Path(x)] # NoFile /\ files[Path(x)].status = status}}

(* Faulty variant: the file is looked for under the author. *)
WithObject_ByAuthor(o, status) ==
  LET p == OldPath(objectIndex[o])
  IN  IF objectIndex[o] = NoEntry THEN {}
      ELSE {i \in {files[p]} \ {NoFile} : i.status = status}

(* get_interaction_by_object_id *)
WithObject(o, status) ==
  LET p == Path([objectIndex[o] EXCEPT !.object = o])
  IN  IF objectIndex[o] = NoEntry THEN {}
      ELSE {i \in {files[p]} \ {NoFile} : i.status = status}

(* get_interactions *)
About(target, type, status) ==
  {i \in Contents : i.target = target /\ i.type = type /\ i.status = status}

(* The migrations change no interaction, however often they are cut short  *)
(* and begun anew ...                                                      *)
MigrationsKeep == [][phase # "serving" => Contents' = Contents]_vars

(* ... and once the server runs, every file is where its interaction is    *)
(* looked for.                                                             *)
FiledUnderPath == phase = "serving" => \A p \in Present : p = Path(files[p])

(* The object of i leads to no place but that of i.  It may: handle_update *)
(* files what was a quote as a reply, and the index then leads to the one  *)
(* stored last.                                                            *)
OnePlace(i) == \A j \in All : j.object = i.object => Path(j) = Path(i)

(* An interaction that is confirmed is found by every query that names it, *)
(* unless a call is at its file or was cut short there and nothing stored  *)
(* it again: the indexes are updated after the file by a store and before  *)
(* it by a delete, in steps that interleave.  Storing an interaction once  *)
(* more repairs what a crash left of it.                                   *)
ConfirmedIsFound ==
  phase = "serving" =>
    \A p \in Present \ (broken \union {at[t] : t \in Threads}) :
      files[p].status = "confirmed" =>
        /\ files[p] \in About(p.target, p.type, "confirmed")
        /\ \A a \in files[p].mentions : files[p] \in Mentioning(a, "confirmed")
        /\ files[p].object # NoObject /\ OnePlace(files[p]) =>
             files[p] \in WithObject(files[p].object, "confirmed")

(* What an object is looked up as is an interaction of that object if it   *)
(* is a reply or a quote, and otherwise the same author's interaction of   *)
(* that type with that resource (a later mention takes the file of an      *)
(* earlier one), even after crashes and with several calls under way.      *)
ObjectIndexSound ==
  phase = "serving" =>
    \A o \in Objects, s \in {"confirmed", "deleted"} :
      \A i \in WithObject(o, s) :
        \E j \in All : /\ j.object = o
                       /\ Identity(j) = Identity(i)

(* "Delete an interaction by its object_id (the remote object URL)"        *)
(* (storage/mod.rs): the file such a delete is about to mark holds an      *)
(* interaction of that object.                                             *)
DeletesByObject ==
  \A t \in Threads : pc[t] = "unlist" /\ DOMAIN work[t] = {"source", "object"} =>
    data[t].object = work[t].object

(* What does hold: it is an interaction of the author that deletes, of     *)
(* that object if it is a reply or a quote.                                *)
DeletesByAuthor ==
  \A t \in Threads : pc[t] = "unlist" /\ DOMAIN work[t] = {"source", "object"} =>
    /\ data[t].source = work[t].source
    /\ data[t].type \in MultiTypes => data[t].object = work[t].object

(* No interaction that was ever stored is without a file, wherever a crash *)
(* interrupts a migration or a call and however often it starts again.     *)
NothingLost == \A k \in known : \E i \in Contents : Identity(i) = k

(* What the table of the trait holds of an interaction.  Whom it mentions  *)
(* and, for what an author does once with a resource, which object it was  *)
(* of is left to the indexes.                                              *)
Row(i) ==
  [i EXCEPT !.mentions = {}, !.object = IF i.type \in MultiTypes THEN i.object ELSE NoObject]

(* The directory is the table the trait promises, where each file is       *)
(* written or marked in one step: no call loses what another one stored.   *)
(* A delete that writes back what it read before another store is a mark   *)
(* like any other here: what it takes back is not a row.                   *)
Store == INSTANCE InteractionStore WITH table <- {Row(i) : i \in Contents}

ImplementsStore == Store!StoreSpec

=============================================================================
