-------------------------- MODULE FileStorageProofs --------------------------
(* Theorems about FileStorage, for every value of its constants, provided  *)
(* that an object is of one author.  An author may mention an actor, like  *)
(* or boost a resource any number of times.                                *)
EXTENDS FileStorage, TLAPS

----------------------------------------------------------------------------
(* The place of an interaction depends on its entry alone. *)

(* What is stored is one of the inputs, up to its status and its mentions. *)
Known(i) == i \in Interaction /\ \E j \in All : Entry(i) = Entry(j)

LEMMA SameEntry ==
  ASSUME NEW i, NEW j, Entry(i) = Entry(j)
  PROVE  /\ i.source = j.source /\ i.target = j.target
         /\ i.type = j.type /\ i.object = j.object
         /\ Path(i) = Path(j) /\ OldPath(i) = OldPath(j) /\ Identity(i) = Identity(j)
<1>1. /\ i.source = j.source /\ i.target = j.target /\ i.type = j.type /\ i.object = j.object
  <2> Entry(i).source = Entry(j).source /\ Entry(i).target = Entry(j).target
      /\ Entry(i).type = Entry(j).type /\ Entry(i).object = Entry(j).object
    OBVIOUS
  <2> QED
    BY Zenon DEF Entry
<1> QED
  BY <1>1 DEF Path, OldPath, Identity

LEMMA PathOfEntry ==
  ASSUME NEW i
  PROVE  Path(Entry(i)) = Path(i) /\ Path([Entry(i) EXCEPT !.object = i.object]) = Path(i)
BY DEF Path, Entry

LEMMA AllKnown == \A i \in All : Known(i)
BY FilesAssumption DEF Known

LEMMA PathKnown == ASSUME NEW i, Known(i) PROVE Path(i) \in Paths
<1> PICK j \in All : Entry(i) = Entry(j)
  BY DEF Known
<1> Path(i) = Path(j)
  BY SameEntry
<1> QED
  BY DEF Paths

LEMMA PathFields ==
  ASSUME NEW i, NEW j, Path(i) = Path(j)
  PROVE  /\ i.target = j.target /\ i.type = j.type
         /\ Path(i).key = Path(j).key
<1> Path(i).target = Path(j).target /\ Path(i).type = Path(j).type
  OBVIOUS
<1> QED
  BY DEF Path

(* Two interactions at one place are the same one, up to the object of     *)
(* what an author does once.                                               *)
Identified == \A i, j : Known(i) /\ Known(j) /\ Path(i) = Path(j) => Identity(i) = Identity(j)

LEMMA IdentityFields ==
  ASSUME NEW i, NEW j, Identity(i) = Identity(j)
  PROVE  /\ i.source = j.source /\ i.target = j.target /\ i.type = j.type
         /\ i.type \in MultiTypes => i.object = j.object
<1>1. /\ Identity(i).source = i.source /\ Identity(i).target = i.target /\ Identity(i).type = i.type
      /\ Identity(j).source = j.source /\ Identity(j).target = j.target /\ Identity(j).type = j.type
      /\ Identity(i).object = IF i.type \in MultiTypes THEN i.object ELSE NoObject
      /\ Identity(j).object = IF j.type \in MultiTypes THEN j.object ELSE NoObject
  BY DEF Identity, Entry
<1> QED
  BY <1>1

LEMMA KeyIdentifies ==
  ASSUME NEW i \in Interaction, NEW j \in Interaction, Path(i) = Path(j),
         i.object = j.object /\ i.object # NoObject => i.source = j.source
  PROVE  Entry(i) = Entry(j) \/ (i.type \notin MultiTypes /\ i.source = j.source)
<1>1. i.target = j.target /\ i.type = j.type /\ Path(i).key = Path(j).key
  BY PathFields
<1>2. /\ Path(i).key = IF i.type \in MultiTypes /\ i.object # NoObject THEN i.object ELSE i.source
      /\ Path(j).key = IF j.type \in MultiTypes /\ j.object # NoObject THEN j.object ELSE j.source
  BY Zenon DEF Path
<1>3. /\ i.source \in Actors /\ j.source \in Actors
      /\ i.object \in Objects \union {NoObject} /\ j.object \in Objects \union {NoObject}
  BY DEF Interaction
<1>4. Objects \intersect Actors = {}
  BY FilesAssumption
<1>5. CASE i.type \in MultiTypes
  <2> i.object = j.object /\ i.source = j.source
    BY <1>1, <1>2, <1>3, <1>4, <1>5
  <2> QED
    BY <1>1 DEF Entry
<1>6. CASE i.type \notin MultiTypes
  BY <1>1, <1>2, <1>6
<1> QED
  BY <1>5, <1>6

LEMMA AuthorIdentifies == OneAuthor => Identified
<1> SUFFICES ASSUME OneAuthor, NEW i, NEW j, Known(i), Known(j), Path(i) = Path(j)
             PROVE  Identity(i) = Identity(j)
  BY DEF Identified
<1> PICK k \in All : Entry(i) = Entry(k)
  BY DEF Known
<1> PICK l \in All : Entry(j) = Entry(l)
  BY DEF Known
<1>1. /\ i.source = k.source /\ i.object = k.object /\ Path(i) = Path(k) /\ Identity(i) = Identity(k)
      /\ j.source = l.source /\ j.object = l.object /\ Path(j) = Path(l) /\ Identity(j) = Identity(l)
  BY SameEntry
<1>2. k \in Interaction /\ l \in Interaction
  BY FilesAssumption
<1>3. k.object = l.object /\ k.object # NoObject => k.source = l.source
  BY DEF OneAuthor
<1>4. Entry(k) = Entry(l) \/ (k.type \notin MultiTypes /\ k.source = l.source)
  BY <1>1, <1>2, <1>3, KeyIdentifies
<1>5. CASE Entry(k) = Entry(l)
  BY <1>1, <1>5, SameEntry
<1>6. CASE k.type \notin MultiTypes /\ k.source = l.source
  <2> k.target = l.target /\ k.type = l.type
    BY <1>1, PathFields
  <2> Identity(k) = Identity(l)
    BY <1>6 DEF Identity, Entry
  <2> QED
    BY <1>1
<1> QED
  BY <1>4, <1>5, <1>6

----------------------------------------------------------------------------
(* Files are where they belong and threads know what they work on *)

Entries == {Entry(i) : i \in Interaction}
Works == Interaction \union Withdrawals \union Deletions \union {NoWork}
Phases == {"down", "object_ids", "multi_files", "finish", "stamp", "serving"}
Points == {"idle", "file", "mentions", "scan", "each", "lookup", "read", "unlist"}

FilesTyped ==
  /\ files \in [Paths -> Interaction \union {NoFile}]
  /\ \A p \in Present : Known(files[p])
  /\ mentionIndex \in [Actors -> SUBSET Entries]
  /\ objectIndex \in [Objects -> Entries \union {NoEntry}]
  /\ \A o \in Objects : \/ objectIndex[o] = NoEntry
                        \/ \E i \in All : i.object = o /\ objectIndex[o] = Entry(i)
  /\ version \in 0..SchemaVersion
  /\ phase \in Phases

ThreadsTyped ==
  /\ pc \in [Threads -> Points]
  /\ work \in [Threads -> Works]
  /\ todo \in [Threads -> SUBSET (Actors \union Paths)]
  /\ chosen \in [Threads -> SUBSET Paths]
  /\ at \in [Threads -> Paths \union {NoPath}]
  /\ data \in [Threads -> Interaction \union {NoFile}]

(* What thread t holds while it is at a point of its call. *)
Consistent(t) ==
  /\ pc[t] # "idle" => phase = "serving"
  /\ pc[t] \in {"file", "mentions"} => Known(work[t])
  /\ pc[t] = "file" /\ work[t].status = "deleted" => Path(work[t]) \in Present
  /\ pc[t] = "mentions" => at[t] \in {NoPath, Path(work[t])}
  /\ pc[t] = "lookup" => work[t] \in Deletions
  /\ pc[t] = "read" => at[t] \in Paths
  /\ pc[t] = "unlist" => at[t] \in Present /\ Known(data[t]) /\ at[t] = Path(data[t])
  /\ pc[t] \notin {"mentions", "read", "unlist"} => at[t] = NoPath

(* Before the last migration files are those of the older server, each at  *)
(* its old or its new place; what is not yet moved is in the snapshot.     *)
Placed ==
  /\ version >= 3 => \A p \in Present : p = Path(files[p])
  /\ version < SchemaVersion =>
       /\ \A p \in Present : /\ files[p] \in UNION Legacies
                             /\ p \in {Path(files[p]), OldPath(files[p])}
       /\ \A p, q \in Present : Path(files[p]) = Path(files[q]) => p = q

Migrating ==
  /\ phase = "serving" => version = SchemaVersion
  /\ phase = "object_ids" => version < 2
  /\ phase \in {"object_ids", "multi_files"} => version < 3 /\ snapshot \subseteq Contents
  /\ phase = "multi_files" => \A p \in Present : p = Path(files[p]) \/ files[p] \in snapshot
  /\ phase \in {"finish", "stamp"} =>
       version < SchemaVersion /\ \A p \in Present : p = Path(files[p])

DiskInv == FilesTyped /\ Placed /\ Migrating /\ NothingLost
StorageInv == DiskInv /\ ThreadsTyped /\ \A t \in Threads : Consistent(t)

LEMMA NoPathApart == NoPath \notin Paths
BY FilesAssumption

LEMMA OldFilesPlaced ==
  ASSUME Identified, NEW L \in Legacies, NEW v \in Versions
  PROVE  /\ OldFiles(L, v) \in [Paths -> Interaction \union {NoFile}]
         /\ \A p \in Paths : OldFiles(L, v)[p] # NoFile =>
              /\ OldFiles(L, v)[p] \in L
              /\ p = IF v < 3 THEN OldPath(OldFiles(L, v)[p]) ELSE Path(OldFiles(L, v)[p])
         /\ \A i \in L : \E p \in Paths : OldFiles(L, v)[p] = i
         /\ \A i, j \in L : Path(i) = Path(j) => i = j
<1> DEFINE place(i) == IF v < 3 THEN OldPath(i) ELSE Path(i)
<1>1. \A i \in L : i \in All /\ i \in Interaction /\ Known(i) /\ place(i) \in Paths
  BY FilesAssumption, AllKnown DEF Paths, All
<1>2. ASSUME NEW i \in L, NEW j \in L, Path(i) = Path(j)
      PROVE  i = j
  <2> Identity(i) = Identity(j)
    BY <1>1, <1>2 DEF Identified
  <2> Identity(i).source = i.source /\ Identity(j).source = j.source
    BY DEF Identity, Entry
  <2> i.target = j.target /\ i.type = j.type
    BY <1>2, PathFields
  <2> OldPath(i) = OldPath(j)
    BY DEF OldPath
  <2> QED
    BY FilesAssumption
<1>3. \A i, j \in L : place(i) = place(j) => i = j
  BY <1>2, FilesAssumption
<1>4. OldFiles(L, v) = [p \in Paths |-> IF \E i \in L : p = place(i)
                                       THEN CHOOSE i \in L : p = place(i) ELSE NoFile]
  BY DEF OldFiles
<1>5. \A i \in L : OldFiles(L, v)[place(i)] = i
  <2> SUFFICES ASSUME NEW i \in L PROVE OldFiles(L, v)[place(i)] = i
    OBVIOUS
  <2> DEFINE c == CHOOSE j \in L : place(i) = place(j)
  <2>1. c \in L /\ place(i) = place(c)
    OBVIOUS
  <2>2. c = i
    BY <2>1, <1>3
  <2>3. OldFiles(L, v)[place(i)] = c
    BY <1>1, <1>4
  <2> QED
    BY <2>2, <2>3
<1>6. ASSUME NEW p \in Paths, OldFiles(L, v)[p] # NoFile
      PROVE  \E i \in L : p = place(i)
  BY <1>4, <1>6
<1>7. \A p \in Paths : OldFiles(L, v)[p] = NoFile \/ \E i \in L : p = place(i) /\ OldFiles(L, v)[p] = i
  BY <1>5, <1>6
<1> HIDE DEF place
<1>8. OldFiles(L, v) \in [Paths -> Interaction \union {NoFile}]
  BY <1>1, <1>4, <1>7
<1> QED
  BY <1>1, <1>2, <1>5, <1>7, <1>8 DEF place

LEMMA StorageInit == ASSUME Identified PROVE Init => StorageInv
<1> SUFFICES ASSUME Init PROVE StorageInv
  OBVIOUS
<1> PICK L \in Legacies, v \in Versions :
      /\ version = v
      /\ files = OldFiles(L, v)
      /\ mentionIndex = [a \in Actors |-> {Entry(i) : i \in {j \in L : a \in j.mentions}}]
      /\ objectIndex =
           [o \in Objects |-> IF v >= 2 /\ \E i \in L : i.object = o
                              THEN Entry(CHOOSE i \in L : i.object = o) ELSE NoEntry]
      /\ known = {Identity(i) : i \in L}
  BY DEF Init
<1>1. /\ \A i \in L : i \in All /\ i \in UNION Legacies /\ i \in Interaction /\ Known(i)
      /\ v \in 0..SchemaVersion
  BY FilesAssumption, AllKnown DEF All
<1>2. /\ files \in [Paths -> Interaction \union {NoFile}]
      /\ \A p \in Present : /\ files[p] \in L
                            /\ p = IF v < 3 THEN OldPath(files[p]) ELSE Path(files[p])
      /\ \A i \in L : \E p \in Paths : files[p] = i
      /\ \A i, j \in L : Path(i) = Path(j) => i = j
  BY OldFilesPlaced DEF Present
<1>3. FilesTyped
  <2>1. mentionIndex \in [Actors -> SUBSET Entries]
    BY <1>1 DEF Entries
  <2>2. ASSUME NEW o \in Objects
        PROVE  objectIndex[o] = NoEntry \/ \E i \in L : i.object = o /\ objectIndex[o] = Entry(i)
    <3> DEFINE c == CHOOSE i \in L : i.object = o
    <3>1. CASE \E i \in L : i.object = o
      <4> c \in L /\ c.object = o
        BY <3>1
      <4> objectIndex[o] = NoEntry \/ objectIndex[o] = Entry(c)
        OBVIOUS
      <4> QED
        OBVIOUS
    <3>2. CASE ~ \E i \in L : i.object = o
      BY <3>2
    <3> QED
      BY <3>1, <3>2
  <2>3. objectIndex \in [Objects -> Entries \union {NoEntry}]
    <3> \A o \in Objects : objectIndex[o] \in Entries \union {NoEntry}
      BY <2>2, <1>1 DEF Entries
    <3> QED
      OBVIOUS
  <2>4. version \in 0..SchemaVersion /\ phase \in Phases
    BY <1>1 DEF Init, Phases
  <2> QED
    BY <1>1, <1>2, <2>1, <2>2, <2>3, <2>4 DEF FilesTyped
<1>4. Placed
  <2>1. ASSUME version >= 3, NEW p \in Present PROVE p = Path(files[p])
    BY <2>1, <1>1, <1>2 DEF SchemaVersion
  <2>2. \A p \in Present : files[p] \in UNION Legacies /\ p \in {Path(files[p]), OldPath(files[p])}
    BY <1>1, <1>2
  <2>3. ASSUME NEW p \in Present, NEW q \in Present, Path(files[p]) = Path(files[q])
        PROVE  p = q
    <3> files[p] = files[q]
      BY <1>2, <2>3
    <3> QED
      BY <1>2
  <2> QED
    BY <2>1, <2>2, <2>3 DEF Placed
<1>5. Migrating
  BY DEF Init, Migrating
<1>6. NothingLost
  <2> \A i \in L : i # NoFile
    BY <1>1, FilesAssumption
  <2> QED
    BY <1>2 DEF NothingLost, Contents, Present
<1>7. ThreadsTyped
  BY DEF Init, ThreadsTyped, Points, Works
<1>8. \A t \in Threads : Consistent(t)
  BY DEF Init, Consistent
<1> QED
  BY <1>3, <1>4, <1>5, <1>6, <1>7, <1>8 DEF StorageInv, DiskInv

----------------------------------------------------------------------------
(* The rewrite of the layout only renames *)

LEMMA RekeyedRenames ==
  ASSUME FilesTyped, Placed, Migrating, phase = "multi_files", NEW i \in snapshot
  PROVE  \/ Rekeyed(i) = files /\ \A p \in Present : files[p] = i => p = Path(i)
         \/ /\ OldPath(i) \in Paths /\ Path(i) \in Paths /\ OldPath(i) # Path(i)
            /\ files[OldPath(i)] = i /\ files[Path(i)] = NoFile
            /\ Rekeyed(i) = [files EXCEPT ![Path(i)] = i, ![OldPath(i)] = NoFile]
<1>1. version < SchemaVersion /\ i \in Contents
  BY DEF Migrating, FilesTyped, SchemaVersion
<1>2. PICK q \in Present : files[q] = i
  BY <1>1 DEF Contents
<1>3. i \in UNION Legacies /\ q \in {Path(i), OldPath(i)} /\ Known(i)
  BY <1>1, <1>2 DEF Placed, FilesTyped
<1>4. OldPath(i) \in Paths /\ Path(i) \in Paths
  BY <1>3, PathKnown DEF Paths
<1>5. \A p \in Present : files[p] = i => p = q
  BY <1>1, <1>2 DEF Placed
<1>6. CASE OldPath(i) = Path(i) \/ i.type \notin MultiTypes
  <2> OldPath(i) = Path(i)
    BY <1>6 DEF OldPath, Path
  <2> QED
    BY <1>3, <1>5, <1>6 DEF Rekeyed
<1>7. CASE ~(OldPath(i) = Path(i) \/ i.type \notin MultiTypes)
  <2>1. Rekeyed(i) =
          IF files[OldPath(i)] # NoFile /\ files[OldPath(i)].object = i.object
          THEN [files EXCEPT ![Path(i)] = files[OldPath(i)], ![OldPath(i)] = NoFile]
          ELSE IF files[OldPath(i)] # NoFile \/ files[Path(i)] = NoFile
          THEN [files EXCEPT ![Path(i)] = i]
          ELSE files
    BY <1>7 DEF Rekeyed
  <2>2. i # NoFile
    BY <1>3, FilesAssumption DEF Known
  <2>3. CASE q = OldPath(i)
    <3>1. files[Path(i)] = NoFile
      <4> SUFFICES ASSUME files[Path(i)] # NoFile PROVE FALSE
        OBVIOUS
      <4> DEFINE k == files[Path(i)]
      <4>1. Path(i) \in Present /\ Path(i) \in {Path(k), OldPath(k)} /\ Known(k)
        BY <1>1, <1>4 DEF Present, Placed, FilesTyped
      <4>2. CASE Path(i) = Path(k)
        <5> Path(i) = q
          BY <4>1, <4>2, <1>1, <1>2 DEF Placed
        <5> QED
          BY <2>3, <1>7
      <4>3. CASE Path(i) = OldPath(k)
        <5> Path(i).key = i.object /\ OldPath(k).key = k.source
          BY <1>7 DEF Path, OldPath
        <5> i.object \in Objects /\ k.source \in Actors
          <6> i.object # NoObject
            BY <1>7 DEF Path, OldPath
          <6> i \in Interaction /\ k \in Interaction
            BY <4>1, <1>3 DEF Known
          <6> QED
            BY DEF Interaction
        <5> QED
          BY <4>3, FilesAssumption
      <4> QED
        BY <4>1, <4>2, <4>3
    <3> QED
      BY <1>2, <1>4, <1>7, <2>1, <2>2, <2>3, <3>1
  <2>4. CASE q # OldPath(i)
    <3>1. q = Path(i) /\ files[Path(i)] = i
      BY <1>2, <1>3, <2>4
    <3>2. ~(files[OldPath(i)] # NoFile /\ files[OldPath(i)].object = i.object)
      <4> SUFFICES ASSUME files[OldPath(i)] # NoFile, files[OldPath(i)].object = i.object
                   PROVE  FALSE
        OBVIOUS
      <4> DEFINE k == files[OldPath(i)]
      <4>1. OldPath(i) \in Present /\ OldPath(i) \in {Path(k), OldPath(k)} /\ Known(k)
        BY <1>1, <1>4 DEF Present, Placed, FilesTyped
      <4>2. i \in Interaction /\ k \in Interaction
        BY <4>1, <1>3 DEF Known
      <4>3. i.object # NoObject /\ i.type \in MultiTypes
        BY <1>7 DEF Path, OldPath
      <4>4. k.target = i.target /\ k.type = i.type
        <5>1. CASE OldPath(i) = Path(k)
          <6> OldPath(i).target = Path(k).target /\ OldPath(i).type = Path(k).type
            BY <5>1
          <6> QED
            BY DEF Path, OldPath
        <5>2. CASE OldPath(i) = OldPath(k)
          <6> OldPath(i).target = OldPath(k).target /\ OldPath(i).type = OldPath(k).type
            BY <5>2
          <6> QED
            BY DEF OldPath
        <5> QED
          BY <4>1, <5>1, <5>2
      <4>5. Path(k) = Path(i)
        BY <4>3, <4>4 DEF Path
      <4>6. OldPath(i) = q
        BY <4>1, <4>5, <1>1, <1>2 DEF Placed
      <4> QED
        BY <4>6, <2>4
    <3>3. Rekeyed(i) = files
      <4> [files EXCEPT ![Path(i)] = i] = files
        BY <3>1, <1>4 DEF FilesTyped
      <4> QED
        BY <2>1, <2>2, <3>1, <3>2
    <3> QED
      BY <3>1, <3>3, <1>5
  <2> QED
    BY <2>3, <2>4
<1> QED
  BY <1>6, <1>7

(* What is in the directory is the same before and after. *)
LEMMA RenamingKeeps ==
  ASSUME FilesTyped, Placed, Migrating, phase = "multi_files", NEW i \in snapshot,
         files' = Rekeyed(i)
  PROVE  /\ files' \in [Paths -> Interaction \union {NoFile}]
         /\ Contents' = Contents
         /\ \A p \in Present' : \/ p \in Present /\ files'[p] = files[p] /\ files[p] # i
                                \/ p = Path(i) /\ files'[p] = i
<1>1. i \in Interaction /\ i # NoFile
  BY FilesAssumption DEF Migrating, FilesTyped, Known, Contents
<1>2. CASE Rekeyed(i) = files /\ \A p \in Present : files[p] = i => p = Path(i)
  BY <1>2 DEF FilesTyped, Contents, Present
<1>3. CASE /\ OldPath(i) \in Paths /\ Path(i) \in Paths /\ OldPath(i) # Path(i)
           /\ files[OldPath(i)] = i /\ files[Path(i)] = NoFile
           /\ Rekeyed(i) = [files EXCEPT ![Path(i)] = i, ![OldPath(i)] = NoFile]
  <2>1. /\ files' \in [Paths -> Interaction \union {NoFile}]
        /\ files'[Path(i)] = i /\ files'[OldPath(i)] = NoFile
        /\ \A p \in Paths \ {Path(i), OldPath(i)} : files'[p] = files[p]
    BY <1>1, <1>3 DEF FilesTyped
  <2>2. \A p \in Present : files[p] = i => p = OldPath(i)
    BY <1>1, <1>3 DEF Placed, Migrating, FilesTyped, SchemaVersion, Present
  <2>3. \A p \in Present' : \/ p \in Present /\ files'[p] = files[p] /\ files[p] # i
                            \/ p = Path(i) /\ files'[p] = i
    BY <2>1, <2>2 DEF Present
  <2>4. Contents' = Contents
    BY <1>1, <1>3, <2>1 DEF Contents, Present
  <2> QED
    BY <2>1, <2>3, <2>4
<1> QED
  BY <1>2, <1>3, RekeyedRenames

----------------------------------------------------------------------------
(* The disk, step by step *)

LEMMA DiskUntouched ==
  ASSUME DiskInv, UNCHANGED <<disk, phase, snapshot, known>>
  PROVE  DiskInv'
BY DEF DiskInv, FilesTyped, Placed, Migrating, NothingLost, disk, Contents, Present

(* A step of a migration. *)
LEMMA StartDisk ==
  ASSUME DiskInv, Start \/ NextMigration \/ EndMigrations \/ EmptyVersion \/ FinishMigrations \/ Crash
  PROVE  DiskInv'
<1> USE DEF DiskInv, disk
<1>1. UNCHANGED <<files, mentionIndex, objectIndex, known>>
  BY DEF Start, NextMigration, EndMigrations, EmptyVersion, FinishMigrations, Crash, history
<1>2. NothingLost' /\ Present' = Present /\ Contents' = Contents
  BY <1>1 DEF NothingLost, Contents, Present
<1>3. version \in 0..SchemaVersion /\ SchemaVersion = 4
  BY DEF FilesTyped, SchemaVersion
<1>4. CASE Start
  <2>1. version' = version /\ phase' \in Phases
    BY <1>3, <1>4 DEF Start, Phases
  <2> QED
    BY <1>1, <1>2, <1>3, <1>4, <2>1 DEF Start, FilesTyped, Placed, Migrating, Contents
<1>5. CASE NextMigration
  <2> version' = version /\ phase' \in Phases
    BY <1>5 DEF NextMigration, Phases
  <2> QED
    BY <1>1, <1>2, <1>3, <1>5 DEF NextMigration, FilesTyped, Placed, Migrating, Contents
<1>6. CASE EndMigrations \/ EmptyVersion \/ FinishMigrations
  <2>1. version' \in 0..SchemaVersion /\ phase' \in Phases
    BY <1>3, <1>6 DEF EndMigrations, EmptyVersion, FinishMigrations, Phases
  <2>2. FilesTyped'
    BY <1>1, <1>2, <2>1 DEF FilesTyped
  <2>3. Placed' /\ Migrating'
    BY <1>1, <1>2, <1>3, <1>6 DEF EndMigrations, EmptyVersion, FinishMigrations, Placed, Migrating
  <2> QED
    BY <1>2, <2>2, <2>3
<1>7. CASE Crash
  <2> version' = version /\ phase' \in Phases
    BY <1>7 DEF Crash, Phases
  <2> QED
    BY <1>1, <1>2, <1>3, <1>7 DEF Crash, FilesTyped, Placed, Migrating
<1> QED
  BY <1>4, <1>5, <1>6, <1>7

LEMMA MigrateObjectDisk ==
  ASSUME DiskInv, NEW i \in snapshot, MigrateObjectId(i)
  PROVE  DiskInv'
<1> USE DEF DiskInv
<1>1. /\ UNCHANGED <<files, mentionIndex, version, phase, known>> /\ phase = "object_ids"
      /\ snapshot' = snapshot \ {i}
      /\ objectIndex' = IF i.object # NoObject THEN [objectIndex EXCEPT ![i.object] = Entry(i)]
                        ELSE objectIndex
  BY DEF MigrateObjectId, history
<1>2. Present' = Present /\ Contents' = Contents
  BY <1>1 DEF Present, Contents
<1>3. Known(i) /\ i \in UNION Legacies
  BY <1>1 DEF Migrating, FilesTyped, SchemaVersion, Placed, Contents
<1>4. i \in Interaction /\ i \in All /\ i.object \in Objects \union {NoObject} /\ Entry(i) \in Entries
  BY <1>3 DEF Known, Interaction, All, Entries
<1>5. FilesTyped'
  BY <1>1, <1>2, <1>4 DEF FilesTyped
<1>6. Placed' /\ Migrating' /\ NothingLost'
  BY <1>1, <1>2 DEF Placed, Migrating, NothingLost
<1> QED
  BY <1>5, <1>6

LEMMA MigrateFileDisk ==
  ASSUME DiskInv, NEW i \in snapshot, MigrateMultiFile(i)
  PROVE  DiskInv'
<1> USE DEF DiskInv
<1>1. /\ UNCHANGED <<mentionIndex, objectIndex, version, phase, known>> /\ phase = "multi_files"
      /\ snapshot' = snapshot \ {i} /\ files' = Rekeyed(i)
  BY DEF MigrateMultiFile, history
<1>2. /\ files' \in [Paths -> Interaction \union {NoFile}]
      /\ Contents' = Contents
      /\ \A p \in Present' : \/ p \in Present /\ files'[p] = files[p] /\ files[p] # i
                             \/ p = Path(i) /\ files'[p] = i
  BY <1>1, RenamingKeeps
<1>3. Known(i) /\ i \in UNION Legacies /\ version < SchemaVersion /\ i \in Contents
  BY <1>1 DEF Migrating, FilesTyped, SchemaVersion, Placed, Contents
<1>4. FilesTyped'
  BY <1>1, <1>2, <1>3 DEF FilesTyped
<1>5. Placed'
  <2>1. \A p \in Present' : /\ files'[p] \in UNION Legacies
                            /\ p \in {Path(files'[p]), OldPath(files'[p])}
    BY <1>2, <1>3 DEF Placed
  <2>2. ASSUME NEW p \in Present', NEW q \in Present', Path(files'[p]) = Path(files'[q])
        PROVE  p = q
    <3>1. PICK r \in Present : files[r] = i
      BY <1>3 DEF Contents
    <3>2. \A x, y \in Present : Path(files[x]) = Path(files[y]) => x = y
      BY <1>3 DEF Placed
    <3> QED
      BY <1>2, <2>2, <3>1, <3>2
  <2>3. version' < SchemaVersion /\ ~(version' >= 3)
    BY <1>1 DEF Migrating, FilesTyped, SchemaVersion
  <2> QED
    BY <2>1, <2>2, <2>3 DEF Placed
<1>6. Migrating'
  BY <1>1, <1>2, <1>3 DEF Migrating
<1>7. NothingLost'
  BY <1>1, <1>2 DEF NothingLost
<1> QED
  BY <1>4, <1>5, <1>6, <1>7

(* A file written while the server runs, over one of the same identity. *)
LEMMA WrittenDisk ==
  ASSUME Identified, DiskInv, phase = "serving", NEW i, Known(i),
         files' = [files EXCEPT ![Path(i)] = i],
         UNCHANGED <<mentionIndex, objectIndex, version, phase>>,
         known' = known \/ known' = known \union {Identity(i)}
  PROVE  /\ DiskInv'
         /\ Path(i) \in Paths /\ Present' = Present \union {Path(i)} /\ files'[Path(i)] = i
         /\ \A p \in Paths \ {Path(i)} : files'[p] = files[p]
<1> USE DEF DiskInv
<1>1. i \in Interaction /\ i # NoFile /\ Path(i) \in Paths
  BY FilesAssumption, PathKnown DEF Known
<1>2. /\ files' \in [Paths -> Interaction \union {NoFile}] /\ files'[Path(i)] = i
      /\ \A p \in Paths \ {Path(i)} : files'[p] = files[p]
  BY <1>1 DEF FilesTyped
<1>3. Present' = Present \union {Path(i)}
  BY <1>1, <1>2 DEF Present
<1>4. version = SchemaVersion /\ \A p \in Present : p = Path(files[p])
  BY DEF Migrating, Placed, SchemaVersion
<1>5. FilesTyped'
  BY <1>2, <1>3 DEF FilesTyped, Present
<1>6. Placed'
  <2> \A p \in Present' : p = Path(files'[p])
    BY <1>2, <1>3, <1>4 DEF Present
  <2> QED
    BY <1>4 DEF Placed, SchemaVersion
<1>7. Migrating'
  BY DEF Migrating
<1>8. NothingLost'
  <2> SUFFICES ASSUME NEW k \in known' PROVE \E p \in Present' : Identity(files'[p]) = k
    BY DEF NothingLost, Contents
  <2>1. CASE k = Identity(i)
    BY <2>1, <1>2, <1>3
  <2>2. CASE k \in known
    <3> PICK p \in Present : Identity(files[p]) = k
      BY <2>2 DEF NothingLost, Contents
    <3> CASE p = Path(i)
      <4> Path(files[p]) = Path(i) /\ Known(files[p])
        BY <1>4 DEF FilesTyped
      <4> Identity(files[p]) = Identity(i)
        BY DEF Identified
      <4> QED
        BY <1>2, <1>3
    <3> CASE p # Path(i)
      BY <1>2, <1>3 DEF Present
    <3> QED
      OBVIOUS
  <2> QED
    BY <2>1, <2>2
<1> QED
  BY <1>1, <1>2, <1>3, <1>5, <1>6, <1>7, <1>8

----------------------------------------------------------------------------
(* The threads, step by step *)

LEMMA OthersConsistent ==
  ASSUME StorageInv, NEW t \in Threads, phase' = phase, Present \subseteq Present',
         \A u \in Threads \ {t} : /\ pc'[u] = pc[u] /\ work'[u] = work[u]
                                 /\ at'[u] = at[u] /\ data'[u] = data[u]
  PROVE  \A u \in Threads \ {t} : Consistent(u)'
BY DEF StorageInv, Consistent

LEMMA LeaveKeeps ==
  ASSUME ThreadsTyped, NEW t \in Threads, Leave(t)
  PROVE  /\ ThreadsTyped' /\ Consistent(t)'
         /\ pc'[t] = "idle" /\ at'[t] = NoPath
         /\ \A u \in Threads \ {t} : /\ pc'[u] = pc[u] /\ work'[u] = work[u] /\ todo'[u] = todo[u]
                                     /\ at'[u] = at[u] /\ data'[u] = data[u]
<1>1. /\ pc' = [pc EXCEPT ![t] = "idle"] /\ work' = [work EXCEPT ![t] = NoWork]
      /\ todo' = [todo EXCEPT ![t] = {}] /\ chosen' = [chosen EXCEPT ![t] = {}]
      /\ at' = [at EXCEPT ![t] = NoPath] /\ data' = [data EXCEPT ![t] = NoFile]
  BY DEF Leave, Reset
<1>2. ThreadsTyped'
  BY <1>1 DEF ThreadsTyped, Points, Works
<1>3. pc'[t] = "idle" /\ at'[t] = NoPath
  BY <1>1 DEF ThreadsTyped
<1> QED
  BY <1>1, <1>2, <1>3 DEF ThreadsTyped, Consistent

LEMMA BeginKeeps ==
  ASSUME StorageInv, NEW t \in Threads, NEW p \in Points, NEW w \in Works, Begin(t, p, w),
         p \in {"file", "mentions"} => Known(w),
         p = "file" /\ w.status = "deleted" => Path(w) \in Present,
         p = "lookup" => w \in Deletions,
         p \notin {"read", "unlist"}
  PROVE  StorageInv'
<1>1. /\ UNCHANGED <<disk, phase, snapshot, known, todo, chosen, at, data>>
      /\ phase = "serving" /\ pc[t] = "idle"
      /\ pc' = [pc EXCEPT ![t] = p] /\ work' = [work EXCEPT ![t] = w]
  BY DEF Begin, history
<1>2. DiskInv'
  BY <1>1, DiskUntouched DEF StorageInv
<1>3. ThreadsTyped'
  BY <1>1 DEF StorageInv, ThreadsTyped
<1>4. Consistent(t)'
  <2> /\ pc'[t] = p /\ work'[t] = w /\ at'[t] = at[t] /\ at[t] = NoPath
    BY <1>1 DEF StorageInv, ThreadsTyped, Consistent
  <2> Present' = Present
    BY <1>1 DEF disk, Present
  <2> QED
    BY <1>1 DEF Consistent
<1>5. \A u \in Threads \ {t} : Consistent(u)'
  <2> Present' = Present
    BY <1>1 DEF disk, Present
  <2> \A u \in Threads \ {t} : pc'[u] = pc[u] /\ work'[u] = work[u]
    BY <1>1 DEF StorageInv, ThreadsTyped
  <2> QED
    BY <1>1, OthersConsistent
<1> QED
  BY <1>2, <1>3, <1>4, <1>5 DEF StorageInv

(* A step of thread t that leaves the disk alone. *)
LEMMA LocalKeeps ==
  ASSUME StorageInv, NEW t \in Threads, UNCHANGED <<disk, phase, snapshot, known>>,
         ThreadsTyped', Consistent(t)',
         \A u \in Threads \ {t} : /\ pc'[u] = pc[u] /\ work'[u] = work[u]
                                 /\ at'[u] = at[u] /\ data'[u] = data[u]
  PROVE  StorageInv'
<1> DiskInv'
  BY DiskUntouched DEF StorageInv
<1> Present' = Present
  BY DEF disk, Present
<1> \A u \in Threads \ {t} : Consistent(u)'
  BY OthersConsistent
<1> QED
  BY DEF StorageInv

(* A step of thread t that updates an index. *)
LEMMA IndexKeeps ==
  ASSUME StorageInv, NEW t \in Threads, UNCHANGED <<files, version, phase, snapshot, known>>,
         mentionIndex' \in [Actors -> SUBSET Entries],
         objectIndex' \in [Objects -> Entries \union {NoEntry}],
         \A o \in Objects : \/ objectIndex'[o] = objectIndex[o]
                           \/ \E i \in All : i.object = o /\ objectIndex'[o] = Entry(i),
         ThreadsTyped', Consistent(t)',
         \A u \in Threads \ {t} : /\ pc'[u] = pc[u] /\ work'[u] = work[u]
                                 /\ at'[u] = at[u] /\ data'[u] = data[u]
  PROVE  StorageInv'
<1>1. Present' = Present
  BY DEF Present
<1>2. FilesTyped'
  BY <1>1 DEF StorageInv, DiskInv, FilesTyped
<1>3. Placed' /\ Migrating' /\ NothingLost'
  BY <1>1 DEF StorageInv, DiskInv, Placed, Migrating, NothingLost, Contents
<1>4. \A u \in Threads \ {t} : Consistent(u)'
  BY <1>1, OthersConsistent
<1> QED
  BY <1>2, <1>3, <1>4 DEF StorageInv, DiskInv

LEMMA BackfilledKnown ==
  ASSUME NEW i, Known(i)
  PROVE  Known([i EXCEPT !.mentions = Tags[i.object]]) /\ Known([i EXCEPT !.status = "deleted"])
<1>1. /\ i \in Interaction /\ Tags[i.object] \in SUBSET Actors
  BY FilesAssumption DEF Known, Interaction
<1>2. [i EXCEPT !.mentions = Tags[i.object]] \in Interaction
  BY <1>1 DEF Interaction
<1>3. [i EXCEPT !.status = "deleted"] \in Interaction
  BY <1>1 DEF Interaction
<1>4. /\ Entry([i EXCEPT !.mentions = Tags[i.object]]) = Entry(i)
      /\ Entry([i EXCEPT !.status = "deleted"]) = Entry(i)
  BY <1>1 DEF Entry, Interaction
<1> QED
  BY <1>2, <1>3, <1>4 DEF Known

LEMMA BeginSteps ==
  ASSUME StorageInv, NEW t \in Threads,
         \/ \E i \in Inputs : BeginStore(t, i)
         \/ \E w \in Withdrawals : BeginDelete(t, w)
         \/ \E w \in Deletions : BeginDeleteObject(t, w)
         \/ \E p \in Paths : BackfillMentions(t, p) \/ BackfillObjectId(t, p)
  PROVE  StorageInv'
<1>1. CASE \E i \in Inputs : BeginStore(t, i)
  <2> PICK i \in Inputs : Begin(t, "file", i)
    BY <1>1 DEF BeginStore
  <2> Known(i) /\ i \in Works /\ i.status # "deleted"
    BY AllKnown, FilesAssumption DEF All, Known, Works
  <2> QED
    BY BeginKeeps DEF Points
<1>2. CASE \E w \in Withdrawals : BeginDelete(t, w)
  BY <1>2, BeginKeeps DEF BeginDelete, Points, Works
<1>3. CASE \E w \in Deletions : BeginDeleteObject(t, w)
  BY <1>3, BeginKeeps DEF BeginDeleteObject, Points, Works
<1>4. CASE \E p \in Paths : BackfillMentions(t, p)
  <2> PICK p \in Present : Begin(t, "file", [files[p] EXCEPT !.mentions = Tags[files[p].object]])
    BY <1>4 DEF BackfillMentions
  <2> DEFINE w == [files[p] EXCEPT !.mentions = Tags[files[p].object]]
  <2>1. Known(w) /\ w \in Works
    BY BackfilledKnown DEF StorageInv, DiskInv, FilesTyped, Works, Known
  <2>2. Path(w) = Path(files[p])
    BY DEF Path, StorageInv, DiskInv, FilesTyped, Known, Interaction
  <2>3. Path(files[p]) = p
    BY DEF Begin, StorageInv, DiskInv, Placed, Migrating, SchemaVersion
  <2> HIDE DEF w
  <2> QED
    BY <2>1, <2>2, <2>3, BeginKeeps DEF Points, w
<1>5. CASE \E p \in Paths : BackfillObjectId(t, p)
  <2> PICK p \in Present : Begin(t, "mentions", files[p])
    BY <1>5 DEF BackfillObjectId
  <2> Known(files[p]) /\ files[p] \in Works
    BY DEF StorageInv, DiskInv, FilesTyped, Works, Known
  <2> QED
    BY BeginKeeps DEF Points
<1> QED
  BY <1>1, <1>2, <1>3, <1>4, <1>5

LEMMA StoreSteps ==
  ASSUME Identified, StorageInv, NEW t \in Threads,
         WriteFile(t) \/ WriteObjectIndex(t) \/ \E a \in Actors : AddMention(t, a)
  PROVE  StorageInv'
<1> USE DEF StorageInv, DiskInv
<1>1. CASE WriteFile(t)
  <2> DEFINE i == work[t]
  <2>1. /\ pc[t] = "file" /\ Known(i) /\ phase = "serving"
        /\ files' = [files EXCEPT ![Path(i)] = i] /\ known' = known \union {Identity(i)}
        /\ pc' = [pc EXCEPT ![t] = "mentions"] /\ todo' = [todo EXCEPT ![t] = i.mentions]
        /\ at' = [at EXCEPT ![t] = Path(i)]
        /\ UNCHANGED <<mentionIndex, objectIndex, version, phase, work, chosen, data>>
    BY <1>1 DEF WriteFile, Consistent
  <2> HIDE DEF i
  <2>2. DiskInv' /\ Path(i) \in Paths /\ Present' = Present \union {Path(i)}
    <3> known' = known \/ known' = known \union {Identity(i)}
      BY <2>1
    <3> QED
      BY <2>1, WrittenDisk
  <2>3. ThreadsTyped'
    <3> i.mentions \subseteq Actors
      BY <2>1 DEF Known, Interaction
    <3> QED
      BY <2>1, <2>2 DEF ThreadsTyped, Points
  <2>4. Consistent(t)'
    <3> pc'[t] = "mentions" /\ work'[t] = i /\ at'[t] = Path(i)
      BY <2>1 DEF ThreadsTyped, i
    <3> QED
      BY <2>1 DEF Consistent
  <2>5. \A u \in Threads \ {t} : pc'[u] = pc[u] /\ at'[u] = at[u]
    BY <2>1 DEF ThreadsTyped
  <2>6. \A u \in Threads \ {t} : Consistent(u)'
    BY <2>1, <2>2, <2>5, OthersConsistent
  <2> QED
    BY <2>2, <2>3, <2>4, <2>6
<1>2. CASE \E a \in Actors : AddMention(t, a)
  <2> PICK a \in Actors : AddMention(t, a)
    BY <1>2
  <2>1. /\ pc[t] = "mentions" /\ Known(work[t])
        /\ mentionIndex' = [mentionIndex EXCEPT ![a] = mentionIndex[a] \union {Entry(work[t])}]
        /\ todo' = [todo EXCEPT ![t] = todo[t] \ {a}]
        /\ UNCHANGED <<files, objectIndex, version, phase, snapshot, known, pc, work, chosen, at, data>>
    BY DEF AddMention, history, Consistent
  <2>2. mentionIndex' \in [Actors -> SUBSET Entries]
    <3> Entry(work[t]) \in Entries
      BY <2>1 DEF Known, Entries
    <3> QED
      BY <2>1 DEF FilesTyped
  <2>3. ThreadsTyped'
    BY <2>1 DEF ThreadsTyped
  <2>4. Consistent(t)'
    BY <2>1 DEF Consistent, Present
  <2>5. objectIndex' \in [Objects -> Entries \union {NoEntry}]
    BY <2>1 DEF FilesTyped
  <2> QED
    BY <2>1, <2>2, <2>3, <2>4, <2>5, IndexKeeps
<1>3. CASE WriteObjectIndex(t)
  <2>1. /\ pc[t] = "mentions" /\ Known(work[t]) /\ Leave(t)
        /\ objectIndex' = IF work[t].object # NoObject
                          THEN [objectIndex EXCEPT ![work[t].object] = Entry(work[t])] ELSE objectIndex
        /\ UNCHANGED <<files, mentionIndex, version, phase, snapshot, known>>
    BY <1>3 DEF WriteObjectIndex, history, Consistent
  <2>2. /\ ThreadsTyped' /\ Consistent(t)'
        /\ \A u \in Threads \ {t} : /\ pc'[u] = pc[u] /\ work'[u] = work[u]
                                    /\ at'[u] = at[u] /\ data'[u] = data[u]
    BY <2>1, LeaveKeeps
  <2>3. PICK j \in All : Entry(work[t]) = Entry(j)
    BY <2>1 DEF Known
  <2>4. /\ work[t] \in Interaction /\ Entry(work[t]) \in Entries
        /\ work[t].object \in Objects \union {NoObject} /\ j.object = work[t].object
    BY <2>1, <2>3, SameEntry DEF Known, Entries, Interaction
  <2>5. objectIndex' \in [Objects -> Entries \union {NoEntry}]
    BY <2>1, <2>4 DEF FilesTyped
  <2>6. \A o \in Objects : \/ objectIndex'[o] = objectIndex[o]
                          \/ \E i \in All : i.object = o /\ objectIndex'[o] = Entry(i)
    BY <2>1, <2>3, <2>4 DEF FilesTyped
  <2>7. mentionIndex' \in [Actors -> SUBSET Entries]
    BY <2>1 DEF FilesTyped
  <2> QED
    BY <2>1, <2>2, <2>5, <2>6, <2>7, IndexKeeps
<1> QED
  BY <1>1, <1>2, <1>3

LEMMA LookupPath ==
  ASSUME FilesTyped, NEW o \in Objects, objectIndex[o] # NoEntry
  PROVE  \E i \in All : /\ i.object = o /\ objectIndex[o] = Entry(i)
                       /\ Path([objectIndex[o] EXCEPT !.object = o]) = Path(i)
                       /\ Path(i) \in Paths
<1> PICK i \in All : i.object = o /\ objectIndex[o] = Entry(i)
  BY DEF FilesTyped
<1> QED
  BY PathOfEntry DEF Paths

LEMMA DeleteSteps ==
  ASSUME Identified, StorageInv, NEW t \in Threads,
         \/ ListFiles(t) \/ EndDelete(t) \/ LookupObject(t) \/ ReadFile(t)
         \/ \E p \in Paths : ScanFile(t, p) \/ NextFile(t, p)
  PROVE  StorageInv'
<1> USE DEF StorageInv, DiskInv
<1> SUFFICES /\ UNCHANGED <<disk, phase, snapshot, known>> /\ ThreadsTyped' /\ Consistent(t)'
             /\ \A u \in Threads \ {t} : /\ pc'[u] = pc[u] /\ work'[u] = work[u]
                                         /\ at'[u] = at[u] /\ data'[u] = data[u]
  BY LocalKeeps
<1> USE DEF history
<1>1. CASE ListFiles(t)
  BY <1>1 DEF ListFiles, ThreadsTyped, Points, Consistent, Present, disk
<1>2. CASE EndDelete(t)
  BY <1>2, LeaveKeeps DEF EndDelete
<1>3. CASE LookupObject(t)
  <2> DEFINE e == objectIndex[work[t].object]
  <2>1. /\ pc[t] = "lookup" /\ work[t] \in Deletions /\ phase = "serving"
        /\ UNCHANGED <<disk, phase, snapshot, known>>
    BY <1>3 DEF LookupObject, Consistent
  <2>2. CASE e # NoEntry /\ e.source = work[t].source
    <3> DEFINE q == Path([e EXCEPT !.object = work[t].object])
    <3>1. /\ pc' = [pc EXCEPT ![t] = "read"] /\ at' = [at EXCEPT ![t] = q]
          /\ UNCHANGED <<work, todo, chosen, data>>
      BY <1>3, <2>2 DEF LookupObject
    <3>2. q \in Paths
      <4> work[t].object \in Objects
        BY <2>1, FilesAssumption
      <4> QED
        BY <2>2, LookupPath
    <3> HIDE DEF q, e
    <3> QED
      BY <2>1, <3>1, <3>2, NoPathApart DEF ThreadsTyped, Points, Consistent
  <2>3. CASE ~(e # NoEntry /\ e.source = work[t].source)
    <3> Leave(t)
      BY <1>3, <2>3 DEF LookupObject
    <3> QED
      BY <2>1, LeaveKeeps
  <2> QED
    BY <2>2, <2>3
<1>4. CASE ReadFile(t)
  <2> DEFINE i == files[at[t]]
  <2>1. /\ pc[t] = "read" /\ at[t] \in Paths /\ phase = "serving"
        /\ UNCHANGED <<disk, phase, snapshot, known, work, chosen>>
    BY <1>4 DEF ReadFile, Consistent
  <2>2. \/ /\ pc' = [pc EXCEPT ![t] = "each"] /\ at' = [at EXCEPT ![t] = NoPath]
           /\ UNCHANGED <<todo, data>>
        \/ /\ i # NoFile
           /\ pc' = [pc EXCEPT ![t] = "unlist"] /\ data' = [data EXCEPT ![t] = i]
           /\ todo' = [todo EXCEPT ![t] = i.mentions] /\ UNCHANGED at
    BY <1>4 DEF ReadFile
  <2>3. CASE /\ pc' = [pc EXCEPT ![t] = "each"] /\ at' = [at EXCEPT ![t] = NoPath]
             /\ UNCHANGED <<todo, data>>
    BY <2>1, <2>3 DEF ThreadsTyped, Points, Consistent
  <2>4. CASE /\ i # NoFile
             /\ pc' = [pc EXCEPT ![t] = "unlist"] /\ data' = [data EXCEPT ![t] = i]
             /\ todo' = [todo EXCEPT ![t] = i.mentions] /\ UNCHANGED at
    <3>1. at[t] \in Present /\ Known(i) /\ at[t] = Path(i)
      BY <2>1, <2>4 DEF Present, FilesTyped, Migrating, Placed, SchemaVersion
    <3>2. i \in Interaction /\ i.mentions \subseteq Actors
      BY <3>1 DEF Known, Interaction
    <3>3. ThreadsTyped'
      BY <2>1, <2>4, <3>2 DEF ThreadsTyped, Points
    <3>4. Consistent(t)'
      <4> pc'[t] = "unlist" /\ data'[t] = i /\ at'[t] = at[t]
        BY <2>4 DEF ThreadsTyped
      <4> Present' = Present
        BY <2>1 DEF Present, disk
      <4> QED
        BY <2>1, <3>1 DEF Consistent
    <3> QED
      BY <2>1, <2>4, <3>3, <3>4 DEF ThreadsTyped
  <2> QED
    BY <2>2, <2>3, <2>4
<1>5. CASE \E p \in Paths : ScanFile(t, p)
  BY <1>5 DEF ScanFile, ThreadsTyped, Points, Consistent, Present, disk
<1>6. CASE \E p \in Paths : NextFile(t, p)
  BY <1>6, NoPathApart DEF NextFile, ThreadsTyped, Points, Consistent, Present, disk
<1> QED
  BY <1>1, <1>2, <1>3, <1>4, <1>5, <1>6

LEMMA MarkSteps ==
  ASSUME Identified, StorageInv, NEW t \in Threads,
         MarkFile(t) \/ \E a \in Actors : Unlist(t, a)
  PROVE  StorageInv'
<1> USE DEF StorageInv, DiskInv
<1>1. CASE MarkFile(t)
  <2> DEFINE i == [data[t] EXCEPT !.status = "deleted"]
  <2>1. /\ pc[t] = "unlist" /\ Known(data[t]) /\ at[t] = Path(data[t]) /\ phase = "serving"
        /\ files' = [files EXCEPT ![at[t]] = i]
        /\ pc' = [pc EXCEPT ![t] = "each"] /\ at' = [at EXCEPT ![t] = NoPath]
        /\ data' = [data EXCEPT ![t] = NoFile]
        /\ UNCHANGED <<mentionIndex, objectIndex, version, phase, snapshot, work, todo, chosen, known>>
    BY <1>1 DEF MarkFile, Consistent, history
  <2>2. Known(i) /\ Path(i) = Path(data[t])
    <3> Known(i)
      BY <2>1, BackfilledKnown
    <3> Path(i) = Path(data[t])
      BY <2>1 DEF Path, Known, Interaction
    <3> QED
      OBVIOUS
  <2> HIDE DEF i
  <2>3. DiskInv' /\ Present' = Present \union {Path(i)}
    <3> files' = [files EXCEPT ![Path(i)] = i]
      BY <2>1, <2>2
    <3> known' = known \/ known' = known \union {Identity(i)}
      BY <2>1
    <3> QED
      BY <2>1, <2>2, WrittenDisk
  <2>4. ThreadsTyped' /\ Consistent(t)'
    BY <2>1 DEF ThreadsTyped, Points, Consistent
  <2>5. \A u \in Threads \ {t} : pc'[u] = pc[u] /\ at'[u] = at[u] /\ data'[u] = data[u]
    BY <2>1 DEF ThreadsTyped
  <2>6. \A u \in Threads \ {t} : Consistent(u)'
    BY <2>1, <2>3, <2>5, OthersConsistent
  <2> QED
    BY <2>3, <2>4, <2>6
<1>2. CASE \E a \in Actors : Unlist(t, a)
  <2> PICK a \in Actors : Unlist(t, a)
    BY <1>2
  <2>1. /\ pc[t] = "unlist"
        /\ mentionIndex' = [mentionIndex EXCEPT ![a] = mentionIndex[a] \ {Entry(data[t])}]
        /\ todo' = [todo EXCEPT ![t] = todo[t] \ {a}]
        /\ UNCHANGED <<files, objectIndex, version, phase, snapshot, known, pc, work, chosen, at, data>>
    BY DEF Unlist, history
  <2>2. mentionIndex' \in [Actors -> SUBSET Entries]
    BY <2>1 DEF FilesTyped
  <2>3. ThreadsTyped'
    BY <2>1 DEF ThreadsTyped
  <2>4. Consistent(t)'
    BY <2>1 DEF Consistent, Present
  <2>5. objectIndex' \in [Objects -> Entries \union {NoEntry}]
    BY <2>1 DEF FilesTyped
  <2> QED
    BY <2>1, <2>2, <2>3, <2>4, <2>5, IndexKeeps
<1> QED
  BY <1>1, <1>2

LEMMA Interruptions ==
  ASSUME StorageInv, Crash \/ \E t \in Threads : Fail(t)
  PROVE  StorageInv'
<1>1. CASE Crash
  <2>1. DiskInv'
    BY <1>1, StartDisk DEF StorageInv
  <2>2. ThreadsTyped' /\ \A t \in Threads : Consistent(t)'
    BY <1>1 DEF Crash, ThreadsTyped, Points, Works, Consistent
  <2> QED
    BY <2>1, <2>2 DEF StorageInv
<1>2. ASSUME NEW t \in Threads, Fail(t) PROVE StorageInv'
  <2>1. Leave(t) /\ UNCHANGED <<disk, phase, snapshot, known>> /\ ThreadsTyped
    BY <1>2 DEF Fail, StorageInv
  <2> QED
    BY <2>1, LeaveKeeps, LocalKeeps
<1> QED
  BY <1>1, <1>2

(* No thread runs before the last migration. *)
LEMMA MigrationSteps ==
  ASSUME StorageInv,
         \/ Start \/ NextMigration \/ EndMigrations \/ EmptyVersion \/ FinishMigrations
         \/ \E i \in snapshot : MigrateObjectId(i) \/ MigrateMultiFile(i)
  PROVE  StorageInv'
<1>1. UNCHANGED locals /\ phase # "serving"
  BY DEF Start, NextMigration, EndMigrations, EmptyVersion, FinishMigrations, MigrateObjectId,
     MigrateMultiFile
<1>2. DiskInv'
  BY StartDisk, MigrateObjectDisk, MigrateFileDisk DEF StorageInv
<1>3. ThreadsTyped'
  BY <1>1 DEF StorageInv, ThreadsTyped, locals
<1>4. \A t \in Threads : Consistent(t)'
  <2> \A t \in Threads : pc[t] = "idle" /\ at[t] = NoPath
    BY <1>1 DEF StorageInv, Consistent
  <2> QED
    BY <1>1 DEF locals, Consistent
<1> QED
  BY <1>2, <1>3, <1>4 DEF StorageInv

LEMMA StorageStep == ASSUME Identified PROVE StorageInv /\ [Next]_vars => StorageInv'
<1> SUFFICES ASSUME StorageInv, [Next]_vars PROVE StorageInv'
  OBVIOUS
<1>1. CASE UNCHANGED vars
  <2>1. UNCHANGED <<disk, phase, snapshot, known, pc, work, todo, chosen, at, data>>
    BY <1>1 DEF vars, locals, history
  <2>2. DiskInv'
    BY <2>1, DiskUntouched DEF StorageInv
  <2>3. ThreadsTyped' /\ \A t \in Threads : Consistent(t)'
    BY <2>1 DEF StorageInv, ThreadsTyped, Consistent, Present, disk
  <2> QED
    BY <2>2, <2>3 DEF StorageInv
<1>2. CASE \/ Start \/ NextMigration \/ EndMigrations \/ EmptyVersion \/ FinishMigrations
           \/ \E i \in snapshot : MigrateObjectId(i) \/ MigrateMultiFile(i)
  BY <1>2, MigrationSteps
<1>3. CASE Crash
  BY <1>3, Interruptions
<1>4. ASSUME NEW t \in Threads,
             \/ \E i \in Inputs : BeginStore(t, i)
             \/ WriteFile(t) \/ WriteObjectIndex(t)
             \/ \E a \in Actors : AddMention(t, a) \/ Unlist(t, a)
             \/ \E w \in Withdrawals : BeginDelete(t, w)
             \/ \E w \in Deletions : BeginDeleteObject(t, w)
             \/ ListFiles(t) \/ EndDelete(t) \/ LookupObject(t) \/ ReadFile(t) \/ MarkFile(t)
             \/ \E p \in Paths : \/ ScanFile(t, p) \/ NextFile(t, p)
                                 \/ BackfillMentions(t, p) \/ BackfillObjectId(t, p)
             \/ Fail(t)
      PROVE  StorageInv'
  BY <1>4, BeginSteps, StoreSteps, DeleteSteps, MarkSteps, Interruptions
<1> QED
  BY <1>1, <1>2, <1>3, <1>4 DEF Next

(* NothingLost, provided an object is of one author: what was ever stored  *)
(* has a file, whatever interrupts a migration or a call.                  *)
THEOREM NothingEverLost == ASSUME OneAuthor PROVE Spec => []NothingLost
<1>1. Identified
  BY AuthorIdentifies
<1>2. Init => StorageInv
  BY <1>1, StorageInit
<1>3. StorageInv /\ [Next]_vars => StorageInv'
  BY <1>1, StorageStep
<1>4. StorageInv => NothingLost
  BY DEF StorageInv, DiskInv
<1> QED
  BY <1>2, <1>3, <1>4, PTL DEF Spec

(* A step before the server runs leaves the files alone, or files one of   *)
(* them anew.                                                              *)
LEMMA MigrationContents ==
  ASSUME StorageInv, [Next]_vars, phase # "serving"
  PROVE  Contents' = Contents
<1>1. ASSUME UNCHANGED files PROVE Contents' = Contents
  BY <1>1 DEF Contents, Present
<1>2. CASE UNCHANGED vars
  BY <1>1, <1>2 DEF vars, disk
<1>3. CASE \/ Start \/ NextMigration \/ EndMigrations \/ EmptyVersion \/ FinishMigrations \/ Crash
           \/ \E i \in snapshot : MigrateObjectId(i)
  BY <1>1, <1>3 DEF Start, NextMigration, EndMigrations, EmptyVersion, FinishMigrations, Crash,
     MigrateObjectId, disk
<1>4. ASSUME NEW i \in snapshot, MigrateMultiFile(i) PROVE Contents' = Contents
  BY <1>4, RenamingKeeps DEF MigrateMultiFile, StorageInv, DiskInv
<1>5. ASSUME NEW t \in Threads PROVE pc[t] = "idle"
  BY DEF StorageInv, Consistent
<1>6. ASSUME NEW t \in Threads,
             \/ \E i \in Inputs : BeginStore(t, i)
             \/ \E w \in Withdrawals : BeginDelete(t, w)
             \/ \E w \in Deletions : BeginDeleteObject(t, w)
             \/ \E p \in Paths : BackfillMentions(t, p) \/ BackfillObjectId(t, p)
      PROVE  FALSE
  BY <1>6 DEF BeginStore, BeginDelete, BeginDeleteObject, BackfillMentions, BackfillObjectId, Begin
<1>7. ASSUME NEW t \in Threads,
             \/ WriteFile(t) \/ WriteObjectIndex(t)
             \/ \E a \in Actors : AddMention(t, a) \/ Unlist(t, a)
             \/ ListFiles(t) \/ EndDelete(t) \/ LookupObject(t) \/ ReadFile(t) \/ MarkFile(t)
             \/ \E p \in Paths : ScanFile(t, p) \/ NextFile(t, p)
             \/ Fail(t)
      PROVE  FALSE
  BY <1>5, <1>7 DEF WriteFile, WriteObjectIndex, AddMention, Unlist, ListFiles, EndDelete,
     LookupObject, ReadFile, MarkFile, ScanFile, NextFile, Fail
<1> QED
  BY <1>2, <1>3, <1>4, <1>6, <1>7 DEF Next

(* MigrationsKeep, provided an object is of one author: no migration loses *)
(* or changes an interaction, and none that a crash cuts short does.       *)
THEOREM MigrationsAlwaysKeep == ASSUME OneAuthor PROVE Spec => MigrationsKeep
<1>1. Identified
  BY AuthorIdentifies
<1>2. (Init => StorageInv) /\ (StorageInv /\ [Next]_vars => StorageInv')
  BY <1>1, StorageInit, StorageStep
<1>3. StorageInv /\ [Next]_vars => [phase # "serving" => Contents' = Contents]_vars
  BY MigrationContents
<1> QED
  BY <1>2, <1>3, PTL DEF Spec, MigrationsKeep

(* FiledUnderPath, likewise: when the server runs, each interaction is in  *)
(* the one file where it is looked for.                                    *)
THEOREM AlwaysFiledUnderPath == ASSUME OneAuthor PROVE Spec => []FiledUnderPath
<1>1. Identified
  BY AuthorIdentifies
<1>2. (Init => StorageInv) /\ (StorageInv /\ [Next]_vars => StorageInv')
  BY <1>1, StorageInit, StorageStep
<1>3. StorageInv => FiledUnderPath
  BY DEF StorageInv, DiskInv, Placed, Migrating, SchemaVersion, FiledUnderPath
<1> QED
  BY <1>2, <1>3, PTL DEF Spec

----------------------------------------------------------------------------
(* The indexes *)

(* A mention is indexed, or a call that is at the file is about to add it  *)
(* or is removing it.                                                      *)
Listed ==
  \A p \in Present \ broken : files[p].status = "confirmed" =>
    \A a \in files[p].mentions :
      \/ Entry(files[p]) \in mentionIndex[a]
      \/ \E t \in Threads :
           /\ at[t] = p
           /\ \/ pc[t] = "unlist"
              \/ pc[t] = "mentions" /\ a \in todo[t] /\ Entry(work[t]) = Entry(files[p])

(* An object is indexed, or the call that stores it or the migration that  *)
(* builds the index has not come to it.                                    *)
ObjectsListed ==
  \A p \in Present \ broken : files[p].status = "confirmed" /\ files[p].object # NoObject =>
    \/ objectIndex[files[p].object] # NoEntry
    \/ \E t \in Threads : at[t] = p /\ pc[t] = "mentions" /\ work[t].object = files[p].object
    \/ phase = "down" /\ version < 2
    \/ phase = "object_ids" /\ files[p] \in snapshot

Unbroken == version < SchemaVersion => broken = {}

IndexInv == StorageInv /\ Listed /\ ObjectsListed /\ Unbroken

LEMMA IndexInit == ASSUME OneAuthor PROVE Init => IndexInv
<1> SUFFICES ASSUME Init PROVE IndexInv
  OBVIOUS
<1>1. Identified /\ StorageInv
  BY AuthorIdentifies, StorageInit
<1> PICK L \in Legacies, v \in Versions :
      /\ version = v
      /\ files = OldFiles(L, v)
      /\ mentionIndex = [a \in Actors |-> {Entry(i) : i \in {j \in L : a \in j.mentions}}]
      /\ objectIndex =
           [o \in Objects |-> IF v >= 2 /\ \E i \in L : i.object = o
                              THEN Entry(CHOOSE i \in L : i.object = o) ELSE NoEntry]
  BY DEF Init
<1>2. /\ \A i \in L : i \in All /\ i \in Interaction /\ i.mentions \subseteq Actors
                     /\ i.object \in Objects \union {NoObject} /\ Entry(i) # NoEntry
      /\ v \in 0..SchemaVersion
  BY FilesAssumption DEF All, Interaction
<1>3. \A p \in Present : files[p] \in L
  BY <1>1, OldFilesPlaced DEF Present
<1>4. Listed
  <2> SUFFICES ASSUME NEW p \in Present, NEW a \in files[p].mentions
               PROVE  Entry(files[p]) \in mentionIndex[a]
    BY DEF Listed
  <2> files[p] \in {j \in L : a \in j.mentions} /\ a \in Actors
    BY <1>2, <1>3
  <2> QED
    OBVIOUS
<1>5. ObjectsListed
  <2> SUFFICES ASSUME NEW p \in Present, files[p].object # NoObject, ~(version < 2)
               PROVE  objectIndex[files[p].object] # NoEntry
    BY DEF ObjectsListed, Init
  <2> DEFINE o == files[p].object
             c == CHOOSE i \in L : i.object = o
  <2>1. files[p] \in L /\ o \in Objects /\ v >= 2
    BY <1>2, <1>3 DEF SchemaVersion
  <2>2. c \in L
    BY <2>1
  <2>3. objectIndex[o] = Entry(c)
    BY <2>1
  <2> QED
    BY <1>2, <2>2, <2>3
<1>6. Unbroken
  BY DEF Init, Unbroken
<1> QED
  BY <1>1, <1>4, <1>5, <1>6 DEF IndexInv

(* A step of thread t that leaves the disk alone and covers what it covered,*)
(* unless it is cut short.                                                 *)
LEMMA CoverKept ==
  ASSUME IndexInv, NEW t \in Threads,
         UNCHANGED <<files, mentionIndex, objectIndex, version, phase, snapshot>>,
         version = SchemaVersion, broken \subseteq broken',
         \A u \in Threads \ {t} : /\ pc'[u] = pc[u] /\ work'[u] = work[u]
                                 /\ at'[u] = at[u] /\ todo'[u] = todo[u],
         \/ pc[t] \notin {"mentions", "unlist"}
         \/ at[t] \in broken' \union {NoPath}
  PROVE  Listed' /\ ObjectsListed' /\ Unbroken'
<1>1. Present' = Present /\ NoPath \notin Present
  BY NoPathApart DEF Present
<1>2. Listed'
  BY <1>1 DEF IndexInv, Listed
<1>3. ObjectsListed'
  BY <1>1 DEF IndexInv, ObjectsListed
<1>4. Unbroken'
  BY DEF Unbroken, SchemaVersion
<1> QED
  BY <1>2, <1>3, <1>4

LEMMA ServingLast ==
  ASSUME StorageInv, NEW t \in Threads, pc[t] # "idle" \/ phase = "serving"
  PROVE  phase = "serving" /\ version = SchemaVersion
BY DEF StorageInv, DiskInv, Consistent, Migrating

LEMMA QuietSteps ==
  ASSUME IndexInv, NEW t \in Threads,
         \/ \E i \in Inputs : BeginStore(t, i)
         \/ \E w \in Withdrawals : BeginDelete(t, w)
         \/ \E w \in Deletions : BeginDeleteObject(t, w)
         \/ \E p \in Paths : BackfillMentions(t, p) \/ BackfillObjectId(t, p)
         \/ ListFiles(t) \/ EndDelete(t) \/ LookupObject(t) \/ ReadFile(t)
         \/ \E p \in Paths : ScanFile(t, p) \/ NextFile(t, p)
         \/ Fail(t)
  PROVE  Listed' /\ ObjectsListed' /\ Unbroken'
<1> USE DEF history, disk
<1>0. ThreadsTyped
  BY DEF IndexInv, StorageInv
<1>1. CASE \/ \E i \in Inputs : BeginStore(t, i)
           \/ \E w \in Withdrawals : BeginDelete(t, w)
           \/ \E w \in Deletions : BeginDeleteObject(t, w)
           \/ \E p \in Paths : BackfillMentions(t, p) \/ BackfillObjectId(t, p)
  <2> PICK q, w : Begin(t, q, w)
    BY <1>1 DEF BeginStore, BeginDelete, BeginDeleteObject, BackfillMentions, BackfillObjectId
  <2>1. /\ phase = "serving" /\ pc[t] = "idle" /\ pc' = [pc EXCEPT ![t] = q]
        /\ work' = [work EXCEPT ![t] = w]
        /\ UNCHANGED <<files, mentionIndex, objectIndex, version, phase, snapshot, todo, at, broken>>
    BY DEF Begin
  <2> QED
    BY <1>0, <2>1, ServingLast, CoverKept DEF IndexInv, ThreadsTyped
<1>2. CASE \/ ListFiles(t) \/ ReadFile(t) \/ \E p \in Paths : ScanFile(t, p) \/ NextFile(t, p)
  <2>1. /\ pc[t] \in {"scan", "each", "read"}
        /\ UNCHANGED <<files, mentionIndex, objectIndex, version, phase, snapshot, broken>>
        /\ \A u \in Threads \ {t} : /\ pc'[u] = pc[u] /\ work'[u] = work[u]
                                    /\ at'[u] = at[u] /\ todo'[u] = todo[u]
    BY <1>0, <1>2 DEF ListFiles, ReadFile, ScanFile, NextFile, ThreadsTyped
  <2> QED
    BY <2>1, ServingLast, CoverKept DEF IndexInv
<1>3. CASE LookupObject(t)
  <2>1. /\ pc[t] = "lookup"
        /\ UNCHANGED <<files, mentionIndex, objectIndex, version, phase, snapshot, broken>>
    BY <1>3 DEF LookupObject
  <2>2. \/ Leave(t)
        \/ \E q : /\ pc' = [pc EXCEPT ![t] = "read"] /\ at' = [at EXCEPT ![t] = q]
                  /\ UNCHANGED <<work, todo>>
    BY <1>3 DEF LookupObject
  <2>3. \A u \in Threads \ {t} : /\ pc'[u] = pc[u] /\ work'[u] = work[u]
                                    /\ at'[u] = at[u] /\ todo'[u] = todo[u]
    BY <1>0, <2>2, LeaveKeeps DEF ThreadsTyped
  <2> QED
    BY <2>1, <2>3, ServingLast, CoverKept DEF IndexInv
<1>4. CASE EndDelete(t)
  <2>1. /\ pc[t] = "each" /\ Leave(t)
        /\ UNCHANGED <<files, mentionIndex, objectIndex, version, phase, snapshot, broken>>
    BY <1>4 DEF EndDelete
  <2> QED
    BY <1>0, <2>1, LeaveKeeps, ServingLast, CoverKept DEF IndexInv
<1>5. CASE Fail(t)
  <2>1. /\ pc[t] # "idle" /\ Leave(t) /\ broken' = broken \union ({at[t]} \ {NoPath})
        /\ UNCHANGED <<files, mentionIndex, objectIndex, version, phase, snapshot>>
    BY <1>5 DEF Fail
  <2> QED
    BY <1>0, <2>1, LeaveKeeps, ServingLast, CoverKept DEF IndexInv
<1> QED
  BY <1>1, <1>2, <1>3, <1>4, <1>5

LEMMA CrashIndex == ASSUME IndexInv, Crash PROVE Listed' /\ ObjectsListed' /\ Unbroken'
<1>1. /\ UNCHANGED <<files, mentionIndex, objectIndex, version>> /\ phase' = "down"
      /\ broken' = broken \union ({at[t] : t \in Threads} \ {NoPath})
  BY DEF Crash, disk
<1>2. /\ NoPath \notin Paths /\ Present \subseteq Paths /\ Present' = Present
  BY <1>1, NoPathApart DEF Present
<1>3. Listed'
  BY <1>1, <1>2 DEF IndexInv, Listed
<1>4. ObjectsListed'
  <2>1. phase = "object_ids" => version < 2
    BY DEF IndexInv, StorageInv, DiskInv, Migrating
  <2> QED
    BY <1>1, <1>2, <2>1 DEF IndexInv, ObjectsListed
<1>5. Unbroken'
  <2> SUFFICES ASSUME version < SchemaVersion PROVE broken' = {}
    BY <1>1 DEF Unbroken
  <2>1. phase # "serving"
    BY DEF IndexInv, StorageInv, DiskInv, Migrating, SchemaVersion
  <2>2. \A t \in Threads : at[t] = NoPath
    BY <2>1 DEF IndexInv, StorageInv, Consistent
  <2> QED
    BY <1>1, <2>2 DEF IndexInv, Unbroken
<1> QED
  BY <1>3, <1>4, <1>5

LEMMA MigrationIndex ==
  ASSUME IndexInv,
         \/ Start \/ NextMigration \/ EndMigrations \/ EmptyVersion \/ FinishMigrations
         \/ \E i \in snapshot : MigrateObjectId(i) \/ MigrateMultiFile(i)
  PROVE  Listed' /\ ObjectsListed' /\ Unbroken'
<1>1. UNCHANGED <<locals, broken, mentionIndex>> /\ phase # "serving"
  BY DEF Start, NextMigration, EndMigrations, EmptyVersion, FinishMigrations, MigrateObjectId,
     MigrateMultiFile, history, disk
<1>2. \A t \in Threads : pc[t] = "idle" /\ pc'[t] = "idle"
  BY <1>1 DEF IndexInv, StorageInv, Consistent, locals
<1>3. version \in 0..4 /\ SchemaVersion = 4
  BY DEF IndexInv, StorageInv, DiskInv, FilesTyped, SchemaVersion
<1>4. CASE Start \/ NextMigration \/ EndMigrations \/ EmptyVersion \/ FinishMigrations
  <2>1. UNCHANGED <<files, objectIndex>> /\ Present' = Present /\ Contents' = Contents
    BY <1>4 DEF Start, NextMigration, EndMigrations, EmptyVersion, FinishMigrations, disk, Present, Contents
  <2>2. Listed'
    BY <1>1, <1>2, <2>1 DEF IndexInv, Listed
  <2>3. ObjectsListed'
    <3> SUFFICES ASSUME NEW p \in Present \ broken, files[p].status = "confirmed",
                        files[p].object # NoObject
                 PROVE  \/ objectIndex[files[p].object] # NoEntry
                        \/ phase' = "down" /\ version' < 2
                        \/ phase' = "object_ids" /\ files[p] \in snapshot'
      BY <1>1, <2>1 DEF ObjectsListed
    <3>1. \/ objectIndex[files[p].object] # NoEntry
          \/ phase = "down" /\ version < 2
          \/ phase = "object_ids" /\ files[p] \in snapshot
      BY <1>2 DEF IndexInv, ObjectsListed
    <3>2. files[p] \in Contents
      BY DEF Contents
    <3>3. CASE Start
      <4> CASE version < 2
        <5> phase' = "object_ids" /\ snapshot' = Contents
          BY <1>3, <3>3 DEF Start
        <5> QED
          BY <3>2
      <4> CASE ~(version < 2)
        BY <3>1, <3>3 DEF Start
      <4> QED
        OBVIOUS
    <3>4. CASE NextMigration \/ EndMigrations \/ EmptyVersion \/ FinishMigrations
      <4> phase' \notin {"down", "object_ids"} /\ phase # "down"
        BY <3>4 DEF NextMigration, EndMigrations, EmptyVersion, FinishMigrations
      <4> snapshot = {} \/ phase # "object_ids"
        BY <3>4 DEF NextMigration, EndMigrations, EmptyVersion, FinishMigrations
      <4> QED
        BY <3>1
    <3> QED
      BY <1>4, <3>3, <3>4
  <2>4. Unbroken'
    <3>1. version' = version \/ version < SchemaVersion \/ version' = SchemaVersion
      BY <1>4 DEF Start, NextMigration, EndMigrations, EmptyVersion, FinishMigrations, disk,
         IndexInv, StorageInv, DiskInv, Migrating
    <3> QED
      BY <1>1, <1>3, <3>1 DEF IndexInv, Unbroken
  <2> QED
    BY <2>2, <2>3, <2>4
<1>5. ASSUME NEW i \in snapshot, MigrateObjectId(i) PROVE Listed' /\ ObjectsListed' /\ Unbroken'
  <2>1. /\ UNCHANGED <<files, version, phase>> /\ phase = "object_ids" /\ snapshot' = snapshot \ {i}
        /\ objectIndex' = IF i.object # NoObject THEN [objectIndex EXCEPT ![i.object] = Entry(i)]
                          ELSE objectIndex
    BY <1>5 DEF MigrateObjectId
  <2>2. Known(i) /\ i \in UNION Legacies
    BY <2>1 DEF IndexInv, StorageInv, DiskInv, Migrating, FilesTyped, SchemaVersion, Placed, Contents
  <2>3. i.object \in Objects \union {NoObject} /\ Entry(i) # NoEntry
    BY <2>2, FilesAssumption DEF All, Known, Interaction
  <2>4. Present' = Present
    BY <2>1 DEF Present
  <2>5. Listed' /\ Unbroken'
    BY <1>1, <1>2, <2>1, <2>4 DEF IndexInv, Listed, Unbroken
  <2>6. ObjectsListed'
    <3> SUFFICES ASSUME NEW p \in Present \ broken, files[p].status = "confirmed",
                        files[p].object # NoObject, files[p] \notin snapshot'
                 PROVE  objectIndex'[files[p].object] # NoEntry
      BY <1>1, <2>1, <2>4 DEF ObjectsListed
    <3>1. CASE files[p] = i
      BY <2>1, <2>3, <3>1 DEF IndexInv, StorageInv, DiskInv, FilesTyped
    <3>2. CASE files[p] # i
      <4> objectIndex[files[p].object] # NoEntry
        BY <1>2, <2>1, <3>2 DEF IndexInv, ObjectsListed
      <4> files[p].object \in Objects
        BY DEF IndexInv, StorageInv, DiskInv, FilesTyped, Known, Interaction
      <4> QED
        BY <2>1, <2>3 DEF IndexInv, StorageInv, DiskInv, FilesTyped
    <3> QED
      BY <3>1, <3>2
  <2> QED
    BY <2>5, <2>6
<1>6. ASSUME NEW i \in snapshot, MigrateMultiFile(i) PROVE Listed' /\ ObjectsListed' /\ Unbroken'
  <2>1. /\ UNCHANGED <<objectIndex, version, phase>> /\ phase = "multi_files" /\ files' = Rekeyed(i)
    BY <1>6 DEF MigrateMultiFile
  <2>2. Contents' = Contents
    BY <2>1, RenamingKeeps DEF IndexInv, StorageInv, DiskInv
  <2>3. broken = {} /\ broken' = {}
    BY <1>1, <2>1 DEF IndexInv, StorageInv, DiskInv, FilesTyped, SchemaVersion, Migrating, Unbroken
  <2>4. ASSUME NEW p \in Present'
        PROVE  \E q \in Present \ broken : files[q] = files'[p]
    BY <2>2, <2>3 DEF Contents
  <2>5. Listed'
    BY <1>1, <1>2, <2>4 DEF IndexInv, Listed
  <2>6. ObjectsListed'
    BY <1>1, <1>2, <2>1, <2>4 DEF IndexInv, ObjectsListed
  <2> QED
    BY <2>1, <2>3, <2>5, <2>6 DEF Unbroken
<1> QED
  BY <1>4, <1>5, <1>6

(* The file of a thread holds an interaction of the same identity, and no  *)
(* other file has its entry.                                               *)
LEMMA SameFile ==
  ASSUME StorageInv, version = SchemaVersion, NEW p \in Present, NEW i, Known(i)
  PROVE  /\ OneAuthor /\ p = Path(i) => Identity(files[p]) = Identity(i)
         /\ Entry(files[p]) = Entry(i) => p = Path(i)
<1> Known(files[p]) /\ p = Path(files[p])
  BY DEF StorageInv, DiskInv, FilesTyped, Placed, SchemaVersion
<1> QED
  BY AuthorIdentifies, SameEntry DEF Identified

LEMMA StoreIndex ==
  ASSUME IndexInv, NEW t \in Threads,
         WriteFile(t) \/ WriteObjectIndex(t) \/ \E a \in Actors : AddMention(t, a)
  PROVE  Listed' /\ ObjectsListed' /\ Unbroken'
<1> USE DEF history
<1>0. ThreadsTyped /\ StorageInv /\ FilesTyped /\ Consistent(t)
  BY DEF IndexInv, StorageInv, DiskInv
<1>1. pc[t] \in {"file", "mentions"} /\ Known(work[t]) /\ UNCHANGED <<version, phase>>
  BY <1>0 DEF WriteFile, WriteObjectIndex, AddMention, Consistent
<1>2. version = SchemaVersion /\ phase = "serving"
  BY <1>0, <1>1, ServingLast
<1>3. Unbroken'
  BY <1>1, <1>2 DEF Unbroken, SchemaVersion
<1>4. CASE WriteFile(t)
  <2> DEFINE i == work[t]
  <2>1. /\ pc[t] = "file" /\ files' = [files EXCEPT ![Path(i)] = i]
        /\ pc' = [pc EXCEPT ![t] = "mentions"] /\ todo' = [todo EXCEPT ![t] = i.mentions]
        /\ at' = [at EXCEPT ![t] = Path(i)] /\ broken' = broken \ {Path(i)}
        /\ UNCHANGED <<mentionIndex, objectIndex, work>>
    BY <1>4 DEF WriteFile
  <2>2. /\ pc'[t] = "mentions" /\ todo'[t] = i.mentions /\ at'[t] = Path(i) /\ work'[t] = i
        /\ \A u \in Threads \ {t} : /\ pc'[u] = pc[u] /\ work'[u] = work[u]
                                    /\ at'[u] = at[u] /\ todo'[u] = todo[u]
    BY <1>0, <2>1 DEF ThreadsTyped
  <2>3. Path(i) \in Paths
    BY <1>1, PathKnown
  <2>4. /\ files'[Path(i)] = i
        /\ \A p \in Present' \ (broken' \union {Path(i)}) : p \in Present \ broken /\ files'[p] = files[p]
    BY <1>0, <2>1, <2>3 DEF FilesTyped, Present
  <2> HIDE DEF i
  <2>5. Listed'
    BY <1>1, <2>1, <2>2, <2>4 DEF IndexInv, Listed
  <2>6. ObjectsListed'
    BY <1>1, <1>2, <2>1, <2>2, <2>4 DEF IndexInv, ObjectsListed
  <2> QED
    BY <1>3, <2>5, <2>6
<1>5. CASE \E a \in Actors : AddMention(t, a)
  <2> PICK a \in Actors : AddMention(t, a)
    BY <1>5
  <2>1. /\ pc[t] = "mentions"
        /\ mentionIndex' = [mentionIndex EXCEPT ![a] = mentionIndex[a] \union {Entry(work[t])}]
        /\ todo' = [todo EXCEPT ![t] = todo[t] \ {a}]
        /\ UNCHANGED <<files, objectIndex, pc, work, at, broken>>
    BY DEF AddMention
  <2>2. /\ Entry(work[t]) \in mentionIndex'[a]
        /\ \A b \in Actors : mentionIndex[b] \subseteq mentionIndex'[b]
        /\ \A u \in Threads : todo[u] \ {a} \subseteq todo'[u] /\ (u # t => todo'[u] = todo[u])
    BY <1>0, <2>1 DEF FilesTyped, ThreadsTyped
  <2>3. Present' = Present
    BY <2>1 DEF Present
  <2>4. Listed'
    <3> SUFFICES ASSUME NEW p \in Present \ broken, files[p].status = "confirmed",
                        NEW b \in files[p].mentions
                 PROVE  \/ Entry(files[p]) \in mentionIndex'[b]
                        \/ \E u \in Threads :
                             /\ at[u] = p
                             /\ \/ pc[u] = "unlist"
                                \/ /\ pc[u] = "mentions" /\ b \in todo'[u]
                                   /\ Entry(work[u]) = Entry(files[p])
      BY <1>1, <2>1, <2>3 DEF Listed
    <3>1. b \in Actors
      BY <1>0 DEF FilesTyped, Known, Interaction
    <3>2. CASE Entry(files[p]) \in mentionIndex[b]
      BY <2>2, <3>1, <3>2
    <3>3. ASSUME NEW u \in Threads, at[u] = p, Entry(work[u]) = Entry(files[p]),
                 pc[u] = "mentions", b \in todo[u]
          PROVE  Entry(files[p]) \in mentionIndex'[b] \/ b \in todo'[u]
      BY <2>2, <3>3
    <3> QED
      BY <3>2, <3>3 DEF IndexInv, Listed
  <2>5. ObjectsListed'
    BY <1>1, <1>2, <2>1, <2>3 DEF IndexInv, ObjectsListed
  <2> QED
    BY <1>3, <2>4, <2>5
<1>6. CASE WriteObjectIndex(t)
  <2> DEFINE o == work[t].object
  <2>1. /\ pc[t] = "mentions" /\ todo[t] = {} /\ Leave(t)
        /\ objectIndex' = IF o # NoObject THEN [objectIndex EXCEPT ![o] = Entry(work[t])] ELSE objectIndex
        /\ UNCHANGED <<files, mentionIndex, broken>>
    BY <1>6 DEF WriteObjectIndex
  <2>2. /\ pc'[t] = "idle"
        /\ \A u \in Threads \ {t} : /\ pc'[u] = pc[u] /\ work'[u] = work[u]
                                    /\ at'[u] = at[u] /\ todo'[u] = todo[u]
    BY <1>0, <2>1, LeaveKeeps
  <2>3. Present' = Present
    BY <2>1 DEF Present
  <2>4. o \in Objects \union {NoObject} /\ Entry(work[t]) # NoEntry
    <3> PICK j \in All : Entry(work[t]) = Entry(j)
      BY <1>1 DEF Known
    <3> QED
      BY <1>1, FilesAssumption DEF Known, Interaction
  <2>5. \A x \in Objects : objectIndex[x] # NoEntry => objectIndex'[x] # NoEntry
    BY <1>0, <2>1, <2>4 DEF FilesTyped
  <2>6. Listed'
    BY <1>1, <2>1, <2>2, <2>3 DEF IndexInv, Listed
  <2>7. ObjectsListed'
    <3> SUFFICES ASSUME NEW p \in Present \ broken, files[p].status = "confirmed",
                        files[p].object # NoObject
                 PROVE  \/ objectIndex'[files[p].object] # NoEntry
                        \/ \E u \in Threads : /\ at'[u] = p /\ pc'[u] = "mentions"
                                              /\ work'[u].object = files[p].object
      BY <1>1, <2>1, <2>3 DEF ObjectsListed
    <3>1. files[p].object \in Objects
      BY <1>0 DEF FilesTyped, Known, Interaction
    <3>2. CASE objectIndex[files[p].object] # NoEntry
      BY <2>5, <3>1, <3>2
    <3>3. CASE files[p].object = o
      <4> objectIndex'[o] = Entry(work[t])
        BY <1>0, <2>1, <3>1, <3>3 DEF FilesTyped
      <4> QED
        BY <2>4, <3>3
    <3>4. ASSUME NEW u \in Threads \ {t}, at[u] = p, pc[u] = "mentions",
                 work[u].object = files[p].object
          PROVE  \E x \in Threads : /\ at'[x] = p /\ pc'[x] = "mentions"
                                    /\ work'[x].object = files[p].object
      BY <2>2, <3>4
    <3> QED
      BY <1>2, <3>2, <3>3, <3>4 DEF IndexInv, ObjectsListed
  <2> QED
    BY <1>3, <2>6, <2>7
<1> QED
  BY <1>4, <1>5, <1>6

LEMMA UnlistIndex ==
  ASSUME IndexInv, NEW t \in Threads,
         MarkFile(t) \/ \E a \in Actors : Unlist(t, a)
  PROVE  Listed' /\ ObjectsListed' /\ Unbroken'
<1> USE DEF history
<1>0. ThreadsTyped /\ StorageInv /\ FilesTyped /\ Consistent(t)
  BY DEF IndexInv, StorageInv, DiskInv
<1>1. /\ pc[t] = "unlist" /\ at[t] \in Present /\ Known(data[t]) /\ at[t] = Path(data[t])
      /\ UNCHANGED <<objectIndex, version, phase, broken>>
  BY <1>0 DEF MarkFile, Unlist, Consistent
<1>2. version = SchemaVersion /\ phase = "serving"
  BY <1>0, <1>1, ServingLast
<1>3. Unbroken'
  BY <1>1, <1>2 DEF Unbroken, SchemaVersion
<1>4. CASE MarkFile(t)
  <2> DEFINE i == [data[t] EXCEPT !.status = "deleted"]
  <2>1. /\ files' = [files EXCEPT ![at[t]] = i]
        /\ pc' = [pc EXCEPT ![t] = "each"] /\ at' = [at EXCEPT ![t] = NoPath]
        /\ UNCHANGED <<mentionIndex, work, todo>>
    BY <1>4 DEF MarkFile
  <2>2. \A u \in Threads \ {t} : pc'[u] = pc[u] /\ at'[u] = at[u]
    BY <1>0, <2>1 DEF ThreadsTyped
  <2>3. i.status = "deleted"
    BY <1>1 DEF Known, Interaction
  <2> HIDE DEF i
  <2>4. /\ files'[at[t]] = i
        /\ \A p \in Present' \ {at[t]} : p \in Present /\ files'[p] = files[p]
    BY <1>0, <1>1, <2>1 DEF FilesTyped, Present
  <2>5. Listed'
    BY <1>1, <2>1, <2>2, <2>3, <2>4 DEF IndexInv, Listed
  <2>6. ObjectsListed'
    BY <1>1, <1>2, <2>1, <2>2, <2>3, <2>4 DEF IndexInv, ObjectsListed
  <2> QED
    BY <1>3, <2>5, <2>6
<1>5. CASE \E a \in Actors : Unlist(t, a)
  <2> PICK a \in Actors : Unlist(t, a)
    BY <1>5
  <2>1. /\ mentionIndex' = [mentionIndex EXCEPT ![a] = mentionIndex[a] \ {Entry(data[t])}]
        /\ todo' = [todo EXCEPT ![t] = todo[t] \ {a}]
        /\ UNCHANGED <<files, pc, work, at>>
    BY DEF Unlist
  <2>2. /\ \A b \in Actors : mentionIndex[b] \ {Entry(data[t])} \subseteq mentionIndex'[b]
        /\ \A u \in Threads \ {t} : todo'[u] = todo[u]
    BY <1>0, <2>1 DEF FilesTyped, ThreadsTyped
  <2>3. Present' = Present
    BY <2>1 DEF Present
  <2>4. \A p \in Present : Entry(files[p]) = Entry(data[t]) => at[t] = p
    BY <1>0, <1>1, <1>2, SameFile
  <2>5. \A p \in Present : files[p].mentions \subseteq Actors
    BY <1>0 DEF FilesTyped, Known, Interaction
  <2>6. Listed'
    <3> SUFFICES ASSUME NEW p \in Present \ broken, files[p].status = "confirmed",
                        NEW b \in files[p].mentions
                 PROVE  \/ Entry(files[p]) \in mentionIndex'[b]
                        \/ \E u \in Threads :
                             /\ at[u] = p
                             /\ \/ pc[u] = "unlist"
                                \/ /\ pc[u] = "mentions" /\ b \in todo'[u]
                                   /\ Entry(work[u]) = Entry(files[p])
      BY <1>1, <2>1, <2>3 DEF Listed
    <3>1. CASE Entry(files[p]) \in mentionIndex[b]
      BY <1>1, <2>2, <2>4, <2>5, <3>1
    <3>2. ASSUME NEW u \in Threads, pc[u] = "mentions", b \in todo[u]
          PROVE  b \in todo'[u]
      BY <1>1, <2>2, <3>2
    <3> QED
      BY <3>1, <3>2 DEF IndexInv, Listed
  <2>7. ObjectsListed'
    BY <1>1, <1>2, <2>1, <2>3 DEF IndexInv, ObjectsListed
  <2> QED
    BY <1>3, <2>6, <2>7
<1> QED
  BY <1>4, <1>5

LEMMA IndexStep == ASSUME OneAuthor PROVE IndexInv /\ [Next]_vars => IndexInv'
<1> SUFFICES ASSUME IndexInv, [Next]_vars PROVE IndexInv'
  OBVIOUS
<1>1. StorageInv'
  BY AuthorIdentifies, StorageStep DEF IndexInv
<1> SUFFICES Listed' /\ ObjectsListed' /\ Unbroken'
  BY <1>1 DEF IndexInv
<1>2. CASE UNCHANGED vars
  BY <1>2 DEF vars, locals, history, disk, IndexInv, Listed, ObjectsListed, Unbroken, Present
<1>3. CASE \/ Start \/ NextMigration \/ EndMigrations \/ EmptyVersion \/ FinishMigrations
           \/ \E i \in snapshot : MigrateObjectId(i) \/ MigrateMultiFile(i)
  BY <1>3, MigrationIndex
<1>4. CASE Crash
  BY <1>4, CrashIndex
<1>5. ASSUME NEW t \in Threads,
             \/ \E i \in Inputs : BeginStore(t, i)
             \/ WriteFile(t) \/ WriteObjectIndex(t)
             \/ \E a \in Actors : AddMention(t, a) \/ Unlist(t, a)
             \/ \E w \in Withdrawals : BeginDelete(t, w)
             \/ \E w \in Deletions : BeginDeleteObject(t, w)
             \/ ListFiles(t) \/ EndDelete(t) \/ LookupObject(t) \/ ReadFile(t) \/ MarkFile(t)
             \/ \E p \in Paths : \/ ScanFile(t, p) \/ NextFile(t, p)
                                 \/ BackfillMentions(t, p) \/ BackfillObjectId(t, p)
             \/ Fail(t)
      PROVE  Listed' /\ ObjectsListed' /\ Unbroken'
  BY <1>5, QuietSteps, StoreIndex, UnlistIndex
<1> QED
  BY <1>2, <1>3, <1>4, <1>5 DEF Next

(* The place of an interaction whose entry an index keeps. *)
LEMMA LookedUp ==
  ASSUME IndexInv, phase = "serving", NEW o \in Objects, objectIndex[o] # NoEntry
  PROVE  \E j \in All :
           /\ j.object = o /\ j.source = objectIndex[o].source
           /\ Path([objectIndex[o] EXCEPT !.object = o]) = Path(j)
           /\ OneAuthor /\ Path(j) \in Present => Identity(files[Path(j)]) = Identity(j)
<1>1. PICK j \in All : /\ j.object = o /\ objectIndex[o] = Entry(j)
                      /\ Path([objectIndex[o] EXCEPT !.object = o]) = Path(j)
  BY LookupPath DEF IndexInv, StorageInv, DiskInv
<1>2. Known(j) /\ version = SchemaVersion
  BY AllKnown DEF IndexInv, StorageInv, DiskInv, Migrating
<1>3. OneAuthor /\ Path(j) \in Present => Identity(files[Path(j)]) = Identity(j)
  BY <1>2, SameFile DEF IndexInv
<1> QED
  BY <1>1, <1>3 DEF Entry

LEMMA IndexNamesObject == ASSUME OneAuthor PROVE IndexInv => ObjectIndexSound
<1> SUFFICES ASSUME IndexInv, phase = "serving", NEW o \in Objects, NEW s \in {"confirmed", "deleted"},
                    NEW i \in WithObject(o, s)
             PROVE  \E j \in All : j.object = o /\ Identity(j) = Identity(i)
  BY DEF ObjectIndexSound
<1>1. objectIndex[o] # NoEntry
  BY DEF WithObject
<1>2. PICK j \in All :
        /\ j.object = o
        /\ Path([objectIndex[o] EXCEPT !.object = o]) = Path(j)
        /\ Path(j) \in Present => Identity(files[Path(j)]) = Identity(j)
  BY <1>1, LookedUp
<1>3. i = files[Path(j)] /\ Path(j) \in Present
  <2> Path(j) \in Paths
    BY DEF Paths
  <2> QED
    BY <1>1, <1>2 DEF WithObject, Present
<1> QED
  BY <1>2, <1>3

LEMMA ConfirmedFound == IndexInv => ConfirmedIsFound
<1> SUFFICES ASSUME IndexInv, phase = "serving",
                    NEW p \in Present \ (broken \union {at[t] : t \in Threads}),
                    files[p].status = "confirmed"
             PROVE  /\ files[p] \in About(p.target, p.type, "confirmed")
                    /\ \A a \in files[p].mentions : files[p] \in Mentioning(a, "confirmed")
                    /\ files[p].object # NoObject /\ OnePlace(files[p]) =>
                         files[p] \in WithObject(files[p].object, "confirmed")
  BY DEF ConfirmedIsFound
<1>1. /\ p = Path(files[p]) /\ Known(files[p]) /\ files[p] # NoFile
      /\ version = SchemaVersion
  BY DEF IndexInv, StorageInv, DiskInv, Migrating, Placed, SchemaVersion, FilesTyped, Present
<1>2. files[p] \in About(p.target, p.type, "confirmed")
  <2> p.target = files[p].target /\ p.type = files[p].type
    BY <1>1 DEF Path
  <2> QED
    BY DEF About, Contents
<1>3. ASSUME NEW a \in files[p].mentions PROVE files[p] \in Mentioning(a, "confirmed")
  <2>1. Entry(files[p]) \in mentionIndex[a]
    BY DEF IndexInv, Listed
  <2>2. Path(Entry(files[p])) = p
    BY <1>1, PathOfEntry
  <2> QED
    BY <1>1, <2>1, <2>2 DEF Mentioning
<1>4. ASSUME files[p].object # NoObject, OnePlace(files[p])
      PROVE  files[p] \in WithObject(files[p].object, "confirmed")
  <2> DEFINE o == files[p].object
  <2>1. objectIndex[o] # NoEntry /\ o \in Objects
    BY <1>1, <1>4 DEF IndexInv, ObjectsListed, Known, Interaction
  <2>2. PICK j \in All : j.object = o /\ Path([objectIndex[o] EXCEPT !.object = o]) = Path(j)
    BY <2>1, LookedUp
  <2>3. Path(j) = p
    BY <1>1, <1>4, <2>2 DEF OnePlace
  <2> QED
    BY <1>1, <2>1, <2>2, <2>3 DEF WithObject
<1> QED
  BY <1>2, <1>3, <1>4

(* ConfirmedIsFound, provided an object is of one author: the queries lose *)
(* nothing that no call is at, however often an author mentions an actor.  *)
THEOREM ConfirmedAlwaysFound == ASSUME OneAuthor PROVE Spec => []ConfirmedIsFound
<1>1. (Init => IndexInv) /\ (IndexInv /\ [Next]_vars => IndexInv')
  BY IndexInit, IndexStep
<1>2. IndexInv => ConfirmedIsFound
  BY ConfirmedFound
<1> QED
  BY <1>1, <1>2, PTL DEF Spec

(* ObjectIndexSound, under the same condition: what an object is looked up *)
(* as is of that object, or has taken its file as a later interaction of   *)
(* its author.                                                             *)
THEOREM ObjectIndexAlwaysSound == ASSUME OneAuthor PROVE Spec => []ObjectIndexSound
<1>1. (Init => IndexInv) /\ (IndexInv /\ [Next]_vars => IndexInv')
  BY IndexInit, IndexStep
<1>2. IndexInv => ObjectIndexSound
  BY IndexNamesObject
<1> QED
  BY <1>1, <1>2, PTL DEF Spec

----------------------------------------------------------------------------
(* A delete by object id marks interactions of the author that deletes     *)

(* A call that deletes by object id goes from the index to one file and    *)
(* ends; the file is the place of an interaction of the object by the      *)
(* author that deletes.                                                    *)
Aimed(t) ==
  /\ pc[t] = "idle" => todo[t] = {} /\ chosen[t] = {}
  /\ pc[t] = "scan" => work[t] \in Withdrawals
  /\ pc[t] \in {"each", "read", "unlist"} => work[t] \in Withdrawals \union Deletions
  /\ work[t] \in Deletions =>
       /\ pc[t] \in {"lookup", "each", "read"} => todo[t] = {}
       /\ pc[t] \in {"lookup", "each", "read", "unlist"} => chosen[t] = {}
       /\ pc[t] = "read" =>
            \E j \in All : <<j.source, j.object>> = <<work[t].source, work[t].object>> /\ at[t] = Path(j)
       /\ pc[t] = "unlist" =>
            /\ data[t].source = work[t].source
            /\ data[t].type \in MultiTypes => data[t].object = work[t].object

LEMMA WithdrawalsApart == Withdrawals \intersect Deletions = {}
BY FilesAssumption

LEMMA AimKept ==
  ASSUME NEW t, Aimed(t), pc'[t] = pc[t], work'[t] = work[t], todo'[t] = todo[t],
         chosen'[t] = chosen[t], at'[t] = at[t], data'[t] = data[t]
  PROVE  Aimed(t)'
BY DEF Aimed

LEMMA AimEnded ==
  ASSUME ThreadsTyped, NEW t \in Threads, Leave(t)
  PROVE  /\ Aimed(t)'
         /\ \A u \in Threads \ {t} : /\ pc'[u] = pc[u] /\ work'[u] = work[u] /\ todo'[u] = todo[u]
                                     /\ chosen'[u] = chosen[u] /\ at'[u] = at[u] /\ data'[u] = data[u]
<1>1. /\ pc'[t] = "idle" /\ todo'[t] = {} /\ chosen'[t] = {} /\ pc'[t] \notin {"scan", "each"}
      /\ \A u \in Threads \ {t} : /\ pc'[u] = pc[u] /\ work'[u] = work[u] /\ todo'[u] = todo[u]
                                  /\ chosen'[u] = chosen[u] /\ at'[u] = at[u] /\ data'[u] = data[u]
  BY DEF Leave, Reset, ThreadsTyped
<1> QED
  BY <1>1 DEF Aimed

(* Steps in which t is the only thread to change what it holds.            *)
LEMMA AimSuffices ==
  ASSUME \A u \in Threads : Aimed(u), NEW t \in Threads,
         \A u \in Threads \ {t} : /\ pc'[u] = pc[u] /\ work'[u] = work[u] /\ todo'[u] = todo[u]
                                  /\ chosen'[u] = chosen[u] /\ at'[u] = at[u] /\ data'[u] = data[u],
         Aimed(t)'
  PROVE  \A u \in Threads : Aimed(u)'
BY AimKept

LEMMA AimBegins ==
  ASSUME ThreadsTyped, \A u \in Threads : Aimed(u), NEW t \in Threads, NEW p, NEW w, Begin(t, p, w),
         p \in {"file", "mentions", "scan", "lookup"},
         p = "scan" => w \in Withdrawals
  PROVE  \A u \in Threads : Aimed(u)'
<1>1. /\ pc[t] = "idle" /\ pc'[t] = p /\ work'[t] = w
      /\ UNCHANGED <<todo, chosen, at, data>>
      /\ \A u \in Threads \ {t} : pc'[u] = pc[u] /\ work'[u] = work[u]
  BY DEF Begin, ThreadsTyped
<1>2. Aimed(t)'
  BY <1>1 DEF Aimed
<1> QED
  BY <1>1, <1>2, AimSuffices

LEMMA AimLooksUp ==
  ASSUME OneAuthor, IndexInv, \A u \in Threads : Aimed(u), NEW t \in Threads,
         LookupObject(t) \/ ReadFile(t)
  PROVE  \A u \in Threads : Aimed(u)'
<1>0. ThreadsTyped /\ Consistent(t) /\ Aimed(t) /\ phase = "serving" /\ version = SchemaVersion
  BY DEF IndexInv, StorageInv, DiskInv, Migrating, LookupObject, ReadFile, Consistent
<1>1. CASE LookupObject(t)
  <2> DEFINE o == work[t].object
  <2>1. pc[t] = "lookup" /\ work[t] \in Deletions /\ o \in Objects
    BY <1>0, <1>1, FilesAssumption DEF LookupObject, Consistent
  <2>2. CASE Leave(t)
    BY <1>0, <2>2, AimEnded, AimSuffices
  <2>3. CASE ~Leave(t)
    <3>1. /\ objectIndex[o] # NoEntry /\ objectIndex[o].source = work[t].source
          /\ pc' = [pc EXCEPT ![t] = "read"]
          /\ at' = [at EXCEPT ![t] = Path([objectIndex[o] EXCEPT !.object = o])]
          /\ UNCHANGED <<work, todo, chosen, data>>
      BY <1>1, <2>3 DEF LookupObject
    <3>2. PICK j \in All : /\ j.object = o /\ j.source = work[t].source
                          /\ Path([objectIndex[o] EXCEPT !.object = o]) = Path(j)
      BY <1>0, <2>1, <3>1, LookedUp
    <3>3. pc'[t] = "read" /\ at'[t] = Path(j)
      BY <1>0, <3>1, <3>2 DEF ThreadsTyped
    <3>4. Aimed(t)'
      BY <1>0, <2>1, <3>1, <3>2, <3>3 DEF Aimed
    <3> QED
      BY <1>0, <3>1, <3>4, AimSuffices DEF ThreadsTyped
  <2> QED
    BY <2>2, <2>3
<1>2. CASE ReadFile(t)
  <2> DEFINE i == files[at[t]]
  <2>1. pc[t] = "read" /\ at[t] \in Paths /\ UNCHANGED <<work, chosen>>
    BY <1>0, <1>2 DEF ReadFile, Consistent
  <2>2. CASE /\ pc' = [pc EXCEPT ![t] = "each"] /\ at' = [at EXCEPT ![t] = NoPath]
             /\ UNCHANGED <<todo, data>>
    <3>1. pc'[t] = "each"
      BY <1>0, <2>2 DEF ThreadsTyped
    <3>2. Aimed(t)'
      BY <1>0, <2>1, <2>2, <3>1 DEF Aimed
    <3> QED
      BY <1>0, <2>1, <2>2, <3>2, AimSuffices DEF ThreadsTyped
  <2>3. CASE /\ i # NoFile /\ pc' = [pc EXCEPT ![t] = "unlist"] /\ data' = [data EXCEPT ![t] = i]
             /\ todo' = [todo EXCEPT ![t] = i.mentions] /\ UNCHANGED at
    <3>1. pc'[t] = "unlist" /\ data'[t] = i
      BY <1>0, <2>3 DEF ThreadsTyped
    <3>2. ASSUME work[t] \in Deletions
          PROVE  i.source = work[t].source /\ (i.type \in MultiTypes => i.object = work[t].object)
      <4>1. PICK j \in All : /\ <<j.source, j.object>> = <<work[t].source, work[t].object>>
                            /\ at[t] = Path(j)
        BY <1>0, <2>1, <3>2 DEF Aimed
      <4>2. Known(j) /\ at[t] \in Present
        BY <2>1, <2>3, AllKnown DEF Present
      <4>3. Identity(i) = Identity(j)
        BY <1>0, <4>1, <4>2, SameFile DEF IndexInv
      <4> QED
        BY <4>1, <4>3, IdentityFields
    <3>3. Aimed(t)'
      BY <1>0, <2>1, <3>1, <3>2 DEF Aimed
    <3> QED
      BY <1>0, <2>1, <2>3, <3>3, AimSuffices DEF ThreadsTyped
  <2> QED
    BY <1>2, <2>2, <2>3 DEF ReadFile
<1> QED
  BY <1>1, <1>2

LEMMA AimDeletes ==
  ASSUME ThreadsTyped, \A u \in Threads : Aimed(u), NEW t \in Threads,
         \/ ListFiles(t) \/ EndDelete(t) \/ MarkFile(t) \/ \E a \in Actors : Unlist(t, a)
         \/ \E p \in Paths : ScanFile(t, p) \/ NextFile(t, p)
  PROVE  \A u \in Threads : Aimed(u)'
<1> USE WithdrawalsApart DEF ThreadsTyped, Aimed
<1>1. CASE ListFiles(t)
  BY <1>1 DEF ListFiles
<1>2. CASE EndDelete(t)
  BY <1>2, AimEnded, AimSuffices DEF EndDelete
<1>3. CASE MarkFile(t)
  BY <1>3 DEF MarkFile
<1>4. ASSUME NEW a \in Actors, Unlist(t, a) PROVE \A u \in Threads : Aimed(u)'
  BY <1>4 DEF Unlist
<1>5. ASSUME NEW p \in Paths, ScanFile(t, p) PROVE \A u \in Threads : Aimed(u)'
  BY <1>5 DEF ScanFile
<1>6. ASSUME NEW p \in Paths, NextFile(t, p) PROVE \A u \in Threads : Aimed(u)'
  BY <1>6 DEF NextFile
<1> QED
  BY <1>1, <1>2, <1>3, <1>4, <1>5, <1>6

LEMMA AimStep ==
  ASSUME OneAuthor, IndexInv, \A t \in Threads : Aimed(t), [Next]_vars
  PROVE  \A t \in Threads : Aimed(t)'
<1>0. ThreadsTyped
  BY DEF IndexInv, StorageInv
<1>1. CASE \/ UNCHANGED vars \/ Start \/ NextMigration \/ EndMigrations \/ EmptyVersion \/ FinishMigrations
           \/ \E i \in snapshot : MigrateObjectId(i) \/ MigrateMultiFile(i)
  <2> UNCHANGED locals
    BY <1>1 DEF vars, Start, NextMigration, EndMigrations, EmptyVersion, FinishMigrations, MigrateObjectId,
     MigrateMultiFile
  <2> QED
    BY AimKept DEF locals
<1>2. CASE Crash
  BY <1>2 DEF Crash, Aimed
<1>3. ASSUME NEW t \in Threads,
             \/ \E i \in Inputs : BeginStore(t, i)
             \/ \E w \in Withdrawals : BeginDelete(t, w)
             \/ \E w \in Deletions : BeginDeleteObject(t, w)
             \/ \E p \in Paths : BackfillMentions(t, p) \/ BackfillObjectId(t, p)
      PROVE  \A u \in Threads : Aimed(u)'
  BY <1>0, <1>3, AimBegins DEF BeginStore, BeginDelete, BeginDeleteObject, BackfillMentions,
     BackfillObjectId
<1>4. ASSUME NEW t \in Threads, WriteFile(t) \/ \E a \in Actors : AddMention(t, a)
      PROVE  \A u \in Threads : Aimed(u)'
  BY <1>0, <1>4 DEF WriteFile, AddMention, ThreadsTyped, Aimed
<1>5. ASSUME NEW t \in Threads, WriteObjectIndex(t) \/ Fail(t)
      PROVE  \A u \in Threads : Aimed(u)'
  BY <1>0, <1>5, AimEnded, AimSuffices DEF WriteObjectIndex, Fail
<1> QED
  BY <1>0, <1>1, <1>2, <1>3, <1>4, <1>5, AimLooksUp, AimDeletes DEF Next

(* DeletesByAuthor, provided an object is of one author: whatever takes    *)
(* the file between the lookup and the mark, a delete by object id hits    *)
(* nobody else's interaction, and no other reply or quote of its author.   *)
THEOREM DeletesAlwaysByAuthor == ASSUME OneAuthor PROVE Spec => []DeletesByAuthor
<1>1. (Init => IndexInv) /\ (IndexInv /\ [Next]_vars => IndexInv')
  BY IndexInit, IndexStep
<1>2. Init => \A t \in Threads : Aimed(t)
  BY DEF Init, Aimed
<1>3. IndexInv /\ (\A t \in Threads : Aimed(t)) /\ [Next]_vars => (\A t \in Threads : Aimed(t))'
  BY AimStep
<1>4. (\A t \in Threads : Aimed(t)) => DeletesByAuthor
  <2> SUFFICES ASSUME NEW t \in Threads, Aimed(t), pc[t] = "unlist",
                      DOMAIN work[t] = {"source", "object"}
               PROVE  /\ data[t].source = work[t].source
                      /\ data[t].type \in MultiTypes => data[t].object = work[t].object
    BY DEF DeletesByAuthor
  <2> work[t] \in Deletions
    <3> ASSUME work[t] \in Withdrawals PROVE FALSE
      BY FilesAssumption
    <3> QED
      BY DEF Aimed
  <2> QED
    BY DEF Aimed
<1> QED
  BY <1>1, <1>2, <1>3, <1>4, PTL DEF Spec

----------------------------------------------------------------------------
(* The directory is the table of the trait *)

Rows == {Row(i) : i \in Contents}

LEMMA RowFields ==
  ASSUME NEW i \in Interaction
  PROVE  /\ Row(i).source = i.source /\ Row(i).target = i.target /\ Row(i).type = i.type
         /\ Row(i).object = IF i.type \in MultiTypes THEN i.object ELSE NoObject
         /\ Row(i).status = i.status
BY DEF Row, Interaction

LEMMA RowOfIdentity ==
  ASSUME NEW i \in Interaction, NEW j \in Interaction, Identity(i) = Identity(j),
         i.status = "deleted"
  PROVE  [Row(j) EXCEPT !.status = "deleted"] = Row(i)
<1> /\ i.source = j.source /\ i.target = j.target /\ i.type = j.type
    /\ i.type \in MultiTypes => i.object = j.object
  BY IdentityFields
<1> QED
  BY DEF Row, Interaction

LEMMA SameRowIsSamePath ==
  ASSUME OneAuthor, NEW i, NEW j, Known(i), Known(j)
  PROVE  Store!SameRow(Row(i), Row(j)) <=> Path(i) = Path(j)
<1>1. i \in Interaction /\ j \in Interaction
  BY DEF Known
<1>2. Store!SameRow(Row(i), Row(j)) <=>
        /\ i.source = j.source /\ i.target = j.target /\ i.type = j.type
        /\ j.type \in MultiTypes => i.object = j.object
  BY <1>1, RowFields DEF Store!SameRow, Store!MultiTypes, MultiTypes
<1>3. ASSUME Path(i) = Path(j) PROVE Store!SameRow(Row(i), Row(j))
  <2> Identity(i) = Identity(j)
    BY <1>3, AuthorIdentifies DEF Identified
  <2> QED
    BY <1>2, IdentityFields
<1>4. ASSUME Store!SameRow(Row(i), Row(j)) PROVE Path(i) = Path(j)
  BY <1>2, <1>4 DEF Path
<1> QED
  BY <1>3, <1>4

LEMMA RowsDistinct ==
  ASSUME OneAuthor, StorageInv, NEW p \in Present, NEW q \in Present,
         Store!SameRow(Row(files[p]), Row(files[q]))
  PROVE  p = q
<1>1. Known(files[p]) /\ Known(files[q])
  BY DEF StorageInv, DiskInv, FilesTyped
<1>2. Path(files[p]) = Path(files[q])
  BY <1>1, SameRowIsSamePath
<1>3. version = SchemaVersion \/ version < SchemaVersion
  BY DEF StorageInv, DiskInv, FilesTyped, SchemaVersion
<1> QED
  BY <1>2, <1>3 DEF StorageInv, DiskInv, Placed, SchemaVersion

(* The rows after a file is written: the one at its place is replaced. *)
LEMMA WrittenRows ==
  ASSUME OneAuthor, StorageInv, phase = "serving", NEW i, Known(i),
         files' = [files EXCEPT ![Path(i)] = i]
  PROVE  /\ Rows' = {Row(files[p]) : p \in Present \ {Path(i)}} \union {Row(i)}
         /\ \A p \in Present : p = Path(i) <=> Store!SameRow(Row(files[p]), Row(i))
<1>1. i # NoFile /\ Path(i) \in Paths
  BY FilesAssumption, PathKnown DEF Known
<1>2. files'[Path(i)] = i /\ \A p \in Paths \ {Path(i)} : files'[p] = files[p]
  BY <1>1 DEF StorageInv, DiskInv, FilesTyped
<1>3. Contents' = {files[p] : p \in Present \ {Path(i)}} \union {i}
  BY <1>1, <1>2 DEF Contents, Present
<1>4. Rows' = {Row(files[p]) : p \in Present \ {Path(i)}} \union {Row(i)}
  BY <1>3 DEF Rows
<1>5. \A p \in Present : p = Path(files[p]) /\ Known(files[p])
  BY DEF StorageInv, DiskInv, FilesTyped, Migrating, Placed, SchemaVersion
<1> QED
  BY <1>4, <1>5, SameRowIsSamePath

LEMMA PutStep ==
  ASSUME OneAuthor, StorageInv, phase = "serving", NEW i, Known(i), i.status = "confirmed",
         files' = [files EXCEPT ![Path(i)] = i]
  PROVE  Row(i) \in Rows' /\ Row(i).status = "confirmed" /\ Rows' = Store!Upserted(Rows, Row(i))
<1>1. /\ Rows' = {Row(files[p]) : p \in Present \ {Path(i)}} \union {Row(i)}
      /\ \A p \in Present : p = Path(i) <=> Store!SameRow(Row(files[p]), Row(i))
  BY WrittenRows
<1>2. Rows = {Row(files[p]) : p \in Present}
  BY DEF Rows, Contents
<1>3. {r \in Rows : ~Store!SameRow(r, Row(i))} = {Row(files[p]) : p \in Present \ {Path(i)}}
  BY <1>1, <1>2
<1>4. Row(i).status = "confirmed"
  BY RowFields DEF Known
<1> QED
  BY <1>1, <1>3, <1>4 DEF Store!Upserted

LEMMA MarkStep ==
  ASSUME OneAuthor, StorageInv, phase = "serving", NEW i, Known(i), i.status = "deleted",
         Path(i) \in Present, files' = [files EXCEPT ![Path(i)] = i]
  PROVE  \E r \in Rows : Rows' = Store!Marked(Rows, {r})
<1> DEFINE r == Row(files[Path(i)])
<1>1. /\ Rows' = {Row(files[p]) : p \in Present \ {Path(i)}} \union {Row(i)}
      /\ \A p \in Present : p = Path(i) <=> Store!SameRow(Row(files[p]), Row(i))
  BY WrittenRows
<1>2. Rows = {Row(files[p]) : p \in Present}
  BY DEF Rows, Contents
<1>3. Rows \ {r} = {Row(files[p]) : p \in Present \ {Path(i)}}
  <2> ASSUME NEW p \in Present, Row(files[p]) = r PROVE p = Path(i)
    BY <1>1
  <2> QED
    BY <1>2
<1>4. [r EXCEPT !.status = "deleted"] = Row(i)
  <2>1. Known(files[Path(i)]) /\ version = SchemaVersion
    BY DEF StorageInv, DiskInv, FilesTyped, Migrating
  <2>2. Identity(files[Path(i)]) = Identity(i)
    BY <2>1, SameFile
  <2> QED
    BY <2>1, <2>2, RowOfIdentity DEF Known
<1>5. r \in Rows
  BY <1>2
<1> HIDE DEF r
<1> QED
  BY <1>1, <1>3, <1>4, <1>5 DEF Store!Marked

LEMMA StoreStep ==
  ASSUME OneAuthor, StorageInv, [Next]_vars
  PROVE  Rows' = Rows \/ Store!StoreNext
<1>1. ASSUME NEW i, i \in Rows', i.status = "confirmed", Rows' = Store!Upserted(Rows, i)
      PROVE  Store!StoreNext
  <2> Store!Put(i)
    BY <1>1 DEF Store!Put, Rows, Row
  <2> QED
    BY <1>1 DEF Store!StoreNext, Rows, Row
<1>2. ASSUME NEW r \in Rows, Rows' = Store!Marked(Rows, {r})
      PROVE  Store!StoreNext
  <2> Store!MarkAll({r})
    BY <1>2 DEF Store!MarkAll, Rows, Row
  <2> {r} \in SUBSET Rows
    OBVIOUS
  <2> QED
    BY DEF Store!StoreNext, Rows, Row
<1>3. ASSUME UNCHANGED files PROVE Rows' = Rows
  BY <1>3 DEF Rows, Contents, Present
<1>4. ASSUME NEW t \in Threads, WriteFile(t) PROVE Store!StoreNext
  <2>1. /\ Known(work[t]) /\ phase = "serving" /\ files' = [files EXCEPT ![Path(work[t])] = work[t]]
        /\ work[t].status = "deleted" => Path(work[t]) \in Present
    BY <1>4 DEF WriteFile, StorageInv, Consistent
  <2>2. work[t].status \in {"confirmed", "deleted"}
    BY <2>1 DEF Known, Interaction
  <2>3. CASE work[t].status = "confirmed"
    BY <1>1, <2>1, <2>3, PutStep
  <2>4. CASE work[t].status = "deleted"
    BY <1>2, <2>1, <2>4, MarkStep
  <2> QED
    BY <2>2, <2>3, <2>4
<1>5. ASSUME NEW t \in Threads, MarkFile(t) PROVE Store!StoreNext
  <2> DEFINE i == [data[t] EXCEPT !.status = "deleted"]
  <2>1. /\ Known(data[t]) /\ phase = "serving" /\ at[t] = Path(data[t]) /\ at[t] \in Present
        /\ files' = [files EXCEPT ![at[t]] = i]
    BY <1>5 DEF MarkFile, StorageInv, Consistent
  <2>2. Known(i) /\ i.status = "deleted" /\ Path(i) = Path(data[t])
    <3> Known(i)
      BY <2>1, BackfilledKnown
    <3> i.status = "deleted" /\ Path(i) = Path(data[t])
      BY <2>1 DEF Path, Known, Interaction
    <3> QED
      OBVIOUS
  <2> HIDE DEF i
  <2> QED
    BY <1>2, <2>1, <2>2, MarkStep
<1>6. ASSUME NEW i \in snapshot, MigrateMultiFile(i) PROVE Rows' = Rows
  BY <1>6, RenamingKeeps DEF MigrateMultiFile, StorageInv, DiskInv, Rows
<1>7. CASE UNCHANGED vars
  BY <1>3, <1>7 DEF vars, disk
<1>8. CASE Next
  <2>1. CASE \/ Start \/ NextMigration \/ EndMigrations \/ EmptyVersion \/ FinishMigrations \/ Crash
             \/ \E i \in snapshot : MigrateObjectId(i)
    BY <1>3, <2>1 DEF Start, NextMigration, EndMigrations, EmptyVersion, FinishMigrations, Crash,
     MigrateObjectId, disk
  <2>2. ASSUME NEW t \in Threads,
               \/ \E i \in Inputs : BeginStore(t, i)
               \/ WriteObjectIndex(t)
               \/ \E a \in Actors : AddMention(t, a) \/ Unlist(t, a)
               \/ \E w \in Withdrawals : BeginDelete(t, w)
               \/ \E w \in Deletions : BeginDeleteObject(t, w)
               \/ ListFiles(t) \/ EndDelete(t) \/ LookupObject(t) \/ ReadFile(t)
               \/ \E p \in Paths : \/ ScanFile(t, p) \/ NextFile(t, p)
                                   \/ BackfillMentions(t, p) \/ BackfillObjectId(t, p)
               \/ Fail(t)
        PROVE  Rows' = Rows
    BY <1>3, <2>2 DEF BeginStore, WriteObjectIndex, AddMention, Unlist, BeginDelete, BeginDeleteObject,
       ListFiles, EndDelete, LookupObject, ReadFile, ScanFile, NextFile, BackfillMentions,
       BackfillObjectId, Fail, Begin, disk
  <2> QED
    BY <1>4, <1>5, <1>6, <1>8, <2>1, <2>2 DEF Next
<1> QED
  BY <1>7, <1>8

(* ImplementsStore, under the same condition: every write is a Put of the  *)
(* table or a mark in it, and migrations, crashes and the steps on the     *)
(* indexes leave it alone.                                                 *)
THEOREM DirectoryIsStore == ASSUME OneAuthor PROVE Spec => ImplementsStore
<1>1. (Init => StorageInv) /\ (StorageInv /\ [Next]_vars => StorageInv')
  BY AuthorIdentifies, StorageInit, StorageStep
<1>2. StorageInv => Store!StoreInit
  <2> SUFFICES ASSUME StorageInv, NEW r \in Rows, NEW s \in Rows, Store!SameRow(r, s) PROVE r = s
    BY DEF Store!StoreInit, Rows, Row
  <2> PICK p \in Present : r = Row(files[p])
    BY DEF Rows, Contents
  <2> PICK q \in Present : s = Row(files[q])
    BY DEF Rows, Contents
  <2> QED
    BY RowsDistinct
<1>3. StorageInv /\ [Next]_vars => [Store!StoreNext]_Rows
  BY StoreStep
<1>4. StorageInv /\ [Next]_vars => [Store!StoreNext]_({Row(i) : i \in Contents})
  BY <1>3 DEF Rows
<1> QED
  BY <1>1, <1>2, <1>4, PTL DEF Spec, ImplementsStore, Store!StoreSpec

=============================================================================
