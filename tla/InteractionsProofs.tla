------------------------- MODULE InteractionsProofs -------------------------
(* Proofs about Interactions, for every number of threads, every set of    *)
(* activities, configuration and failure: what is stored was eligible, was *)
(* told and stays deleted, and who is told Accept finds an authorization.  *)
EXTENDS Interactions, TLAPS

----------------------------------------------------------------------------
(* The rows of the table, and the activities they are made of.             *)
Row ==
  [source: Actors, target: Resources, type: Types, object: Objects \union {NoObject},
   mentions: SUBSET Actors, status: Statuses, activity: Activities]

Storing(a) == a.kind \in {"Create", "Update", "Like", "Announce"}

(* What ReceivePost lets through.                                          *)
Meant(a) ==
  /\ a.kind = "Create" => Meaning(a)[1] # "nothing"
  /\ a.kind = "Update" => a.doc.reply # NoResource

Believed(a) == a.kind \in {"Create", "Update"} /\ config.strict => Attributed(a.actor, a.doc)

RowTyped(r) ==
  /\ r \in Row
  /\ Storing(r.activity) /\ Meant(r.activity)
  /\ r.source = r.activity.actor
  /\ r.target = Interaction(r.activity).target
  /\ r.type = Interaction(r.activity).type
  /\ r.object = Interaction(r.activity).object

RowEligible(r) ==
  /\ r.activity.kind = "Create" => Storable(r.activity) /\ Believed(r.activity)
  /\ r.activity.kind # "Update" => r.activity \in told

RowDeleted(r) ==
  /\ <<r.source, r.object>> \in gone => r.status = "deleted"
  /\ <<r.source, r.target, r.type>> \in retracted => r.status = "deleted"

RowInv(r) == RowTyped(r) /\ RowEligible(r) /\ RowDeleted(r)

(* What a thread has found out about the activity it handles.              *)
HandTyped(t) ==
  /\ pc[t] = "idle" <=> hand[t] = NoActivity
  /\ pc[t] \in {"author", "tell", "store"} => Storing(hand[t])
  /\ pc[t] = "tell" => hand[t].kind # "Update"
  /\ pc[t] = "undo" => hand[t] \in Undoing
  /\ pc[t] \in {"drop_follower", "delete_object", "delete_typed"} => hand[t] \in Deleting
  /\ pc[t] \in {"quote_author", "authorize", "accept"} => hand[t] \in Quoting

HandChecked(t) ==
  /\ pc[t] \in {"author", "tell", "store"} => Meant(hand[t]) /\ Believed(hand[t])
  /\ pc[t] = "store" /\ hand[t].kind # "Update" => Storable(hand[t]) /\ hand[t] \in told
  /\ pc[t] = "accept" => <<hand[t].instrument, hand[t].target>> \in auths

(* What a thread may still bring back does not count as removed.           *)
HandPending(t) ==
  pc[t] # "idle" => /\ Objecting(hand[t]) \intersect gone = {}
                    /\ Reacted(hand[t]) \intersect retracted = {}

HandInv(t) == HandTyped(t) /\ HandChecked(t) /\ HandPending(t)

VariablesTyped ==
  /\ config \in Configs /\ workload \in Workloads
  /\ auths \subseteq Resources \X Resources
  /\ pc \in [Threads -> Points]
  /\ hand \in [Threads -> Activities \union {NoActivity}]
  /\ turn \in [Threads -> 1..5]
  /\ told \subseteq Activities /\ accepts \subseteq Activities
  /\ gone \subseteq Actors \X Resources
  /\ retracted \subseteq Actors \X Resources \X {"like", "boost"}

StoringInv ==
  /\ VariablesTyped /\ AcceptsAuthorized
  /\ \A r \in table : RowInv(r)
  /\ \A t \in Threads : HandInv(t)

----------------------------------------------------------------------------
(* Activities and what they mean                                           *)

LEMMA KindsApart ==
  ASSUME InteractionsAssumption, NEW a \in Activities
  PROVE  /\ a.kind \in {"Create", "Update"} => a \in Posting
         /\ a.kind \in {"Like", "Announce"} => a \in Reacting
         /\ a.kind = "Delete" => a \in Deleting
         /\ a.kind = "Undo" => a \in Undoing
         /\ a.kind = "QuoteRequest" => a \in Quoting
<1>1. a \in Posting \/ a \in Reacting \/ a \in Deleting \/ a \in Undoing \/ a \in Quoting
  BY DEF InteractionsAssumption
<1>2. /\ a \in Posting => a.kind \in {"Create", "Update"}
      /\ a \in Reacting => a.kind \in {"Like", "Announce"}
      /\ a \in Deleting => a.kind = "Delete"
      /\ a \in Undoing => a.kind = "Undo"
      /\ a \in Quoting => a.kind = "QuoteRequest"
  BY DEF Posting, Reacting, Deleting, Undoing, Quoting
<1> QED
  BY <1>1, <1>2

(* The first quoted resource is one of them.                               *)
LEMMA QuoteTargetNamed ==
  ASSUME NEW doc \in Document
  PROVE  QuoteTarget(doc) \in Resources \union {NoResource}
<1> DEFINE named == {n \in QuoteFields : doc.quotes[n] # NoResource}
<1>1. CASE named = {}
  BY <1>1 DEF QuoteTarget
<1>2. CASE named # {}
  <2>1. \E n \in named : \A m \in named : n <= m
    <3>1. \A n \in named : n \in {1, 2, 3, 4}
      BY DEF QuoteFields
    <3>2. CASE 1 \in named
      BY <3>1, <3>2
    <3>3. CASE 1 \notin named /\ 2 \in named
      BY <3>1, <3>3
    <3>4. CASE 1 \notin named /\ 2 \notin named /\ 3 \in named
      BY <3>1, <3>4
    <3>5. CASE 1 \notin named /\ 2 \notin named /\ 3 \notin named
      BY <1>2, <3>1, <3>5
    <3> QED
      BY <3>2, <3>3, <3>4, <3>5
  <2> DEFINE first == CHOOSE n \in named : \A m \in named : n <= m
  <2>2. first \in named
    BY <2>1
  <2>3. QuoteTarget(doc) = doc.quotes[first]
    BY <1>2 DEF QuoteTarget
  <2>4. doc.quotes \in [QuoteFields -> Resources \union {NoResource}]
    BY DEF Document
  <2> QED
    BY <2>2, <2>3, <2>4
<1> QED
  BY <1>1, <1>2

LEMMA MeaningTyped ==
  ASSUME InteractionsAssumption, NEW a \in Posting, Meaning(a)[1] # "nothing"
  PROVE  Meaning(a)[1] \in {"quote", "reply", "mention"} /\ Meaning(a)[2] \in Resources
<1>1. a.doc \in Document
  BY DEF Posting
<1>2. QuoteTarget(a.doc) \in Resources \union {NoResource}
  BY <1>1, QuoteTargetNamed
<1>3. a.doc.reply \in Resources \union {NoResource}
  BY <1>1 DEF Document
<1>4. Us \in Resources
  BY DEF InteractionsAssumption
<1>5. CASE QuoteTarget(a.doc) # NoResource
  BY <1>2, <1>5 DEF Meaning
<1>6. CASE QuoteTarget(a.doc) = NoResource /\ a.doc.reply # NoResource
  BY <1>3, <1>6 DEF Meaning
<1>7. CASE QuoteTarget(a.doc) = NoResource /\ a.doc.reply = NoResource
  BY <1>4, <1>7 DEF Meaning
<1> QED
  BY <1>5, <1>6, <1>7

(* What is stored for an activity.                                         *)
LEMMA InteractionTyped ==
  ASSUME InteractionsAssumption, NEW a \in Activities, Storing(a), Meant(a)
  PROVE  /\ Interaction(a) \in Row
         /\ Interaction(a).source = a.actor /\ Interaction(a).activity = a
         /\ a.kind \in {"Create", "Update"} => /\ Interaction(a).object = a.doc.id
                                               /\ Interaction(a).type \notin {"like", "boost"}
         /\ a.kind = "Create" => Interaction(a).mentions = a.doc.tags
         /\ a.kind = "Like" => /\ Interaction(a).object = NoObject
                               /\ Interaction(a).type = "like" /\ Interaction(a).target = a.target
         /\ a.kind = "Announce" => /\ Interaction(a).object = NoObject
                                   /\ Interaction(a).type = "boost" /\ Interaction(a).target = a.target
<1> USE DEF Made, Row, Types, Statuses
<1>1. CASE a.kind = "Create"
  <2>1. a \in Posting /\ Meaning(a)[1] # "nothing"
    BY <1>1, KindsApart DEF Meant
  <2>2. Meaning(a)[1] \in {"quote", "reply", "mention"} /\ Meaning(a)[2] \in Resources
    BY <2>1, MeaningTyped
  <2>3. a.actor \in Actors /\ a.doc.id \in Objects \union {NoObject} /\ a.doc.tags \in SUBSET Actors
    BY <2>1 DEF Posting, Document
  <2>4. Interaction(a) = Made(a, Meaning(a)[1], Meaning(a)[2], a.doc.id, a.doc.tags)
    BY <1>1 DEF Interaction
  <2> QED
    BY <1>1, <2>2, <2>3, <2>4
<1>2. CASE a.kind = "Update"
  <2>1. a \in Posting /\ a.doc.reply # NoResource
    BY <1>2, KindsApart DEF Meant
  <2>2. /\ a.actor \in Actors /\ a.doc.id \in Objects \union {NoObject}
        /\ a.doc.reply \in Resources
    BY <2>1 DEF Posting, Document
  <2>3. Interaction(a) = Made(a, "reply", a.doc.reply, a.doc.id, {})
    BY <1>2 DEF Interaction
  <2> QED
    BY <1>2, <2>2, <2>3
<1>3. CASE a.kind = "Like"
  <2>1. a.actor \in Actors /\ a.target \in Resources
    BY <1>3, KindsApart DEF Reacting
  <2>2. Interaction(a) = Made(a, "like", a.target, NoObject, {})
    BY <1>3 DEF Interaction
  <2> QED
    BY <1>3, <2>1, <2>2
<1>4. CASE a.kind = "Announce"
  <2>1. a.actor \in Actors /\ a.target \in Resources
    BY <1>4, KindsApart DEF Reacting
  <2>2. Interaction(a) = Made(a, "boost", a.target, NoObject, {})
    BY <1>4 DEF Interaction
  <2> QED
    BY <1>4, <2>1, <2>2
<1> QED
  BY <1>1, <1>2, <1>3, <1>4 DEF Storing

----------------------------------------------------------------------------
(* What steps keep                                                         *)

LEMMA RowStays ==
  ASSUME NEW r, RowInv(r), UNCHANGED config, told \subseteq told',
         gone' \subseteq gone, retracted' \subseteq retracted
  PROVE  RowInv(r)'
<1>1. RowTyped(r)'
  BY DEF RowInv, RowTyped, Meant
<1>2. RowEligible(r)'
  BY DEF RowInv, RowEligible, Storable, ShouldStore, Believed
<1>3. RowDeleted(r)'
  BY DEF RowInv, RowDeleted
<1> QED
  BY <1>1, <1>2, <1>3 DEF RowInv

LEMMA HandStays ==
  ASSUME NEW t \in Threads, HandInv(t), pc'[t] = pc[t], hand'[t] = hand[t], UNCHANGED config,
         told \subseteq told', auths \subseteq auths',
         pc[t] # "idle" => /\ Objecting(hand[t]) \intersect gone' = {}
                           /\ Reacted(hand[t]) \intersect retracted' = {}
  PROVE  HandInv(t)'
<1>1. HandTyped(t)'
  BY DEF HandInv, HandTyped
<1>2. HandChecked(t)'
  BY DEF HandInv, HandChecked, Meant, Believed, Storable, ShouldStore
<1>3. HandPending(t)'
  BY DEF HandInv, HandPending
<1> QED
  BY <1>1, <1>2, <1>3 DEF HandInv

(* A step of one thread that puts no more under gone and retracted than it *)
(* may.                                                                    *)
LEMMA StepSuffices ==
  ASSUME StoringInv, NEW t \in Threads, UNCHANGED config,
         told \subseteq told', auths \subseteq auths',
         \A u \in Threads \ {t} : pc'[u] = pc[u] /\ hand'[u] = hand[u],
         \A u \in Threads \ {t} :
           pc[u] # "idle" => /\ Objecting(hand[u]) \intersect gone' = {}
                             /\ Reacted(hand[u]) \intersect retracted' = {},
         VariablesTyped', AcceptsAuthorized', \A r \in table' : RowInv(r)', HandInv(t)'
  PROVE  StoringInv'
<1>1. ASSUME NEW u \in Threads \ {t} PROVE HandInv(u)'
  BY HandStays DEF StoringInv
<1> QED
  BY <1>1 DEF StoringInv

(* A thread has a hand for what it does.                                   *)
LEMMA HandTaken ==
  ASSUME StoringInv, NEW t \in Threads, pc[t] # "idle"
  PROVE  hand[t] \in Activities
BY DEF StoringInv, VariablesTyped, HandInv, HandTyped

LEMMA PendingOf ==
  ASSUME StoringInv, NEW u \in Threads, pc[u] # "idle"
  PROVE  Objecting(hand[u]) \intersect gone = {} /\ Reacted(hand[u]) \intersect retracted = {}
BY DEF StoringInv, HandInv, HandPending

LEMMA GotoTyped ==
  ASSUME VariablesTyped, NEW t \in Threads, NEW p \in Points, Goto(t, p)
  PROVE  /\ pc' \in [Threads -> Points] /\ pc'[t] = p
         /\ \A u \in Threads \ {t} : pc'[u] = pc[u]
         /\ UNCHANGED <<hand, turn>>
BY DEF Goto, VariablesTyped

LEMMA LeaveTyped ==
  ASSUME VariablesTyped, NEW t \in Threads, Leave(t)
  PROVE  /\ pc' \in [Threads -> Points] /\ pc'[t] = "idle"
         /\ hand' \in [Threads -> Activities \union {NoActivity}] /\ hand'[t] = NoActivity
         /\ turn' \in [Threads -> 1..5]
         /\ \A u \in Threads \ {t} : pc'[u] = pc[u] /\ hand'[u] = hand[u]
BY DEF Leave, VariablesTyped, Points

LEMMA IdleHand ==
  ASSUME NEW t \in Threads, pc'[t] = "idle", hand'[t] = NoActivity
  PROVE  HandInv(t)'
BY DEF HandInv, HandTyped, HandChecked, HandPending

(* Ending an activity, with rows that are as they should be.               *)
LEMMA LeaveSuffices ==
  ASSUME StoringInv, NEW t \in Threads, Leave(t), UNCHANGED <<config, workload, gone, retracted>>,
         told \subseteq told', told' \subseteq Activities,
         auths \subseteq auths', auths' \subseteq Resources \X Resources,
         accepts' \subseteq Activities, AcceptsAuthorized', \A r \in table' : RowInv(r)'
  PROVE  StoringInv'
<1>1. VariablesTyped'
  BY LeaveTyped DEF StoringInv, VariablesTyped
<1>2. HandInv(t)' /\ \A u \in Threads \ {t} : pc'[u] = pc[u] /\ hand'[u] = hand[u]
  BY LeaveTyped, IdleHand DEF StoringInv
<1> QED
  BY <1>1, <1>2, PendingOf, StepSuffices

(* A row is an old one that is not in R, or is deleted and has the key of  *)
(* an old one.                                                             *)
Outlived(r, R) ==
  \E s \in table : /\ <<r.source, r.target, r.type, r.object>> =
                        <<s.source, s.target, s.type, s.object>>
                   /\ (r = s /\ s \notin R) \/ r.status = "deleted"

(* Marking rows keeps what is known of them.                               *)
LEMMA MarkedRows ==
  ASSUME \A r \in table : RowInv(r), NEW R, NEW r \in Marked(table, R), R \subseteq table
  PROVE  RowInv(r) /\ Outlived(r, R)
<1>1. CASE r \in table \ R
  BY <1>1 DEF Outlived
<1>2. CASE r \notin table \ R
  <2>1. PICK s \in R : r = [s EXCEPT !.status = "deleted"]
    BY <1>2 DEF Marked
  <2>2. RowInv(s) /\ s \in Row
    BY <2>1 DEF RowInv, RowTyped
  <2>3. /\ r \in Row /\ r.source = s.source /\ r.target = s.target /\ r.type = s.type
        /\ r.object = s.object /\ r.activity = s.activity /\ r.status = "deleted"
    BY <2>1, <2>2 DEF Row, Statuses
  <2>4. RowTyped(r) /\ RowEligible(r) /\ RowDeleted(r)
    BY <2>2, <2>3 DEF RowInv, RowTyped, RowEligible, RowDeleted
  <2> QED
    BY <2>1, <2>3, <2>4 DEF RowInv, Outlived
<1> QED
  BY <1>1, <1>2

(* The row a thread stores, whole or with some of its mentions.            *)
LEMMA StoredRow ==
  ASSUME InteractionsAssumption, StoringInv, NEW t \in Threads, pc[t] = "store",
         NEW r, \/ r = Interaction(hand[t])
                \/ \E m \in SUBSET Actors :
                     r = [Interaction(hand[t]) EXCEPT !.mentions = m]
  PROVE  RowInv(r)
<1> DEFINE a == hand[t]
           i == Interaction(a)
<1>1. /\ a \in Activities /\ Storing(a) /\ Meant(a) /\ Believed(a)
      /\ a.kind # "Update" => Storable(a) /\ a \in told
      /\ Objecting(a) \intersect gone = {} /\ Reacted(a) \intersect retracted = {}
  BY HandTaken, PendingOf DEF StoringInv, HandInv, HandTyped, HandChecked
<1>2. i \in Row /\ i.activity = a /\ i.source = a.actor
  BY <1>1, InteractionTyped
<1>3. /\ r \in Row /\ r.activity = a /\ r.source = a.actor /\ r.target = i.target
      /\ r.type = i.type /\ r.object = i.object
  <2>1. CASE r = i
    BY <1>2, <2>1
  <2>2. CASE r # i
    <3>1. PICK m \in SUBSET Actors : r = [i EXCEPT !.mentions = m]
      BY <2>2
    <3> HIDE DEF i, a
    <3> QED
      BY <1>2, <3>1 DEF Row
  <2> QED
    BY <2>1, <2>2
<1>4. RowTyped(r)
  BY <1>1, <1>3 DEF RowTyped
<1>5. RowEligible(r)
  BY <1>1, <1>3 DEF RowEligible
<1>6. RowDeleted(r)
  <2>1. a.kind \in {"Create", "Update"} => a \in Posting
    BY <1>1, KindsApart
  <2>2. <<r.source, r.object>> \notin gone
    <3>1. CASE a.kind \in {"Create", "Update"}
      <4>1. <<r.source, r.object>> \in Objecting(a)
        BY <1>1, <1>3, <3>1, InteractionTyped DEF Objecting
      <4> QED
        BY <1>1, <4>1
    <3>2. CASE a.kind \in {"Like", "Announce"}
      <4>1. r.object = NoObject
        BY <1>1, <1>3, <3>2, InteractionTyped
      <4>2. gone \subseteq Actors \X Resources /\ NoObject \notin Resources
        BY DEF StoringInv, VariablesTyped, InteractionsAssumption
      <4> QED
        BY <4>1, <4>2
    <3> QED
      BY <1>1, <3>1, <3>2 DEF Storing
  <2>3. <<r.source, r.target, r.type>> \notin retracted
    <3>1. CASE a.kind \in {"Create", "Update"}
      <4>1. r.type \notin {"like", "boost"}
        BY <1>1, <1>3, <3>1, InteractionTyped
      <4>2. retracted \subseteq Actors \X Resources \X {"like", "boost"}
        BY DEF StoringInv, VariablesTyped
      <4> QED
        BY <4>1, <4>2
    <3>2. CASE a.kind \in {"Like", "Announce"}
      <4>1. <<r.source, r.target, r.type>> \in Reacted(a)
        BY <1>1, <1>3, <3>2, InteractionTyped DEF Reacted
      <4> QED
        BY <1>1, <4>1
    <3> QED
      BY <1>1, <3>1, <3>2 DEF Storing
  <2> QED
    BY <2>2, <2>3 DEF RowDeleted
<1> QED
  BY <1>4, <1>5, <1>6 DEF RowInv

----------------------------------------------------------------------------
(* An activity is taken up                                                 *)

LEMMA StoringInvInit ==
  ASSUME InteractionsAssumption, Init
  PROVE  StoringInv
BY DEF Init, StoringInv, VariablesTyped, AcceptsAuthorized, HandInv, HandTyped, HandChecked,
       HandPending, Points

LEMMA TakeSuffices ==
  ASSUME InteractionsAssumption, StoringInv, NEW t \in Threads, NEW a \in Activities,
         NEW p \in Points \ {"idle"}, Take(t, a, p), gone' \subseteq gone, retracted' \subseteq retracted,
         p \in {"author", "drop_follower", "delete_object", "undo", "quote_author"},
         p = "author" => Storing(a) /\ Meant(a) /\ Believed(a),
         p = "undo" => a \in Undoing,
         p \in {"drop_follower", "delete_object"} => a \in Deleting,
         p = "quote_author" => a \in Quoting,
         Objecting(a) \intersect gone' = {}, Reacted(a) \intersect retracted' = {}
  PROVE  StoringInv'
<1>1. /\ pc'[t] = p /\ hand'[t] = a
      /\ \A u \in Threads \ {t} : pc'[u] = pc[u] /\ hand'[u] = hand[u]
      /\ pc' \in [Threads -> Points] /\ hand' \in [Threads -> Activities \union {NoActivity}]
      /\ UNCHANGED <<config, workload, table, auths, turn, told, accepts>>
  BY DEF Take, StoringInv, VariablesTyped
<1>2. VariablesTyped' /\ AcceptsAuthorized'
  BY <1>1 DEF StoringInv, VariablesTyped, AcceptsAuthorized
<1>3. \A r \in table' : RowInv(r)'
  BY <1>1, RowStays DEF StoringInv
<1>4. HandInv(t)'
  <2>1. HandTyped(t)'
    BY <1>1 DEF HandTyped, InteractionsAssumption
  <2>2. HandChecked(t)'
    BY <1>1 DEF HandChecked, Meant, Believed
  <2>3. HandPending(t)'
    BY <1>1 DEF HandPending
  <2> QED
    BY <2>1, <2>2, <2>3 DEF HandInv
<1>5. ASSUME NEW u \in Threads \ {t}, pc[u] # "idle"
      PROVE  Objecting(hand[u]) \intersect gone' = {} /\ Reacted(hand[u]) \intersect retracted' = {}
  BY <1>5, PendingOf
<1> QED
  BY <1>1, <1>2, <1>3, <1>4, <1>5, StepSuffices

LEMMA ReceiveKeeps ==
  ASSUME InteractionsAssumption, StoringInv, NEW t \in Threads, NEW a \in Activities, Receive(t, a)
  PROVE  StoringInv'
<1>1. CASE ReceivePost(t, a)
  <2>1. Storing(a) /\ Meant(a) /\ Believed(a)
    BY <1>1 DEF ReceivePost, Storing, Meant, Believed
  <2>2. /\ Take(t, a, "author") /\ gone' \subseteq gone /\ retracted' \subseteq retracted
        /\ Objecting(a) \intersect gone' = {} /\ Reacted(a) \intersect retracted' = {}
    BY <1>1 DEF ReceivePost, Reacted
  <2> QED
    BY <2>1, <2>2, TakeSuffices DEF Points
<1>2. CASE ReceiveReaction(t, a)
  <2>1. Storing(a) /\ Meant(a) /\ Believed(a)
    BY <1>2 DEF ReceiveReaction, Storing, Meant, Believed
  <2>2. /\ Take(t, a, "author") /\ gone' \subseteq gone /\ retracted' \subseteq retracted
        /\ Objecting(a) \intersect gone' = {} /\ Reacted(a) \intersect retracted' = {}
    BY <1>2 DEF ReceiveReaction, Objecting
  <2> QED
    BY <2>1, <2>2, TakeSuffices DEF Points
<1>3. CASE ReceiveUndo(t, a)
  <2>1. a \in Undoing /\ Objecting(a) = {} /\ Reacted(a) = {}
    BY <1>3, KindsApart DEF ReceiveUndo, Objecting, Reacted
  <2>2. Take(t, a, "undo") /\ UNCHANGED <<gone, retracted>>
    BY <1>3 DEF ReceiveUndo
  <2> QED
    BY <2>1, <2>2, TakeSuffices DEF Points
<1>4. CASE ReceiveDelete(t, a)
  <2>1. a \in Deleting /\ Objecting(a) = {} /\ Reacted(a) = {}
    BY <1>4, KindsApart DEF ReceiveDelete, Objecting, Reacted
  <2>2. /\ Take(t, a, "drop_follower") \/ Take(t, a, "delete_object")
        /\ UNCHANGED <<gone, retracted>>
    BY <1>4 DEF ReceiveDelete
  <2> QED
    BY <2>1, <2>2, TakeSuffices DEF Points
<1>5. CASE ReceiveQuoteRequest(t, a)
  <2>1. a \in Quoting /\ Objecting(a) = {} /\ Reacted(a) = {}
    BY <1>5, KindsApart DEF ReceiveQuoteRequest, Objecting, Reacted
  <2>2. Take(t, a, "quote_author") /\ UNCHANGED <<gone, retracted>>
    BY <1>5 DEF ReceiveQuoteRequest
  <2> QED
    BY <2>1, <2>2, TakeSuffices DEF Points
<1> QED
  BY <1>1, <1>2, <1>3, <1>4, <1>5 DEF Receive

----------------------------------------------------------------------------
(* It is carried on                                                        *)

LEMMA GotoSuffices ==
  ASSUME StoringInv, NEW t \in Threads, NEW p \in Points, Goto(t, p),
         UNCHANGED <<config, workload, accepts, gone, retracted>>,
         told \subseteq told', told' \subseteq Activities,
         auths \subseteq auths', auths' \subseteq Resources \X Resources,
         \A r \in table' : RowInv(r)', HandInv(t)'
  PROVE  StoringInv'
<1>1. VariablesTyped' /\ AcceptsAuthorized'
  BY GotoTyped DEF StoringInv, VariablesTyped, AcceptsAuthorized
<1>2. \A u \in Threads \ {t} : pc'[u] = pc[u] /\ hand'[u] = hand[u]
  BY GotoTyped DEF StoringInv
<1> QED
  BY <1>1, <1>2, PendingOf, StepSuffices

LEMMA RowsStay ==
  ASSUME StoringInv, UNCHANGED <<config, gone, retracted, table>>, told \subseteq told'
  PROVE  \A r \in table' : RowInv(r)'
BY RowStays DEF StoringInv

(* An activity is given up.                                                *)
LEMMA LeaveAlone ==
  ASSUME StoringInv, NEW t \in Threads, Leave(t),
         UNCHANGED <<config, workload, table, auths, history>>
  PROVE  StoringInv'
<1>1. \A r \in table' : RowInv(r)'
  BY RowsStay DEF history
<1> QED
  BY <1>1, LeaveSuffices DEF history, StoringInv, VariablesTyped, AcceptsAuthorized

LEMMA HandAtNext ==
  ASSUME StoringInv, NEW t \in Threads, pc[t] # "idle", pc'[t] # "idle", hand'[t] = hand[t],
         UNCHANGED <<config, gone, retracted>>,
         HandTyped(t)', HandChecked(t)'
  PROVE  HandInv(t)'
BY PendingOf DEF HandInv, HandPending

LEMMA FetchAuthorKeeps ==
  ASSUME StoringInv, NEW t \in Threads, FetchAuthor(t)
  PROVE  StoringInv'
<1> DEFINE p == IF hand[t].kind = "Update" THEN "store" ELSE "tell"
<1>1. Goto(t, p) /\ p \in Points /\ p # "idle" /\ pc[t] = "author"
  BY DEF FetchAuthor, Points
<1>2. UNCHANGED <<config, workload, table, auths, told, accepts, gone, retracted>>
  BY DEF FetchAuthor, history
<1>3. pc'[t] = p /\ hand'[t] = hand[t]
  BY <1>1, GotoTyped DEF StoringInv
<1>4. HandTyped(t)' /\ HandChecked(t)'
  <2>1. HandTyped(t) /\ HandChecked(t)
    BY DEF StoringInv, HandInv
  <2> QED
    BY <1>1, <1>2, <1>3, <2>1 DEF HandTyped, HandChecked, Meant, Believed
<1>5. HandInv(t)'
  BY <1>1, <1>2, <1>3, <1>4, HandAtNext
<1>6. \A r \in table' : RowInv(r)'
  BY <1>2, RowsStay
<1>7. told' \subseteq Activities /\ auths' \subseteq Resources \X Resources
  BY <1>2 DEF StoringInv, VariablesTyped
<1> QED
  BY <1>1, <1>2, <1>5, <1>6, <1>7, GotoSuffices

LEMMA TellKeeps ==
  ASSUME StoringInv, NEW t \in Threads, Tell(t)
  PROVE  StoringInv'
<1>1. /\ pc[t] = "tell" /\ UNCHANGED <<config, workload, table, auths, accepts, gone, retracted>>
      /\ hand[t] \in Activities
  BY HandTaken DEF Tell
<1>2. CASE told' = told \union {hand[t]} /\ Storable(hand[t]) /\ Goto(t, "store")
  <2>1. pc'[t] = "store" /\ hand'[t] = hand[t] /\ "store" \in Points
    BY <1>2, GotoTyped DEF StoringInv, Points
  <2>2. HandTyped(t) /\ HandChecked(t)
    BY DEF StoringInv, HandInv
  <2>3. HandTyped(t)'
    BY <1>1, <2>1, <2>2 DEF HandTyped
  <2>4. HandChecked(t)'
    BY <1>1, <1>2, <2>1, <2>2 DEF HandChecked, Meant, Believed, Storable, ShouldStore
  <2>5. HandInv(t)'
    BY <1>1, <2>1, <2>3, <2>4, HandAtNext
  <2>6. \A r \in table' : RowInv(r)'
    BY <1>1, <1>2, RowsStay
  <2>7. told' \subseteq Activities /\ auths' \subseteq Resources \X Resources
    BY <1>1, <1>2 DEF StoringInv, VariablesTyped
  <2> QED
    BY <1>1, <1>2, <2>1, <2>5, <2>6, <2>7, GotoSuffices
<1>3. CASE told' = told \union {hand[t]} /\ Leave(t)
  <2>1. \A r \in table' : RowInv(r)'
    BY <1>1, <1>3, RowsStay
  <2> QED
    BY <1>1, <1>3, <2>1, LeaveSuffices DEF StoringInv, VariablesTyped, AcceptsAuthorized
<1>4. CASE Leave(t) /\ UNCHANGED told
  BY <1>1, <1>4, LeaveAlone DEF history
<1> QED
  BY <1>2, <1>3, <1>4 DEF Tell

LEMMA StoreKeeps ==
  ASSUME InteractionsAssumption, StoringInv, NEW t \in Threads, Store(t)
  PROVE  StoringInv'
<1> DEFINE i == Interaction(hand[t])
<1>1. /\ pc[t] = "store" /\ Leave(t)
      /\ UNCHANGED <<config, workload, auths, told, accepts, gone, retracted>>
  BY DEF Store, history
<1>2. ASSUME NEW r \in table'
      PROVE  \/ r \in table \/ r = i
             \/ \E m \in SUBSET Actors : r = [i EXCEPT !.mentions = m]
  <2>1. CASE UNCHANGED table
    BY <2>1
  <2>2. CASE Put(i)
    BY <2>2 DEF Put, Upserted
  <2>3. CASE \E m \in SUBSET Actors : table' = Upserted(table, [i EXCEPT !.mentions = m])
    <3>1. PICK m \in SUBSET Actors : table' = Upserted(table, [i EXCEPT !.mentions = m])
      BY <2>3
    <3> HIDE DEF i
    <3> QED
      BY <3>1 DEF Upserted
  <2> QED
    BY <2>1, <2>2, <2>3 DEF Store
<1>3. ASSUME NEW r \in table' PROVE RowInv(r)
  <2>1. CASE r \in table
    BY <2>1 DEF StoringInv
  <2>2. CASE r = i
    BY <1>1, <2>2, StoredRow
  <2>3. CASE \E m \in SUBSET Actors : r = [i EXCEPT !.mentions = m]
    BY <1>1, <2>3, StoredRow
  <2> QED
    BY <1>2, <2>1, <2>2, <2>3
<1>4. \A r \in table' : RowInv(r)'
  BY <1>1, <1>3, RowStays
<1> QED
  BY <1>1, <1>4, LeaveSuffices DEF StoringInv, VariablesTyped, AcceptsAuthorized

----------------------------------------------------------------------------
(* It removes                                                              *)

LEMMA UndoKeeps ==
  ASSUME InteractionsAssumption, StoringInv, NEW t \in Threads, Undo(t)
  PROVE  StoringInv'
<1> DEFINE g == <<hand[t].actor, hand[t].target, hand[t].type>>
           found == OfResource(table, hand[t].actor, hand[t].target, hand[t].type)
<1>1. pc[t] = "undo" /\ UNCHANGED <<config, workload, told, accepts, gone>>
  BY DEF Undo
<1>2. CASE CallFails(t) /\ UNCHANGED retracted
  BY <1>1, <1>2, LeaveAlone DEF CallFails, history
<1>3. CASE /\ table' = Marked(table, found) /\ Leave(t) /\ UNCHANGED auths
           /\ retracted' = IF NobodyReacts(t) THEN retracted \union {g} ELSE retracted
  <2>1. g \in Actors \X Resources \X {"like", "boost"}
    BY <1>1 DEF StoringInv, HandInv, HandTyped, Undoing
  <2>2. VariablesTyped'
    <3>1. retracted' \subseteq Actors \X Resources \X {"like", "boost"}
      BY <1>3, <2>1 DEF StoringInv, VariablesTyped
    <3> QED
      BY <1>1, <1>3, <3>1, LeaveTyped DEF StoringInv, VariablesTyped
  <2>3. ASSUME NEW r \in table' PROVE RowInv(r)'
    <3>1. found \subseteq table
      BY DEF OfResource
    <3>2. RowInv(r) /\ Outlived(r, found)
      <4>1. r \in Marked(table, found) /\ \A s \in table : RowInv(s)
        BY <1>3 DEF StoringInv
      <4> HIDE DEF found
      <4> QED
        BY <3>1, <4>1, MarkedRows
    <3>3. <<r.source, r.target, r.type>> = g => r.status = "deleted"
      BY <3>2 DEF Outlived, OfResource
    <3>4. RowDeleted(r)'
      BY <1>1, <1>3, <3>2, <3>3 DEF RowInv, RowDeleted
    <3>5. RowTyped(r)' /\ RowEligible(r)'
      BY <1>1, <3>2 DEF RowInv, RowTyped, RowEligible, Meant, Storable, ShouldStore, Believed
    <3> QED
      BY <3>4, <3>5 DEF RowInv
  <2>4. ASSUME NEW u \in Threads \ {t}, pc[u] # "idle"
        PROVE  Objecting(hand[u]) \intersect gone' = {} /\ Reacted(hand[u]) \intersect retracted' = {}
    <3>1. hand[u] # NoActivity
      BY <2>4 DEF StoringInv, HandInv, HandTyped
    <3>2. NobodyReacts(t) => g \notin Reacted(hand[u])
      BY <3>1 DEF NobodyReacts
    <3> HIDE DEF g
    <3> QED
      BY <1>1, <1>3, <2>4, <3>2, PendingOf
  <2>5. HandInv(t)' /\ \A u \in Threads \ {t} : pc'[u] = pc[u] /\ hand'[u] = hand[u]
    BY <1>3, LeaveTyped, IdleHand DEF StoringInv
  <2>6. AcceptsAuthorized'
    BY <1>1, <1>3 DEF StoringInv, AcceptsAuthorized
  <2> QED
    BY <1>1, <1>3, <2>2, <2>3, <2>4, <2>5, <2>6, StepSuffices
<1> QED
  BY <1>2, <1>3 DEF Undo

LEMMA DropFollowerKeeps ==
  ASSUME StoringInv, NEW t \in Threads, DropFollower(t)
  PROVE  StoringInv'
<1>1. pc[t] = "drop_follower" /\ UNCHANGED <<config, workload, table, auths, told, accepts, gone, retracted>>
  BY DEF DropFollower, history
<1>2. CASE Goto(t, "delete_object")
  <2>1. pc'[t] = "delete_object" /\ hand'[t] = hand[t] /\ "delete_object" \in Points
    BY <1>2, GotoTyped DEF StoringInv, Points
  <2>2. HandTyped(t)' /\ HandChecked(t)'
    BY <1>1, <2>1 DEF StoringInv, HandInv, HandTyped, HandChecked
  <2>3. HandInv(t)'
    BY <1>1, <2>1, <2>2, HandAtNext
  <2>4. \A r \in table' : RowInv(r)'
    BY <1>1, RowsStay
  <2>5. told' \subseteq Activities /\ auths' \subseteq Resources \X Resources
    BY <1>1 DEF StoringInv, VariablesTyped
  <2> QED
    BY <1>1, <1>2, <2>1, <2>3, <2>4, <2>5, GotoSuffices
<1>3. CASE Leave(t)
  BY <1>1, <1>3, LeaveAlone DEF history
<1> QED
  BY <1>2, <1>3 DEF DropFollower

(* Marking rows, with nothing else to show for it.                         *)
LEMMA MarkedStay ==
  ASSUME StoringInv, NEW R, R \subseteq table, table' = Marked(table, R),
         UNCHANGED <<config, told, gone, retracted>>
  PROVE  \A r \in table' : RowInv(r)'
<1>1. ASSUME NEW r \in table' PROVE RowInv(r)
  BY MarkedRows DEF StoringInv
<1> QED
  BY <1>1, RowStays

LEMMA DeleteObjectKeeps ==
  ASSUME InteractionsAssumption, StoringInv, NEW t \in Threads, DeleteObject(t)
  PROVE  StoringInv'
<1> DEFINE g == <<hand[t].actor, hand[t].target>>
           found == OfObject(table, hand[t].actor, hand[t].target)
<1>1. pc[t] = "delete_object" /\ UNCHANGED <<config, workload, told, accepts, retracted>>
  BY DEF DeleteObject
<1>2. CASE CallFails(t) /\ UNCHANGED gone
  BY <1>1, <1>2, LeaveAlone DEF CallFails, history
<1>3. CASE /\ table' = Marked(table, found) /\ UNCHANGED auths
           /\ gone' = IF NobodyPosts(t) /\ hand[t].target # NoObject THEN gone \union {g} ELSE gone
           /\ IF found = {} THEN Goto(t, "delete_typed") ELSE Leave(t)
  <2>0. hand[t] \in Deleting
    BY <1>1 DEF StoringInv, HandInv, HandTyped
  <2>1. hand[t].target # NoObject => g \in Actors \X Resources
    BY <2>0 DEF Deleting
  <2>2. gone' \subseteq Actors \X Resources
    BY <1>3, <2>1 DEF StoringInv, VariablesTyped
  <2>3. VariablesTyped' /\ \A u \in Threads \ {t} : pc'[u] = pc[u] /\ hand'[u] = hand[u]
    <3>1. CASE Goto(t, "delete_typed")
      <4>1. /\ pc' \in [Threads -> Points] /\ UNCHANGED <<hand, turn>>
            /\ \A u \in Threads \ {t} : pc'[u] = pc[u]
        BY <3>1, GotoTyped DEF StoringInv, Points
      <4> QED
        BY <1>1, <1>3, <2>2, <4>1 DEF StoringInv, VariablesTyped
    <3>2. CASE Leave(t)
      BY <1>1, <1>3, <2>2, <3>2, LeaveTyped DEF StoringInv, VariablesTyped
    <3> QED
      BY <1>3, <3>1, <3>2
  <2>4. ASSUME NEW r \in table' PROVE RowInv(r)'
    <3>1. found \subseteq table
      BY DEF OfObject
    <3>2. RowInv(r) /\ Outlived(r, found)
      <4>1. r \in Marked(table, found) /\ \A s \in table : RowInv(s)
        BY <1>3 DEF StoringInv
      <4> HIDE DEF found
      <4> QED
        BY <3>1, <4>1, MarkedRows
    <3>3. <<r.source, r.object>> = g => r.status = "deleted"
      BY <3>2 DEF Outlived, OfObject
    <3>4. RowDeleted(r)'
      BY <1>1, <1>3, <3>2, <3>3 DEF RowInv, RowDeleted
    <3>5. RowTyped(r)' /\ RowEligible(r)'
      BY <1>1, <3>2 DEF RowInv, RowTyped, RowEligible, Meant, Storable, ShouldStore, Believed
    <3> QED
      BY <3>4, <3>5 DEF RowInv
  <2>5. ASSUME NEW u \in Threads \ {t}, pc[u] # "idle"
        PROVE  Objecting(hand[u]) \intersect gone' = {} /\ Reacted(hand[u]) \intersect retracted' = {}
    <3>1. hand[u] # NoActivity
      BY <2>5 DEF StoringInv, HandInv, HandTyped
    <3>2. NobodyPosts(t) => g \notin Objecting(hand[u])
      BY <3>1 DEF NobodyPosts
    <3> HIDE DEF g
    <3> QED
      BY <1>1, <1>3, <2>5, <3>2, PendingOf
  <2>6. HandInv(t)'
    <3>1. CASE Goto(t, "delete_typed")
      <4>1. pc'[t] = "delete_typed" /\ hand'[t] = hand[t]
        BY <3>1, GotoTyped DEF StoringInv, Points
      <4>2. hand[t] # NoActivity
        BY <1>1 DEF StoringInv, HandInv, HandTyped
      <4>3. Objecting(hand[t]) = {} /\ Reacted(hand[t]) = {}
        BY <2>0 DEF Deleting, Objecting, Reacted
      <4> QED
        BY <2>0, <4>1, <4>2, <4>3 DEF HandInv, HandTyped, HandChecked, HandPending
    <3>2. CASE Leave(t)
      BY <3>2, LeaveTyped, IdleHand DEF StoringInv
    <3> QED
      BY <1>3, <3>1, <3>2
  <2>7. AcceptsAuthorized'
    BY <1>1, <1>3 DEF StoringInv, AcceptsAuthorized
  <2> QED
    BY <1>1, <1>3, <2>3, <2>4, <2>5, <2>6, <2>7, StepSuffices
<1> QED
  BY <1>2, <1>3 DEF DeleteObject

LEMMA DeleteTypedKeeps ==
  ASSUME StoringInv, NEW t \in Threads, DeleteTyped(t)
  PROVE  StoringInv'
<1> DEFINE found == OfResource(table, hand[t].actor, hand[t].target, Variants[turn[t]])
<1>1. pc[t] = "delete_typed" /\ UNCHANGED <<config, workload, told, accepts, gone, retracted>>
  BY DEF DeleteTyped, history
<1>2. CASE CallFails(t)
  BY <1>1, <1>2, LeaveAlone DEF CallFails, history
<1>3. CASE table' = Marked(table, found) /\ UNCHANGED auths /\ Leave(t)
  <2>1. \A r \in table' : RowInv(r)'
    BY <1>1, <1>3, MarkedStay DEF OfResource
  <2> QED
    BY <1>1, <1>3, <2>1, LeaveSuffices DEF StoringInv, VariablesTyped, AcceptsAuthorized
<1>4. CASE /\ table' = Marked(table, found) /\ UNCHANGED auths
           /\ turn[t] # 5 /\ turn' = [turn EXCEPT ![t] = @ + 1] /\ UNCHANGED <<pc, hand>>
  <2>1. \A r \in table' : RowInv(r)'
    BY <1>1, <1>4, MarkedStay DEF OfResource
  <2>2. turn[t] \in 1..5 /\ turn[t] + 1 \in 1..5
    BY <1>4 DEF StoringInv, VariablesTyped
  <2>3. VariablesTyped' /\ AcceptsAuthorized'
    BY <1>1, <1>4, <2>2 DEF StoringInv, VariablesTyped, AcceptsAuthorized
  <2>4. HandInv(t)'
    BY <1>1, <1>4, PendingOf, HandStays DEF StoringInv
  <2> QED
    BY <1>1, <1>4, <2>1, <2>3, <2>4, PendingOf, StepSuffices
<1> QED
  BY <1>2, <1>3, <1>4 DEF DeleteTyped

----------------------------------------------------------------------------
(* Quote requests                                                          *)

LEMMA FetchQuoteAuthorKeeps ==
  ASSUME StoringInv, NEW t \in Threads, FetchQuoteAuthor(t)
  PROVE  StoringInv'
<1>1. pc[t] = "quote_author" /\ UNCHANGED <<config, workload, table, auths, told, accepts, gone, retracted>>
  BY DEF FetchQuoteAuthor, history
<1>2. CASE Goto(t, "authorize")
  <2>1. pc'[t] = "authorize" /\ hand'[t] = hand[t] /\ "authorize" \in Points
    BY <1>2, GotoTyped DEF StoringInv, Points
  <2>2. HandTyped(t)' /\ HandChecked(t)'
    BY <1>1, <2>1 DEF StoringInv, HandInv, HandTyped, HandChecked
  <2>3. HandInv(t)'
    BY <1>1, <2>1, <2>2, HandAtNext
  <2>4. \A r \in table' : RowInv(r)'
    BY <1>1, RowsStay
  <2>5. told' \subseteq Activities /\ auths' \subseteq Resources \X Resources
    BY <1>1 DEF StoringInv, VariablesTyped
  <2> QED
    BY <1>1, <1>2, <2>1, <2>3, <2>4, <2>5, GotoSuffices
<1>3. CASE Leave(t)
  BY <1>1, <1>3, LeaveAlone DEF history
<1> QED
  BY <1>2, <1>3 DEF FetchQuoteAuthor

LEMMA AuthorizeKeeps ==
  ASSUME StoringInv, NEW t \in Threads, Authorize(t)
  PROVE  StoringInv'
<1> DEFINE q == <<hand[t].instrument, hand[t].target>>
<1>1. pc[t] = "authorize" /\ UNCHANGED <<config, workload, told, accepts, gone, retracted>>
  BY DEF Authorize, history
<1>2. CASE auths' = auths \union {q} /\ Goto(t, "accept") /\ UNCHANGED table
  <2>1. pc'[t] = "accept" /\ hand'[t] = hand[t] /\ "accept" \in Points
    BY <1>2, GotoTyped DEF StoringInv, Points
  <2>2. hand[t] \in Quoting /\ hand[t] # NoActivity
    BY <1>1 DEF StoringInv, HandInv, HandTyped
  <2>3. HandTyped(t)' /\ HandChecked(t)'
    BY <1>1, <1>2, <2>1, <2>2 DEF HandTyped, HandChecked
  <2>4. HandInv(t)'
    BY <1>1, <2>1, <2>3, HandAtNext
  <2>5. \A r \in table' : RowInv(r)'
    BY <1>1, <1>2, RowsStay
  <2>6. q \in Resources \X Resources
    BY <2>2 DEF Quoting
  <2>7. told' \subseteq Activities /\ auths' \subseteq Resources \X Resources
    BY <1>1, <1>2, <2>6 DEF StoringInv, VariablesTyped
  <2> QED
    BY <1>1, <1>2, <2>1, <2>4, <2>5, <2>7, GotoSuffices
<1>3. CASE CallFails(t)
  BY <1>1, <1>3, LeaveAlone DEF CallFails, history
<1> QED
  BY <1>2, <1>3 DEF Authorize

LEMMA AcceptQuoteKeeps ==
  ASSUME StoringInv, NEW t \in Threads, AcceptQuote(t)
  PROVE  StoringInv'
<1>1. /\ pc[t] = "accept" /\ Leave(t)
      /\ UNCHANGED <<config, workload, table, auths, told, gone, retracted>>
      /\ accepts' = accepts \union {hand[t]} \/ UNCHANGED accepts
  BY DEF AcceptQuote
<1>2. hand[t] \in Activities /\ <<hand[t].instrument, hand[t].target>> \in auths
  BY <1>1, HandTaken DEF StoringInv, HandInv, HandChecked
<1>3. accepts' \subseteq Activities /\ AcceptsAuthorized'
  BY <1>1, <1>2 DEF StoringInv, VariablesTyped, AcceptsAuthorized
<1>4. \A r \in table' : RowInv(r)'
  BY <1>1, RowsStay
<1> QED
  BY <1>1, <1>3, <1>4, LeaveSuffices DEF StoringInv, VariablesTyped

----------------------------------------------------------------------------
LEMMA StoringInvStep ==
  ASSUME InteractionsAssumption, StoringInv, [Next]_vars
  PROVE  StoringInv'
<1>1. CASE UNCHANGED vars
  <2>1. UNCHANGED <<config, workload, table, auths, pc, hand, turn, told, accepts, gone, retracted>>
    BY <1>1 DEF vars, history
  <2>2. VariablesTyped' /\ AcceptsAuthorized'
    BY <2>1 DEF StoringInv, VariablesTyped, AcceptsAuthorized
  <2>3. \A r \in table' : RowInv(r)'
    BY <2>1, RowsStay
  <2>4. \A t \in Threads : HandInv(t)'
    BY <2>1, HandStays, PendingOf DEF StoringInv
  <2> QED
    BY <2>2, <2>3, <2>4 DEF StoringInv
<1>2. ASSUME NEW t \in Threads, NEW a \in workload, Receive(t, a)
      PROVE  StoringInv'
  <2>1. a \in Activities
    BY DEF StoringInv, VariablesTyped, Activities
  <2> QED
    BY <1>2, <2>1, ReceiveKeeps
<1>3. ASSUME NEW t \in Threads, Handle(t)
      PROVE  StoringInv'
  BY <1>3, FetchAuthorKeeps, TellKeeps, StoreKeeps, UndoKeeps, DropFollowerKeeps,
     DeleteObjectKeeps, DeleteTypedKeeps, FetchQuoteAuthorKeeps, AuthorizeKeeps, AcceptQuoteKeeps
     DEF Handle
<1> QED
  BY <1>1, <1>2, <1>3 DEF Next

(* Every behaviour keeps the invariant.                                    *)
LEMMA StoringAlways == Spec => []StoringInv
<1>1. Init => StoringInv
  BY StoringInvInit, InteractionsAssumption
<1>2. StoringInv /\ [Next]_vars => StoringInv'
  BY StoringInvStep, InteractionsAssumption
<1> QED
  BY <1>1, <1>2, PTL DEF Spec

(* The variables keep their types, and a thread has an activity just while *)
(* it is busy.                                                             *)
THEOREM InteractionsTyped == Spec => []TypeOK
<1>1. StoringInv => TypeOK
  BY DEF StoringInv, VariablesTyped, TypeOK, HandInv, HandTyped, RowInv, RowTyped, Row
<1> QED
  BY <1>1, StoringAlways, PTL

(* What a Create has stored is public, attributed as strict_attribution    *)
(* asks and local as store_local_only asks, whatever else is handled at    *)
(* the same time and fails.                                                *)
THEOREM CreatedAlwaysEligible == Spec => []CreatedRowsEligible
<1>1. StoringInv => CreatedRowsEligible
  <2>1. ASSUME StoringInv, NEW r \in table, r.activity.kind = "Create"
        PROVE  /\ IsPublic(r.activity.doc)
               /\ config.strict => Attributed(r.source, r.activity.doc)
               /\ config.localOnly => r.target \in LocalResources \/ Us \in r.activity.doc.tags
    <3>1. RowTyped(r) /\ Storable(r.activity) /\ Believed(r.activity)
      BY <2>1 DEF StoringInv, RowInv, RowEligible
    <3>2. /\ r.activity \in Activities /\ Storing(r.activity) /\ Meant(r.activity)
          /\ r.source = r.activity.actor /\ r.target = Interaction(r.activity).target
      BY <3>1 DEF RowTyped, Row
    <3>3. Interaction(r.activity).mentions = r.activity.doc.tags
      BY <2>1, <3>2, InteractionTyped, InteractionsAssumption
    <3> QED
      BY <2>1, <3>1, <3>2, <3>3 DEF Storable, Believed, ShouldStore
  <2> QED
    BY <2>1 DEF CreatedRowsEligible
<1> QED
  BY <1>1, StoringAlways, PTL

(* on_interaction_received has returned before an interaction is stored,   *)
(* but for an Update.                                                      *)
THEOREM StoredAlwaysTold == Spec => []StoredWasTold
<1>1. StoringInv => StoredWasTold
  BY DEF StoringInv, StoredWasTold, RowInv, RowEligible
<1> QED
  BY <1>1, StoringAlways, PTL

(* No interleaving brings back what a Delete has removed, unless another   *)
(* Create or Update of the object was in hand or came later.               *)
THEOREM DeletedAlwaysStaysDeleted == Spec => []DeletedStaysDeleted
<1>1. StoringInv => DeletedStaysDeleted
  BY DEF StoringInv, DeletedStaysDeleted, RowInv, RowDeleted
<1> QED
  BY <1>1, StoringAlways, PTL

(* Likewise for what an Undo has removed.                                  *)
THEOREM RetractedAlwaysStaysRetracted == Spec => []RetractedStaysRetracted
<1>1. StoringInv => RetractedStaysRetracted
  BY DEF StoringInv, RetractedStaysRetracted, RowInv, RowDeleted
<1> QED
  BY <1>1, StoringAlways, PTL

(* The Accept of a quote request is sent only with its authorization kept. *)
THEOREM AcceptsAlwaysAuthorized == Spec => []AcceptsAuthorized
<1>1. StoringInv => AcceptsAuthorized
  BY DEF StoringInv
<1> QED
  BY <1>1, StoringAlways, PTL

----------------------------------------------------------------------------
(* The inbox implements the promise of the storage, and what follows       *)

(* A step leaves the table alone, puts the row of the activity a thread    *)
(* stores, or marks rows of the actor whose activity it handles.           *)
PutBy(t, i) ==
  /\ pc[t] = "store" /\ hand[t] \in Activities
  /\ i \in Row /\ i.status = "confirmed" /\ i.source = hand[t].actor /\ i.activity = hand[t]
  /\ table' = Upserted(table, i)

MarkedBy(t, R) ==
  /\ hand[t] \in Activities
  /\ R # {} /\ R \subseteq table /\ \A r \in R : r.source = hand[t].actor
  /\ table' = Marked(table, R)

LEMMA NothingMarked == Marked(table, {}) = table
BY DEF Marked

LEMMA MarkingStep ==
  ASSUME InteractionsAssumption, StoringInv, NEW t \in Threads, pc[t] # "idle",
         NEW R, R \subseteq table, \A r \in R : r.source = hand[t].actor, table' = Marked(table, R)
  PROVE  UNCHANGED table \/ MarkedBy(t, R)
<1>1. CASE R = {}
  BY <1>1, NothingMarked
<1>2. CASE R # {}
  BY <1>2, HandTaken DEF MarkedBy
<1> QED
  BY <1>1, <1>2

LEMMA PuttingStep ==
  ASSUME InteractionsAssumption, StoringInv, NEW t \in Threads, Store(t)
  PROVE  UNCHANGED table \/ \E i \in Row : PutBy(t, i)
<1> DEFINE i == Interaction(hand[t])
<1>1. pc[t] = "store" /\ hand[t] \in Activities /\ Storing(hand[t]) /\ Meant(hand[t])
  BY HandTaken DEF Store, StoringInv, HandInv, HandTyped, HandChecked
<1>2. i \in Row /\ i.source = hand[t].actor /\ i.activity = hand[t] /\ i.status = "confirmed"
  <2>1. i \in Row /\ i.source = hand[t].actor /\ i.activity = hand[t]
    BY <1>1, InteractionTyped
  <2>2. i.status = "confirmed"
    BY <1>1 DEF Interaction, Made, Storing
  <2> QED
    BY <2>1, <2>2
<1>3. CASE table' = Upserted(table, i)
  BY <1>1, <1>2, <1>3 DEF PutBy
<1>4. ASSUME NEW m \in SUBSET Actors, table' = Upserted(table, [i EXCEPT !.mentions = m])
      PROVE  \E j \in Row : PutBy(t, j)
  <2> DEFINE j == [i EXCEPT !.mentions = m]
  <2> HIDE DEF i
  <2>1. j \in Row /\ j.source = i.source /\ j.activity = i.activity /\ j.status = i.status
    BY <1>2 DEF Row
  <2> HIDE DEF j
  <2>2. table' = Upserted(table, j)
    BY <1>4 DEF j
  <2> QED
    BY <1>1, <1>2, <2>1, <2>2 DEF PutBy
<1> QED
  BY <1>2, <1>3, <1>4 DEF Store, Put

LEMMA TableStep ==
  ASSUME InteractionsAssumption, StoringInv, [Next]_vars
  PROVE  \/ UNCHANGED table
         \/ \E t \in Threads, i \in Row : PutBy(t, i)
         \/ \E t \in Threads, R \in SUBSET table : MarkedBy(t, R)
<1>1. ASSUME NEW t \in Threads, NEW a \in workload, Receive(t, a) PROVE UNCHANGED table
  BY <1>1 DEF Receive, ReceivePost, ReceiveReaction, ReceiveUndo, ReceiveDelete,
     ReceiveQuoteRequest, Take
<1>2. ASSUME NEW t \in Threads, \/ FetchAuthor(t) \/ Tell(t) \/ DropFollower(t)
                                \/ FetchQuoteAuthor(t) \/ Authorize(t) \/ AcceptQuote(t)
      PROVE  UNCHANGED table
  BY <1>2 DEF FetchAuthor, Tell, DropFollower, FetchQuoteAuthor, Authorize, AcceptQuote, CallFails
<1>3. ASSUME NEW t \in Threads, Undo(t)
      PROVE  UNCHANGED table \/ \E R \in SUBSET table : MarkedBy(t, R)
  <2> DEFINE R == OfResource(table, hand[t].actor, hand[t].target, hand[t].type)
  <2>1. pc[t] # "idle" /\ (UNCHANGED table \/ table' = Marked(table, R))
    BY <1>3 DEF Undo, CallFails
  <2>2. R \subseteq table /\ \A r \in R : r.source = hand[t].actor
    BY DEF OfResource
  <2> HIDE DEF R
  <2> QED
    BY <2>1, <2>2, MarkingStep
<1>4. ASSUME NEW t \in Threads, DeleteObject(t)
      PROVE  UNCHANGED table \/ \E R \in SUBSET table : MarkedBy(t, R)
  <2> DEFINE R == OfObject(table, hand[t].actor, hand[t].target)
  <2>1. pc[t] # "idle" /\ (UNCHANGED table \/ table' = Marked(table, R))
    BY <1>4 DEF DeleteObject, CallFails
  <2>2. R \subseteq table /\ \A r \in R : r.source = hand[t].actor
    BY DEF OfObject
  <2> HIDE DEF R
  <2> QED
    BY <2>1, <2>2, MarkingStep
<1>5. ASSUME NEW t \in Threads, DeleteTyped(t)
      PROVE  UNCHANGED table \/ \E R \in SUBSET table : MarkedBy(t, R)
  <2> DEFINE R == OfResource(table, hand[t].actor, hand[t].target, Variants[turn[t]])
  <2>1. pc[t] # "idle" /\ (UNCHANGED table \/ table' = Marked(table, R))
    BY <1>5 DEF DeleteTyped, CallFails
  <2>2. R \subseteq table /\ \A r \in R : r.source = hand[t].actor
    BY DEF OfResource
  <2> HIDE DEF R
  <2> QED
    BY <2>1, <2>2, MarkingStep
<1>6. CASE UNCHANGED vars
  BY <1>6 DEF vars
<1>7. ASSUME NEW t \in Threads, Store(t)
      PROVE  UNCHANGED table \/ \E i \in Row : PutBy(t, i)
  BY <1>7, PuttingStep
<1> QED
  BY <1>1, <1>2, <1>3, <1>4, <1>5, <1>6, <1>7 DEF Next, Handle

(* The rows of the table have fields, and so have marked ones.             *)
LEMMA MarkedFields ==
  ASSUME NEW r \in Row
  PROVE  LET d == [r EXCEPT !.status = "deleted"]
         IN  /\ d \in Row /\ d.status = "deleted" /\ d.activity = r.activity
             /\ <<d.source, d.target, d.type, d.object>> = <<r.source, r.target, r.type, r.object>>
BY DEF Row, Statuses

LEMMA MarkedIs ==
  ASSUME table \subseteq Row, NEW R, R \subseteq table
  PROVE  /\ \A s \in Marked(table, R) : \E r \in table :
              /\ <<s.source, s.target, s.type, s.object>> = <<r.source, r.target, r.type, r.object>>
              /\ \/ s = r /\ r \notin R
                 \/ r \in R /\ s = [r EXCEPT !.status = "deleted"] /\ s.status = "deleted"
         /\ \A r \in table : \E s \in Marked(table, R) :
              <<s.source, s.target, s.type, s.object>> = <<r.source, r.target, r.type, r.object>>
<1>1. ASSUME NEW s \in Marked(table, R)
      PROVE  \E r \in table :
               /\ <<s.source, s.target, s.type, s.object>> = <<r.source, r.target, r.type, r.object>>
               /\ \/ s = r /\ r \notin R
                  \/ r \in R /\ s = [r EXCEPT !.status = "deleted"] /\ s.status = "deleted"
  <2>1. CASE s \in table \ R
    BY <2>1
  <2>2. CASE s \notin table \ R
    <3>1. PICK r \in R : s = [r EXCEPT !.status = "deleted"]
      BY <2>2 DEF Marked
    <3> r \in Row /\ r \in table
      OBVIOUS
    <3> QED
      BY <3>1, MarkedFields
  <2> QED
    BY <2>1, <2>2
<1>2. ASSUME NEW r \in table
      PROVE  \E s \in Marked(table, R) :
               <<s.source, s.target, s.type, s.object>> = <<r.source, r.target, r.type, r.object>>
  <2>1. CASE r \in R
    <3> DEFINE d == [r EXCEPT !.status = "deleted"]
    <3>1. d \in Marked(table, R)
      BY <2>1 DEF Marked
    <3>2. <<d.source, d.target, d.type, d.object>> = <<r.source, r.target, r.type, r.object>>
      BY MarkedFields
    <3> HIDE DEF d
    <3> QED
      BY <3>1, <3>2
  <2>2. CASE r \notin R
    BY <2>2 DEF Marked
  <2> QED
    BY <2>1, <2>2
<1> QED
  BY <1>1, <1>2

LEMMA TableTyped == ASSUME StoringInv PROVE table \subseteq Row
BY DEF StoringInv, RowInv, RowTyped

LEMMA StoreStep ==
  ASSUME InteractionsAssumption, StoringInv, [Next]_vars
  PROVE  [StoreNext]_table
<1>1. ASSUME NEW t \in Threads, NEW i \in Row, PutBy(t, i) PROVE StoreNext
  BY <1>1 DEF PutBy, StoreNext, Put, Upserted
<1>2. ASSUME NEW t \in Threads, NEW R \in SUBSET table, MarkedBy(t, R) PROVE StoreNext
  BY <1>2 DEF MarkedBy, StoreNext, MarkAll
<1> QED
  BY <1>1, <1>2, TableStep

LEMMA KeysOnceStep ==
  ASSUME InteractionsAssumption, StoringInv, KeysOnce, [Next]_vars
  PROVE  KeysOnce'
<1>1. ASSUME NEW t \in Threads, NEW i \in Row, PutBy(t, i) PROVE KeysOnce'
  BY <1>1 DEF PutBy, KeysOnce, Upserted, SameRow
<1>2. ASSUME NEW t \in Threads, NEW R \in SUBSET table, MarkedBy(t, R) PROVE KeysOnce'
  <2> SUFFICES ASSUME NEW r \in table', NEW s \in table', SameRow(r, s) PROVE r = s
    BY DEF KeysOnce
  <2>1. r \in Marked(table, R) /\ s \in Marked(table, R)
    BY <1>2 DEF MarkedBy
  <2>2. PICK q \in table :
          /\ <<r.source, r.target, r.type, r.object>> = <<q.source, q.target, q.type, q.object>>
          /\ (r = q /\ q \notin R) \/ (q \in R /\ r = [q EXCEPT !.status = "deleted"])
    BY <2>1, TableTyped, MarkedIs
  <2>3. PICK p \in table :
          /\ <<s.source, s.target, s.type, s.object>> = <<p.source, p.target, p.type, p.object>>
          /\ (s = p /\ p \notin R) \/ (p \in R /\ s = [p EXCEPT !.status = "deleted"])
    BY <2>1, TableTyped, MarkedIs
  <2>4. SameRow(q, p)
    BY <2>2, <2>3 DEF SameRow
  <2> QED
    BY <2>2, <2>3, <2>4 DEF KeysOnce
<1> QED
  BY <1>1, <1>2, TableStep DEF KeysOnce

LEMMA OwnRowsStep ==
  ASSUME InteractionsAssumption, StoringInv, KeysOnce, [Next]_vars, table' # table
  PROVE  \E t \in Threads : \A r \in (table \ table') \union (table' \ table) :
           hand[t] # NoActivity /\ r.source = hand[t].actor
<1>1. ASSUME NEW t \in Threads, NEW i \in Row, PutBy(t, i),
             NEW r \in (table \ table') \union (table' \ table)
      PROVE  hand[t] # NoActivity /\ r.source = hand[t].actor
  BY <1>1 DEF PutBy, Upserted, SameRow, InteractionsAssumption
<1>2. ASSUME NEW t \in Threads, NEW R \in SUBSET table, MarkedBy(t, R),
             NEW r \in (table \ table') \union (table' \ table)
      PROVE  hand[t] # NoActivity /\ r.source = hand[t].actor
  <2>1. hand[t] # NoActivity /\ table' = Marked(table, R) /\ \A s \in R : s.source = hand[t].actor
    BY <1>2 DEF MarkedBy, InteractionsAssumption
  <2>2. CASE r \in table \ table'
    BY <2>1, <2>2 DEF Marked
  <2>3. CASE r \in table' \ table
    <3> PICK q \in table : r.source = q.source /\ ((r = q /\ q \notin R) \/ q \in R)
      BY <2>1, <2>3, TableTyped, MarkedIs
    <3> QED
      BY <2>1, <2>3
  <2> QED
    BY <2>1, <2>2, <2>3
<1> QED
  BY <1>1, <1>2, TableStep

LEMMA RowsRemainStep ==
  ASSUME InteractionsAssumption, StoringInv, KeysOnce, [Next]_vars, table' # table, NEW r \in table
  PROVE  /\ \E s \in table' : SameRow(s, r)
         /\ \A s \in table' :
              SameRow(s, r) /\ r.status = "deleted" /\ s.status = "confirmed" =>
                \E t \in Threads : pc[t] = "store" /\ s.activity = hand[t]
<1>1. ASSUME NEW t \in Threads, NEW i \in Row, PutBy(t, i)
      PROVE  /\ \E s \in table' : SameRow(s, r)
             /\ \A s \in table' :
                  SameRow(s, r) /\ r.status = "deleted" /\ s.status = "confirmed" =>
                    pc[t] = "store" /\ s.activity = hand[t]
  <2>1. table' = {s \in table : ~SameRow(s, i)} \union {i}
    BY <1>1 DEF PutBy, Upserted
  <2>2. \E s \in table' : SameRow(s, r)
    BY <2>1 DEF SameRow
  <2>3. ASSUME NEW s \in table', SameRow(s, r), r.status = "deleted", s.status = "confirmed"
        PROVE  s = i
    BY <2>1, <2>3 DEF KeysOnce
  <2> QED
    BY <1>1, <2>2, <2>3 DEF PutBy
<1>2. ASSUME NEW t \in Threads, NEW R \in SUBSET table, MarkedBy(t, R)
      PROVE  /\ \E s \in table' : SameRow(s, r)
             /\ \A s \in table' :
                  ~(SameRow(s, r) /\ r.status = "deleted" /\ s.status = "confirmed")
  <2>1. table' = Marked(table, R)
    BY <1>2 DEF MarkedBy
  <2>2. \E s \in table' : SameRow(s, r)
    BY <2>1, TableTyped, MarkedIs DEF SameRow
  <2>3. ASSUME NEW s \in table', SameRow(s, r), r.status = "deleted", s.status = "confirmed"
        PROVE  FALSE
    <3>1. PICK q \in table :
            /\ <<s.source, s.target, s.type, s.object>> = <<q.source, q.target, q.type, q.object>>
            /\ s = q \/ s.status = "deleted"
      BY <2>1, TableTyped, MarkedIs
    <3>2. SameRow(q, r)
      BY <2>3, <3>1 DEF SameRow
    <3> QED
      BY <2>3, <3>1, <3>2 DEF KeysOnce
  <2> QED
    BY <2>2, <2>3
<1> QED
  BY <1>1, <1>2, TableStep

LEMMA KeysAlways == Spec => [](StoringInv /\ KeysOnce)
<1>1. Init => KeysOnce
  BY DEF Init, KeysOnce
<1>2. StoringInv /\ KeysOnce /\ [Next]_vars => KeysOnce'
  BY InteractionsAssumption, KeysOnceStep
<1> QED
  BY <1>1, <1>2, StoringAlways, PTL DEF Spec

(* A key has one row at any time.                                          *)
THEOREM InboxKeepsKeys == Spec => []KeysOnce
BY KeysAlways, PTL

(* The inbox implements the specification of the storage: whatever the     *)
(* threads interleave, panic or fail at, each of their steps is one put or *)
(* one mark of the trait, or leaves the table alone.                       *)
THEOREM InboxKeepsStore == Spec => StoreSpec
<1>1. Init => StoreInit
  BY DEF Init, StoreInit
<1>2. StoringInv /\ [Next]_vars => [StoreNext]_table
  BY InteractionsAssumption, StoreStep
<1> QED
  BY <1>1, <1>2, StoringAlways, PTL DEF Spec, StoreSpec

(* Activities change the interactions of their own actors only.            *)
THEOREM InboxOwnRowsOnly == Spec => OwnRowsOnly
<1>1. StoringInv /\ KeysOnce /\ [Next]_vars =>
        [\E t \in Threads : \A r \in (table \ table') \union (table' \ table) :
           hand[t] # NoActivity /\ r.source = hand[t].actor]_table
  BY InteractionsAssumption, OwnRowsStep
<1> QED
  BY <1>1, KeysAlways, PTL DEF Spec, OwnRowsOnly

(* Rows never disappear, and none comes back but by being stored.          *)
THEOREM InboxRowsRemain == Spec => RowsRemain
<1>1. StoringInv /\ KeysOnce /\ [Next]_vars =>
        [\A r \in table :
           /\ \E s \in table' : SameRow(s, r)
           /\ \A s \in table' :
                SameRow(s, r) /\ r.status = "deleted" /\ s.status = "confirmed" =>
                  \E t \in Threads : pc[t] = "store" /\ s.activity = hand[t]]_table
  BY InteractionsAssumption, RowsRemainStep
<1> QED
  BY <1>1, KeysAlways, PTL DEF Spec, RowsRemain

=============================================================================
