---------------------------- MODULE OutboxProofs ----------------------------
(* Proofs about Outbox, for every set of activities, followers, inboxes    *)
(* and workers, every mode, number of attempts and failure: who delivers,  *)
(* how often, what is stored before, and who is served in the end.         *)
EXTENDS Outbox, FiniteSetTheorems, TLAPS

----------------------------------------------------------------------------
(* The invariant, activity by activity                                     *)

(* Where publish() is before the fan-out, and from the start of it.        *)
Before == {"idle", "publish", "stored", "invalidated", "collected", "deliver", "failed"}
FannedOut == {"callback", "join", "returned"}

Busy == {"post", "report", "backoff"}

(* An activity that got past a step of publish() has what the step is for. *)
PublishInv(a) ==
  /\ pc[a] \in Before => queue[a] = {} /\ \A w \in Workers : wpc[a][w] = "none"
  /\ pc[a] \in FannedOut \union {"stored", "invalidated", "collected", "deliver"} => a \in stored
  /\ pc[a] \in FannedOut \union {"invalidated", "collected", "deliver"} =>
       document = NoDoc \/ a \in document
  /\ steady[a] \subseteq followers
  /\ a \in ToFollowers /\ pc[a] \in FannedOut \union {"collected", "deliver"} =>
       \A x \in steady[a] : PreferredInbox(x) \in inboxes[a] \union Blocked \union {NoInbox}

(* The fan-out has started what it needs.                                  *)
FanOutInv(a) ==
  /\ mode = "callback" => \A w \in Workers : wpc[a][w] = "none"
  /\ pc[a] = "callback" => mode = "callback"
  /\ pc[a] = "join" => mode # "callback"
  /\ mode = "callback" /\ pc[a] = "returned" => queue[a] = {}
  /\ pc[a] \in FannedOut => queue[a] \subseteq inboxes[a]
  /\ pc[a] \in FannedOut /\ mode # "callback" /\ inboxes[a] # {} => wpc[a][1] # "none"

(* A worker that delivers has an inbox to itself, and counts its POSTs.    *)
WorkerInv(a, w) ==
  /\ wpc[a][w] \in Busy => url[a][w] \in Inboxes
  /\ wpc[a][w] \notin Busy => url[a][w] = NoInbox /\ attempt[a][w] = 0
  /\ wpc[a][w] = "done" => queue[a] = {}
  /\ wpc[a][w] = "backoff" => attempt[a][w] + 1 < Attempts
  /\ url[a][w] # NoInbox => /\ url[a][w] \notin queue[a]
                            /\ \A v \in Workers \ {w} : url[a][v] # url[a][w]
  /\ \A i \in Inboxes : url[a][w] = i =>
       /\ posts[a][i] = IF wpc[a][w] = "post" THEN attempt[a][w] ELSE attempt[a][w] + 1
       /\ \A r \in reports[a][i] : /\ r.answer # "ok"
                                   /\ wpc[a][w] = "report" => r.attempt <= attempt[a][w]

(* An inbox is waiting, being served or settled.                           *)
InboxInv(a, i) ==
  /\ pc[a] \in Before \/ i \in queue[a] => posts[a][i] = 0 /\ reports[a][i] = {}
  /\ \A r \in reports[a][i] : r.attempt <= posts[a][i] /\ (r.answer = "ok" => r.attempt = posts[a][i])
  /\ \A r, s \in reports[a][i] : r.attempt = s.attempt => r = s
  /\ pc[a] \in FannedOut /\ i \in inboxes[a] =>
       i \in queue[a] \/ (\E w \in Workers : url[a][w] = i) \/ Settled(a, i)

ActivityInv(a) ==
  /\ PublishInv(a) /\ FanOutInv(a)
  /\ \A w \in Workers : WorkerInv(a, w)
  /\ \A i \in Inboxes : InboxInv(a, i)

OutboxInv == TypeOK /\ \A a \in Activities : ActivityInv(a)

----------------------------------------------------------------------------
LEMMA SomeAttempt == Attempts \in Nat /\ Attempts >= 1
BY OutboxAssumption DEF Attempts

LEMMA SomeWorker == 1 \in Workers
BY OutboxAssumption DEF Workers

LEMMA PreferredTyped == \A x \in Actors : PreferredInbox(x) \in Inboxes \union {NoInbox}
BY OutboxAssumption DEF PreferredInbox

LEMMA OutboxInvInit ==
  ASSUME Init
  PROVE  OutboxInv
<1>1. TypeOK
  BY OutboxAssumption, SomeAttempt DEF Init, TypeOK, Answers
<1>2. ASSUME NEW a \in Activities PROVE ActivityInv(a)
  <2>1. PublishInv(a) /\ FanOutInv(a)
    BY DEF Init, PublishInv, FanOutInv, Before, FannedOut
  <2>2. \A w \in Workers : WorkerInv(a, w)
    BY OutboxAssumption DEF Init, WorkerInv, Busy
  <2>3. \A i \in Inboxes : InboxInv(a, i)
    BY DEF Init, InboxInv, Before, FannedOut
  <2> QED
    BY <2>1, <2>2, <2>3 DEF ActivityInv
<1> QED
  BY <1>1, <1>2 DEF OutboxInv

----------------------------------------------------------------------------
(* What steps elsewhere leave alone                                        *)

(* The workers of an activity and what they have done.                     *)
SameFanOut(a) ==
  /\ queue'[a] = queue[a] /\ wpc'[a] = wpc[a] /\ url'[a] = url[a]
  /\ attempt'[a] = attempt[a] /\ answer'[a] = answer[a]
  /\ posts'[a] = posts[a] /\ reports'[a] = reports[a] /\ panicked'[a] = panicked[a]

SameActivity(a) == pc'[a] = pc[a] /\ inboxes'[a] = inboxes[a] /\ SameFanOut(a)

LEMMA SameActivityKeeps ==
  ASSUME NEW a \in Activities, ActivityInv(a), UNCHANGED mode, SameActivity(a),
         stored \subseteq stored', document' \in {document, NoDoc, stored},
         steady'[a] \subseteq steady[a], steady'[a] \subseteq followers'
  PROVE  ActivityInv(a)'
<1> USE DEF SameActivity, SameFanOut
<1>1. PublishInv(a)'
  BY DEF ActivityInv, PublishInv
<1>2. FanOutInv(a)'
  BY DEF ActivityInv, FanOutInv
<1>3. ASSUME NEW w \in Workers PROVE WorkerInv(a, w)'
  BY DEF ActivityInv, WorkerInv
<1>4. ASSUME NEW i \in Inboxes PROVE InboxInv(a, i)'
  BY DEF ActivityInv, InboxInv, Settled
<1> QED
  BY <1>1, <1>2, <1>3, <1>4 DEF ActivityInv

(* A step of the publication or of a worker of one activity.               *)
LEMMA OneActivity ==
  ASSUME OutboxInv, NEW a \in Activities, UNCHANGED <<mode, followers>>,
         \A b \in Activities \ {a} : SameActivity(b) /\ steady'[b] = steady[b],
         stored \subseteq stored', document' \in {document, NoDoc, stored},
         TypeOK', ActivityInv(a)'
  PROVE  OutboxInv'
<1>1. ASSUME NEW b \in Activities \ {a} PROVE ActivityInv(b)'
  <2>1. steady[b] \subseteq followers
    BY DEF OutboxInv, ActivityInv, PublishInv
  <2> QED
    BY <2>1, SameActivityKeeps DEF OutboxInv
<1> QED
  BY <1>1 DEF OutboxInv

(* The part of the invariant on the fan-out, before it starts.             *)
LEMMA StillBefore ==
  ASSUME NEW a \in Activities, ActivityInv(a), UNCHANGED mode, SameFanOut(a),
         pc[a] \in Before, pc'[a] \in Before
  PROVE  /\ FanOutInv(a)'
         /\ \A w \in Workers : WorkerInv(a, w)'
         /\ \A i \in Inboxes : InboxInv(a, i)'
         /\ queue'[a] = {} /\ \A w \in Workers : wpc'[a][w] = "none"
<1> USE DEF SameFanOut
<1>1. FanOutInv(a)'
  BY DEF ActivityInv, FanOutInv, PublishInv, Before, FannedOut
<1>2. ASSUME NEW w \in Workers PROVE WorkerInv(a, w)'
  BY DEF ActivityInv, WorkerInv
<1>3. ASSUME NEW i \in Inboxes PROVE InboxInv(a, i)'
  BY DEF ActivityInv, InboxInv, Before, FannedOut
<1>4. queue'[a] = {} /\ \A w \in Workers : wpc'[a][w] = "none"
  BY DEF ActivityInv, PublishInv
<1> QED
  BY <1>1, <1>2, <1>3, <1>4

----------------------------------------------------------------------------
(* publish(), up to the fan-out                                            *)

(* A step of publish() that only touches pc, inboxes, stored, document.    *)
LEMMA PublishingSuffices ==
  ASSUME OutboxInv, NEW a \in Activities, UNCHANGED <<mode, followers, queue, workerVars, logVars>>,
         \A b \in Activities \ {a} :
           pc'[b] = pc[b] /\ inboxes'[b] = inboxes[b] /\ steady'[b] = steady[b],
         stored \subseteq stored', document' \in {document, NoDoc, stored},
         pc[a] \in Before, pc'[a] \in Before,
         TypeOK', PublishInv(a)'
  PROVE  OutboxInv'
<1>1. \A b \in Activities : SameFanOut(b)
  BY DEF workerVars, logVars, SameFanOut
<1>2. ActivityInv(a)'
  BY <1>1, StillBefore DEF OutboxInv, ActivityInv
<1> QED
  BY <1>1, <1>2, OneActivity DEF SameActivity

LEMMA PublishKeeps ==
  ASSUME OutboxInv, NEW a \in Activities, UNCHANGED mode, Publish(a)
  PROVE  OutboxInv'
<1>1. /\ pc[a] \in Before /\ pc'[a] = "publish" /\ steady'[a] = followers /\ inboxes'[a] = {}
      /\ \A b \in Activities \ {a} :
           pc'[b] = pc[b] /\ inboxes'[b] = inboxes[b] /\ steady'[b] = steady[b]
      /\ UNCHANGED <<followers, stored, document, queue, workerVars, logVars>>
  BY DEF Publish, Goto, OutboxInv, TypeOK, Before
<1>2. TypeOK'
  BY OutboxAssumption DEF Publish, Goto, OutboxInv, TypeOK, workerVars, logVars
<1>3. PublishInv(a)'
  BY <1>1 DEF PublishInv, OutboxInv, ActivityInv, Before, FannedOut, workerVars
<1> QED
  BY <1>1, <1>2, <1>3, PublishingSuffices DEF Before

LEMMA StoreActivityKeeps ==
  ASSUME OutboxInv, NEW a \in Activities, UNCHANGED mode, StoreActivity(a)
  PROVE  OutboxInv'
<1>1. /\ pc[a] = "publish" /\ stored \subseteq stored'
      /\ pc'[a] = "failed" \/ (pc'[a] = "stored" /\ a \in stored')
      /\ \A b \in Activities \ {a} : pc'[b] = pc[b]
      /\ UNCHANGED <<followers, document, queue, inboxes, steady, workerVars, logVars>>
  BY DEF StoreActivity, Goto, OutboxInv, TypeOK
<1>2. TypeOK'
  BY DEF StoreActivity, Goto, OutboxInv, TypeOK, workerVars, logVars
<1>3. PublishInv(a)'
  BY <1>1 DEF PublishInv, OutboxInv, ActivityInv, Before, FannedOut, workerVars
<1> QED
  BY <1>1, <1>2, <1>3, PublishingSuffices DEF Before

LEMMA InvalidateOutboxKeeps ==
  ASSUME OutboxInv, NEW a \in Activities, UNCHANGED mode, InvalidateOutbox(a)
  PROVE  OutboxInv'
<1>1. /\ pc[a] = "stored" /\ pc'[a] = "invalidated" /\ document' = NoDoc
      /\ \A b \in Activities \ {a} : pc'[b] = pc[b]
      /\ UNCHANGED <<followers, stored, queue, inboxes, steady, workerVars, logVars>>
  BY DEF InvalidateOutbox, Goto, OutboxInv, TypeOK
<1>2. TypeOK'
  BY DEF InvalidateOutbox, Goto, OutboxInv, TypeOK, workerVars, logVars
<1>3. PublishInv(a)'
  BY <1>1 DEF PublishInv, OutboxInv, ActivityInv, Before, FannedOut, workerVars
<1> QED
  BY <1>1, <1>2, <1>3, PublishingSuffices DEF Before

LEMMA ReadFollowersKeeps ==
  ASSUME OutboxInv, NEW a \in Activities, UNCHANGED mode, ReadFollowers(a)
  PROVE  OutboxInv'
<1>1. /\ pc[a] = "invalidated" /\ pc'[a] \in {"collected", "failed"}
      /\ pc'[a] = "collected" /\ a \in ToFollowers => inboxes'[a] = CollectInboxes(followers)
      /\ \A b \in Activities \ {a} : pc'[b] = pc[b] /\ inboxes'[b] = inboxes[b]
      /\ UNCHANGED <<followers, stored, document, queue, steady, workerVars, logVars>>
  BY DEF ReadFollowers, Goto, OutboxInv, TypeOK
<1>2. CollectInboxes(followers) \subseteq Inboxes
  BY PreferredTyped DEF CollectInboxes, OutboxInv, TypeOK
<1>3. TypeOK'
  <2>1. inboxes' \in [Activities -> SUBSET Inboxes]
    BY <1>2 DEF ReadFollowers, OutboxInv, TypeOK
  <2> QED
    BY <2>1 DEF ReadFollowers, Goto, OutboxInv, TypeOK, workerVars, logVars
<1>4. PublishInv(a)'
  <2>1. steady[a] \subseteq followers
    BY DEF OutboxInv, ActivityInv, PublishInv
  <2>2. \A x \in steady[a] : PreferredInbox(x) \in CollectInboxes(followers) \union {NoInbox}
    BY <2>1 DEF CollectInboxes
  <2> QED
    BY <1>1, <2>2 DEF PublishInv, OutboxInv, ActivityInv, Before, FannedOut, workerVars
<1> QED
  BY <1>1, <1>3, <1>4, PublishingSuffices DEF Before

LEMMA CollectRecipientsKeeps ==
  ASSUME OutboxInv, NEW a \in Activities, UNCHANGED mode, CollectRecipients(a)
  PROVE  OutboxInv'
<1>1. PICK fetched \in SUBSET (Recipients[a] \ Blocked) :
        inboxes' = [inboxes EXCEPT ![a] = Permitted(@ \union CollectInboxes(fetched))]
  BY DEF CollectRecipients
<1>2. /\ pc[a] = "collected" /\ pc'[a] = "deliver"
      /\ inboxes'[a] = Permitted(inboxes[a] \union CollectInboxes(fetched))
      /\ \A b \in Activities \ {a} : pc'[b] = pc[b] /\ inboxes'[b] = inboxes[b]
      /\ UNCHANGED <<followers, stored, document, queue, steady, workerVars, logVars>>
  BY <1>1 DEF CollectRecipients, Goto, OutboxInv, TypeOK
<1>3. CollectInboxes(fetched) \subseteq Inboxes
  BY PreferredTyped, OutboxAssumption DEF CollectInboxes
<1>4. TypeOK'
  BY <1>1, <1>3 DEF CollectRecipients, Permitted, Goto, OutboxInv, TypeOK, workerVars, logVars
<1>5. PublishInv(a)'
  BY <1>2 DEF PublishInv, Permitted, OutboxInv, ActivityInv, Before, FannedOut, workerVars
<1> QED
  BY <1>2, <1>4, <1>5, PublishingSuffices DEF Before

----------------------------------------------------------------------------
(* The fan-out                                                             *)

LEMMA StartFanOutKeeps ==
  ASSUME OutboxInv, NEW a \in Activities, UNCHANGED mode, StartFanOut(a)
  PROVE  OutboxInv'
<1>0. /\ pc[a] = "deliver" /\ queue'[a] = inboxes[a]
      /\ pc'[a] = IF inboxes[a] = {} \/ mode = "async" THEN "returned"
                  ELSE IF mode = "callback" THEN "callback" ELSE "join"
      /\ \A b \in Activities \ {a} : pc'[b] = pc[b] /\ queue'[b] = queue[b]
      /\ UNCHANGED <<followers, stored, document, inboxes, steady, url, attempt, answer,
                     posts, reports, panicked>>
  BY DEF StartFanOut, Goto, OutboxInv, TypeOK, logVars
<1>1. /\ pc[a] = "deliver" /\ pc'[a] \in FannedOut
      /\ pc'[a] \in {"callback", "join"} => inboxes[a] # {}
      /\ inboxes[a] # {} => (pc'[a] = "callback" <=> mode = "callback")
      /\ \A b \in Activities \ {a} : wpc'[b] = wpc[b]
  <2>1. \A b \in Activities \ {a} : wpc'[b] = wpc[b]
    BY DEF StartFanOut, OutboxInv, TypeOK
  <2> QED
    BY <1>0, <2>1 DEF FannedOut
<1>2. /\ \A w \in Workers : wpc'[a][w] \in {"none", "pop"}
      /\ mode = "callback" => \A w \in Workers : wpc'[a][w] = "none"
      /\ mode # "callback" /\ inboxes[a] # {} => wpc'[a][1] # "none"
  <2>0. \A w \in Workers : wpc[a][w] = "none"
    BY <1>0, <1>1 DEF OutboxInv, ActivityInv, PublishInv, Before
  <2>1. CASE mode = "callback" \/ inboxes[a] = {}
    BY <2>0, <2>1 DEF StartFanOut
  <2>2. CASE mode # "callback" /\ inboxes[a] # {}
    <3>1. IsFiniteSet(inboxes[a]) /\ inboxes[a] # {}
      BY <2>2, OutboxAssumption, FS_Subset DEF OutboxInv, TypeOK
    <3>2. Cardinality(inboxes[a]) \in Nat /\ Cardinality(inboxes[a]) # 0
      BY <3>1, FS_CardinalityType, FS_EmptySet
    <3>3. wpc'[a] = [w \in Workers |-> IF w <= Cardinality(inboxes[a]) THEN "pop" ELSE "none"]
      BY <2>2 DEF StartFanOut, OutboxInv, TypeOK
    <3> QED
      BY <2>2, <3>2, <3>3, SomeWorker
  <2> QED
    BY <2>1, <2>2
<1>3. TypeOK'
  <2>1. queue' \in [Activities -> SUBSET Inboxes]
    BY DEF StartFanOut, OutboxInv, TypeOK
  <2>2. wpc' \in [Activities -> [Workers -> {"none", "pop", "post", "report", "backoff",
                                              "done", "dead"}]]
    <3>1. CASE UNCHANGED wpc
      BY <3>1 DEF OutboxInv, TypeOK
    <3>2. CASE wpc' = [wpc EXCEPT ![a] =
                        [w \in Workers |-> IF w <= Cardinality(inboxes[a]) THEN "pop" ELSE "none"]]
      BY <3>2 DEF OutboxInv, TypeOK
    <3> QED
      BY <3>1, <3>2 DEF StartFanOut
  <2> QED
    BY <2>1, <2>2 DEF StartFanOut, Goto, OutboxInv, TypeOK, logVars
<1>4. PublishInv(a)'
  BY <1>0, <1>1 DEF PublishInv, OutboxInv, ActivityInv, Before, FannedOut
<1>5. FanOutInv(a)'
  BY <1>0, <1>1, <1>2 DEF FanOutInv, FannedOut
<1>6. ASSUME NEW w \in Workers PROVE WorkerInv(a, w)'
  <2>1. wpc[a][w] = "none" /\ WorkerInv(a, w)
    BY <1>0, <1>1 DEF OutboxInv, ActivityInv, PublishInv, Before
  <2>2. url'[a][w] = NoInbox /\ attempt'[a][w] = 0 /\ NoInbox \notin Inboxes
    BY <1>0, <1>1, <2>1, OutboxAssumption DEF WorkerInv, Busy
  <2> QED
    BY <1>2, <2>2 DEF WorkerInv, Busy
<1>7. ASSUME NEW i \in Inboxes PROVE InboxInv(a, i)'
  <2>1. posts[a][i] = 0 /\ reports[a][i] = {}
    BY <1>0, <1>1 DEF OutboxInv, ActivityInv, InboxInv, Before
  <2> QED
    BY <1>0, <1>1, <2>1 DEF InboxInv, Before, FannedOut
<1>8. ActivityInv(a)'
  BY <1>4, <1>5, <1>6, <1>7 DEF ActivityInv
<1> QED
  BY <1>0, <1>1, <1>3, <1>8, OneActivity DEF SameActivity, SameFanOut

LEMMA CallDeliverKeeps ==
  ASSUME OutboxInv, NEW a \in Activities, UNCHANGED mode, CallDeliver(a)
  PROVE  OutboxInv'
<1>1. PICK i \in queue[a] : /\ queue' = [queue EXCEPT ![a] = @ \ {i}]
                            /\ posts' = [posts EXCEPT ![a][i] = @ + 1]
  BY DEF CallDeliver
<1>2. /\ pc[a] = "callback" /\ mode = "callback" /\ i \in Inboxes
      /\ queue'[a] = queue[a] \ {i} /\ posts'[a][i] = posts[a][i] + 1
      /\ \A j \in Inboxes \ {i} : posts'[a][j] = posts[a][j]
      /\ pc'[a] = IF queue'[a] = {} THEN "returned" ELSE "callback"
      /\ \A b \in Activities \ {a} : pc'[b] = pc[b] /\ queue'[b] = queue[b] /\ posts'[b] = posts[b]
      /\ UNCHANGED <<followers, stored, document, inboxes, steady, wpc, url, attempt, answer,
                     reports, panicked>>
  BY <1>1 DEF CallDeliver, Goto, OutboxInv, TypeOK, ActivityInv, FanOutInv, workerVars
<1>3. posts[a][i] = 0 /\ reports[a][i] = {}
  BY <1>2 DEF OutboxInv, ActivityInv, InboxInv
<1>4. TypeOK'
  <2>1. posts' \in [Activities -> [Inboxes -> 0..Attempts]]
    BY <1>1, <1>2, <1>3, SomeAttempt DEF OutboxInv, TypeOK
  <2>2. queue' \in [Activities -> SUBSET Inboxes]
    BY <1>1 DEF OutboxInv, TypeOK
  <2> QED
    BY <2>1, <2>2 DEF CallDeliver, Goto, OutboxInv, TypeOK, workerVars
<1>5. PublishInv(a)'
  BY <1>2 DEF PublishInv, OutboxInv, ActivityInv, Before, FannedOut
<1>6. FanOutInv(a)'
  BY <1>2 DEF FanOutInv, OutboxInv, ActivityInv, FannedOut
<1>7. ASSUME NEW w \in Workers PROVE WorkerInv(a, w)'
  <2>1. wpc[a][w] = "none" /\ WorkerInv(a, w)
    BY <1>2 DEF OutboxInv, ActivityInv, FanOutInv
  <2>2. url'[a][w] = NoInbox /\ attempt'[a][w] = 0 /\ wpc'[a][w] = "none" /\ NoInbox \notin Inboxes
    BY <1>2, <2>1, OutboxAssumption DEF WorkerInv, Busy
  <2> QED
    BY <2>2 DEF WorkerInv, Busy
<1>8. ASSUME NEW j \in Inboxes PROVE InboxInv(a, j)'
  <2>0. InboxInv(a, j)
    BY DEF OutboxInv, ActivityInv
  <2>1. CASE j = i
    <3>1. Settled(a, j)'
      BY <1>2, <1>3, <2>1 DEF Settled
    <3> QED
      BY <1>2, <1>3, <2>1, <3>1 DEF InboxInv, Before
  <2>2. CASE j # i
    BY <1>2, <2>0, <2>2 DEF InboxInv, Before, FannedOut, Settled
  <2> QED
    BY <2>1, <2>2
<1>9. ActivityInv(a)'
  BY <1>5, <1>6, <1>7, <1>8 DEF ActivityInv
<1> QED
  BY <1>2, <1>4, <1>9, OneActivity DEF SameActivity, SameFanOut

LEMMA JoinKeeps ==
  ASSUME OutboxInv, NEW a \in Activities, UNCHANGED mode, Join(a)
  PROVE  OutboxInv'
<1>1. /\ pc[a] = "join" /\ pc'[a] = "returned"
      /\ \A b \in Activities \ {a} : pc'[b] = pc[b]
      /\ UNCHANGED <<followers, stored, document, queue, inboxes, steady, workerVars, logVars>>
  BY DEF Join, Goto, OutboxInv, TypeOK
<1>2. TypeOK'
  BY DEF Join, Goto, OutboxInv, TypeOK, workerVars, logVars
<1> USE DEF workerVars, logVars
<1>3. PublishInv(a)'
  BY <1>1 DEF PublishInv, OutboxInv, ActivityInv, Before, FannedOut
<1>4. FanOutInv(a)'
  BY <1>1 DEF FanOutInv, OutboxInv, ActivityInv, FannedOut
<1>5. ASSUME NEW w \in Workers PROVE WorkerInv(a, w)'
  BY <1>1 DEF WorkerInv, OutboxInv, ActivityInv
<1>6. ASSUME NEW i \in Inboxes PROVE InboxInv(a, i)'
  BY <1>1 DEF InboxInv, OutboxInv, ActivityInv, Before, FannedOut, Settled
<1>7. ActivityInv(a)'
  BY <1>3, <1>4, <1>5, <1>6 DEF ActivityInv
<1> QED
  BY <1>1, <1>2, <1>7, OneActivity DEF SameActivity, SameFanOut

----------------------------------------------------------------------------
(* A worker                                                                *)

(* A worker is only there after the fan-out has started.                   *)
LEMMA WorkerFannedOut ==
  ASSUME OutboxInv, NEW a \in Activities, NEW w \in Workers, wpc[a][w] # "none"
  PROVE  pc[a] \in FannedOut /\ pc[a] \notin Before /\ mode # "callback"
<1>1. pc[a] \notin Before
  BY DEF OutboxInv, ActivityInv, PublishInv
<1>2. mode # "callback"
  BY DEF OutboxInv, ActivityInv, FanOutInv
<1> QED
  BY <1>1, <1>2 DEF OutboxInv, TypeOK, Before, FannedOut

(* What publish() has ready stays so when a worker takes a step.           *)
LEMMA WorkerSuffices ==
  ASSUME OutboxInv, NEW a \in Activities, NEW w \in Workers,
         UNCHANGED <<mode, followers, stored, document, publishVars>>,
         wpc[a][w] # "none", wpc'[a][w] # "none",
         \A b \in Activities \ {a} : SameFanOut(b),
         \A v \in Workers \ {w} : wpc'[a][v] = wpc[a][v],
         queue'[a] \subseteq queue[a],
         TypeOK', \A v \in Workers : WorkerInv(a, v)', \A i \in Inboxes : InboxInv(a, i)'
  PROVE  OutboxInv'
<1>1. pc[a] \in FannedOut /\ pc[a] \notin Before /\ mode # "callback"
  BY WorkerFannedOut
<1>2. PublishInv(a)'
  BY <1>1 DEF PublishInv, OutboxInv, ActivityInv, publishVars
<1>3. wpc[a][1] # "none" => wpc'[a][1] # "none"
  BY SomeWorker
<1>4. FanOutInv(a)'
  BY <1>1, <1>3 DEF FanOutInv, OutboxInv, ActivityInv, publishVars
<1>5. ActivityInv(a)'
  BY <1>2, <1>4 DEF ActivityInv
<1> QED
  BY <1>5, OneActivity DEF SameActivity, publishVars

LEMMA PopKeeps ==
  ASSUME OutboxInv, NEW a \in Activities, NEW w \in Workers, UNCHANGED mode, Pop(a, w)
  PROVE  OutboxInv'
<1> USE DEF publishVars, logVars
<1>1. /\ wpc[a][w] = "pop" /\ url[a][w] = NoInbox /\ attempt[a][w] = 0
      /\ \A v \in Workers : WorkerInv(a, v)
      /\ \A i \in Inboxes : InboxInv(a, i)
      /\ UNCHANGED <<mode, followers, stored, document, publishVars, attempt, answer, logVars>>
  BY DEF Pop, OutboxInv, ActivityInv, WorkerInv, Busy
<1>2. CASE \E i \in queue[a] : /\ queue' = [queue EXCEPT ![a] = Taken(a, i)]
                               /\ url' = [url EXCEPT ![a][w] = i]
                               /\ WorkerGoto(a, w, "post")
  <2>1. PICK i \in queue[a] : /\ queue' = [queue EXCEPT ![a] = queue[a] \ {i}]
                              /\ url' = [url EXCEPT ![a][w] = i]
                              /\ WorkerGoto(a, w, "post")
    BY <1>2 DEF Taken
  <2>2. /\ i \in Inboxes /\ queue'[a] = queue[a] \ {i} /\ url'[a][w] = i /\ wpc'[a][w] = "post"
        /\ \A v \in Workers \ {w} : wpc'[a][v] = wpc[a][v] /\ url'[a][v] = url[a][v]
        /\ \A b \in Activities \ {a} : SameFanOut(b)
    BY <1>1, <2>1 DEF OutboxInv, TypeOK, WorkerGoto, SameFanOut
  <2>3. TypeOK'
    <3>1. queue' \in [Activities -> SUBSET Inboxes]
      BY <2>1 DEF OutboxInv, TypeOK
    <3>2. url' \in [Activities -> [Workers -> Inboxes \union {NoInbox}]]
      BY <2>1, <2>2 DEF OutboxInv, TypeOK
    <3>3. wpc' \in [Activities -> [Workers -> {"none", "pop", "post", "report", "backoff",
                                                "done", "dead"}]]
      BY <2>1 DEF OutboxInv, TypeOK, WorkerGoto
    <3> QED
      BY <1>1, <3>1, <3>2, <3>3 DEF OutboxInv, TypeOK
  <2>4. i # NoInbox /\ posts[a][i] = 0 /\ reports[a][i] = {} /\ \A v \in Workers : url[a][v] # i
    BY <1>1, <2>1, <2>2, OutboxAssumption DEF InboxInv, WorkerInv
  <2>5. ASSUME NEW v \in Workers PROVE WorkerInv(a, v)'
    <3>1. CASE v = w
      BY <1>1, <2>2, <2>4, <3>1 DEF WorkerInv, Busy
    <3>2. CASE v # w
      BY <1>1, <2>1, <2>2, <2>4, <3>2 DEF WorkerInv
    <3> QED
      BY <3>1, <3>2
  <2>6. ASSUME NEW j \in Inboxes PROVE InboxInv(a, j)'
    <3>1. pc[a] \notin Before
      BY <1>1, WorkerFannedOut
    <3>2. CASE j = i
      BY <1>1, <2>2, <2>4, <3>2 DEF InboxInv
    <3>3. CASE j # i
      <4>1. (\E v \in Workers : url[a][v] = j) => \E v \in Workers : url'[a][v] = j
        BY <1>1, <2>2, <3>3, OutboxAssumption
      <4>2. Settled(a, j) => Settled(a, j)'
        BY <1>1 DEF Settled
      <4> QED
        BY <1>1, <2>2, <3>3, <4>1, <4>2 DEF InboxInv
    <3> QED
      BY <3>2, <3>3
  <2> QED
    BY <1>1, <2>2, <2>3, <2>5, <2>6, WorkerSuffices
<1>3. CASE queue[a] = {} /\ WorkerGoto(a, w, "done") /\ UNCHANGED <<queue, url>>
  <2>1. /\ wpc'[a][w] = "done"
        /\ \A v \in Workers \ {w} : wpc'[a][v] = wpc[a][v]
        /\ \A b \in Activities \ {a} : SameFanOut(b)
    BY <1>1, <1>3 DEF OutboxInv, TypeOK, WorkerGoto, SameFanOut
  <2>2. TypeOK'
    BY <1>1, <1>3 DEF OutboxInv, TypeOK, WorkerGoto
  <2>3. ASSUME NEW v \in Workers PROVE WorkerInv(a, v)'
    <3>1. CASE v = w
      BY <1>1, <1>3, <2>1, <3>1, OutboxAssumption DEF WorkerInv, Busy
    <3>2. CASE v # w
      BY <1>1, <1>3, <2>1, <3>2 DEF WorkerInv
    <3> QED
      BY <3>1, <3>2
  <2>4. ASSUME NEW j \in Inboxes PROVE InboxInv(a, j)'
    BY <1>1, <1>3 DEF InboxInv, Settled
  <2> QED
    BY <1>1, <1>3, <2>1, <2>2, <2>3, <2>4, WorkerSuffices
<1> QED
  BY <1>2, <1>3 DEF Pop

LEMMA BackoffKeeps ==
  ASSUME OutboxInv, NEW a \in Activities, NEW w \in Workers, UNCHANGED mode, Backoff(a, w)
  PROVE  OutboxInv'
<1> USE DEF publishVars, logVars
<1>1. /\ wpc[a][w] = "backoff" /\ wpc'[a][w] = "post"
      /\ attempt'[a][w] = attempt[a][w] + 1 /\ attempt[a][w] \in Nat
      /\ \A v \in Workers : WorkerInv(a, v)
      /\ \A i \in Inboxes : InboxInv(a, i)
      /\ \A v \in Workers \ {w} : wpc'[a][v] = wpc[a][v] /\ attempt'[a][v] = attempt[a][v]
      /\ \A b \in Activities \ {a} : SameFanOut(b)
      /\ UNCHANGED <<mode, followers, stored, document, queue, publishVars, url, answer, logVars>>
  BY SomeAttempt DEF Backoff, OutboxInv, TypeOK, ActivityInv, WorkerGoto, SameFanOut
<1>2. TypeOK'
  <2>1. attempt[a][w] + 1 < Attempts
    BY <1>1 DEF WorkerInv
  <2>2. attempt' \in [Activities -> [Workers -> 0..(Attempts - 1)]]
    BY <1>1, <2>1, SomeAttempt DEF Backoff, OutboxInv, TypeOK
  <2>3. wpc' \in [Activities -> [Workers -> {"none", "pop", "post", "report", "backoff",
                                              "done", "dead"}]]
    BY DEF Backoff, OutboxInv, TypeOK, WorkerGoto
  <2> QED
    BY <1>1, <2>2, <2>3 DEF OutboxInv, TypeOK
<1>3. ASSUME NEW v \in Workers PROVE WorkerInv(a, v)'
  <2>1. CASE v = w
    BY <1>1, <2>1 DEF WorkerInv, Busy
  <2>2. CASE v # w
    BY <1>1, <2>2 DEF WorkerInv
  <2> QED
    BY <2>1, <2>2
<1>4. ASSUME NEW j \in Inboxes PROVE InboxInv(a, j)'
  BY <1>1 DEF InboxInv, Settled
<1> QED
  BY <1>1, <1>2, <1>3, <1>4, WorkerSuffices

LEMMA PostKeeps ==
  ASSUME OutboxInv, NEW a \in Activities, NEW w \in Workers, UNCHANGED mode, Post(a, w)
  PROVE  OutboxInv'
<1> USE DEF publishVars
<1>0. /\ url[a][w] \in Inboxes \ queue[a] /\ NoInbox \notin Inboxes
      /\ posts' = [posts EXCEPT ![a][url[a][w]] = @ + 1]
  BY OutboxAssumption DEF Post, OutboxInv, ActivityInv, WorkerInv, Busy
<1> PICK i \in Inboxes : i = url[a][w]
  BY <1>0
<1>1. /\ wpc[a][w] = "post" /\ i # NoInbox /\ i \notin queue[a] /\ url[a][w] = i
      /\ \A v \in Workers : WorkerInv(a, v)
      /\ \A j \in Inboxes : InboxInv(a, j)
      /\ UNCHANGED <<mode, followers, stored, document, queue, publishVars, reports>>
  BY <1>0 DEF Post, OutboxInv, ActivityInv
<1>2. /\ posts[a][i] = attempt[a][w] /\ attempt[a][w] \in Nat /\ attempt[a][w] < Attempts
      /\ \A r \in reports[a][i] : r.answer # "ok" /\ r.attempt \in Nat
      /\ posts'[a][i] = posts[a][i] + 1
      /\ \A j \in Inboxes \ {i} : posts'[a][j] = posts[a][j]
      /\ \A b \in Activities \ {a} : posts'[b] = posts[b]
  <2>1. /\ posts' = [posts EXCEPT ![a][i] = posts[a][i] + 1]
        /\ posts \in [Activities -> [Inboxes -> 0..Attempts]]
        /\ attempt \in [Activities -> [Workers -> 0..(Attempts - 1)]]
    BY DEF Post, OutboxInv, TypeOK
  <2>2. \A r \in reports[a][i] : r.attempt \in Nat
    BY <1>1, SomeAttempt DEF OutboxInv, TypeOK, Report
  <2>3. posts[a][i] = attempt[a][w] /\ \A r \in reports[a][i] : r.answer # "ok"
    BY <1>1 DEF WorkerInv
  <2>4. attempt[a][w] \in Nat /\ attempt[a][w] < Attempts
    BY <2>1, SomeAttempt
  <2> QED
    BY <1>1, <2>1, <2>2, <2>3, <2>4
<1>3. posts' \in [Activities -> [Inboxes -> 0..Attempts]]
  <2>1. /\ posts' = [posts EXCEPT ![a][i] = posts[a][i] + 1]
        /\ posts \in [Activities -> [Inboxes -> 0..Attempts]]
    BY DEF Post, OutboxInv, TypeOK
  <2>2. posts[a][i] + 1 \in 0..Attempts
    BY <1>2, SomeAttempt
  <2> QED
    BY <1>1, <2>1, <2>2
<1>4. /\ wpc'[a][w] \in {"report", "dead"}
      /\ wpc' \in [Activities -> [Workers -> {"none", "pop", "post", "report", "backoff",
                                               "done", "dead"}]]
      /\ wpc'[a][w] = "report" => url'[a][w] = i /\ attempt'[a][w] = attempt[a][w]
      /\ wpc'[a][w] = "dead" => /\ url'[a][w] = NoInbox /\ attempt'[a][w] = 0
                                /\ i \in panicked'[a]
      /\ \A v \in Workers \ {w} : wpc'[a][v] = wpc[a][v] /\ url'[a][v] = url[a][v]
                                  /\ attempt'[a][v] = attempt[a][v]
      /\ panicked[a] \subseteq panicked'[a]
      /\ \A b \in Activities \ {a} : SameFanOut(b)
      /\ TypeOK'
  <2>1. CASE /\ \E r \in Answers : answer' = [answer EXCEPT ![a][w] = r]
             /\ WorkerGoto(a, w, "report")
             /\ UNCHANGED <<url, attempt, panicked>>
    BY <1>1, <1>2, <1>3, <2>1 DEF OutboxInv, TypeOK, WorkerGoto, SameFanOut
  <2>2. CASE /\ panicked' = [panicked EXCEPT ![a] = @ \union {i}]
             /\ url' = [url EXCEPT ![a][w] = NoInbox]
             /\ attempt' = [attempt EXCEPT ![a][w] = 0]
             /\ WorkerGoto(a, w, "dead")
             /\ UNCHANGED answer
    <3>1. attempt' \in [Activities -> [Workers -> 0..(Attempts - 1)]]
      BY <2>2, SomeAttempt DEF OutboxInv, TypeOK
    <3>2. panicked' \in [Activities -> SUBSET Inboxes]
      BY <1>1, <2>2 DEF OutboxInv, TypeOK
    <3>3. url' \in [Activities -> [Workers -> Inboxes \union {NoInbox}]]
      BY <2>2 DEF OutboxInv, TypeOK
    <3> QED
      BY <1>1, <1>2, <1>3, <2>2, <3>1, <3>2, <3>3 DEF OutboxInv, TypeOK, WorkerGoto, SameFanOut
  <2> QED
    BY <2>1, <2>2 DEF Post
<1>5. ASSUME NEW v \in Workers PROVE WorkerInv(a, v)'
  <2>0. WorkerInv(a, v) /\ WorkerInv(a, w)
    BY <1>1
  <2>1. CASE v = w /\ wpc'[a][w] = "report"
    <3>1. \A r \in reports[a][i] : r.attempt <= attempt[a][w]
      BY <1>1, <1>2 DEF InboxInv
    <3>2. \A u \in Workers \ {w} : url'[a][u] # i
      BY <1>1, <1>4, <2>0 DEF WorkerInv
    <3> QED
      BY <1>1, <1>2, <1>4, <2>1, <3>1, <3>2 DEF WorkerInv, Busy
  <2>2. CASE v = w /\ wpc'[a][w] = "dead"
    BY <1>1, <1>4, <2>2, OutboxAssumption DEF WorkerInv, Busy
  <2>3. CASE v # w
    <3>1. url[a][v] # i
      BY <1>1, <2>0, <2>3 DEF WorkerInv
    <3>2. url'[a][w] \in {i, NoInbox} /\ url'[a][v] = url[a][v]
      BY <1>4, <2>3
    <3> QED
      BY <1>1, <1>2, <1>4, <2>0, <2>3, <3>1, <3>2 DEF WorkerInv
  <2> QED
    BY <1>4, <2>1, <2>2, <2>3
<1>6. ASSUME NEW j \in Inboxes PROVE InboxInv(a, j)'
  <2>0. InboxInv(a, j) /\ pc[a] \notin Before /\ reports'[a] = reports[a] /\ i \notin queue'[a]
        /\ pc'[a] = pc[a] /\ inboxes'[a] = inboxes[a] /\ queue'[a] = queue[a]
    BY <1>1, WorkerFannedOut
  <2>1. CASE j = i
    <3>1. (\E v \in Workers : url'[a][v] = i) \/ Settled(a, i)'
      BY <1>4 DEF Settled
    <3> QED
      BY <1>2, <2>0, <2>1, <3>1 DEF InboxInv
  <2>2. CASE j # i
    <3>1. Settled(a, j) => Settled(a, j)'
      BY <1>1, <1>2, <1>4, <2>0, <2>2 DEF Settled
    <3>2. (\E v \in Workers : url[a][v] = j) => \E v \in Workers : url'[a][v] = j
      BY <1>4, <2>2
    <3> QED
      BY <1>2, <2>0, <2>2, <3>1, <3>2 DEF InboxInv
  <2> QED
    BY <2>1, <2>2
<1> QED
  BY <1>1, <1>4, <1>5, <1>6, WorkerSuffices

LEMMA ReportOutcomeKeeps ==
  ASSUME OutboxInv, NEW a \in Activities, NEW w \in Workers, UNCHANGED mode, ReportOutcome(a, w)
  PROVE  OutboxInv'
<1> USE DEF publishVars
<1> DEFINE outcome == [answer |-> answer[a][w], attempt |-> attempt[a][w] + 1]
<1>0. wpc[a][w] = "report" /\ url[a][w] \in Inboxes /\ NoInbox \notin Inboxes
  BY OutboxAssumption DEF ReportOutcome, OutboxInv, ActivityInv, WorkerInv, Busy
<1> PICK i \in Inboxes : i = url[a][w]
  BY <1>0
<1> PICK o \in Report : o = outcome
  <2>1. answer[a][w] \in Answers /\ attempt[a][w] + 1 \in 1..Attempts
    BY SomeAttempt DEF OutboxInv, TypeOK
  <2> QED
    BY <2>1 DEF Report
<1>1. /\ i # NoInbox /\ i \notin queue[a] /\ url[a][w] = i
      /\ \A v \in Workers : WorkerInv(a, v)
      /\ \A j \in Inboxes : InboxInv(a, j)
      /\ UNCHANGED <<mode, followers, stored, document, queue, publishVars, posts, panicked>>
  BY <1>0 DEF ReportOutcome, OutboxInv, ActivityInv, WorkerInv
<1>2. /\ o.answer = answer[a][w] /\ o.attempt = attempt[a][w] + 1 /\ o.attempt = posts[a][i]
      /\ attempt[a][w] \in Nat /\ o.attempt \in Nat
      /\ \A r \in reports[a][i] : /\ r.answer # "ok" /\ r.attempt \in Nat
                                  /\ r.attempt < o.attempt
  <2>1. /\ posts[a][i] = attempt[a][w] + 1
        /\ \A r \in reports[a][i] : r.answer # "ok" /\ r.attempt <= attempt[a][w]
    BY <1>0, <1>1 DEF WorkerInv
  <2>2. attempt[a][w] \in Nat /\ \A r \in reports[a][i] : r.attempt \in Nat
    BY SomeAttempt DEF OutboxInv, TypeOK, Report
  <2> QED
    BY <2>1, <2>2
<1>3. /\ reports'[a][i] = reports[a][i] \union {o}
      /\ \A j \in Inboxes \ {i} : reports'[a][j] = reports[a][j]
      /\ \A b \in Activities \ {a} : reports'[b] = reports[b]
      /\ reports' \in [Activities -> [Inboxes -> SUBSET Report]]
  <2>1. /\ reports' = [reports EXCEPT ![a][i] = reports[a][i] \union {o}]
        /\ reports \in [Activities -> [Inboxes -> SUBSET Report]]
    BY <1>1 DEF ReportOutcome, AfterReport, OutboxInv, TypeOK
  <2> QED
    BY <2>1
<1>4. /\ wpc'[a][w] \in {"backoff", "pop"}
      /\ wpc'[a][w] = "backoff" => /\ url'[a][w] = i /\ attempt'[a][w] = attempt[a][w]
                                   /\ o.answer # "ok" /\ o.attempt < Attempts
      /\ wpc'[a][w] = "pop" => /\ url'[a][w] = NoInbox /\ attempt'[a][w] = 0
                               /\ o.answer = "ok" \/ o.attempt = Attempts
      /\ \A v \in Workers \ {w} : wpc'[a][v] = wpc[a][v] /\ url'[a][v] = url[a][v]
                                  /\ attempt'[a][v] = attempt[a][v]
      /\ \A b \in Activities \ {a} : SameFanOut(b)
      /\ TypeOK'
  <2>1. /\ answer' \in [Activities -> [Workers -> Answers]]
        /\ \A b \in Activities \ {a} : answer'[b] = answer[b]
    BY DEF ReportOutcome, OutboxInv, TypeOK, Answers
  <2>2. CASE MayRetry(a, w) /\ WorkerGoto(a, w, "backoff") /\ UNCHANGED <<url, attempt>>
    <3>1. wpc' \in [Activities -> [Workers -> {"none", "pop", "post", "report", "backoff",
                                                "done", "dead"}]]
      BY <2>2 DEF OutboxInv, TypeOK, WorkerGoto
    <3> QED
      BY <1>1, <1>2, <1>3, <2>1, <2>2, <3>1 DEF OutboxInv, TypeOK, WorkerGoto, SameFanOut, MayRetry
  <2>3. CASE /\ ~MayRetry(a, w) /\ WorkerGoto(a, w, "pop")
             /\ url' = [url EXCEPT ![a][w] = NoInbox]
             /\ attempt' = [attempt EXCEPT ![a][w] = 0]
    <3>1. attempt' \in [Activities -> [Workers -> 0..(Attempts - 1)]]
      BY <2>3, SomeAttempt DEF OutboxInv, TypeOK
    <3>2. url' \in [Activities -> [Workers -> Inboxes \union {NoInbox}]]
      BY <2>3 DEF OutboxInv, TypeOK
    <3>3. wpc' \in [Activities -> [Workers -> {"none", "pop", "post", "report", "backoff",
                                                "done", "dead"}]]
      BY <2>3 DEF OutboxInv, TypeOK, WorkerGoto
    <3>4. attempt[a][w] <= Attempts - 1
      BY SomeAttempt DEF OutboxInv, TypeOK
    <3>5. o.answer = "ok" \/ o.attempt = Attempts
      BY <1>2, <2>3, <3>4, SomeAttempt DEF MayRetry
    <3>6. TypeOK'
      BY <1>1, <1>3, <2>1, <3>1, <3>2, <3>3 DEF OutboxInv, TypeOK
    <3> QED
      BY <1>1, <1>3, <2>1, <2>3, <3>5, <3>6 DEF OutboxInv, TypeOK, WorkerGoto, SameFanOut
  <2> QED
    BY <2>2, <2>3 DEF ReportOutcome
<1>5. ASSUME NEW v \in Workers PROVE WorkerInv(a, v)'
  <2>0. WorkerInv(a, v) /\ WorkerInv(a, w)
    BY <1>1
  <2>1. CASE v = w /\ wpc'[a][w] = "backoff"
    <3>1. \A u \in Workers \ {w} : url'[a][u] # i
      BY <1>1, <1>4, <2>0 DEF WorkerInv
    <3>2. attempt'[a][w] + 1 < Attempts /\ posts'[a][i] = attempt'[a][w] + 1
      BY <1>1, <1>2, <1>4, <2>1
    <3>3. \A r \in reports'[a][i] : r.answer # "ok"
      BY <1>2, <1>3, <1>4, <2>1
    <3> QED
      BY <1>1, <1>4, <2>1, <3>1, <3>2, <3>3 DEF WorkerInv, Busy
  <2>2. CASE v = w /\ wpc'[a][w] = "pop"
    BY <1>0, <1>1, <1>4, <2>2 DEF WorkerInv, Busy
  <2>3. CASE v # w
    <3>1. url[a][v] # i
      BY <1>1, <2>0, <2>3 DEF WorkerInv
    <3>2. url'[a][w] \in {i, NoInbox} /\ url'[a][v] = url[a][v]
      BY <1>4, <2>3
    <3> QED
      BY <1>0, <1>1, <1>3, <1>4, <2>0, <2>3, <3>1, <3>2 DEF WorkerInv
  <2> QED
    BY <1>4, <2>1, <2>2, <2>3
<1>6. ASSUME NEW j \in Inboxes PROVE InboxInv(a, j)'
  <2>0. /\ InboxInv(a, j) /\ pc[a] \notin Before /\ posts'[a] = posts[a]
        /\ pc'[a] = pc[a] /\ inboxes'[a] = inboxes[a] /\ queue'[a] = queue[a]
    BY <1>0, <1>1, WorkerFannedOut
  <2>1. CASE j = i
    <3>1. (\E v \in Workers : url'[a][v] = i) \/ Settled(a, i)'
      BY <1>3, <1>4 DEF Settled
    <3>2. \A r \in reports'[a][i] :
            r.attempt <= posts'[a][i] /\ (r.answer = "ok" => r.attempt = posts'[a][i])
      BY <1>2, <1>3, <2>0
    <3>3. \A r, s \in reports'[a][i] : r.attempt = s.attempt => r = s
      BY <1>2, <1>3, <2>0, <2>1 DEF InboxInv
    <3> QED
      BY <1>1, <2>0, <2>1, <3>1, <3>2, <3>3 DEF InboxInv
  <2>2. CASE j # i
    <3>1. Settled(a, j) => Settled(a, j)'
      BY <1>1, <1>3, <2>2 DEF Settled
    <3>2. (\E v \in Workers : url[a][v] = j) => \E v \in Workers : url'[a][v] = j
      BY <1>1, <1>4, <2>2
    <3> QED
      BY <1>3, <2>0, <2>2, <3>1, <3>2 DEF InboxInv
  <2> QED
    BY <2>1, <2>2
<1> QED
  BY <1>0, <1>1, <1>4, <1>5, <1>6, WorkerSuffices

----------------------------------------------------------------------------
(* The rest of the server                                                  *)

LEMMA ServerKeeps ==
  ASSUME OutboxInv, UNCHANGED mode,
         ServeOutbox \/ \E x \in Actors : FollowerJoins(x) \/ FollowerLeaves(x)
  PROVE  OutboxInv'
<1>1. /\ UNCHANGED <<stored, queue, pc, inboxes, publishes, wpc, url, attempt, answer,
                     posts, reports, panicked>>
      /\ document' \in {document, NoDoc, stored}
  BY DEF ServeOutbox, FollowerJoins, FollowerLeaves, publishVars, workerVars, logVars
<1>2. \A a \in Activities : steady[a] \subseteq followers
  BY DEF OutboxInv, ActivityInv, PublishInv
<1>3. /\ \A a \in Activities : steady'[a] \subseteq steady[a] /\ steady'[a] \subseteq followers'
      /\ followers' \subseteq Actors
      /\ steady' \in [Activities -> SUBSET Actors]
  <2>1. CASE ServeOutbox
    BY <1>2, <2>1 DEF ServeOutbox, OutboxInv, TypeOK, publishVars
  <2>2. CASE \E x \in Actors : FollowerJoins(x)
    BY <1>2, <2>2 DEF FollowerJoins, OutboxInv, TypeOK, publishVars
  <2>3. CASE \E x \in Actors : FollowerLeaves(x)
    BY <1>2, <2>3 DEF FollowerLeaves, OutboxInv, TypeOK
  <2> QED
    BY <2>1, <2>2, <2>3
<1>4. TypeOK'
  BY <1>1, <1>3 DEF OutboxInv, TypeOK
<1>5. ASSUME NEW a \in Activities PROVE ActivityInv(a)'
  <2>1. SameActivity(a)
    BY <1>1 DEF SameActivity, SameFanOut
  <2> QED
    BY <1>1, <1>3, <2>1, SameActivityKeeps DEF OutboxInv
<1> QED
  BY <1>4, <1>5 DEF OutboxInv

LEMMA OutboxInvStep ==
  ASSUME OutboxInv, [Next]_vars
  PROVE  OutboxInv'
<1>1. CASE UNCHANGED vars
  <2>1. /\ UNCHANGED <<mode, followers, stored, document, queue, pc, inboxes, publishes, steady,
                       wpc, url, attempt, answer, posts, reports, panicked>>
    BY <1>1 DEF vars, publishVars, workerVars, logVars
  <2>2. TypeOK'
    BY <2>1 DEF OutboxInv, TypeOK
  <2>3. ASSUME NEW a \in Activities PROVE ActivityInv(a)'
    <3>1. SameActivity(a) /\ steady[a] \subseteq followers
      BY <2>1 DEF SameActivity, SameFanOut, OutboxInv, ActivityInv, PublishInv
    <3> QED
      BY <2>1, <3>1, SameActivityKeeps DEF OutboxInv
  <2> QED
    BY <2>2, <2>3 DEF OutboxInv
<1>2. ASSUME NEW a \in Activities, UNCHANGED mode, Publish(a)
      PROVE  OutboxInv'
  BY <1>2, PublishKeeps
<1>3. ASSUME NEW a \in Activities, UNCHANGED mode, PublishStep(a)
      PROVE  OutboxInv'
  BY <1>3, StoreActivityKeeps, InvalidateOutboxKeeps, ReadFollowersKeeps, CollectRecipientsKeeps,
     StartFanOutKeeps, CallDeliverKeeps, JoinKeeps DEF PublishStep
<1>4. ASSUME NEW a \in Activities, NEW w \in Workers, UNCHANGED mode, WorkerStep(a, w)
      PROVE  OutboxInv'
  BY <1>4, PopKeeps, PostKeeps, ReportOutcomeKeeps, BackoffKeeps DEF WorkerStep
<1> QED
  BY <1>1, <1>2, <1>3, <1>4, ServerKeeps DEF Next

(* Every behaviour keeps the invariant, fair or not.                       *)
LEMMA OutboxAlways == Spec => []OutboxInv
<1>1. Init => OutboxInv
  BY OutboxInvInit
<1>2. OutboxInv /\ [Next]_vars => OutboxInv'
  BY OutboxInvStep
<1> QED
  BY <1>1, <1>2, PTL DEF Spec

----------------------------------------------------------------------------
(* The variables keep their types: above all, no inbox gets more POSTs     *)
(* than there are attempts.                                                *)
THEOREM OutboxTyped == Spec => []TypeOK
<1>1. OutboxInv => TypeOK
  BY DEF OutboxInv
<1> QED
  BY <1>1, OutboxAlways, PTL

(* However the workers of a fan-out take turns, an inbox is with one of    *)
(* them, or in the queue, never twice.                                     *)
THEOREM AlwaysSoleDeliverer == Spec => []SoleDeliverer
<1>1. OutboxInv => SoleDeliverer
  BY DEF OutboxInv, ActivityInv, WorkerInv, SoleDeliverer
<1> QED
  BY <1>1, OutboxAlways, PTL

(* Nothing is posted to an inbox that answered 2xx, and no two reports     *)
(* count as the same attempt.                                              *)
THEOREM SuccessAlwaysLast == Spec => []SuccessIsLast
<1>1. OutboxInv => SuccessIsLast
  BY DEF OutboxInv, ActivityInv, InboxInv, SuccessIsLast
<1> QED
  BY <1>1, OutboxAlways, PTL

(* An activity that anybody has received is stored, and in the outbox      *)
(* document that is served.                                                *)
THEOREM DeliveredAlwaysPublic == Spec => []DeliveredIsPublic
<1>1. ASSUME OutboxInv, NEW a \in Activities, NEW i \in Inboxes, posts[a][i] > 0
      PROVE  a \in stored /\ (document # NoDoc => a \in document)
  <2>1. pc[a] \notin Before
    BY <1>1 DEF OutboxInv, ActivityInv, InboxInv
  <2>2. pc[a] \in FannedOut
    BY <1>1, <2>1 DEF OutboxInv, TypeOK, Before, FannedOut
  <2> QED
    BY <1>1, <2>2 DEF OutboxInv, ActivityInv, PublishInv
<1>2. OutboxInv => DeliveredIsPublic
  BY <1>1 DEF DeliveredIsPublic
<1> QED
  BY <1>2, OutboxAlways, PTL

(* Whoever followed throughout an activity for the followers is served,    *)
(* for every number of workers, and whatever the others do, as long as one *)
(* of the workers survives.                                                *)
THEOREM SteadyFollowersAlwaysServed == Spec => []SteadyFollowersServed
<1>1. ASSUME OutboxInv, NEW a \in ToFollowers, Over(a),
             NEW x \in steady[a], NEW i \in Inboxes \ Blocked, i = PreferredInbox(x)
      PROVE  Settled(a, i) \/ (AllKilled(a) /\ i \in queue[a])
  <2>1. a \in Activities /\ pc[a] \in FannedOut
    BY <1>1, OutboxAssumption DEF Over, FannedOut
  <2>2. i \in inboxes[a]
    BY <1>1, <2>1, OutboxAssumption DEF OutboxInv, ActivityInv, PublishInv
  <2>3. \A w \in Workers : url[a][w] = NoInbox
    BY <1>1, <2>1 DEF OutboxInv, ActivityInv, WorkerInv, Busy, Over, Ended
  <2>4. i \in queue[a] => AllKilled(a)
    <3>1. CASE mode = "callback"
      BY <1>1, <2>1, <3>1 DEF OutboxInv, ActivityInv, FanOutInv, Over
    <3>2. CASE mode # "callback" /\ i \in queue[a]
      <4>1. wpc[a][1] # "none"
        BY <1>1, <2>1, <2>2, <3>2 DEF OutboxInv, ActivityInv, FanOutInv
      <4>2. \A w \in Workers : wpc[a][w] # "done"
        BY <1>1, <2>1, <3>2 DEF OutboxInv, ActivityInv, WorkerInv
      <4> QED
        BY <1>1, <4>1, <4>2, SomeWorker DEF Over, Ended, AllKilled
    <3> QED
      BY <3>1, <3>2
  <2> QED
    BY <1>1, <2>1, <2>2, <2>3, <2>4, OutboxAssumption DEF OutboxInv, ActivityInv, InboxInv
<1>2. OutboxInv => SteadyFollowersServed
  BY <1>1 DEF SteadyFollowersServed, PreferredInbox
<1> QED
  BY <1>2, OutboxAlways, PTL

----------------------------------------------------------------------------
(* Who is served, and what the host hears of it.  Nobody is served that is *)
(* not among the inboxes left after the filter, an inbox that panicked is  *)
(* with no worker any more, and of the POSTs to an inbox only the last can *)
(* be one that has not been reported.                                      *)

Ledger(a, i) ==
  mode # "callback" =>
    \A n \in 1..posts[a][i] :
      \/ Reported(a, i, n)
      \/ /\ n = posts[a][i]
         /\ i \in panicked[a] \/ \E w \in Workers : url[a][w] = i /\ wpc[a][w] = "report"

ServedInv(a, i) ==
  /\ pc[a] \in FannedOut \union {"deliver"} => inboxes[a] \cap Blocked = {}
  /\ posts[a][i] > 0 \/ (\E w \in Workers : url[a][w] = i) => pc[a] \in FannedOut /\ i \in inboxes[a]
  /\ pc[a] \in Before => i \notin panicked[a]
  /\ i \in panicked[a] => i \notin queue[a] /\ \A w \in Workers : url[a][w] # i
  /\ Ledger(a, i)

AllServed == \A a \in Activities : \A i \in Inboxes : ServedInv(a, i)

LEMMA ServedElsewhere ==
  ASSUME NEW a \in Activities, NEW i \in Inboxes, ServedInv(a, i), UNCHANGED mode, SameActivity(a)
  PROVE  ServedInv(a, i)'
  BY DEF ServedInv, Ledger, Reported, SameActivity, SameFanOut

(* Before the fan-out there is nothing to account for. *)
LEMMA ServedBefore ==
  ASSUME OutboxInv, OutboxInv', NEW a \in Activities, NEW i \in Inboxes, ServedInv(a, i),
         UNCHANGED <<mode, panicked>>, pc[a] \in Before, pc'[a] \in Before,
         pc'[a] = "deliver" => inboxes'[a] \cap Blocked = {}
  PROVE  ServedInv(a, i)'
<1>1. posts'[a][i] = 0 /\ \A w \in Workers : url'[a][w] = NoInbox
  BY DEF OutboxInv, ActivityInv, InboxInv, PublishInv, WorkerInv, Busy
<1>2. i # NoInbox /\ i \notin panicked'[a] /\ pc'[a] \notin FannedOut
  BY OutboxAssumption DEF ServedInv, Before, FannedOut
<1> QED
  BY <1>1, <1>2 DEF ServedInv, Ledger

LEMMA ServedPublishStep ==
  ASSUME OutboxInv, OutboxInv', AllServed, NEW a \in Activities, UNCHANGED mode,
         Publish(a) \/ PublishStep(a)
  PROVE  AllServed'
<1> USE DEF workerVars, logVars
<1>t. /\ pc \in [Activities -> {"idle", "publish", "stored", "invalidated", "collected",
                                "deliver", "callback", "join", "returned", "failed"}]
      /\ inboxes \in [Activities -> SUBSET Inboxes] /\ queue \in [Activities -> SUBSET Inboxes]
      /\ wpc \in [Activities -> [Workers -> {"none", "pop", "post", "report", "backoff",
                                             "done", "dead"}]]
      /\ posts \in [Activities -> [Inboxes -> 0..Attempts]]
  BY DEF OutboxInv, TypeOK
<1>1. ASSUME NEW b \in Activities \ {a} PROVE SameActivity(b)
  BY <1>t DEF Publish, PublishStep, StoreActivity, InvalidateOutbox, ReadFollowers,
     CollectRecipients, StartFanOut, CallDeliver, Join, Goto, SameActivity, SameFanOut
<1>2. ASSUME NEW i \in Inboxes PROVE ServedInv(a, i)'
  <2>0. ServedInv(a, i) /\ ActivityInv(a)
    BY DEF AllServed, OutboxInv
  <2>1. CASE Publish(a) \/ StoreActivity(a) \/ InvalidateOutbox(a) \/ ReadFollowers(a)
    <3>1. /\ pc[a] \in Before /\ pc'[a] \in Before /\ pc'[a] # "deliver" /\ UNCHANGED panicked
      BY <1>t, <2>1 DEF Publish, StoreActivity, InvalidateOutbox, ReadFollowers, Goto, Before
    <3> QED
      BY <2>0, <3>1, ServedBefore
  <2>2. CASE CollectRecipients(a)
    <3>1. PICK fetched \in SUBSET (Recipients[a] \ Blocked) :
            inboxes' = [inboxes EXCEPT ![a] = Permitted(@ \union CollectInboxes(fetched))]
      BY <2>2 DEF CollectRecipients
    <3>2. inboxes'[a] \cap Blocked = {}
      BY <1>t, <3>1 DEF Permitted
    <3>3. pc[a] \in Before /\ pc'[a] \in Before /\ UNCHANGED panicked
      BY <1>t, <2>2 DEF CollectRecipients, Goto, Before
    <3> QED
      BY <2>0, <3>2, <3>3, ServedBefore
  <2>3. CASE StartFanOut(a)
    <3>1. /\ pc[a] = "deliver" /\ pc'[a] \in FannedOut /\ pc'[a] \notin Before
          /\ UNCHANGED <<inboxes, url, posts, reports, panicked>>
      BY <1>t, <2>3 DEF StartFanOut, Goto, FannedOut, Before
    <3>2. /\ posts[a][i] = 0 /\ i \notin panicked[a] /\ i # NoInbox
          /\ \A w \in Workers : url[a][w] = NoInbox
      BY <2>0, <3>1, OutboxAssumption DEF ActivityInv, InboxInv, PublishInv, WorkerInv, Busy,
         Before, ServedInv
    <3>3. 1..posts'[a][i] = {}
      BY <3>1, <3>2
    <3> QED
      BY <2>0, <3>1, <3>2, <3>3 DEF ServedInv, Ledger
  <2>4. CASE CallDeliver(a)
    <3>1. PICK j \in queue[a] : /\ queue' = [queue EXCEPT ![a] = @ \ {j}]
                                /\ posts' = [posts EXCEPT ![a][j] = @ + 1]
      BY <2>4 DEF CallDeliver
    <3>2. /\ pc[a] = "callback" /\ pc'[a] \in {"callback", "returned"}
          /\ UNCHANGED <<inboxes, url, panicked>>
      BY <1>t, <2>4 DEF CallDeliver, Goto
    <3>3. /\ mode' = "callback" /\ j \in inboxes[a] /\ queue'[a] \subseteq queue[a]
          /\ \A k \in Inboxes \ {j} : posts'[a][k] = posts[a][k]
      BY <1>t, <2>0, <3>1, <3>2 DEF ActivityInv, FanOutInv, FannedOut
    <3> QED
      BY <2>0, <3>2, <3>3 DEF ServedInv, Ledger, FannedOut, Before
  <2>5. CASE Join(a)
    <3>1. /\ pc[a] = "join" /\ pc'[a] = "returned"
          /\ UNCHANGED <<inboxes, queue, wpc, url, posts, reports, panicked>>
      BY <1>t, <2>5 DEF Join, Goto
    <3> QED
      BY <2>0, <3>1 DEF ServedInv, Ledger, Reported, FannedOut, Before
  <2> QED
    BY <2>1, <2>2, <2>3, <2>4, <2>5 DEF PublishStep
<1> QED
  BY <1>1, <1>2, ServedElsewhere DEF AllServed

LEMMA ServedWorkerStep ==
  ASSUME OutboxInv, AllServed, NEW a \in Activities, NEW w \in Workers, UNCHANGED mode,
         WorkerStep(a, w)
  PROVE  AllServed'
<1> USE DEF publishVars, logVars
<1>t. /\ queue \in [Activities -> SUBSET Inboxes]
      /\ wpc \in [Activities -> [Workers -> {"none", "pop", "post", "report", "backoff",
                                             "done", "dead"}]]
      /\ url \in [Activities -> [Workers -> Inboxes \union {NoInbox}]]
      /\ attempt \in [Activities -> [Workers -> 0..(Attempts - 1)]]
      /\ answer \in [Activities -> [Workers -> Answers]]
      /\ posts \in [Activities -> [Inboxes -> 0..Attempts]]
      /\ reports \in [Activities -> [Inboxes -> SUBSET Report]]
      /\ panicked \in [Activities -> SUBSET Inboxes]
  BY DEF OutboxInv, TypeOK
<1>0. /\ pc[a] \in FannedOut /\ pc[a] \notin Before /\ mode # "callback"
      /\ UNCHANGED <<pc, inboxes>>
  <2>1. wpc[a][w] # "none"
    BY DEF WorkerStep, Pop, Post, ReportOutcome, Backoff
  <2> QED
    BY <2>1, WorkerFannedOut DEF WorkerStep, Pop, Post, ReportOutcome, Backoff
<1>1. ASSUME NEW b \in Activities \ {a} PROVE SameActivity(b)
  BY <1>t, <1>0 DEF WorkerStep, Pop, Post, ReportOutcome, Backoff, WorkerGoto, AfterReport,
     Taken, SameActivity, SameFanOut
<1>2. ASSUME NEW i \in Inboxes PROVE ServedInv(a, i)'
  <2>0. /\ ServedInv(a, i) /\ ActivityInv(a) /\ WorkerInv(a, w) /\ i # NoInbox
        /\ queue[a] \subseteq inboxes[a]
    BY <1>0, OutboxAssumption DEF AllServed, OutboxInv, ActivityInv, FanOutInv
  <2>1. CASE Pop(a, w)
    <3>1. /\ wpc[a][w] = "pop" /\ wpc'[a][w] # "report" /\ queue'[a] \subseteq queue[a]
          /\ url'[a][w] \in queue[a] \/ url'[a][w] = url[a][w]
          /\ \A v \in Workers \ {w} : wpc'[a][v] = wpc[a][v] /\ url'[a][v] = url[a][v]
          /\ UNCHANGED <<posts, reports, panicked>>
      BY <1>t, <2>1 DEF Pop, WorkerGoto, Taken
    <3>2. (\E v \in Workers : url[a][v] = i /\ wpc[a][v] = "report")
            => \E v \in Workers : url'[a][v] = i /\ wpc'[a][v] = "report"
      BY <3>1
    <3>3. Ledger(a, i)'
      BY <2>0, <3>1, <3>2 DEF ServedInv, Ledger, Reported
    <3> QED
      BY <1>0, <2>0, <3>1, <3>3 DEF ServedInv
  <2>2. CASE Post(a, w)
    <3>1. /\ wpc[a][w] = "post" /\ url[a][w] \in Inboxes /\ url[a][w] \in inboxes[a]
          /\ url[a][w] \notin queue[a] /\ url[a][w] \notin panicked[a]
          /\ \A v \in Workers \ {w} : url[a][v] # url[a][w]
      <4>1. wpc[a][w] = "post" /\ url[a][w] \in Inboxes /\ url[a][w] # NoInbox
        BY <2>0, <2>2, OutboxAssumption DEF Post, WorkerInv, Busy
      <4> QED
        BY <2>0, <4>1 DEF WorkerInv, AllServed, ServedInv
    <3>2. /\ \A j \in Inboxes \ {url[a][w]} : posts'[a][j] = posts[a][j]
          /\ posts'[a][url[a][w]] = posts[a][url[a][w]] + 1
          /\ posts[a][url[a][w]] \in Nat
          /\ UNCHANGED <<queue, reports>>
      BY <1>t, <2>2, <3>1, SomeAttempt DEF Post
    <3>3. /\ \/ /\ wpc'[a][w] = "report" /\ url'[a][w] = url[a][w] /\ panicked'[a] = panicked[a]
             \/ /\ wpc'[a][w] = "dead" /\ url'[a][w] = NoInbox
                /\ panicked'[a] = panicked[a] \union {url[a][w]}
          /\ \A v \in Workers \ {w} : wpc'[a][v] = wpc[a][v] /\ url'[a][v] = url[a][v]
      BY <1>t, <2>2 DEF Post, WorkerGoto
    <3>4. CASE i = url[a][w]
      <4>1. ASSUME NEW n \in 1..posts[a][i] PROVE Reported(a, i, n)
        BY <1>0, <2>0, <3>1, <3>4, <4>1 DEF ServedInv, Ledger
      <4>2. \A n \in 1..posts'[a][i] : n \in 1..posts[a][i] \/ n = posts'[a][i]
        BY <3>2, <3>4
      <4>3. Ledger(a, i)'
        BY <3>2, <3>3, <3>4, <4>1, <4>2 DEF Ledger, Reported
      <4> QED
        BY <1>0, <2>0, <3>1, <3>2, <3>3, <3>4, <4>3 DEF ServedInv
    <3>5. CASE i # url[a][w]
      <4>1. (\E v \in Workers : url[a][v] = i /\ wpc[a][v] = "report")
              => \E v \in Workers : url'[a][v] = i /\ wpc'[a][v] = "report"
        BY <3>3, <3>5
      <4>2. posts'[a][i] = posts[a][i] /\ (i \in panicked'[a] <=> i \in panicked[a])
        BY <3>2, <3>3, <3>5
      <4>3. Ledger(a, i)'
        BY <2>0, <3>2, <4>1, <4>2 DEF ServedInv, Ledger, Reported
      <4>4. \A v \in Workers : url'[a][v] = i => url[a][v] = i
        BY <2>0, <3>3, <3>5
      <4> QED
        BY <1>0, <2>0, <3>2, <4>2, <4>3, <4>4 DEF ServedInv
    <3> QED
      BY <3>4, <3>5
  <2>3. CASE ReportOutcome(a, w)
    <3>0. wpc[a][w] = "report" /\ url[a][w] \in Inboxes
      BY <2>0, <2>3 DEF ReportOutcome, WorkerInv, Busy
    <3>1. posts[a][url[a][w]] = attempt[a][w] + 1
      BY <2>0, <3>0 DEF WorkerInv
    <3>2. /\ \A j \in Inboxes \ {url[a][w]} : reports'[a][j] = reports[a][j]
          /\ reports'[a][url[a][w]] = reports[a][url[a][w]]
               \union {[answer |-> answer[a][w], attempt |-> attempt[a][w] + 1]}
          /\ UNCHANGED <<queue, posts, panicked>>
      BY <1>t, <2>3, <3>0 DEF ReportOutcome, AfterReport
    <3>3. /\ url'[a][w] \in {url[a][w], NoInbox}
          /\ \A v \in Workers \ {w} : wpc'[a][v] = wpc[a][v] /\ url'[a][v] = url[a][v]
      BY <1>t, <2>3 DEF ReportOutcome, WorkerGoto
    <3>4. \A n : Reported(a, i, n) => Reported(a, i, n)'
      BY <3>2 DEF Reported
    <3>5. i = url[a][w] => \E r \in reports'[a][i] : r.attempt = posts[a][i]
      <4> DEFINE o == [answer |-> answer[a][w], attempt |-> attempt[a][w] + 1]
      <4>1. o.attempt = attempt[a][w] + 1
        OBVIOUS
      <4>2. i = url[a][w] => o \in reports'[a][i]
        BY <3>2
      <4> HIDE DEF o
      <4> QED
        BY <3>1, <4>1, <4>2
    <3>6. (\E v \in Workers : url[a][v] = i /\ wpc[a][v] = "report") /\ i # url[a][w]
              => \E v \in Workers : url'[a][v] = i /\ wpc'[a][v] = "report"
      BY <3>3
    <3>7. Ledger(a, i)'
      <4> SUFFICES ASSUME mode' # "callback", NEW n \in 1..posts[a][i]
                   PROVE  \/ Reported(a, i, n)'
                          \/ /\ n = posts[a][i]
                             /\ \/ i \in panicked[a]
                                \/ \E v \in Workers : url'[a][v] = i /\ wpc'[a][v] = "report"
        BY <3>2 DEF Ledger
      <4>1. CASE Reported(a, i, n)
        BY <3>4, <4>1
      <4>2. CASE n = posts[a][i] /\ i \in panicked[a]
        BY <4>2
      <4>3. CASE n = posts[a][i] /\ \E v \in Workers : url[a][v] = i /\ wpc[a][v] = "report"
        BY <3>5, <3>6, <4>3 DEF Reported
      <4> QED
        BY <2>0, <4>1, <4>2, <4>3 DEF ServedInv, Ledger
    <3>8. \A v \in Workers : url'[a][v] = i => url[a][v] = i
      BY <2>0, <3>3
    <3> QED
      BY <1>0, <2>0, <3>2, <3>7, <3>8 DEF ServedInv
  <2>4. CASE Backoff(a, w)
    <3>1. /\ wpc[a][w] = "backoff" /\ \A v \in Workers \ {w} : wpc'[a][v] = wpc[a][v]
          /\ UNCHANGED <<queue, url, posts, reports, panicked>>
      BY <1>t, <2>4 DEF Backoff, WorkerGoto
    <3>2. (\E v \in Workers : url[a][v] = i /\ wpc[a][v] = "report")
            => \E v \in Workers : url'[a][v] = i /\ wpc'[a][v] = "report"
      BY <3>1
    <3>3. Ledger(a, i)'
      BY <2>0, <3>1, <3>2 DEF ServedInv, Ledger, Reported
    <3> QED
      BY <1>0, <2>0, <3>1, <3>3 DEF ServedInv
  <2> QED
    BY <2>1, <2>2, <2>3, <2>4 DEF WorkerStep
<1> QED
  BY <1>1, <1>2, ServedElsewhere DEF AllServed

LEMMA AlwaysServed == Spec => []AllServed
<1>1. Init => AllServed
  BY OutboxAssumption DEF Init, AllServed, ServedInv, Ledger, FannedOut
<1>2. ASSUME OutboxInv, OutboxInv', AllServed, [Next]_vars PROVE AllServed'
  <2>1. ASSUME UNCHANGED mode, \A a \in Activities : SameActivity(a) PROVE AllServed'
    BY <1>2, <2>1, ServedElsewhere DEF AllServed
  <2>2. CASE UNCHANGED vars
    BY <2>1, <2>2 DEF vars, publishVars, workerVars, logVars, SameActivity, SameFanOut
  <2>3. CASE UNCHANGED mode /\ (ServeOutbox \/ \E x \in Actors : FollowerJoins(x) \/ FollowerLeaves(x))
    BY <2>1, <2>3 DEF ServeOutbox, FollowerJoins, FollowerLeaves, publishVars, workerVars,
       logVars, SameActivity, SameFanOut
  <2> QED
    BY <1>2, <2>2, <2>3, ServedPublishStep, ServedWorkerStep DEF Next
<1> QED
  BY <1>1, <1>2, OutboxAlways, PTL DEF Spec

(* No domain an operator has blocked is ever sent an activity, whatever     *)
(* followers, mentions and shared inboxes point there.                      *)
THEOREM BlockedNeverReached == Spec => []BlockedNeverServed
<1>1. OutboxInv /\ AllServed => BlockedNeverServed
  BY DEF AllServed, ServedInv, BlockedNeverServed
<1> QED
  BY <1>1, OutboxAlways, AlwaysServed, PTL

(* The reports a host gets leave out no attempt but one that panicked.      *)
THEOREM LedgerComplete == Spec => []EveryAttemptReported
<1>1. AllServed => EveryAttemptReported
  BY DEF AllServed, ServedInv, Ledger, EveryAttemptReported
<1> QED
  BY <1>1, AlwaysServed, PTL

=============================================================================
