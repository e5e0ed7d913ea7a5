------------------------------- MODULE Outbox -------------------------------
(***************************************************************************)
(* Publishing and fan-out delivery: OutboxProcessor::publish and           *)
(* DeliveryContext (src/rust/src/handlers/outbox.rs).                      *)
(*                                                                         *)
(* Every activity is published by a thread of its own, against a follower  *)
(* list that other threads change.  A delivery is abstracted to the inbox  *)
(* it goes to; the VecDeque of the fan-out is the set of inboxes left, and *)
(* the order in which they are taken is left open.                         *)
(***************************************************************************)
EXTENDS Naturals, FiniteSets

CONSTANTS
  Activities,    (* activities being published, one publish() each          *)
  Actors,        (* remote actors                                           *)
  Inboxes,       (* inbox URLs                                              *)
  InboxOf,       (* the inbox of an actor, or NoInbox                       *)
  SharedInboxOf, (* the shared inbox of an actor, or NoInbox                *)
  Blocked,       (* inboxes and actors on blocked or non-allowed domains    *)
  ToFollowers,   (* activities addressed to the followers or the public     *)
  Recipients,    (* the actors in to and cc of an activity                  *)
  Modes,         (* how the fan-out may be configured to run: through a     *)
                 (* "callback", or by workers, "async" or "sync"            *)
  MaxWorkers,    (* max_delivery_workers                                    *)
  MaxRetries,    (* max_retries                                             *)
  StorageFaults, (* may a storage call return an error?                     *)
  Panics,        (* may the logging of a failed delivery panic?             *)
  MaxPublishes,  (* bound on the calls of publish() for one activity        *)
  NoInbox,       (* no URL                                                  *)
  NoDoc          (* no cached document                                      *)

ASSUME OutboxAssumption ==
  /\ InboxOf \in [Actors -> Inboxes \union {NoInbox}]
  /\ SharedInboxOf \in [Actors -> Inboxes \union {NoInbox}]
  /\ IsFiniteSet(Inboxes)
  /\ NoInbox \notin Inboxes
  /\ Blocked \subseteq Inboxes \union Actors
  /\ ToFollowers \subseteq Activities
  /\ Recipients \in [Activities -> SUBSET Actors]
  /\ Modes \subseteq {"callback", "async", "sync"}
  /\ MaxWorkers \in Nat
  /\ MaxRetries \in Nat
  /\ StorageFaults \in BOOLEAN
  /\ Panics \in BOOLEAN
  /\ MaxPublishes \in Nat

VARIABLES
  mode,        (* the configured mode                                       *)
  followers,   (* what the storage holds as followers of the actor          *)
  stored,      (* activities in the storage                                 *)
  document,    (* the activities in the cached outbox document, or NoDoc    *)
  pc,          (* where publish() is, per activity                          *)
  inboxes,     (* its local inboxes                                         *)
  queue,       (* the queue its workers share                               *)
  wpc,         (* where a worker is, per activity and worker                *)
  url,         (* the inbox it delivers to                                  *)
  attempt,     (* its attempt, counted from 0                               *)
  answer,      (* what the last POST came back with                         *)
  posts,       (* history: POSTs made, per activity and inbox               *)
  reports,     (* history: the outcomes reported, per activity and inbox    *)
  panicked,    (* history: inboxes whose delivery killed the worker         *)
  publishes,   (* history: calls of publish(), per activity                 *)
  steady       (* history: followers since publish() was called             *)

publishVars == <<pc, inboxes, publishes, steady>>
workerVars == <<wpc, url, attempt, answer>>
logVars == <<posts, reports, panicked>>
vars == <<mode, followers, stored, document, queue, publishVars, workerVars, logVars>>

Attempts == IF MaxRetries = 0 THEN 1 ELSE MaxRetries
Workers == 1..(IF MaxWorkers = 0 THEN 1 ELSE MaxWorkers)

(* A 2xx status, a 4xx status, any other status or no response. *)
Answers == {"ok", "client_error", "other"}

(* A report says what came back and which attempt it was, counted from 1.  *)
Report == [answer: Answers, attempt: 1..Attempts]

TypeOK ==
  /\ mode \in Modes
  /\ followers \subseteq Actors
  /\ stored \subseteq Activities
  /\ document \in (SUBSET Activities) \union {NoDoc}
  /\ pc \in [Activities -> {"idle", "publish", "stored", "invalidated", "collected",
                            "deliver", "callback", "join", "returned", "failed"}]
  /\ inboxes \in [Activities -> SUBSET Inboxes]
  /\ queue \in [Activities -> SUBSET Inboxes]
  /\ wpc \in [Activities -> [Workers -> {"none", "pop", "post", "report", "backoff",
                                         "done", "dead"}]]
  /\ url \in [Activities -> [Workers -> Inboxes \union {NoInbox}]]
  /\ attempt \in [Activities -> [Workers -> 0..(Attempts - 1)]]
  /\ answer \in [Activities -> [Workers -> Answers]]
  /\ posts \in [Activities -> [Inboxes -> 0..Attempts]]
  /\ reports \in [Activities -> [Inboxes -> SUBSET Report]]
  /\ panicked \in [Activities -> SUBSET Inboxes]
  /\ publishes \in [Activities -> 0..MaxPublishes]
  /\ steady \in [Activities -> SUBSET Actors]

Init ==
  /\ mode \in Modes
  /\ followers \in SUBSET Actors
  /\ stored = {}
  /\ document = NoDoc
  /\ pc = [a \in Activities |-> "idle"]
  /\ inboxes = [a \in Activities |-> {}]
  /\ queue = [a \in Activities |-> {}]
  /\ wpc = [a \in Activities |-> [w \in Workers |-> "none"]]
  /\ url = [a \in Activities |-> [w \in Workers |-> NoInbox]]
  /\ attempt = [a \in Activities |-> [w \in Workers |-> 0]]
  /\ answer = [a \in Activities |-> [w \in Workers |-> "ok"]]
  /\ posts = [a \in Activities |-> [i \in Inboxes |-> 0]]
  /\ reports = [a \in Activities |-> [i \in Inboxes |-> {}]]
  /\ panicked = [a \in Activities |-> {}]
  /\ publishes = [a \in Activities |-> 0]
  /\ steady = [a \in Activities |-> {}]

----------------------------------------------------------------------------
(* publish()                                                               *)

Goto(a, p) == pc' = [pc EXCEPT ![a] = p]

(* The application calls publish(), again if the last call failed. *)
Publish(a) ==
  /\ pc[a] \in {"idle", "failed"}
  /\ publishes[a] < MaxPublishes
  /\ publishes' = [publishes EXCEPT ![a] = @ + 1]
  /\ steady' = [steady EXCEPT ![a] = followers]
  /\ inboxes' = [inboxes EXCEPT ![a] = {}]
  /\ Goto(a, "publish")
  /\ UNCHANGED <<followers, stored, document, queue, workerVars, logVars>>

(* Faulty variant: an error of the storage is ignored. *)
StoreActivity_Ignored(a) ==
  /\ pc[a] = "publish"
  /\ stored' \in {stored, stored \union {a}}
  /\ Goto(a, "stored")
  /\ UNCHANGED <<followers, document, queue, inboxes, publishes, steady, workerVars, logVars>>

(* self.storage.store_activity(..)? *)
StoreActivity(a) ==
  /\ pc[a] = "publish"
  /\ \/ stored' = stored \union {a} /\ Goto(a, "stored")
     \/ StorageFaults /\ UNCHANGED stored /\ Goto(a, "failed")
  /\ UNCHANGED <<followers, document, queue, inboxes, publishes, steady, workerVars, logVars>>

InvalidateOutbox(a) ==
  /\ pc[a] = "stored"
  /\ document' = NoDoc
  /\ Goto(a, "invalidated")
  /\ UNCHANGED <<followers, stored, queue, inboxes, publishes, steady, workerVars, logVars>>

(* Faulty variant: the shared inbox is taken whether there is one or not.  *)
PreferredInbox_Shared(x) == SharedInboxOf[x]

(* Where an actor is delivered to. *)
PreferredInbox(x) == IF SharedInboxOf[x] # NoInbox THEN SharedInboxOf[x] ELSE InboxOf[x]

(* collect_inboxes: the distinct inboxes of some actors. *)
CollectInboxes(X) == {PreferredInbox(x) : x \in X} \ {NoInbox}

(* get_followers(..)?, for an activity that is_addressed_to_followers. *)
ReadFollowers(a) ==
  /\ pc[a] = "invalidated"
  /\ \/ /\ inboxes' = [inboxes EXCEPT ![a] = IF a \in ToFollowers
                                               THEN CollectInboxes(followers) ELSE {}]
        /\ Goto(a, "collected")
     \/ a \in ToFollowers /\ StorageFaults /\ UNCHANGED inboxes /\ Goto(a, "failed")
  /\ UNCHANGED <<followers, stored, document, queue, publishes, steady, workerVars, logVars>>

(* The inboxes that are not on a blocked domain. *)
Permitted(I) == I \ Blocked

(* collect_recipient_inboxes, whose fetches may fail, and the filter. *)
CollectRecipients(a) ==
  /\ pc[a] = "collected"
  /\ \E fetched \in SUBSET (Recipients[a] \ Blocked) :
       inboxes' = [inboxes EXCEPT ![a] = Permitted(@ \union CollectInboxes(fetched))]
  /\ Goto(a, "deliver")
  /\ UNCHANGED <<followers, stored, document, queue, publishes, steady, workerVars, logVars>>

(* The fan-out starts: the custom callback for one inbox after the other,  *)
(* or workers, which publish() waits for unless async_delivery is set.     *)
StartFanOut(a) ==
  /\ pc[a] = "deliver"
  /\ queue' = [queue EXCEPT ![a] = inboxes[a]]
  /\ IF mode = "callback" \/ inboxes[a] = {}
       THEN UNCHANGED wpc
       ELSE wpc' = [wpc EXCEPT ![a] =
                      [w \in Workers |-> IF w <= Cardinality(inboxes[a]) THEN "pop" ELSE "none"]]
  /\ Goto(a, IF inboxes[a] = {} \/ mode = "async" THEN "returned"
             ELSE IF mode = "callback" THEN "callback" ELSE "join")
  /\ UNCHANGED <<followers, stored, document, inboxes, publishes, steady,
                 url, attempt, answer, logVars>>

(* Faulty variant: a panic of the callback ends the loop. *)
CallDeliver_Stops(a) ==
  /\ pc[a] = "callback"
  /\ \E i \in queue[a] :
       /\ queue' = [queue EXCEPT ![a] = @ \ {i}]
       /\ posts' = [posts EXCEPT ![a][i] = @ + 1]
  /\ \/ Goto(a, IF queue'[a] = {} THEN "returned" ELSE "callback")
     \/ Goto(a, "returned")
  /\ UNCHANGED <<followers, stored, document, inboxes, publishes, steady, workerVars,
                 reports, panicked>>

(* deliver(inbox_url, &activity) under catch_unwind: no retry, no report.  *)
CallDeliver(a) ==
  /\ pc[a] = "callback"
  /\ \E i \in queue[a] :
       /\ queue' = [queue EXCEPT ![a] = @ \ {i}]
       /\ posts' = [posts EXCEPT ![a][i] = @ + 1]
  /\ Goto(a, IF queue'[a] = {} THEN "returned" ELSE "callback")
  /\ UNCHANGED <<followers, stored, document, inboxes, publishes, steady, workerVars,
                 reports, panicked>>

(* Faulty variant: a worker that panicked is waited for. *)
Ended_Alive(a) == \A w \in Workers : wpc[a][w] \in {"none", "done"}

(* The workers that were started have ended. *)
Ended(a) == \A w \in Workers : wpc[a][w] \in {"none", "done", "dead"}

(* for h in handles { h.join() }, whose panics are ignored. *)
Join(a) ==
  /\ pc[a] = "join"
  /\ Ended(a)
  /\ Goto(a, "returned")
  /\ UNCHANGED <<followers, stored, document, queue, inboxes, publishes, steady, workerVars, logVars>>

----------------------------------------------------------------------------
(* A worker of the fan-out                                                 *)

WorkerGoto(a, w, p) == wpc' = [wpc EXCEPT ![a][w] = p]

(* Faulty variant: the inbox is read, and left in the queue. *)
Taken_Kept(a, i) == queue[a]

(* What pop_front leaves. *)
Taken(a, i) == queue[a] \ {i}

Pop(a, w) ==
  /\ wpc[a][w] = "pop"
  /\ \/ \E i \in queue[a] :
          /\ queue' = [queue EXCEPT ![a] = Taken(a, i)]
          /\ url' = [url EXCEPT ![a][w] = i]
          /\ WorkerGoto(a, w, "post")
     \/ queue[a] = {} /\ WorkerGoto(a, w, "done") /\ UNCHANGED <<queue, url>>
  /\ UNCHANGED <<followers, stored, document, publishVars, attempt, answer, logVars>>

(* deliver_status: one signed POST.  The log line of a refused one cuts    *)
(* the body at a byte, and panics where that splits a character.           *)
Post(a, w) ==
  /\ wpc[a][w] = "post"
  /\ posts' = [posts EXCEPT ![a][url[a][w]] = @ + 1]
  /\ \/ /\ \E r \in Answers : answer' = [answer EXCEPT ![a][w] = r]
        /\ WorkerGoto(a, w, "report")
        /\ UNCHANGED <<url, attempt, panicked>>
     \/ /\ Panics
        /\ panicked' = [panicked EXCEPT ![a] = @ \union {url[a][w]}]
        /\ url' = [url EXCEPT ![a][w] = NoInbox]
        /\ attempt' = [attempt EXCEPT ![a][w] = 0]
        /\ WorkerGoto(a, w, "dead")
        /\ UNCHANGED answer
  /\ UNCHANGED <<followers, stored, document, queue, publishVars, reports>>

(* Faulty variant: success does not end the loop. *)
MayRetry_Always(a, w) == attempt[a][w] + 1 < Attempts

(* Does the loop over the attempts go on? *)
MayRetry(a, w) == answer[a][w] # "ok" /\ attempt[a][w] + 1 < Attempts

(* Faulty variant: only the outcome of the last attempt is reported. *)
AfterReport_Last(a, w) ==
  [reports EXCEPT ![a][url[a][w]] =
     IF MayRetry(a, w) THEN @
     ELSE @ \union {[answer |-> answer[a][w], attempt |-> attempt[a][w] + 1]}]

(* report(): on_delivery_result is called, and panics of it are ignored. *)
AfterReport(a, w) ==
  [reports EXCEPT ![a][url[a][w]] =
     @ \union {[answer |-> answer[a][w], attempt |-> attempt[a][w] + 1]}]

(* report(), then the backoff sleep, or the next inbox. *)
ReportOutcome(a, w) ==
  /\ wpc[a][w] = "report"
  /\ reports' = AfterReport(a, w)
  /\ answer' = [answer EXCEPT ![a][w] = "ok"]
  /\ IF MayRetry(a, w)
       THEN /\ WorkerGoto(a, w, "backoff")
            /\ UNCHANGED <<url, attempt>>
       ELSE /\ WorkerGoto(a, w, "pop")
            /\ url' = [url EXCEPT ![a][w] = NoInbox]
            /\ attempt' = [attempt EXCEPT ![a][w] = 0]
  /\ UNCHANGED <<followers, stored, document, queue, publishVars, posts, panicked>>

(* The sleep is over; for attempt in ... takes the next. *)
Backoff(a, w) ==
  /\ wpc[a][w] = "backoff"
  /\ attempt' = [attempt EXCEPT ![a][w] = @ + 1]
  /\ WorkerGoto(a, w, "post")
  /\ UNCHANGED <<followers, stored, document, queue, publishVars, url, answer, logVars>>

----------------------------------------------------------------------------
(* The rest of the server                                                  *)

(* The inbox handler adds a follower, or removes one. *)
FollowerJoins(x) ==
  /\ x \notin followers
  /\ followers' = followers \union {x}
  /\ UNCHANGED <<stored, document, queue, publishVars, workerVars, logVars>>

FollowerLeaves(x) ==
  /\ x \in followers
  /\ followers' = followers \ {x}
  /\ steady' = [a \in Activities |-> steady[a] \ {x}]
  /\ UNCHANGED <<stored, document, queue, pc, inboxes, publishes, workerVars, logVars>>

(* The outbox document is rendered and cached. *)
ServeOutbox ==
  /\ document = NoDoc
  /\ document' = stored
  /\ UNCHANGED <<followers, stored, queue, publishVars, workerVars, logVars>>

PublishStep(a) ==
  \/ StoreActivity(a) \/ InvalidateOutbox(a) \/ ReadFollowers(a) \/ CollectRecipients(a)
  \/ StartFanOut(a) \/ CallDeliver(a) \/ Join(a)

WorkerStep(a, w) == Pop(a, w) \/ Post(a, w) \/ ReportOutcome(a, w) \/ Backoff(a, w)

Next ==
  /\ UNCHANGED mode
  /\ \/ \E a \in Activities :
          Publish(a) \/ PublishStep(a) \/ \E w \in Workers : WorkerStep(a, w)
     \/ \E x \in Actors : FollowerJoins(x) \/ FollowerLeaves(x)
     \/ ServeOutbox

Spec == Init /\ [][Next]_vars

(* Threads that can run do run. *)
Fairness ==
  \A a \in Activities :
    /\ WF_vars(UNCHANGED mode /\ PublishStep(a))
    /\ \A w \in Workers : WF_vars(UNCHANGED mode /\ WorkerStep(a, w))

FairSpec == Spec /\ Fairness

----------------------------------------------------------------------------
(* Properties *)

(* No two workers of a fan-out deliver to one inbox, and nobody else will  *)
(* take it up later: a remote server never gets an activity from two       *)
(* threads.                                                                *)
SoleDeliverer ==
  \A a \in Activities : \A v, w \in Workers :
    url[a][w] # NoInbox => /\ url[a][w] \notin queue[a]
                           /\ v # w => url[a][v] # url[a][w]

(* A delivery that was accepted was the last: nothing is posted to an      *)
(* inbox after a 2xx, and the attempts reported for it are all different.  *)
SuccessIsLast ==
  \A a \in Activities : \A i \in Inboxes : \A r, s \in reports[a][i] :
    /\ r.answer = "ok" => r.attempt = posts[a][i]
    /\ r.attempt = s.attempt => r = s

(* Whoever receives an activity can look it up: it is stored, and the      *)
(* outbox document served at that time is not an older one without it.     *)
DeliveredIsPublic ==
  \A a \in Activities : (\E i \in Inboxes : posts[a][i] > 0) =>
    a \in stored /\ (document # NoDoc => a \in document)

(* Whatever a fan-out sends, it sends to inboxes of which none is on a     *)
(* blocked domain, followers, mentions and shared inboxes alike.           *)
BlockedNeverServed ==
  \A a \in Activities : \A i \in Inboxes : posts[a][i] > 0 => i \notin Blocked

Reported(a, i, n) == \E r \in reports[a][i] : r.attempt = n

(* The host's ledger of deliveries has every attempt ("invoked after every *)
(* delivery attempt", outbox.rs): all but the last POST to an inbox have   *)
(* been reported, and the last has, is about to be, or panicked.           *)
EveryAttemptReported ==
  mode # "callback" =>
    \A a \in Activities : \A i \in Inboxes : \A n \in 1..posts[a][i] :
      \/ Reported(a, i, n)
      \/ /\ n = posts[a][i]
         /\ i \in panicked[a] \/ \E w \in Workers : url[a][w] = i /\ wpc[a][w] = "report"

Over(a) == pc[a] = "returned" /\ Ended(a)

(* What happened to the delivery of an inbox when all is over: accepted,   *)
(* given up after the last attempt, or cut short by a panic.               *)
Settled(a, i) ==
  \/ i \in panicked[a]
  \/ \E r \in reports[a][i] : r.answer = "ok" \/ r.attempt = Attempts
  \/ mode = "callback" /\ posts[a][i] = 1

(* Panics killed every worker that was started.                            *)
AllKilled(a) ==
  /\ \E w \in Workers : wpc[a][w] = "dead"
  /\ \A w \in Workers : wpc[a][w] \in {"none", "dead"}

(* Once the delivery of an activity addressed to the followers is over,    *)
(* every actor that followed throughout has been served, at an inbox that  *)
(* is not blocked.  A panic costs the inbox that its worker was at; the    *)
(* surviving workers serve the rest, and only where panics killed every    *)
(* worker is an inbox left in the queue.                                   *)
SteadyFollowersServed ==
  \A a \in ToFollowers : Over(a) =>
    \A x \in steady[a] : \A i \in Inboxes \ Blocked :
      i = (IF SharedInboxOf[x] # NoInbox THEN SharedInboxOf[x] ELSE InboxOf[x]) =>
        Settled(a, i) \/ (AllKilled(a) /\ i \in queue[a])

(* Every publish() ends, and so does the fan-out it started.               *)
FanOutEnds ==
  \A a \in Activities : pc[a] = "publish" ~> Over(a) \/ pc[a] = "failed"

=============================================================================
