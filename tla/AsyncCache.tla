----------------------------- MODULE AsyncCache -----------------------------
(***************************************************************************)
(* DocumentCache::get_or_render_async beside get_or_render: tasks share a  *)
(* render through a future kept in inflight_async, next to the threads     *)
(* that share theirs through inflight.  Store, generation and state mutex  *)
(* are the same for both (src/rust/src/cache.rs).                          *)
(*                                                                         *)
(* A task runs from one await to the next; whoever holds its future may    *)
(* drop it there.  Dropping the sender of a shared future completes it     *)
(* with Canceled.                                                          *)
(***************************************************************************)
EXTENDS DocumentCache

CONSTANTS
  Tasks,     (* calls of get_or_render_async                                *)
  Flights,   (* identities of oneshot channels, as many as Tasks            *)
  Cancelled, NoFlight

ASSUME FlightsAssumption ==
  /\ NoFlight \notin Flights
  /\ Cancelled \notin Nat \union {Pending, Failed}

VARIABLES
  inflightAsync,  (* CacheState.inflight_async                              *)
  flightState,    (* what the shared future of each channel resolves to     *)
  apc, akey, attl, aflight, agen, ares, (* locals of each task              *)
  afloor,         (* history of a task: committed when it began             *)
  abehind         (* history: its last result was rendered by itself or     *)
                  (* stored, and older than that                            *)

taskVars == <<apc, akey, attl, aflight, agen, ares, afloor, abehind>>
asyncVars == <<inflightAsync, flightState, taskVars>>
syncVars == <<slotState, inflight, lock, generation, data, callVars, invVars>>

AsyncInit ==
  /\ Init
  /\ inflightAsync = [k \in Keys |-> NoFlight]
  /\ flightState = [f \in Flights |-> Pending]
  /\ apc = [a \in Tasks |-> "idle"]
  /\ akey = [a \in Tasks |-> AnyKey]
  /\ attl = [a \in Tasks |-> FALSE]
  /\ aflight = [a \in Tasks |-> NoFlight]
  /\ agen = [a \in Tasks |-> 0]
  /\ ares = [a \in Tasks |-> NoResult]
  /\ afloor = [a \in Tasks |-> 0]
  /\ abehind = [a \in Tasks |-> FALSE]

----------------------------------------------------------------------------
(* The future of the call is gone, with its locals; own says whether r is  *)
(* what the call rendered or found in the store.                           *)
Resolve(a, r, own) ==
  /\ apc' = [apc EXCEPT ![a] = "idle"]
  /\ akey' = [akey EXCEPT ![a] = AnyKey]
  /\ attl' = [attl EXCEPT ![a] = FALSE]
  /\ aflight' = [aflight EXCEPT ![a] = NoFlight]
  /\ agen' = [agen EXCEPT ![a] = 0]
  /\ ares' = [ares EXCEPT ![a] = NoResult]
  /\ abehind' = [abehind EXCEPT ![a] = own /\ r # Failed /\ r < afloor[a]]
  /\ afloor' = [afloor EXCEPT ![a] = 0]

Continue(a, p, r) ==
  /\ apc' = [apc EXCEPT ![a] = p]
  /\ ares' = [ares EXCEPT ![a] = r]
  /\ UNCHANGED <<akey, attl, aflight, agen, afloor, abehind>>

AsyncCall(a) ==
  \E k \in Keys, t \in Ttls :
    /\ apc[a] = "idle"
    /\ apc' = [apc EXCEPT ![a] = IF t THEN "lookup" ELSE "join"]
    /\ akey' = [akey EXCEPT ![a] = k]
    /\ attl' = [attl EXCEPT ![a] = t]
    /\ afloor' = [afloor EXCEPT ![a] = committed[k]]
    /\ abehind' = [abehind EXCEPT ![a] = FALSE]
    /\ UNCHANGED <<aflight, agen, ares, inflightAsync, flightState, store, syncVars>>

AsyncLookup(a) ==
  /\ apc[a] = "lookup"
  /\ \E e \in StoreGet(akey[a]) :
       \/ IsFresh(e) /\ Resolve(a, e.ver, TRUE)
       \/ ~IsFresh(e) /\ Continue(a, "join", ares[a])
  /\ UNCHANGED <<inflightAsync, flightState, store, syncVars>>

(* With the state lock: the shared future of a render in flight is cloned, *)
(* or a fresh entry found, ...                                             *)
AsyncJoin(a) ==
  /\ apc[a] = "join" /\ LockFree
  /\ \/ /\ inflightAsync[akey[a]] # NoFlight
        /\ apc' = [apc EXCEPT ![a] = "wait"]
        /\ aflight' = [aflight EXCEPT ![a] = inflightAsync[akey[a]]]
        /\ UNCHANGED <<akey, attl, agen, ares, afloor, abehind>>
     \/ /\ inflightAsync[akey[a]] = NoFlight /\ attl[a]
        /\ \E e \in StoreGet(akey[a]) : IsFresh(e) /\ Resolve(a, e.ver, TRUE)
  /\ UNCHANGED <<inflightAsync, flightState, store, syncVars>>

(* ... or a new channel is made and its receiver shared. *)
AsyncOwn(a) ==
  /\ apc[a] = "join" /\ LockFree
  /\ inflightAsync[akey[a]] = NoFlight
  /\ attl[a] => \E e \in StoreGet(akey[a]) : ~IsFresh(e)
  /\ \E f \in Flights :
       /\ \A b \in Tasks : aflight[b] # f
       /\ \A k \in Keys : inflightAsync[k] # f
       /\ inflightAsync' = [inflightAsync EXCEPT ![akey[a]] = f]
       /\ flightState' = [flightState EXCEPT ![f] = Pending]
       /\ aflight' = [aflight EXCEPT ![a] = f]
  /\ apc' = [apc EXCEPT ![a] = "render"]
  /\ agen' = [agen EXCEPT ![a] = generation]
  /\ UNCHANGED <<akey, attl, ares, afloor, abehind, store, syncVars>>

----------------------------------------------------------------------------
(* The owner: render().await, then no await until it returns. *)

AsyncRender(a) ==
  /\ apc[a] = "render"
  /\ Continue(a, "send", data[akey[a]]) \/ Continue(a, "failed", Failed)
  /\ UNCHANGED <<inflightAsync, flightState, store, syncVars>>

(* stale-if-error *)
AsyncStaleOrFail(a) ==
  /\ apc[a] = "failed"
  /\ \E e \in StoreGet(akey[a]) :
       Continue(a, "sendErr", IF IsUsableStale(e) THEN e.ver ELSE Failed)
  /\ UNCHANGED <<inflightAsync, flightState, store, syncVars>>

(* tx.send(outcome): every clone of the shared future resolves to it. *)
AsyncSend(a) ==
  /\ \/ apc[a] = "send" /\ Continue(a, "publish", ares[a])
     \/ apc[a] = "sendErr" /\ Continue(a, "pop", ares[a])
  /\ flightState' = [flightState EXCEPT ![aflight[a]] = ares[a]]
  /\ UNCHANGED <<inflightAsync, store, syncVars>>

(* Faulty variant: the generation is not compared. *)
AsyncMayStore_Unchecked(a) == attl[a]

AsyncMayStore(a) == attl[a] /\ agen[a] = generation

(* One critical section: the map entry goes, and the result is stored if   *)
(* nothing was invalidated since the render began.                         *)
AsyncPublish(a) ==
  /\ apc[a] = "publish" /\ LockFree
  /\ inflightAsync' = [inflightAsync EXCEPT ![akey[a]] = NoFlight]
  /\ \/ /\ AsyncMayStore(a) /\ Storable(ares[a])
        /\ store' = [store EXCEPT ![akey[a]] = [ver |-> ares[a], fresh |-> TRUE]]
     \/ /\ AsyncMayStore(a) => ~Storable(ares[a]) \/ StoreFaults
        /\ UNCHANGED store
  /\ Resolve(a, ares[a], TRUE)
  /\ UNCHANGED <<flightState, syncVars>>

(* An error, or the stale entry sent in its place. *)
AsyncPop(a) ==
  /\ apc[a] = "pop" /\ LockFree
  /\ inflightAsync' = [inflightAsync EXCEPT ![akey[a]] = NoFlight]
  /\ Resolve(a, ares[a], TRUE)
  /\ UNCHANGED <<flightState, store, syncVars>>

(* Faulty variant: a dropped sender leaves the shared future pending. *)
AsyncCancel_Silent(a) ==
  /\ apc[a] \in {"render", "wait"}
  /\ Resolve(a, Failed, FALSE)
  /\ UNCHANGED <<inflightAsync, flightState, store, syncVars>>

(* The future of a call is dropped where it awaits, or its render panics;  *)
(* the entry in inflight_async stays.                                      *)
AsyncCancel(a) ==
  /\ apc[a] \in {"render", "wait"}
  /\ flightState' = IF apc[a] = "render" THEN [flightState EXCEPT ![aflight[a]] = Cancelled]
                    ELSE flightState
  /\ Resolve(a, Failed, FALSE)
  /\ UNCHANGED <<inflightAsync, store, syncVars>>

----------------------------------------------------------------------------
(* The waiter: the outcome, or a stale entry if there is none to be had or *)
(* wait_timeout passes first.                                              *)
AsyncFallBack(a) ==
  \E e \in StoreGet(akey[a]) :
    IF IsUsableStale(e) THEN Resolve(a, e.ver, TRUE) ELSE Resolve(a, Failed, FALSE)

AsyncTake(a) ==
  /\ apc[a] = "wait"
  /\ flightState[aflight[a]] # Pending
  /\ IF flightState[aflight[a]] \in {Failed, Cancelled}
       THEN AsyncFallBack(a)
       ELSE Resolve(a, flightState[aflight[a]], FALSE)
  /\ UNCHANGED <<inflightAsync, flightState, store, syncVars>>

AsyncTimesOut(a) ==
  /\ WaitTimeout
  /\ apc[a] = "wait" /\ flightState[aflight[a]] = Pending
  /\ AsyncFallBack(a)
  /\ UNCHANGED <<inflightAsync, flightState, store, syncVars>>

----------------------------------------------------------------------------
AsyncStep(a) ==
  \/ AsyncLookup(a) \/ AsyncJoin(a) \/ AsyncOwn(a) \/ AsyncRender(a) \/ AsyncStaleOrFail(a)
  \/ AsyncSend(a) \/ AsyncPublish(a) \/ AsyncPop(a) \/ AsyncTake(a)

(* The steps of the threads; clear() empties both in-flight maps.          *)
SyncNext ==
  \/ /\ \/ \E c \in Callers : Call(c) \/ CallStep(c) \/ WaiterWakes(c) \/ WaiterTimesOut(c)
        \/ \E i \in Invalidators :
             \/ Mutate(i) \/ StartClear(i)
             \/ BumpGeneration(i) \/ DeleteEntries(i) \/ DeleteFails(i)
        \/ \E k \in Keys : Expire(k) \/ Drop(k)
     /\ UNCHANGED asyncVars
  \/ \E i \in Invalidators :
       /\ DropInflight(i)
       /\ inflightAsync' = [k \in Keys |-> NoFlight]
       /\ UNCHANGED <<flightState, taskVars>>

AsyncNext ==
  \/ SyncNext
  \/ \E a \in Tasks : AsyncCall(a) \/ AsyncStep(a) \/ AsyncCancel(a) \/ AsyncTimesOut(a)

AsyncSpec == AsyncInit /\ [][AsyncNext]_<<vars, asyncVars>>

----------------------------------------------------------------------------
Rendering(a) == apc[a] \in {"render", "failed", "send", "sendErr"}

(* What a task rendered itself or found in the store is no older than the  *)
(* invalidations that had returned when its call began, even though its    *)
(* render may overlap threads, tasks and invalidations.                    *)
TasksSeeInvalidations == \A a \in Tasks : ~abehind[a]

(* A task never waits for a render nobody runs: the future it waits on has *)
(* resolved, or some task will still send to it.                           *)
TasksServed ==
  \A a \in Tasks : apc[a] = "wait" /\ flightState[aflight[a]] = Pending =>
    \E b \in Tasks : Rendering(b) /\ aflight[b] = aflight[a]

(* Tasks share one render of a key at a time, until a clear() drops the    *)
(* map: not even a render dropped half-way lets a second one begin beside  *)
(* it.                                                                     *)
TasksShareRender ==
  epoch = 0 =>
    \A a, b \in Tasks : a # b /\ Rendering(a) /\ Rendering(b) => akey[a] # akey[b]

(* What a task does before its next await that needs nobody else: it needs *)
(* the state mutex free where it locks it, its future resolved where it    *)
(* waits.                                                                  *)
TaskCanGoOn(a) ==
  \/ apc[a] = "lookup" \/ Rendering(a)
  \/ apc[a] \in {"join", "publish", "pop"} /\ LockFree
  \/ apc[a] = "wait" /\ flightState[aflight[a]] # Pending

(* Nor do threads and tasks wait for one another in a circle, over the     *)
(* state mutex that both take and the futures of the tasks.                *)
NoCircularWaitAsync ==
  (\E a \in Tasks : apc[a] # "idle") =>
    (\E a \in Tasks : TaskCanGoOn(a)) \/ (\E c \in Callers : CanGoOn(c))

=============================================================================
