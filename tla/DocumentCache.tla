--------------------------- MODULE DocumentCache ---------------------------
(***************************************************************************)
(* The TTL document cache with single-flight coalescing:                   *)
(* DocumentCache::get_or_render, invalidate*, clear (src/rust/src/cache.rs)*)
(*                                                                         *)
(* A document is abstracted to the version of the application data it was  *)
(* rendered from.  Callers are threads inside get_or_render; invalidators  *)
(* are threads that mutate the data and then invalidate what depends on    *)
(* it, as OutboxProcessor::publish does.  The state mutex is the variable  *)
(* lock; the store (its own mutex) changes in single steps.  Time is       *)
(* nondeterministic: a fresh entry may expire or be evicted at any moment. *)
(***************************************************************************)
EXTENDS Naturals

CONSTANTS
  Callers,        (* threads calling get_or_render                          *)
  Invalidators,   (* threads calling invalidate*/clear                      *)
  Keys,           (* cache keys                                             *)
  Slots,          (* identities of Slot allocations, as many as Callers     *)
  Ttls,           (* values of "ttl > 0" a call may have                    *)
  Missing,        (* data versions at which render returns Ok(None)         *)
  MissTtl,        (* is min(ttl, miss_ttl) > 0?                             *)
  StaleFactor,    (* is stale_factor > 0?                                   *)
  WaitTimeout,    (* is wait_timeout Some(_)?                               *)
  StoreFaults,    (* may a call to the store panic?                         *)
  Clearing,       (* may an invalidator call clear()?                       *)
  MaxGeneration,  (* bound on the generation counter (u64 in the code)      *)
  NoSlot, NoEntry, NoOne, Pending, Failed, NoResult

ASSUME FlagsAssumption ==
  /\ Ttls \subseteq BOOLEAN
  /\ {MissTtl, StaleFactor, WaitTimeout, StoreFaults, Clearing} \subseteq BOOLEAN
  /\ MaxGeneration \in Nat
  /\ Missing \subseteq Nat

ASSUME SentinelAssumption ==
  /\ Keys # {}
  /\ NoSlot \notin Slots
  /\ NoOne \notin Callers
  /\ Failed \notin Nat /\ Pending \notin Nat /\ NoResult \notin Nat
  /\ Failed # Pending /\ Failed # NoResult
  /\ NoEntry \notin [ver: Nat, fresh: BOOLEAN]

VARIABLES
  data,        (* version of the data behind each key (application storage) *)
  store,       (* DocumentStore: the entry of each key                      *)
  generation,  (* CacheState.generation                                     *)
  inflight,    (* CacheState.inflight                                       *)
  lock,        (* holder of the state mutex across two steps                *)
  slotState,   (* Slot.state                                                *)
  pc, key, ttl, slot, gen, res,   (* locals of each get_or_render call      *)
  ipc, target, mark,              (* locals of each invalidation            *)
  bumped,      (* history: data at the last generation bump                 *)
  committed,   (* history: data at the bump of the last invalidation of the *)
               (* key that has finished                                     *)
  floor,       (* history of a call: committed when it began                *)
  behind,      (* history: where the last result a caller got came from, if *)
               (* it was older than that floor                              *)
  epoch, born  (* history: clears of the inflight map so far, and the count *)
               (* when a call became an owner                               *)

callVars == <<pc, key, ttl, slot, gen, res, floor, behind, born>>
invVars == <<ipc, target, mark, bumped, committed, epoch>>
vars == <<data, store, generation, inflight, lock, slotState, callVars, invVars>>

(* The value an unused key local is reset to. *)
AnyKey == CHOOSE k \in Keys : TRUE

Entry == [ver: Nat, fresh: BOOLEAN]
Outcome == Nat \union {Failed}

(* The program points of a call that owns a render. *)
Completing == {"render", "failed", "complete", "completeErr"}
Owning == Completing \union {"notify", "notifyErr", "publish", "storing", "pop"}
Waiting == {"wait", "blocked"}

(* Those at which its outcome is its own Ok result, or an error or stale   *)
(* entry.                                                                  *)
Succeeded == {"complete", "notify", "publish", "storing"}
Fallen == {"completeErr", "notifyErr", "pop"}

CallPoints == {"idle", "lookup", "join"} \union Owning \union Waiting

CallTypes ==
  /\ pc \in [Callers -> CallPoints]
  /\ key \in [Callers -> Keys]
  /\ ttl \in [Callers -> BOOLEAN]
  /\ slot \in [Callers -> Slots \union {NoSlot}]
  /\ gen \in [Callers -> Nat]
  /\ res \in [Callers -> Outcome \union {NoResult}]
  /\ floor \in [Callers -> Nat]
  /\ behind \in [Callers -> {"nothing", "store", "render", "shared"}]
  /\ born \in [Callers -> Nat]
  /\ \A c \in Callers : /\ pc[c] \in Succeeded => res[c] \in Nat
                        /\ pc[c] \in Fallen => res[c] \in Outcome
                        /\ pc[c] \in Owning \union Waiting => slot[c] \in Slots

InvalidationTypes ==
  /\ ipc \in [Invalidators -> {"idle", "mutated", "clearing", "dropping", "bumped"}]
  /\ target \in [Invalidators -> SUBSET Keys]
  /\ mark \in [Invalidators -> [Keys -> Nat]]
  /\ bumped \in [Keys -> Nat]
  /\ committed \in [Keys -> Nat]
  /\ epoch \in Nat

CacheTypes ==
  /\ data \in [Keys -> Nat]
  /\ store \in [Keys -> Entry \union {NoEntry}]
  /\ generation \in Nat
  /\ inflight \in [Keys -> Slots \union {NoSlot}]
  /\ lock \in Callers \union {NoOne}
  /\ slotState \in [Slots -> Outcome \union {Pending}]

TypeOK == CacheTypes /\ CallTypes /\ InvalidationTypes

Init ==
  /\ data = [k \in Keys |-> 0]
  /\ store = [k \in Keys |-> NoEntry]
  /\ generation = 0
  /\ inflight = [k \in Keys |-> NoSlot]
  /\ lock = NoOne
  /\ slotState = [s \in Slots |-> Pending]
  /\ pc = [c \in Callers |-> "idle"]
  /\ key = [c \in Callers |-> AnyKey]
  /\ ttl = [c \in Callers |-> FALSE]
  /\ slot = [c \in Callers |-> NoSlot]
  /\ gen = [c \in Callers |-> 0]
  /\ res = [c \in Callers |-> NoResult]
  /\ ipc = [i \in Invalidators |-> "idle"]
  /\ target = [i \in Invalidators |-> {}]
  /\ mark = [i \in Invalidators |-> [k \in Keys |-> 0]]
  /\ bumped = [k \in Keys |-> 0]
  /\ committed = [k \in Keys |-> 0]
  /\ floor = [c \in Callers |-> 0]
  /\ behind = [c \in Callers |-> "nothing"]
  /\ epoch = 0
  /\ born = [c \in Callers |-> 0]

----------------------------------------------------------------------------
(* Operators shared by the actions. *)

(* store_get: a panicking store counts as "nothing stored". *)
StoreGet(k) == {store[k]} \union (IF StoreFaults THEN {NoEntry} ELSE {})

(* DocumentCache::fresh and ::stale, given what store_get returned. *)
IsFresh(e) == e # NoEntry /\ e.fresh
IsUsableStale(e) == StaleFactor /\ e # NoEntry /\ ~e.fresh

(* The state mutex can be taken: nobody is between check and store. *)
LockFree == lock = NoOne

(* An Arc<Slot> nobody holds any more: its memory may be a new Slot. *)
Unreferenced(s) ==
  /\ \A c \in Callers : slot[c] # s
  /\ \A k \in Keys : inflight[k] # s

(* get_or_render returns r to the caller; its locals die. *)
Return(c, r, how) ==
  /\ pc' = [pc EXCEPT ![c] = "idle"]
  /\ res' = [res EXCEPT ![c] = NoResult]
  /\ behind' = [behind EXCEPT ![c] =
       IF r # Failed /\ r < floor[c] THEN how ELSE "nothing"]
  /\ key' = [key EXCEPT ![c] = AnyKey]
  /\ ttl' = [ttl EXCEPT ![c] = FALSE]
  /\ slot' = [slot EXCEPT ![c] = NoSlot]
  /\ gen' = [gen EXCEPT ![c] = 0]
  /\ floor' = [floor EXCEPT ![c] = 0]
  /\ born' = [born EXCEPT ![c] = 0]

(* The call goes on at p with only its outcome possibly changed. *)
Goto(c, p) ==
  /\ pc' = [pc EXCEPT ![c] = p]
  /\ UNCHANGED <<key, ttl, slot, gen, floor, behind, born>>

----------------------------------------------------------------------------
(* get_or_render: entry, joining or owning a render *)

Call(c) ==
  \E k \in Keys, t \in Ttls :
    /\ pc[c] = "idle"
    /\ pc' = [pc EXCEPT ![c] = IF t THEN "lookup" ELSE "join"]
    /\ key' = [key EXCEPT ![c] = k]
    /\ ttl' = [ttl EXCEPT ![c] = t]
    /\ behind' = [behind EXCEPT ![c] = "nothing"]
    /\ floor' = [floor EXCEPT ![c] = committed[k]]
    /\ UNCHANGED <<slot, gen, res, born>>
    /\ UNCHANGED <<data, store, generation, inflight, lock, slotState, invVars>>

(* The unlocked fast path. *)
LookupFresh(c) ==
  /\ pc[c] = "lookup"
  /\ \E e \in StoreGet(key[c]) :
       \/ IsFresh(e) /\ Return(c, e.ver, "store")
       \/ ~IsFresh(e) /\ Goto(c, "join") /\ UNCHANGED res
  /\ UNCHANGED <<data, store, generation, inflight, lock, slotState, invVars>>

(* The state lock is taken: attach to the slot of a render in flight. *)
JoinAsWaiter(c) ==
  /\ pc[c] = "join" /\ LockFree
  /\ inflight[key[c]] # NoSlot
  /\ pc' = [pc EXCEPT ![c] = "wait"]
  /\ slot' = [slot EXCEPT ![c] = inflight[key[c]]]
  /\ UNCHANGED <<key, ttl, gen, res, floor, behind, born>>
  /\ UNCHANGED <<data, store, generation, inflight, lock, slotState, invVars>>

(* No render in flight: re-check the store under the lock, ... *)
JoinFindsFresh(c) ==
  /\ pc[c] = "join" /\ LockFree
  /\ inflight[key[c]] = NoSlot
  /\ ttl[c]
  /\ \E e \in StoreGet(key[c]) : IsFresh(e) /\ Return(c, e.ver, "store")
  /\ UNCHANGED <<data, store, generation, inflight, lock, slotState, invVars>>

(* Faulty variant: the in-flight map is consulted before the lock is taken. *)
JoinAsOwner_NoRecheck(c) ==
  /\ pc[c] = "join" /\ LockFree
  /\ ttl[c] => \E e \in StoreGet(key[c]) : ~IsFresh(e)
  /\ \E s \in Slots :
       /\ Unreferenced(s)
       /\ inflight' = [inflight EXCEPT ![key[c]] = s]
       /\ slotState' = [slotState EXCEPT ![s] = Pending]
       /\ slot' = [slot EXCEPT ![c] = s]
  /\ pc' = [pc EXCEPT ![c] = "render"]
  /\ gen' = [gen EXCEPT ![c] = generation]
  /\ born' = [born EXCEPT ![c] = epoch]
  /\ UNCHANGED <<key, ttl, res, floor, behind>>
  /\ UNCHANGED <<data, store, generation, lock, invVars>>

(* ... else insert a new slot, noting the generation. *)
JoinAsOwner(c) ==
  /\ pc[c] = "join" /\ LockFree
  /\ inflight[key[c]] = NoSlot
  /\ ttl[c] => \E e \in StoreGet(key[c]) : ~IsFresh(e)
  /\ \E s \in Slots :
       /\ Unreferenced(s)
       /\ inflight' = [inflight EXCEPT ![key[c]] = s]
       /\ slotState' = [slotState EXCEPT ![s] = Pending]
       /\ slot' = [slot EXCEPT ![c] = s]
  /\ pc' = [pc EXCEPT ![c] = "render"]
  /\ gen' = [gen EXCEPT ![c] = generation]
  /\ born' = [born EXCEPT ![c] = epoch]
  /\ UNCHANGED <<key, ttl, res, floor, behind>>
  /\ UNCHANGED <<data, store, generation, lock, invVars>>

----------------------------------------------------------------------------
(* get_or_render: the owner *)

(* Faulty variant: a panic of render() is not caught, and unwinds through  *)
(* get_or_render.                                                          *)
Render_Unwinds(c) ==
  /\ pc[c] = "render"
  /\ \/ Goto(c, "complete") /\ res' = [res EXCEPT ![c] = data[key[c]]]
     \/ Return(c, Failed, "render")
  /\ UNCHANGED <<data, store, generation, inflight, lock, slotState, invVars>>

(* render() reads the data, then returns (at some later step) Ok or Err;   *)
(* a panic is caught and is an Err.                                        *)
Render(c) ==
  /\ pc[c] = "render"
  /\ \/ Goto(c, "complete") /\ res' = [res EXCEPT ![c] = data[key[c]]]
     \/ Goto(c, "failed") /\ res' = [res EXCEPT ![c] = Failed]
  /\ UNCHANGED <<data, store, generation, inflight, lock, slotState, invVars>>

(* stale-if-error: an expired but retained entry replaces the error.  This *)
(* outcome takes the path that never stores.                               *)
ServeStaleOrFail(c) ==
  /\ pc[c] = "failed"
  /\ \E e \in StoreGet(key[c]) :
       res' = [res EXCEPT ![c] = IF IsUsableStale(e) THEN e.ver ELSE Failed]
  /\ Goto(c, "completeErr")
  /\ UNCHANGED <<data, store, generation, inflight, lock, slotState, invVars>>

(* complete(): the outcome is set under the slot's mutex, ... *)
Complete(c) ==
  /\ \/ pc[c] = "complete" /\ Goto(c, "notify")
     \/ pc[c] = "completeErr" /\ Goto(c, "notifyErr")
  /\ slotState' = [slotState EXCEPT ![slot[c]] = res[c]]
  /\ UNCHANGED <<res, data, store, generation, inflight, lock, invVars>>

(* Faulty variant: notify_one, which wakes a single waiter. *)
NotifyAll_WakesOne(c) ==
  /\ pc[c] \in {"notify", "notifyErr"}
  /\ LET asleep == {d \in Callers : pc[d] = "blocked" /\ slot[d] = slot[c]}
     IN  \E woken \in {{d} : d \in asleep} \union (IF asleep = {} THEN {{}} ELSE {}) :
           pc' = [d \in Callers |->
                   IF d = c THEN (IF pc[c] = "notify" THEN "publish" ELSE "pop")
                   ELSE IF d \in woken THEN "wait"
                   ELSE pc[d]]
  /\ UNCHANGED <<key, ttl, slot, gen, res, floor, behind, born>>
  /\ UNCHANGED <<data, store, generation, inflight, lock, slotState, invVars>>

(* ... then notify_all wakes the threads blocked on the condition variable.*)
NotifyAll(c) ==
  /\ pc[c] \in {"notify", "notifyErr"}
  /\ pc' = [d \in Callers |->
              IF d = c THEN (IF pc[c] = "notify" THEN "publish" ELSE "pop")
              ELSE IF pc[d] = "blocked" /\ slot[d] = slot[c] THEN "wait"
              ELSE pc[d]]
  /\ UNCHANGED <<key, ttl, slot, gen, res, floor, behind, born>>
  /\ UNCHANGED <<data, store, generation, inflight, lock, slotState, invVars>>

(* Faulty variant: the generation is not compared. *)
MayStore_Unchecked(c) == ttl[c]

(* Is the result still worth storing?  Evaluated with the state lock held. *)
MayStore(c) == ttl[c] /\ gen[c] = generation

(* inflight.remove(key): whatever slot is there. *)
RemoveInflight(c) == inflight' = [inflight EXCEPT ![key[c]] = NoSlot]

(* Ok outcome: take the state lock, drop the in-flight entry, check the    *)
(* generation; the lock stays held while the store is written.             *)
Publish(c) ==
  /\ pc[c] = "publish" /\ LockFree
  /\ RemoveInflight(c)
  /\ \/ MayStore(c) /\ lock' = c /\ Goto(c, "storing") /\ UNCHANGED res
     \/ ~MayStore(c) /\ Return(c, res[c], "render") /\ UNCHANGED lock
  /\ UNCHANGED <<data, store, generation, slotState, invVars>>

(* store_result: a miss lives at most miss_ttl, a zero ttl is not written, *)
(* a failing store is skipped.                                             *)
Storable(v) == v \in Missing => MissTtl

StoreResult(c) ==
  /\ pc[c] = "storing"
  /\ \/ /\ Storable(res[c])
        /\ store' = [store EXCEPT ![key[c]] = [ver |-> res[c], fresh |-> TRUE]]
     \/ /\ ~Storable(res[c]) \/ StoreFaults
        /\ UNCHANGED store
  /\ lock' = NoOne
  /\ Return(c, res[c], "render")
  /\ UNCHANGED <<data, generation, inflight, slotState, invVars>>

(* Err or stale outcome: only the in-flight entry is dropped. *)
PopInflight(c) ==
  /\ pc[c] = "pop" /\ LockFree
  /\ RemoveInflight(c)
  /\ Return(c, res[c], IF res[c] = Failed THEN "render" ELSE "store")
  /\ UNCHANGED <<data, store, generation, lock, slotState, invVars>>

----------------------------------------------------------------------------
(* get_or_render: the waiter *)

(* Faulty variant: wait on the condition variable without testing the slot. *)
WaiterBlocks_Blindly(c) ==
  /\ pc[c] = "wait"
  /\ Goto(c, "blocked")
  /\ UNCHANGED <<res, data, store, generation, inflight, lock, slotState, invVars>>

(* The predicate loop, with the slot's mutex held: block only if the slot  *)
(* is still pending (Condvar::wait releases the mutex atomically).         *)
WaiterBlocks(c) ==
  /\ pc[c] = "wait"
  /\ slotState[slot[c]] = Pending
  /\ Goto(c, "blocked")
  /\ UNCHANGED <<res, data, store, generation, inflight, lock, slotState, invVars>>

(* A spurious wake-up, or one caused by the deadline. *)
WaiterWakes(c) ==
  /\ pc[c] = "blocked"
  /\ Goto(c, "wait")
  /\ UNCHANGED <<res, data, store, generation, inflight, lock, slotState, invVars>>

(* No result for the waiter: it falls back to a stale entry, or errs. *)
WaiterFallsBack(c) ==
  \E e \in StoreGet(key[c]) :
    IF IsUsableStale(e) THEN Return(c, e.ver, "store") ELSE Return(c, Failed, "shared")

(* The slot is complete: take its outcome, whatever the deadline. *)
WaiterTakes(c) ==
  /\ pc[c] = "wait"
  /\ slotState[slot[c]] # Pending
  /\ IF slotState[slot[c]] = Failed
       THEN WaiterFallsBack(c)
       ELSE Return(c, slotState[slot[c]], "shared")
  /\ UNCHANGED <<data, store, generation, inflight, lock, slotState, invVars>>

(* The deadline has passed and the slot is still pending. *)
WaiterTimesOut(c) ==
  /\ WaitTimeout
  /\ pc[c] = "wait"
  /\ slotState[slot[c]] = Pending
  /\ WaiterFallsBack(c)
  /\ UNCHANGED <<data, store, generation, inflight, lock, slotState, invVars>>

----------------------------------------------------------------------------
(* Invalidations *)

(* A mutation of the data behind the keys K commits, and its thread goes   *)
(* on to invalidate them: always in this order in the handlers.            *)
Mutate(i) ==
  /\ ipc[i] = "idle"
  /\ generation < MaxGeneration
  /\ \E K \in SUBSET Keys \ {{}} :
       /\ data' = [k \in Keys |-> IF k \in K THEN data[k] + 1 ELSE data[k]]
       /\ target' = [target EXCEPT ![i] = K]
  /\ ipc' = [ipc EXCEPT ![i] = "mutated"]
  /\ UNCHANGED <<store, generation, inflight, lock, slotState, callVars>>
  /\ UNCHANGED <<mark, bumped, committed, epoch>>

(* The application resets the cache instead. *)
StartClear(i) ==
  /\ Clearing
  /\ ipc[i] = "idle"
  /\ generation < MaxGeneration
  /\ target' = [target EXCEPT ![i] = Keys]
  /\ ipc' = [ipc EXCEPT ![i] = "clearing"]
  /\ UNCHANGED <<data, store, generation, inflight, lock, slotState, callVars>>
  /\ UNCHANGED <<mark, bumped, committed, epoch>>

(* Faulty variant: the counter is bumped without the state lock. *)
BumpGeneration_Unlocked(i) ==
  /\ ipc[i] \in {"mutated", "clearing"}
  /\ generation' = generation + 1
  /\ bumped' = data
  /\ mark' = [mark EXCEPT ![i] = data]
  /\ ipc' = [ipc EXCEPT ![i] = IF ipc[i] = "mutated" THEN "bumped" ELSE "dropping"]
  /\ UNCHANGED <<data, store, inflight, lock, slotState, callVars, target, committed, epoch>>

(* bump_generation(), first half of every invalidation. *)
BumpGeneration(i) ==
  /\ ipc[i] \in {"mutated", "clearing"}
  /\ LockFree
  /\ generation' = generation + 1
  /\ bumped' = data
  /\ mark' = [mark EXCEPT ![i] = data]
  /\ ipc' = [ipc EXCEPT ![i] = IF ipc[i] = "mutated" THEN "bumped" ELSE "dropping"]
  /\ UNCHANGED <<data, store, inflight, lock, slotState, callVars, target, committed, epoch>>

(* clear(): the in-flight map is emptied in a second critical section. *)
DropInflight(i) ==
  /\ ipc[i] = "dropping" /\ LockFree
  /\ inflight' = [k \in Keys |-> NoSlot]
  /\ epoch' = epoch + 1
  /\ ipc' = [ipc EXCEPT ![i] = "bumped"]
  /\ UNCHANGED <<data, store, generation, lock, slotState, callVars>>
  /\ UNCHANGED <<target, mark, bumped, committed>>

(* The invalidation (or clear) returns. *)
InvalidationReturns(i) ==
  /\ ipc' = [ipc EXCEPT ![i] = "idle"]
  /\ target' = [target EXCEPT ![i] = {}]
  /\ mark' = [mark EXCEPT ![i] = [k \in Keys |-> 0]]

(* store.delete / delete_prefix / delete_segment / clear, without the lock.*)
DeleteEntries(i) ==
  /\ ipc[i] = "bumped"
  /\ store' = [k \in Keys |-> IF k \in target[i] THEN NoEntry ELSE store[k]]
  /\ committed' = [k \in Keys |->
       IF k \in target[i] /\ mark[i][k] > committed[k] THEN mark[i][k] ELSE committed[k]]
  /\ InvalidationReturns(i)
  /\ UNCHANGED <<data, generation, inflight, lock, slotState, callVars, bumped, epoch>>

(* The store panics: logged, and the entries stay. *)
DeleteFails(i) ==
  /\ StoreFaults
  /\ ipc[i] = "bumped"
  /\ InvalidationReturns(i)
  /\ UNCHANGED <<data, store, generation, inflight, lock, slotState, callVars>>
  /\ UNCHANGED <<bumped, committed, epoch>>

----------------------------------------------------------------------------
(* The store by itself *)

(* fresh_until passes: the entry is retained only for stale-if-error. *)
Expire(k) ==
  /\ store[k] # NoEntry /\ store[k].fresh
  /\ store' = [store EXCEPT ![k] =
       IF StaleFactor THEN [ver |-> store[k].ver, fresh |-> FALSE] ELSE NoEntry]
  /\ UNCHANGED <<data, generation, inflight, lock, slotState, callVars, invVars>>

(* drop_after passes, or the LRU bound evicts the entry. *)
Drop(k) ==
  /\ store[k] # NoEntry
  /\ store' = [store EXCEPT ![k] = NoEntry]
  /\ UNCHANGED <<data, generation, inflight, lock, slotState, callVars, invVars>>

----------------------------------------------------------------------------
(* The steps of a call that its thread takes without anybody else's help. *)
CallStep(c) ==
  \/ LookupFresh(c) \/ JoinAsWaiter(c) \/ JoinFindsFresh(c) \/ JoinAsOwner(c)
  \/ Render(c) \/ ServeStaleOrFail(c) \/ Complete(c) \/ NotifyAll(c)
  \/ Publish(c) \/ StoreResult(c) \/ PopInflight(c)
  \/ WaiterBlocks(c) \/ WaiterTakes(c)

InvalidationStep(i) ==
  BumpGeneration(i) \/ DropInflight(i) \/ DeleteEntries(i) \/ DeleteFails(i)

Next ==
  \/ \E c \in Callers : Call(c) \/ CallStep(c) \/ WaiterWakes(c) \/ WaiterTimesOut(c)
  \/ \E i \in Invalidators : Mutate(i) \/ StartClear(i) \/ InvalidationStep(i)
  \/ \E k \in Keys : Expire(k) \/ Drop(k)

Spec == Init /\ [][Next]_vars

(* Threads that can run do run, and render() returns.  Nothing is assumed  *)
(* of arrivals, deadlines, spurious wake-ups or the clock.                 *)
Fairness ==
  /\ \A c \in Callers : WF_vars(CallStep(c))
  /\ \A i \in Invalidators : WF_vars(InvalidationStep(i))

FairSpec == Spec /\ Fairness

----------------------------------------------------------------------------
(* Properties *)

(* An entry in the store was rendered from data at least as recent as the  *)
(* last completed invalidation of its key: no render that began before an  *)
(* invalidation overwrites it ("The state lock is held across the store so *)
(* an invalidation cannot interleave", cache.rs).                          *)
NoStaleStore ==
  \A k \in Keys : store[k] # NoEntry => store[k].ver >= committed[k]

(* Somebody changed the data behind k and is on the way to delete its entry. *)
DueFor(k) ==
  \E i \in Invalidators : ipc[i] \in {"mutated", "bumped"} /\ k \in target[i]

(* As long as no deletion fails, an entry shows the data as they are, or   *)
(* whoever changed them is on the way to delete it: however long a render  *)
(* takes, it does not store what an invalidation will no longer find.      *)
StaleOnlyWhileDue ==
  StoreFaults \/
    \A k \in Keys : store[k] # NoEntry => store[k].ver = data[k] \/ DueFor(k)

(* A call that rendered itself, or was served from the store (stale or     *)
(* not), gets data no older than the invalidations that had returned when  *)
(* the call began.                                                         *)
OwnReadsSeeInvalidations ==
  \A c \in Callers : behind[c] \notin {"store", "render"}

(* Concurrent fetches of a key share one in-flight render: two calls never *)
(* render the same key at once, unless a clear() came between their starts.*)
SingleFlight ==
  \A c, d \in Callers :
    /\ c # d
    /\ pc[c] \in Completing /\ pc[d] \in Completing
    /\ key[c] = key[d]
    => born[c] # born[d]

(* What survives clear(): single-flight holds until the first one. *)
SingleFlightUntilClear == epoch = 0 => SingleFlight

(* Every slot in the in-flight map has an owner on its way to remove it: a *)
(* later caller never attaches to an abandoned render.                     *)
InflightOwned ==
  \A k \in Keys : inflight[k] # NoSlot =>
    \E c \in Callers : /\ pc[c] \in Owning \ {"storing"} /\ key[c] = k
                       /\ slot[c] = inflight[k]

(* A waiter's slot is complete or has an owner that will complete it, and  *)
(* a waiter asleep on a complete slot is about to be notified: no wake-up  *)
(* is lost between complete() and the predicate loop.                      *)
WaitersServed ==
  \A c \in Callers : pc[c] \in Waiting =>
    \/ /\ slotState[slot[c]] = Pending
       /\ \E o \in Callers : pc[o] \in Completing /\ slot[o] = slot[c]
    \/ /\ slotState[slot[c]] # Pending
       /\ pc[c] = "blocked" =>
            \E o \in Callers : pc[o] \in {"notify", "notifyErr"} /\ slot[o] = slot[c]

(* What can go on by itself: a call that is not asleep and does not need    *)
(* the state mutex while somebody has it, and likewise an invalidation.    *)
CanGoOn(c) ==
  \/ pc[c] \in {"lookup", "wait", "notify", "notifyErr", "storing"} \union Completing
  \/ pc[c] \in {"join", "publish", "pop"} /\ LockFree

CanInvalidate(i) ==
  \/ ipc[i] = "bumped"
  \/ ipc[i] \in {"mutated", "clearing", "dropping"} /\ LockFree

(* The threads inside the cache never all wait for one another: not owners *)
(* and invalidations for the state mutex, and waiters for the slot of an   *)
(* owner, in a circle that only a deadline or a spurious wake-up breaks.   *)
NoCircularWait ==
  (\E c \in Callers : pc[c] # "idle") \/ (\E i \in Invalidators : ipc[i] # "idle") =>
    (\E c \in Callers : CanGoOn(c)) \/ (\E i \in Invalidators : CanInvalidate(i))

(* If calls stop arriving, every call in progress returns, with no help    *)
(* from wait_timeout.                                                      *)
NoArrivals == \A c \in Callers : pc[c] = "idle" => pc'[c] = "idle"

CallsReturn ==
  <>[][NoArrivals]_vars =>
    <>[](\A c \in Callers : pc[c] = "idle")

============================================================================
