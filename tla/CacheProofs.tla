---------------------------- MODULE CacheProofs ----------------------------
(* Theorems about the document cache, for every value of its constants:    *)
(* about threads that call get_or_render (Spec), and then about threads    *)
(* and tasks that share one cache (AsyncSpec).                             *)
EXTENDS AsyncCache, TLAPS

----------------------------------------------------------------------------
(* Type correctness *)

LEMMA TypeInit == Init => TypeOK
  BY SentinelAssumption DEF Init, TypeOK, CacheTypes, CallTypes, InvalidationTypes,
     AnyKey, Outcome, CallPoints, Succeeded, Fallen, Owning, Completing, Waiting

LEMMA ReturnTypes ==
  ASSUME CallTypes, NEW c \in Callers, NEW r,
         NEW how \in {"store", "render", "shared"}, Return(c, r, how)
  PROVE  CallTypes'
<1> AnyKey \in Keys
  BY SentinelAssumption DEF AnyKey
<1> QED
  BY DEF CallTypes, Return, CallPoints, Succeeded, Fallen, Owning, Completing, Waiting

LEMMA GotoTypes ==
  ASSUME CallTypes, NEW c \in Callers, NEW p \in CallPoints, Goto(c, p),
         res' \in [Callers -> Outcome \union {NoResult}],
         \A d \in Callers \ {c} : res'[d] = res[d],
         p \in Succeeded => res'[c] \in Nat,
         p \in Fallen => res'[c] \in Outcome,
         p \in Owning \union Waiting => slot[c] \in Slots
  PROVE  CallTypes'
  BY DEF CallTypes, Goto

LEMMA TypeStep == TypeOK /\ [Next]_vars => TypeOK'
<1> SUFFICES ASSUME TypeOK, [Next]_vars PROVE TypeOK'
  OBVIOUS
<1> USE DEF CallPoints, Owning, Completing, Waiting, Succeeded, Fallen
<1>0. AnyKey \in Keys
  BY SentinelAssumption DEF AnyKey
<1>a. CallTypes' /\ UNCHANGED invVars => CallTypes' /\ InvalidationTypes'
  BY DEF TypeOK, InvalidationTypes, invVars
<1>b. UNCHANGED callVars => CallTypes'
  BY DEF TypeOK, CallTypes, callVars, Succeeded, Fallen
<1>1. ASSUME NEW c \in Callers, Call(c) PROVE TypeOK'
  <2>1. CallTypes'
    BY <1>1, FlagsAssumption DEF Call, TypeOK, CallTypes, InvalidationTypes
  <2> QED
    BY <2>1, <1>a, <1>1 DEF Call, TypeOK, CacheTypes
<1>2. ASSUME NEW c \in Callers, LookupFresh(c) PROVE TypeOK'
  <2>1. CallTypes'
    BY <1>2, ReturnTypes, GotoTypes DEF LookupFresh, TypeOK, CallTypes
  <2> QED
    BY <2>1, <1>a, <1>2 DEF LookupFresh, TypeOK, CacheTypes
<1>3. ASSUME NEW c \in Callers, JoinAsWaiter(c) PROVE TypeOK'
  <2>1. CallTypes'
    BY <1>3 DEF JoinAsWaiter, TypeOK, CallTypes, CacheTypes
  <2> QED
    BY <2>1, <1>a, <1>3 DEF JoinAsWaiter, TypeOK, CacheTypes
<1>4. ASSUME NEW c \in Callers, JoinFindsFresh(c) PROVE TypeOK'
  <2>1. CallTypes'
    BY <1>4, ReturnTypes DEF JoinFindsFresh, TypeOK
  <2> QED
    BY <2>1, <1>a, <1>4 DEF JoinFindsFresh, TypeOK, CacheTypes
<1>5. ASSUME NEW c \in Callers, JoinAsOwner(c) PROVE TypeOK'
  <2>1. CallTypes'
    BY <1>5 DEF JoinAsOwner, TypeOK, CallTypes, CacheTypes, InvalidationTypes
  <2>2. CacheTypes'
    BY <1>5 DEF JoinAsOwner, TypeOK, CallTypes, CacheTypes
  <2> QED
    BY <2>1, <2>2, <1>a, <1>5 DEF JoinAsOwner, TypeOK
<1>6. ASSUME NEW c \in Callers, Render(c) PROVE TypeOK'
  <2>1. CallTypes'
    BY <1>6, GotoTypes DEF Render, TypeOK, CallTypes, CacheTypes, Outcome
  <2> QED
    BY <2>1, <1>a, <1>6 DEF Render, TypeOK, CacheTypes
<1>7. ASSUME NEW c \in Callers, ServeStaleOrFail(c) PROVE TypeOK'
  <2>1. PICK e \in StoreGet(key[c]) :
          res' = [res EXCEPT ![c] = IF IsUsableStale(e) THEN e.ver ELSE Failed]
    BY <1>7 DEF ServeStaleOrFail
  <2>2. e \in Entry \union {NoEntry}
    BY <2>1 DEF StoreGet, TypeOK, CacheTypes, CallTypes
  <2>3. IsUsableStale(e) => e.ver \in Nat
    BY <2>2 DEF IsUsableStale, Entry
  <2>4. /\ res' \in [Callers -> Outcome \union {NoResult}]
        /\ \A d \in Callers \ {c} : res'[d] = res[d]
        /\ res'[c] \in Outcome
    BY <2>1, <2>3 DEF TypeOK, CallTypes, Outcome
  <2>5. CallTypes'
    <3>1. slot[c] \in Slots
      BY <1>7 DEF ServeStaleOrFail, TypeOK, CallTypes
    <3> QED
      BY <1>7, <2>4, <3>1, GotoTypes DEF ServeStaleOrFail, TypeOK
  <2> QED
    BY <2>5, <1>a, <1>7 DEF ServeStaleOrFail, TypeOK, CacheTypes
<1>8. ASSUME NEW c \in Callers, Complete(c) PROVE TypeOK'
  <2>1. CallTypes'
    BY <1>8, GotoTypes DEF Complete, TypeOK, CallTypes
  <2>2. CacheTypes'
    BY <1>8 DEF Complete, TypeOK, CallTypes, CacheTypes, Outcome
  <2> QED
    BY <2>1, <2>2, <1>a, <1>8 DEF Complete, TypeOK
<1>9. ASSUME NEW c \in Callers, NotifyAll(c) PROVE TypeOK'
  <2>1. CallTypes'
    BY <1>9 DEF NotifyAll, TypeOK, CallTypes
  <2> QED
    BY <2>1, <1>a, <1>9 DEF NotifyAll, TypeOK, CacheTypes
<1>10. ASSUME NEW c \in Callers, Publish(c) PROVE TypeOK'
  <2>1. CallTypes'
    BY <1>10, ReturnTypes, GotoTypes DEF Publish, TypeOK, CallTypes
  <2>2. CacheTypes'
    BY <1>10 DEF Publish, RemoveInflight, TypeOK, CallTypes, CacheTypes
  <2> QED
    BY <2>1, <2>2, <1>a, <1>10 DEF Publish, TypeOK
<1>11. ASSUME NEW c \in Callers, StoreResult(c) PROVE TypeOK'
  <2>1. CallTypes'
    BY <1>11, ReturnTypes DEF StoreResult, TypeOK
  <2>2. [ver |-> res[c], fresh |-> TRUE] \in Entry
    BY <1>11 DEF StoreResult, TypeOK, CallTypes, Entry
  <2>3. CacheTypes'
    BY <2>2, <1>11 DEF StoreResult, TypeOK, CacheTypes
  <2> QED
    BY <2>1, <2>3, <1>a, <1>11 DEF StoreResult, TypeOK
<1>12. ASSUME NEW c \in Callers, PopInflight(c) PROVE TypeOK'
  <2>1. CallTypes'
    BY <1>12, ReturnTypes DEF PopInflight, TypeOK
  <2>2. CacheTypes'
    BY <1>12 DEF PopInflight, RemoveInflight, TypeOK, CallTypes, CacheTypes
  <2> QED
    BY <2>1, <2>2, <1>a, <1>12 DEF PopInflight, TypeOK
<1>13. ASSUME NEW c \in Callers, WaiterBlocks(c) \/ WaiterWakes(c) PROVE TypeOK'
  <2>1. CallTypes'
    BY <1>13, GotoTypes DEF WaiterBlocks, WaiterWakes, TypeOK, CallTypes
  <2> QED
    BY <2>1, <1>a, <1>13 DEF WaiterBlocks, WaiterWakes, TypeOK, CacheTypes
<1>14. ASSUME NEW c \in Callers, WaiterTakes(c) \/ WaiterTimesOut(c) PROVE TypeOK'
  <2>1. CallTypes'
    BY <1>14, ReturnTypes DEF WaiterTakes, WaiterTimesOut, WaiterFallsBack, TypeOK
  <2> QED
    BY <2>1, <1>a, <1>14 DEF WaiterTakes, WaiterTimesOut, TypeOK, CacheTypes
<1>15. ASSUME NEW i \in Invalidators, Mutate(i) \/ StartClear(i) PROVE TypeOK'
  <2>1. CallTypes'
    BY <1>15, <1>b DEF Mutate, StartClear
  <2>2. InvalidationTypes'
    BY <1>15 DEF Mutate, StartClear, TypeOK, InvalidationTypes
  <2>3. CacheTypes'
    BY <1>15 DEF Mutate, StartClear, TypeOK, CacheTypes
  <2> QED
    BY <2>1, <2>2, <2>3 DEF TypeOK
<1>16. ASSUME NEW i \in Invalidators, InvalidationStep(i) PROVE TypeOK'
  <2> USE DEF InvalidationStep, BumpGeneration, DropInflight, DeleteEntries, DeleteFails
  <2>1. CallTypes'
    BY <1>16, <1>b
  <2>2. InvalidationTypes'
    <3>1. CASE BumpGeneration(i)
      BY <3>1 DEF TypeOK, CacheTypes, InvalidationTypes
    <3>2. CASE DropInflight(i)
      BY <3>2 DEF TypeOK, InvalidationTypes
    <3>3. CASE DeleteEntries(i)
      BY <3>3 DEF InvalidationReturns, TypeOK, InvalidationTypes
    <3>4. CASE DeleteFails(i)
      BY <3>4 DEF InvalidationReturns, TypeOK, InvalidationTypes
    <3> QED
      BY <1>16, <3>1, <3>2, <3>3, <3>4
  <2>3. CacheTypes'
    BY <1>16 DEF TypeOK, CacheTypes, InvalidationReturns
  <2> QED
    BY <2>1, <2>2, <2>3 DEF TypeOK
<1>17. ASSUME NEW k \in Keys, Expire(k) \/ Drop(k) PROVE TypeOK'
  <2>1. CallTypes' /\ InvalidationTypes'
    BY <1>17, <1>a, <1>b DEF Expire, Drop
  <2>2. store[k] \in Entry \union {NoEntry}
    BY DEF TypeOK, CacheTypes
  <2>3. CASE Drop(k)
    BY <2>1, <2>3 DEF Drop, TypeOK, CacheTypes
  <2>4. CASE Expire(k)
    <3>1. [ver |-> store[k].ver, fresh |-> FALSE] \in Entry
      BY <2>2, <2>4 DEF Expire, Entry
    <3> QED
      BY <3>1, <2>1, <2>4 DEF Expire, TypeOK, CacheTypes
  <2> QED
    BY <1>17, <2>1, <2>3, <2>4 DEF TypeOK
<1>18. CASE UNCHANGED vars
  BY <1>18, <1>a, <1>b DEF vars, TypeOK, CacheTypes
<1> QED
  BY <1>1, <1>2, <1>3, <1>4, <1>5, <1>6, <1>7, <1>8, <1>9, <1>10, <1>11, <1>12,
     <1>13, <1>14, <1>15, <1>16, <1>17, <1>18 DEF Next, CallStep

(* The variables of the cache always have their types. *)
THEOREM TypeCorrect == Spec => []TypeOK
  BY TypeInit, TypeStep, PTL DEF Spec

----------------------------------------------------------------------------
(* Staleness.  The generation captured by an owner orders its render        *)
(* against every bump: as long as it is the current one, the data the owner *)
(* read is at least as recent as the data at the last bump, and so as every *)
(* mark an invalidation will commit.  The lock keeps that true between the  *)
(* check and the write.                                                     *)

VersionOrder ==
  /\ \A k \in Keys : committed[k] <= bumped[k] /\ bumped[k] <= data[k]
  /\ \A i \in Invalidators : \A k \in Keys : mark[i][k] <= bumped[k]

GenerationOrder == \A c \in Callers : gen[c] <= generation

CurrentRenders ==
  \A c \in Callers :
    pc[c] \in Succeeded /\ gen[c] = generation => bumped[key[c]] <= res[c]

StoringHoldsLock ==
  \A c \in Callers : pc[c] = "storing" => lock = c /\ gen[c] = generation

FloorBelow ==
  \A c \in Callers :
    /\ pc[c] # "idle" => floor[c] <= committed[key[c]]
    /\ pc[c] \in Succeeded \union Fallen /\ res[c] # Failed => floor[c] <= res[c]

StalenessInv ==
  /\ TypeOK
  /\ VersionOrder
  /\ GenerationOrder
  /\ CurrentRenders
  /\ StoringHoldsLock
  /\ FloorBelow
  /\ NoStaleStore
  /\ OwnReadsSeeInvalidations

LEMMA StalenessInit == Init => StalenessInv
<1> SUFFICES ASSUME Init PROVE StalenessInv
  OBVIOUS
<1> TypeOK
  BY TypeInit
<1> QED
  BY DEF Init, StalenessInv, VersionOrder, GenerationOrder, CurrentRenders,
     StoringHoldsLock, FloorBelow, NoStaleStore, OwnReadsSeeInvalidations, Succeeded, Fallen

(* A call that returns a value keeps the invariant if the value is as recent *)
(* as its floor, or came from somebody else's render.                        *)
LEMMA ReturnStaleness ==
  ASSUME StalenessInv, TypeOK',
         NEW c \in Callers, NEW r \in Outcome, NEW how \in {"store", "render", "shared"},
         Return(c, r, how),
         r # Failed /\ how # "shared" => floor[c] <= r,
         UNCHANGED <<data, store, generation, lock, invVars>>
  PROVE  StalenessInv'
<1> USE DEF StalenessInv, TypeOK, CacheTypes, CallTypes, InvalidationTypes, Outcome, Return, invVars
<1>1. /\ behind'[c] = IF r # Failed /\ r < floor[c] THEN how ELSE "nothing"
      /\ \A d \in Callers \ {c} : behind'[d] = behind[d]
  OBVIOUS
<1>2. OwnReadsSeeInvalidations'
  <2>1. behind'[c] \notin {"store", "render"}
    BY <1>1
  <2> QED
    BY <1>1, <2>1 DEF OwnReadsSeeInvalidations
<1>3. VersionOrder' /\ NoStaleStore'
  BY DEF VersionOrder, NoStaleStore
<1>4. GenerationOrder' /\ CurrentRenders' /\ StoringHoldsLock' /\ FloorBelow'
  BY DEF GenerationOrder, CurrentRenders, StoringHoldsLock, FloorBelow, Succeeded, Fallen
<1> QED
  BY <1>2, <1>3, <1>4

(* What store_get returns is a typed entry that no invalidation outdates. *)
LEMMA StoreGetCurrent ==
  ASSUME StalenessInv, NEW k \in Keys, NEW e \in StoreGet(k), e # NoEntry
  PROVE  e.ver \in Nat /\ committed[k] <= e.ver
  BY DEF StalenessInv, StoreGet, NoStaleStore, TypeOK, CacheTypes, InvalidationTypes, Entry

LEMMA StalenessStep == StalenessInv /\ [Next]_vars => StalenessInv'
<1> SUFFICES ASSUME StalenessInv, [Next]_vars PROVE StalenessInv'
  OBVIOUS
<1>0. TypeOK'
  BY TypeStep DEF StalenessInv
<1> USE DEF StalenessInv, TypeOK, CacheTypes, CallTypes, InvalidationTypes, Entry, Outcome,
        VersionOrder, GenerationOrder, CurrentRenders, StoringHoldsLock, FloorBelow,
        NoStaleStore, OwnReadsSeeInvalidations, callVars, invVars,
        CallPoints, Owning, Completing, Waiting, Succeeded, Fallen
<1>1. ASSUME NEW c \in Callers, Call(c) PROVE StalenessInv'
  BY <1>0, <1>1 DEF Call
<1>2. ASSUME NEW c \in Callers, LookupFresh(c) PROVE StalenessInv'
  <2>1. PICK e \in StoreGet(key[c]) :
          \/ IsFresh(e) /\ Return(c, e.ver, "store")
          \/ ~IsFresh(e) /\ Goto(c, "join") /\ UNCHANGED res
    BY <1>2 DEF LookupFresh
  <2>2. CASE IsFresh(e) /\ Return(c, e.ver, "store")
    <3>1. e.ver \in Nat /\ committed[key[c]] <= e.ver
      BY <2>2, StoreGetCurrent DEF IsFresh
    <3>2. floor[c] <= e.ver
      BY <3>1, <1>2 DEF LookupFresh
    <3> QED
      BY <1>0, <1>2, <2>2, <3>1, <3>2, ReturnStaleness DEF LookupFresh
  <2>3. CASE ~IsFresh(e) /\ Goto(c, "join") /\ UNCHANGED res
    BY <1>0, <1>2, <2>3 DEF LookupFresh, Goto
  <2> QED
    BY <2>1, <2>2, <2>3
<1>3. ASSUME NEW c \in Callers, JoinAsWaiter(c) PROVE StalenessInv'
  BY <1>0, <1>3 DEF JoinAsWaiter
<1>4. ASSUME NEW c \in Callers, JoinFindsFresh(c) PROVE StalenessInv'
  <2>1. PICK e \in StoreGet(key[c]) : IsFresh(e) /\ Return(c, e.ver, "store")
    BY <1>4 DEF JoinFindsFresh
  <2>2. e.ver \in Nat /\ committed[key[c]] <= e.ver
    BY <2>1, StoreGetCurrent DEF IsFresh
  <2>3. floor[c] <= e.ver
    BY <2>2, <1>4 DEF JoinFindsFresh
  <2> QED
    BY <1>0, <1>4, <2>1, <2>2, <2>3, ReturnStaleness DEF JoinFindsFresh
<1>5. ASSUME NEW c \in Callers, JoinAsOwner(c) PROVE StalenessInv'
  BY <1>0, <1>5 DEF JoinAsOwner
<1>6. ASSUME NEW c \in Callers, Render(c) PROVE StalenessInv'
  <2>1. CASE Goto(c, "complete") /\ res' = [res EXCEPT ![c] = data[key[c]]]
    <3>1. /\ committed[key[c]] <= bumped[key[c]]
          /\ bumped[key[c]] <= data[key[c]]
          /\ floor[c] <= committed[key[c]]
      BY <1>6 DEF Render
    <3>2. CurrentRenders' /\ FloorBelow'
      BY <3>1, <1>6, <2>1 DEF Render, Goto
    <3> QED
      BY <1>0, <1>6, <2>1, <3>2 DEF Render, Goto
  <2>2. CASE Goto(c, "failed") /\ res' = [res EXCEPT ![c] = Failed]
    BY <1>0, <1>6, <2>2 DEF Render, Goto
  <2> QED
    BY <1>6, <2>1, <2>2 DEF Render
<1>7. ASSUME NEW c \in Callers, ServeStaleOrFail(c) PROVE StalenessInv'
  BY <1>0, <1>7 DEF ServeStaleOrFail, Goto, StoreGet, IsUsableStale
<1>8. ASSUME NEW c \in Callers, Complete(c) PROVE StalenessInv'
  BY <1>0, <1>8 DEF Complete, Goto
<1>9. ASSUME NEW c \in Callers, NotifyAll(c) PROVE StalenessInv'
  BY <1>0, <1>9 DEF NotifyAll
<1>10. ASSUME NEW c \in Callers, Publish(c) PROVE StalenessInv'
  <2>1. res[c] \in Nat /\ floor[c] <= res[c] /\ key[c] \in Keys
    BY <1>10, SentinelAssumption DEF Publish
  <2>2. CASE MayStore(c) /\ lock' = c /\ Goto(c, "storing") /\ UNCHANGED res
    BY <1>0, <1>10, <2>2, SentinelAssumption DEF Publish, Goto, MayStore, LockFree
  <2>3. CASE ~MayStore(c) /\ Return(c, res[c], "render") /\ UNCHANGED lock
    BY <1>0, <1>10, <2>1, <2>3, ReturnStaleness DEF Publish
  <2> QED
    BY <1>10, <2>2, <2>3 DEF Publish
<1>11. ASSUME NEW c \in Callers, StoreResult(c) PROVE StalenessInv'
  BY <1>0, <1>11 DEF StoreResult, Return
<1>12. ASSUME NEW c \in Callers, PopInflight(c) PROVE StalenessInv'
  BY <1>0, <1>12 DEF PopInflight, Return
<1>13. ASSUME NEW c \in Callers, WaiterBlocks(c) \/ WaiterWakes(c) PROVE StalenessInv'
  BY <1>0, <1>13 DEF WaiterBlocks, WaiterWakes, Goto
<1>14. ASSUME NEW c \in Callers, WaiterTakes(c) \/ WaiterTimesOut(c) PROVE StalenessInv'
  <2>1. UNCHANGED <<data, store, generation, lock, invVars>>
    BY <1>14 DEF WaiterTakes, WaiterTimesOut
  <2>2. CASE WaiterFallsBack(c)
    <3>1. PICK e \in StoreGet(key[c]) :
            IF IsUsableStale(e) THEN Return(c, e.ver, "store") ELSE Return(c, Failed, "shared")
      BY <2>2 DEF WaiterFallsBack
    <3>2. CASE IsUsableStale(e)
      <4>1. e.ver \in Nat /\ committed[key[c]] <= e.ver
        BY <3>2, StoreGetCurrent DEF IsUsableStale
      <4>2. floor[c] <= e.ver
        <5>1. floor[c] <= committed[key[c]] /\ floor[c] \in Nat /\ committed[key[c]] \in Nat
          BY <1>14 DEF WaiterTakes, WaiterTimesOut
        <5> HIDE DEF TypeOK, StalenessInv
        <5> QED
          BY <4>1, <5>1
      <4> QED
        <5>1. Return(c, e.ver, "store") /\ e.ver \in Outcome
          BY <3>1, <3>2, <4>1
        <5> HIDE DEF TypeOK, StalenessInv
        <5> QED
          BY <1>0, <2>1, <4>2, <5>1, ReturnStaleness
    <3>3. CASE ~IsUsableStale(e)
      BY <1>0, <2>1, <3>1, <3>3, ReturnStaleness
    <3> QED
      BY <3>2, <3>3
  <2>3. CASE slotState[slot[c]] # Pending /\ Return(c, slotState[slot[c]], "shared")
    <3>1. slotState[slot[c]] \in Outcome
      BY <1>14, <2>3 DEF WaiterTakes, WaiterTimesOut
    <3> QED
      BY <1>0, <2>1, <2>3, <3>1, ReturnStaleness
  <2> QED
    BY <1>14, <2>2, <2>3 DEF WaiterTakes, WaiterTimesOut
<1>15. ASSUME NEW i \in Invalidators, Mutate(i) \/ StartClear(i) PROVE StalenessInv'
  <2>1. \A k \in Keys : data'[k] >= data[k]
    BY <1>15 DEF Mutate, StartClear
  <2>2. VersionOrder'
    BY <2>1, <1>0, <1>15 DEF Mutate, StartClear
  <2> QED
    BY <1>0, <1>15, <2>2 DEF Mutate, StartClear
<1>16. ASSUME NEW i \in Invalidators, BumpGeneration(i) PROVE StalenessInv'
  <2>1. VersionOrder'
    BY <1>16, <1>0 DEF BumpGeneration
  <2>2. \A c \in Callers : gen[c] # generation'
    BY <1>16 DEF BumpGeneration
  <2>3. \A c \in Callers : pc[c] # "storing"
    BY <1>16, SentinelAssumption DEF BumpGeneration, LockFree
  <2> QED
    BY <1>0, <1>16, <2>1, <2>2, <2>3 DEF BumpGeneration
<1>17. ASSUME NEW i \in Invalidators, DropInflight(i) PROVE StalenessInv'
  BY <1>0, <1>17 DEF DropInflight
<1>18. ASSUME NEW i \in Invalidators, DeleteEntries(i) PROVE StalenessInv'
  BY <1>0, <1>18 DEF DeleteEntries, InvalidationReturns
<1>19. ASSUME NEW i \in Invalidators, DeleteFails(i) PROVE StalenessInv'
  BY <1>0, <1>19 DEF DeleteFails, InvalidationReturns
<1>20. ASSUME NEW k \in Keys, Expire(k) \/ Drop(k) PROVE StalenessInv'
  <2>1. store[k].ver >= committed[k]
    BY <1>20 DEF Expire, Drop
  <2>2. NoStaleStore'
    BY <1>0, <1>20, <2>1, SentinelAssumption DEF Expire, Drop
  <2>3. OwnReadsSeeInvalidations' /\ VersionOrder' /\ GenerationOrder'
    BY <1>20 DEF Expire, Drop
  <2> QED
    BY <1>0, <1>20, <2>2, <2>3 DEF Expire, Drop
<1>21. CASE UNCHANGED vars
  BY <1>0, <1>21 DEF vars
<1> QED
  BY <1>1, <1>2, <1>3, <1>4, <1>5, <1>6, <1>7, <1>8, <1>9, <1>10, <1>11, <1>12,
     <1>13, <1>14, <1>15, <1>16, <1>17, <1>18, <1>19, <1>20, <1>21
     DEF Next, CallStep, InvalidationStep

(* No entry in the store is older than a completed invalidation of its key. *)
THEOREM StoreNeverStale == Spec => []NoStaleStore
<1>1. StalenessInv => NoStaleStore
  BY DEF StalenessInv
<1> QED
  BY <1>1, StalenessInit, StalenessStep, PTL DEF Spec

(* A call that renders or reads the store itself sees every invalidation of *)
(* its key that had returned when it began.                                 *)
THEOREM OwnReadsCurrent == Spec => []OwnReadsSeeInvalidations
<1>1. StalenessInv => OwnReadsSeeInvalidations
  BY DEF StalenessInv
<1> QED
  BY <1>1, StalenessInit, StalenessStep, PTL DEF Spec

----------------------------------------------------------------------------
(* Slots.  Owners hold distinct slots, pending exactly until they complete  *)
(* them; until the first clear() the in-flight map holds the slot of every  *)
(* owner that has not removed it.                                           *)

OwnersDistinct ==
  \A c, d \in Callers :
    c # d /\ pc[c] \in Owning /\ pc[d] \in Owning => slot[c] # slot[d]

PendingUntilComplete ==
  \A c \in Callers :
    pc[c] \in Owning => (slotState[slot[c]] = Pending <=> pc[c] \in Completing)

OwnersRegistered ==
  epoch = 0 =>
    \A c \in Callers : pc[c] \in Owning \ {"storing"} => inflight[key[c]] = slot[c]

SlotInv ==
  /\ TypeOK
  /\ OwnersDistinct
  /\ PendingUntilComplete
  /\ OwnersRegistered
  /\ InflightOwned
  /\ WaitersServed

LEMMA SlotInit == Init => SlotInv
<1> SUFFICES ASSUME Init PROVE SlotInv
  OBVIOUS
<1> TypeOK
  BY TypeInit
<1> QED
  BY DEF Init, SlotInv, OwnersDistinct, PendingUntilComplete, OwnersRegistered,
     InflightOwned, WaitersServed, Owning, Completing, Waiting

(* A step of a caller that owns nothing and leaves the slots alone. *)
LEMMA SlotBystander ==
  ASSUME SlotInv, TypeOK', NEW c \in Callers,
         pc[c] \notin Owning, pc'[c] \notin Owning \union Waiting,
         \A d \in Callers \ {c} : pc'[d] = pc[d] /\ slot'[d] = slot[d] /\ key'[d] = key[d],
         UNCHANGED <<inflight, slotState, epoch>>
  PROVE  SlotInv'
<1> USE DEF SlotInv
<1>1. OwnersDistinct' /\ PendingUntilComplete' /\ OwnersRegistered'
  BY DEF OwnersDistinct, PendingUntilComplete, OwnersRegistered, Owning, Completing
<1>2. InflightOwned'
  BY DEF InflightOwned
<1>3. WaitersServed'
  BY DEF WaitersServed, Owning, Completing, Waiting
<1> QED
  BY <1>1, <1>2, <1>3

(* An owner past complete() leaves, removing the in-flight entry of its key. *)
LEMMA SlotRemoval ==
  ASSUME SlotInv, TypeOK', NEW c \in Callers,
         pc[c] \in {"publish", "pop"}, pc'[c] \in {"storing", "idle"},
         pc'[c] = "storing" => slot'[c] = slot[c],
         \A d \in Callers \ {c} : pc'[d] = pc[d] /\ slot'[d] = slot[d] /\ key'[d] = key[d],
         RemoveInflight(c),
         UNCHANGED <<slotState, epoch>>
  PROVE  SlotInv'
<1> USE DEF SlotInv
<1>0. key[c] \in Keys
  BY DEF TypeOK, CallTypes
<1>1. OwnersDistinct' /\ PendingUntilComplete'
  BY DEF OwnersDistinct, PendingUntilComplete, Owning, Completing
<1>2. OwnersRegistered'
  <2> SUFFICES ASSUME epoch = 0, NEW d \in Callers, pc'[d] \in Owning \ {"storing"}
               PROVE  inflight'[key'[d]] = slot'[d]
    BY DEF OwnersRegistered
  <2>1. d # c /\ pc[d] \in Owning \ {"storing"} /\ pc[c] \in Owning \ {"storing"}
    BY DEF Owning, Completing
  <2>2. inflight[key[d]] = slot[d] /\ inflight[key[c]] = slot[c] /\ slot[c] # slot[d]
    BY <2>1 DEF OwnersRegistered, OwnersDistinct
  <2> QED
    BY <2>1, <2>2 DEF RemoveInflight, TypeOK, CacheTypes, CallTypes
<1>3. InflightOwned'
  BY <1>0 DEF InflightOwned, RemoveInflight, TypeOK, CacheTypes
<1>4. WaitersServed'
  BY DEF WaitersServed, Owning, Completing, Waiting
<1> QED
  BY <1>1, <1>2, <1>3, <1>4

LEMMA SlotStep == SlotInv /\ [Next]_vars => SlotInv'
<1> SUFFICES ASSUME SlotInv, [Next]_vars PROVE SlotInv'
  OBVIOUS
<1>0. TypeOK'
  BY TypeStep DEF SlotInv
<1> USE DEF SlotInv, TypeOK, CallTypes, callVars, invVars
<1>1. ASSUME NEW c \in Callers, Call(c) PROVE SlotInv'
  BY <1>0, <1>1, SlotBystander DEF Call, Owning, Completing, Waiting
<1>2. ASSUME NEW c \in Callers, LookupFresh(c) PROVE SlotInv'
  BY <1>0, <1>2, SlotBystander DEF LookupFresh, Return, Goto, Owning, Completing, Waiting
<1>3. ASSUME NEW c \in Callers, JoinAsWaiter(c) PROVE SlotInv'
  <2>1. PICK o \in Callers : pc[o] \in Owning /\ slot[o] = inflight[key[c]]
    BY <1>3 DEF JoinAsWaiter, InflightOwned
  <2>2. o # c
    BY <2>1, <1>3 DEF JoinAsWaiter, Owning, Completing
  <2>3. slotState[slot[o]] = Pending => pc[o] \in Completing
    BY <2>1 DEF PendingUntilComplete
  <2>4. OwnersDistinct' /\ PendingUntilComplete' /\ OwnersRegistered' /\ InflightOwned'
    BY <1>3 DEF JoinAsWaiter, OwnersDistinct, PendingUntilComplete, OwnersRegistered,
       InflightOwned, Owning, Completing
  <2>5. WaitersServed'
    BY <1>3, <2>1, <2>2, <2>3 DEF JoinAsWaiter, WaitersServed, Owning, Completing, Waiting
  <2> QED
    BY <1>0, <2>4, <2>5
<1>4. ASSUME NEW c \in Callers, JoinFindsFresh(c) PROVE SlotInv'
  BY <1>0, <1>4, SlotBystander DEF JoinFindsFresh, Return, Owning, Completing, Waiting
<1>5. ASSUME NEW c \in Callers, JoinAsOwner(c) PROVE SlotInv'
  <2>1. PICK s \in Slots :
          /\ Unreferenced(s)
          /\ inflight' = [inflight EXCEPT ![key[c]] = s]
          /\ slotState' = [slotState EXCEPT ![s] = Pending]
          /\ slot' = [slot EXCEPT ![c] = s]
    BY <1>5 DEF JoinAsOwner
  <2>2. /\ pc[c] = "join" /\ pc'[c] = "render" /\ slot'[c] = s
        /\ key[c] \in Keys /\ key' = key /\ inflight[key[c]] = NoSlot /\ epoch' = epoch
        /\ \A d \in Callers \ {c} : pc'[d] = pc[d] /\ slot'[d] = slot[d] /\ slot[d] # s
    BY <1>5, <2>1 DEF JoinAsOwner, Unreferenced
  <2>3. /\ \A t \in Slots \ {s} : slotState'[t] = slotState[t]
        /\ slotState'[s] = Pending
    BY <2>1 DEF CacheTypes
  <2>4. OwnersDistinct'
    BY <2>2 DEF OwnersDistinct
  <2>5. PendingUntilComplete'
    BY <2>2, <2>3 DEF PendingUntilComplete, Owning, Completing, Waiting
  <2>6. InflightOwned'
    <3>1. \A k \in Keys \ {key[c]} : inflight'[k] = inflight[k]
      BY <2>1 DEF CacheTypes
    <3>2. inflight'[key[c]] = s
      BY <2>1, <2>2 DEF CacheTypes
    <3> QED
      BY <2>2, <3>1, <3>2 DEF InflightOwned, Owning, Completing
  <2>7. OwnersRegistered'
    <3> SUFFICES ASSUME epoch = 0, NEW d \in Callers, pc'[d] \in Owning \ {"storing"}, d # c
                 PROVE  inflight'[key[d]] = slot[d]
      BY <2>1, <2>2 DEF OwnersRegistered, CacheTypes
    <3>1. inflight[key[d]] = slot[d] /\ slot[d] \in Slots
      BY <2>2 DEF OwnersRegistered
    <3>2. key[d] # key[c]
      BY <3>1, <2>2, SentinelAssumption
    <3> QED
      BY <3>1, <3>2, <2>1, <2>2 DEF CacheTypes
  <2>8. WaitersServed'
    BY <2>2, <2>3 DEF WaitersServed, Owning, Completing, Waiting
  <2> QED
    BY <1>0, <2>4, <2>5, <2>6, <2>7, <2>8
<1>6. ASSUME NEW c \in Callers, Render(c) \/ ServeStaleOrFail(c) PROVE SlotInv'
  <2>1. /\ pc[c] \in Completing /\ pc'[c] \in Completing
        /\ \A d \in Callers \ {c} : pc'[d] = pc[d]
        /\ UNCHANGED <<slot, key, inflight, slotState, epoch>>
    BY <1>6 DEF Render, ServeStaleOrFail, Goto, Completing
  <2>2. OwnersDistinct' /\ PendingUntilComplete' /\ OwnersRegistered' /\ InflightOwned'
    BY <2>1 DEF OwnersDistinct, PendingUntilComplete, OwnersRegistered, InflightOwned,
       Owning, Completing
  <2>3. WaitersServed'
    BY <2>1 DEF WaitersServed, Owning, Completing, Waiting
  <2> QED
    BY <1>0, <2>2, <2>3
<1>7. ASSUME NEW c \in Callers, Complete(c) PROVE SlotInv'
  <2>1. /\ pc[c] \in {"complete", "completeErr"} /\ pc'[c] \in {"notify", "notifyErr"}
        /\ \A d \in Callers \ {c} : pc'[d] = pc[d]
        /\ UNCHANGED <<slot, key, inflight, epoch>>
        /\ slotState' = [slotState EXCEPT ![slot[c]] = res[c]]
    BY <1>7 DEF Complete, Goto
  <2>2. slot[c] \in Slots /\ slotState'[slot[c]] = res[c] /\ res[c] # Pending
    BY <2>1, SentinelAssumption DEF CacheTypes, Owning, Completing, Succeeded, Fallen, Outcome
  <2>3. \A t \in Slots \ {slot[c]} : slotState'[t] = slotState[t]
    BY <2>1 DEF CacheTypes
  <2>4. OwnersDistinct' /\ OwnersRegistered' /\ InflightOwned'
    BY <2>1 DEF OwnersDistinct, OwnersRegistered, InflightOwned, Owning, Completing
  <2>5. PendingUntilComplete'
    BY <2>1, <2>2, <2>3 DEF PendingUntilComplete, OwnersDistinct, Owning, Completing
  <2>6. WaitersServed'
    BY <2>1, <2>2, <2>3 DEF WaitersServed, Owning, Completing, Waiting
  <2> QED
    BY <1>0, <2>4, <2>5, <2>6
<1>8. ASSUME NEW c \in Callers, NotifyAll(c) PROVE SlotInv'
  <2>1. /\ pc[c] \in {"notify", "notifyErr"} /\ pc'[c] \in {"publish", "pop"}
        /\ \A d \in Callers \ {c} :
             pc'[d] = IF pc[d] = "blocked" /\ slot[d] = slot[c] THEN "wait" ELSE pc[d]
        /\ UNCHANGED <<slot, key, inflight, slotState, epoch>>
    BY <1>8 DEF NotifyAll
  <2>2. OwnersDistinct' /\ PendingUntilComplete' /\ OwnersRegistered' /\ InflightOwned'
    BY <2>1 DEF OwnersDistinct, PendingUntilComplete, OwnersRegistered, InflightOwned,
       Owning, Completing
  <2>3. WaitersServed'
    BY <2>1 DEF WaitersServed, Owning, Completing, Waiting
  <2> QED
    BY <1>0, <2>2, <2>3
<1>9. ASSUME NEW c \in Callers, Publish(c) \/ PopInflight(c) PROVE SlotInv'
  BY <1>0, <1>9, SlotRemoval DEF Publish, PopInflight, Return, Goto
<1>10. ASSUME NEW c \in Callers, StoreResult(c) PROVE SlotInv'
  <2>1. /\ pc[c] = "storing" /\ pc'[c] = "idle"
        /\ \A d \in Callers \ {c} : pc'[d] = pc[d] /\ slot'[d] = slot[d] /\ key'[d] = key[d]
        /\ UNCHANGED <<inflight, slotState, epoch>>
    BY <1>10 DEF StoreResult, Return
  <2>2. OwnersDistinct' /\ PendingUntilComplete' /\ OwnersRegistered'
    BY <2>1 DEF OwnersDistinct, PendingUntilComplete, OwnersRegistered, Owning, Completing
  <2>3. InflightOwned'
    BY <2>1 DEF InflightOwned
  <2>4. WaitersServed'
    BY <2>1 DEF WaitersServed, Owning, Completing, Waiting
  <2> QED
    BY <1>0, <2>2, <2>3, <2>4
<1>11. ASSUME NEW c \in Callers, WaiterBlocks(c) \/ WaiterWakes(c) PROVE SlotInv'
  <2>1. /\ pc[c] \in Waiting /\ pc'[c] \in Waiting
        /\ pc'[c] = "blocked" => slotState[slot[c]] = Pending
        /\ \A d \in Callers \ {c} : pc'[d] = pc[d]
        /\ UNCHANGED <<slot, key, inflight, slotState, epoch>>
    BY <1>11 DEF WaiterBlocks, WaiterWakes, Goto, Waiting
  <2>2. OwnersDistinct' /\ PendingUntilComplete' /\ OwnersRegistered' /\ InflightOwned'
    BY <2>1 DEF OwnersDistinct, PendingUntilComplete, OwnersRegistered, InflightOwned,
       Owning, Completing, Waiting
  <2>3. WaitersServed'
    BY <2>1 DEF WaitersServed, Owning, Completing, Waiting
  <2> QED
    BY <1>0, <2>2, <2>3
<1>12. ASSUME NEW c \in Callers, WaiterTakes(c) \/ WaiterTimesOut(c) PROVE SlotInv'
  BY <1>0, <1>12, SlotBystander DEF WaiterTakes, WaiterTimesOut, WaiterFallsBack, Return,
     Owning, Completing, Waiting
<1>13. ASSUME NEW i \in Invalidators, DropInflight(i) PROVE SlotInv'
  <2>1. /\ UNCHANGED <<pc, slot, key, slotState>> /\ epoch' # 0
        /\ \A k \in Keys : inflight'[k] = NoSlot
    BY <1>13 DEF DropInflight, InvalidationTypes
  <2> QED
    BY <1>0, <2>1 DEF OwnersDistinct, PendingUntilComplete, OwnersRegistered,
       InflightOwned, WaitersServed
<1>14. ASSUME UNCHANGED <<pc, slot, key, slotState, inflight, epoch>> PROVE SlotInv'
  BY <1>0, <1>14 DEF OwnersDistinct, PendingUntilComplete, OwnersRegistered,
     InflightOwned, WaitersServed
<1>15. ASSUME NEW i \in Invalidators,
              Mutate(i) \/ StartClear(i) \/ BumpGeneration(i) \/ DeleteEntries(i) \/ DeleteFails(i)
       PROVE  SlotInv'
  BY <1>14, <1>15 DEF Mutate, StartClear, BumpGeneration, DeleteEntries, DeleteFails
<1>16. ASSUME NEW k \in Keys, Expire(k) \/ Drop(k) PROVE SlotInv'
  BY <1>14, <1>16 DEF Expire, Drop
<1>17. CASE UNCHANGED vars
  BY <1>14, <1>17 DEF vars
<1> QED
  BY <1>1, <1>2, <1>3, <1>4, <1>5, <1>6, <1>7, <1>8, <1>9, <1>10, <1>11, <1>12,
     <1>13, <1>15, <1>16, <1>17 DEF Next, CallStep, InvalidationStep

LEMMA OneRenderPerKey == SlotInv => SingleFlightUntilClear
<1> SUFFICES ASSUME SlotInv, epoch = 0, NEW c \in Callers, NEW d \in Callers,
                    c # d, pc[c] \in Completing, pc[d] \in Completing, key[c] = key[d]
             PROVE  FALSE
  BY DEF SingleFlightUntilClear, SingleFlight
<1>1. inflight[key[c]] = slot[c] /\ inflight[key[d]] = slot[d]
  BY DEF SlotInv, OwnersRegistered, Owning, Completing
<1>2. slot[c] # slot[d]
  BY DEF SlotInv, OwnersDistinct, Owning
<1> QED
  BY <1>1, <1>2

(* Single-flight: until the first clear(), no two calls render one key.     *)
THEOREM SingleFlightHolds == Spec => []SingleFlightUntilClear
  BY OneRenderPerKey, SlotInit, SlotStep, PTL DEF Spec

(* No later caller attaches to an abandoned slot.                           *)
THEOREM NoAbandonedSlot == Spec => []InflightOwned
<1>1. SlotInv => InflightOwned
  BY DEF SlotInv
<1> QED
  BY <1>1, SlotInit, SlotStep, PTL DEF Spec

(* No waiter is left behind and no wake-up is lost.                         *)
THEOREM WaitersAlwaysServed == Spec => []WaitersServed
<1>1. SlotInv => WaitersServed
  BY DEF SlotInv
<1> QED
  BY <1>1, SlotInit, SlotStep, PTL DEF Spec

----------------------------------------------------------------------------
(* Progress.  Only the thread about to write the store keeps the state      *)
(* mutex across two steps, and it waits for nobody; an owner waits for      *)
(* nobody but the mutex; every sleeper has an owner before its wake-up.     *)

LockHeld == lock # NoOne => pc[lock] = "storing"

LEMMA LockStep == TypeOK /\ LockHeld /\ [Next]_vars => LockHeld'
<1> SUFFICES ASSUME TypeOK, LockHeld, [Next]_vars PROVE LockHeld'
  OBVIOUS
<1> USE DEF TypeOK, CacheTypes, CallTypes
<1>1. ASSUME UNCHANGED lock,
             \A d \in Callers : pc[d] = "storing" => pc'[d] = "storing"
      PROVE  LockHeld'
  BY <1>1 DEF LockHeld
<1>2. ASSUME NEW c \in Callers, Publish(c) PROVE LockHeld'
  BY <1>2 DEF Publish, LockFree, LockHeld, Goto
<1>3. ASSUME NEW c \in Callers, StoreResult(c) PROVE LockHeld'
  BY <1>3 DEF StoreResult, LockHeld
<1>4. ASSUME NEW c \in Callers,
             \/ Call(c) \/ LookupFresh(c) \/ JoinAsWaiter(c) \/ JoinFindsFresh(c)
             \/ JoinAsOwner(c) \/ Render(c) \/ ServeStaleOrFail(c) \/ Complete(c)
      PROVE  LockHeld'
  BY <1>1, <1>4 DEF Call, LookupFresh, JoinAsWaiter, JoinFindsFresh, JoinAsOwner, Render,
     ServeStaleOrFail, Complete, Return, Goto
<1>5. ASSUME NEW c \in Callers,
             \/ NotifyAll(c) \/ PopInflight(c) \/ WaiterBlocks(c) \/ WaiterTakes(c)
             \/ WaiterWakes(c) \/ WaiterTimesOut(c)
      PROVE  LockHeld'
  BY <1>1, <1>5 DEF NotifyAll, PopInflight, WaiterBlocks, WaiterTakes, WaiterWakes,
     WaiterTimesOut, WaiterFallsBack, Return, Goto
<1>6. ASSUME NEW i \in Invalidators, Mutate(i) \/ StartClear(i) \/ InvalidationStep(i)
      PROVE  LockHeld'
  BY <1>1, <1>6 DEF Mutate, StartClear, InvalidationStep, BumpGeneration, DropInflight,
     DeleteEntries, DeleteFails, callVars
<1>7. ASSUME NEW k \in Keys, Expire(k) \/ Drop(k) PROVE LockHeld'
  BY <1>1, <1>7 DEF Expire, Drop, callVars
<1>8. CASE UNCHANGED vars
  BY <1>1, <1>8 DEF vars, callVars
<1> QED
  BY <1>2, <1>3, <1>4, <1>5, <1>6, <1>7, <1>8 DEF Next, CallStep

LEMMA HolderGoesOn ==
  ASSUME TypeOK, LockHeld, ~LockFree
  PROVE  \E c \in Callers : CanGoOn(c)
  BY DEF TypeOK, CacheTypes, LockHeld, LockFree, CanGoOn

LEMMA SomeThreadGoesOn == SlotInv /\ LockHeld => NoCircularWait
<1> SUFFICES ASSUME SlotInv, LockHeld PROVE NoCircularWait
  OBVIOUS
<1> USE DEF SlotInv, TypeOK, CallTypes
<1>1. CASE ~LockFree
  BY <1>1, HolderGoesOn DEF NoCircularWait
<1>2. CASE LockFree
  <2>1. ASSUME NEW c \in Callers, pc[c] # "idle" PROVE \E d \in Callers : CanGoOn(d)
    <3>1. CASE pc[c] = "blocked"
      <4>1. PICK o \in Callers : pc[o] \in Completing \union {"notify", "notifyErr"}
        BY <3>1 DEF WaitersServed, Waiting
      <4> QED
        BY <4>1 DEF CanGoOn
    <3>2. CASE pc[c] # "blocked"
      BY <1>2, <2>1, <3>2 DEF CanGoOn, CallPoints, Owning, Completing, Waiting
    <3> QED
      BY <3>1, <3>2
  <2>2. ASSUME NEW i \in Invalidators, ipc[i] # "idle" PROVE CanInvalidate(i)
    BY <1>2, <2>2 DEF InvalidationTypes, CanInvalidate
  <2> QED
    BY <2>1, <2>2 DEF NoCircularWait
<1> QED
  BY <1>1, <1>2

(* Calls and invalidations never all wait for one another: with no deadline *)
(* set and no spurious wake-up, some thread inside the cache can go on.     *)
THEOREM CallsNeverStall == Spec => []NoCircularWait
<1>1. Init => LockHeld
  BY DEF Init, LockHeld
<1>2. SlotInv => TypeOK
  BY DEF SlotInv
<1> QED
  BY <1>1, <1>2, SlotInit, SlotStep, LockStep, SomeThreadGoesOn, PTL DEF Spec

----------------------------------------------------------------------------
(* Threads and tasks on one cache.  A step of a thread is a step of        *)
(* DocumentCache, so its invariant is taken over; what is new are the      *)
(* locals of the tasks.                                                    *)

Rendered == {"send", "publish"}
Decided == Rendered \union {"sendErr", "pop"}
Joined == Decided \union {"render", "failed", "wait"}

TaskTypes ==
  /\ inflightAsync \in [Keys -> Flights \union {NoFlight}]
  /\ flightState \in [Flights -> Outcome \union {Pending, Cancelled}]
  /\ apc \in [Tasks -> {"idle", "lookup", "join"} \union Joined]
  /\ akey \in [Tasks -> Keys]
  /\ attl \in [Tasks -> BOOLEAN]
  /\ aflight \in [Tasks -> Flights \union {NoFlight}]
  /\ agen \in [Tasks -> Nat]
  /\ ares \in [Tasks -> Outcome \union {NoResult}]
  /\ afloor \in [Tasks -> Nat]
  /\ abehind \in [Tasks -> BOOLEAN]
  /\ \A a \in Tasks : /\ apc[a] \in Rendered => ares[a] \in Nat
                      /\ apc[a] \in Decided => ares[a] \in Outcome
                      /\ apc[a] \in Joined => aflight[a] \in Flights

(* What a task rendered while the generation stands is as recent as the    *)
(* last bump, and nothing a task is about to return is older than its floor.*)
TaskStaleness ==
  \A a \in Tasks :
    /\ agen[a] <= generation
    /\ apc[a] \in Rendered /\ agen[a] = generation => bumped[akey[a]] <= ares[a]
    /\ apc[a] # "idle" => afloor[a] <= committed[akey[a]]
    /\ apc[a] \in Decided /\ ares[a] # Failed => afloor[a] <= ares[a]
    /\ ~abehind[a]

(* Somebody will still send to the channel, or its future has resolved. *)
Served(f) ==
  flightState[f] = Pending => \E b \in Tasks : Rendering(b) /\ aflight[b] = f

FlightInv ==
  /\ \A k \in Keys : inflightAsync[k] # NoFlight => Served(inflightAsync[k])
  /\ \A a \in Tasks : apc[a] = "wait" => Served(aflight[a])

AsyncInv == StalenessInv /\ TaskTypes /\ TaskStaleness /\ FlightInv

LEMMA AsyncInitially == AsyncInit => AsyncInv
<1> SUFFICES ASSUME AsyncInit PROVE AsyncInv
  OBVIOUS
<1>1. StalenessInv
  BY StalenessInit DEF AsyncInit
<1>2. AnyKey \in Keys
  BY SentinelAssumption DEF AnyKey
<1>3. TaskTypes
  BY <1>2 DEF AsyncInit, TaskTypes, Rendered, Decided, Joined
<1>4. TaskStaleness /\ FlightInv
  BY DEF AsyncInit, Init, TaskStaleness, FlightInv, Rendered, Decided
<1> QED
  BY <1>1, <1>3, <1>4 DEF AsyncInv

----------------------------------------------------------------------------
(* What the steps of the threads do to what the tasks rely on. *)

LEMMA SyncIsNext == SyncNext => Next
  BY DEF SyncNext, Next, InvalidationStep

LEMMA HistoryGrows ==
  ASSUME TypeOK, Next
  PROVE  /\ generation <= generation'
         /\ generation' = generation => bumped' = bumped
         /\ \A k \in Keys : committed[k] <= committed'[k]
<1> USE DEF TypeOK, CacheTypes, InvalidationTypes
<1>1. ASSUME NEW c \in Callers, Call(c) \/ CallStep(c) \/ WaiterWakes(c) \/ WaiterTimesOut(c)
      PROVE  UNCHANGED <<generation, invVars>>
  BY <1>1 DEF Call, CallStep, WaiterWakes, WaiterTimesOut, LookupFresh, JoinAsWaiter,
     JoinFindsFresh, JoinAsOwner, Render, ServeStaleOrFail, Complete, NotifyAll, Publish,
     StoreResult, PopInflight, WaiterBlocks, WaiterTakes
<1>2. ASSUME NEW k \in Keys, Expire(k) \/ Drop(k) PROVE UNCHANGED <<generation, invVars>>
  BY <1>2 DEF Expire, Drop
<1>3. CASE UNCHANGED <<generation, invVars>>
  BY <1>3 DEF invVars
<1>4. ASSUME NEW i \in Invalidators,
             Mutate(i) \/ StartClear(i) \/ DropInflight(i) \/ DeleteFails(i)
      PROVE  UNCHANGED <<generation, bumped, committed>>
  BY <1>4 DEF Mutate, StartClear, DropInflight, DeleteFails
<1>5. CASE UNCHANGED <<generation, bumped, committed>>
  BY <1>5
<1>6. ASSUME NEW i \in Invalidators, BumpGeneration(i)
      PROVE  generation' = generation + 1 /\ UNCHANGED committed
  BY <1>6 DEF BumpGeneration
<1>7. CASE generation' = generation + 1 /\ UNCHANGED committed
  BY <1>7
<1>8. ASSUME NEW i \in Invalidators, DeleteEntries(i)
      PROVE  UNCHANGED <<generation, bumped>> /\ \A k \in Keys : committed[k] <= committed'[k]
  BY <1>8 DEF DeleteEntries
<1> QED
  BY <1>1, <1>2, <1>3, <1>4, <1>5, <1>6, <1>7, <1>8 DEF Next, InvalidationStep

(* A step of a thread leaves the tasks where they are. *)
LEMMA SyncStep ==
  ASSUME AsyncInv, SyncNext
  PROVE  AsyncInv'
<1>1. Next
  BY SyncIsNext
<1>2. StalenessInv'
  BY <1>1, StalenessStep DEF AsyncInv
<1>3. /\ generation \in Nat /\ generation' \in Nat
      /\ committed \in [Keys -> Nat] /\ committed' \in [Keys -> Nat]
  BY <1>2 DEF AsyncInv, StalenessInv, TypeOK, CacheTypes, InvalidationTypes
<1>4. /\ generation <= generation'
      /\ generation' = generation => bumped' = bumped
      /\ \A k \in Keys : committed[k] <= committed'[k]
  BY <1>1, HistoryGrows DEF AsyncInv, StalenessInv
<1>5. /\ UNCHANGED <<flightState, taskVars>>
      /\ UNCHANGED inflightAsync \/ inflightAsync' = [k \in Keys |-> NoFlight]
  BY DEF SyncNext, asyncVars
<1>6. TaskTypes'
  BY <1>5 DEF AsyncInv, TaskTypes, taskVars
<1>7. TaskStaleness'
  <2> SUFFICES ASSUME NEW a \in Tasks
               PROVE  /\ agen[a] <= generation'
                      /\ apc[a] \in Rendered /\ agen[a] = generation' => bumped'[akey[a]] <= ares[a]
                      /\ apc[a] # "idle" => afloor[a] <= committed'[akey[a]]
                      /\ apc[a] \in Decided /\ ares[a] # Failed => afloor[a] <= ares[a]
                      /\ ~abehind[a]
    BY <1>5 DEF TaskStaleness, taskVars
  <2>1. agen[a] \in Nat /\ afloor[a] \in Nat /\ akey[a] \in Keys
    BY DEF AsyncInv, TaskTypes
  <2>2. agen[a] <= generation'
    BY <1>3, <1>4, <2>1 DEF AsyncInv, TaskStaleness
  <2>3. agen[a] = generation' => generation' = generation
    BY <1>3, <1>4, <2>1 DEF AsyncInv, TaskStaleness
  <2>4. apc[a] # "idle" => afloor[a] <= committed'[akey[a]]
    BY <1>3, <1>4, <2>1 DEF AsyncInv, TaskStaleness
  <2> QED
    BY <1>4, <2>2, <2>3, <2>4 DEF AsyncInv, TaskStaleness
<1>8. FlightInv'
  <2>1. \A f : Served(f)' <=> Served(f)
    BY <1>5 DEF Served, Rendering, taskVars
  <2>2. ASSUME NEW k \in Keys, inflightAsync'[k] # NoFlight PROVE Served(inflightAsync'[k])
    BY <1>5, <2>2 DEF AsyncInv, FlightInv
  <2>3. ASSUME NEW a \in Tasks, apc'[a] = "wait" PROVE Served(aflight'[a])
    BY <1>5, <2>3 DEF AsyncInv, FlightInv, taskVars
  <2> QED
    BY <1>5, <2>2, <2>3 DEF FlightInv, Served, Rendering, taskVars
<1> QED
  BY <1>2, <1>6, <1>7, <1>8 DEF AsyncInv

----------------------------------------------------------------------------
(* The steps of the tasks. *)

(* A call that returns keeps the invariants of the tasks if what it says is *)
(* its own is no older than its floor.                                      *)
LEMMA ResolveKeeps ==
  ASSUME TaskTypes, TaskStaleness, NEW a \in Tasks, NEW r, NEW own \in BOOLEAN,
         Resolve(a, r, own),
         own /\ r # Failed => r \in Nat /\ afloor[a] <= r,
         generation \in Nat,
         UNCHANGED <<generation, bumped, committed>>,
         inflightAsync' \in [Keys -> Flights \union {NoFlight}],
         flightState' \in [Flights -> Outcome \union {Pending, Cancelled}]
  PROVE  TaskTypes' /\ TaskStaleness'
<1> USE DEF TaskTypes, TaskStaleness, Resolve, Rendered, Decided, Joined
<1>1. AnyKey \in Keys
  BY SentinelAssumption DEF AnyKey
<1>2. (own /\ r # Failed /\ r < afloor[a]) = FALSE
  <2>1. afloor[a] \in Nat
    OBVIOUS
  <2> QED
    BY <2>1
<1>3. abehind' = [abehind EXCEPT ![a] = FALSE]
  BY <1>2
<1>4. TaskTypes'
  BY <1>1, <1>3
<1>5. generation' = generation /\ bumped' = bumped /\ committed' = committed
  OBVIOUS
<1>6. ASSUME NEW b \in Tasks, b # a
      PROVE  /\ apc'[b] = apc[b] /\ akey'[b] = akey[b] /\ agen'[b] = agen[b]
             /\ ares'[b] = ares[b] /\ afloor'[b] = afloor[b] /\ abehind'[b] = abehind[b]
  BY <1>6
<1>7. /\ apc'[a] = "idle" /\ agen'[a] = 0 /\ abehind'[a] = FALSE /\ agen[a] \in Nat
      /\ agen[a] <= generation
  BY <1>3
<1>8. TaskStaleness'
  <2> SUFFICES ASSUME NEW b \in Tasks
               PROVE  /\ agen'[b] <= generation
                      /\ apc'[b] \in Rendered /\ agen'[b] = generation
                           => bumped[akey'[b]] <= ares'[b]
                      /\ apc'[b] # "idle" => afloor'[b] <= committed[akey'[b]]
                      /\ apc'[b] \in Decided /\ ares'[b] # Failed => afloor'[b] <= ares'[b]
                      /\ ~abehind'[b]
    BY <1>5
  <2>1. CASE b = a
    <3>1. 0 <= generation
      OBVIOUS
    <3> QED
      BY <2>1, <3>1, <1>7
  <2>2. CASE b # a
    BY <2>2, <1>6
  <2> QED
    BY <2>1, <2>2
<1> QED
  BY <1>4, <1>8

(* A call that goes on with an outcome keeps them if it may. *)
LEMMA ContinueKeeps ==
  ASSUME TaskTypes, TaskStaleness, NEW a \in Tasks, NEW r,
         NEW p \in {"idle", "lookup", "join"} \union Joined,
         Continue(a, p, r), apc[a] # "idle",
         r \in Outcome \union {NoResult},
         p \in Rendered => r \in Nat,
         p \in Decided => r \in Outcome /\ (r # Failed => afloor[a] <= r),
         p \in Joined => aflight[a] \in Flights,
         p \in Rendered /\ agen[a] = generation => bumped[akey[a]] <= r,
         UNCHANGED <<generation, bumped, committed>>,
         inflightAsync' \in [Keys -> Flights \union {NoFlight}],
         flightState' \in [Flights -> Outcome \union {Pending, Cancelled}]
  PROVE  TaskTypes' /\ TaskStaleness'
<1>1. TaskTypes'
  BY DEF TaskTypes, Continue
<1>2. TaskStaleness'
  BY DEF TaskTypes, TaskStaleness, Continue
<1> QED
  BY <1>1, <1>2

(* What a step of one task leaves the others. *)
OneTask(a) == \A b \in Tasks \ {a} : apc'[b] = apc[b] /\ aflight'[b] = aflight[b]

(* Flights stay served when no channel goes back to pending, an owner sends *)
(* before it stops, and only a flight from the map is waited for.           *)
LEMMA FlightKept ==
  ASSUME AsyncInv, NEW a \in Tasks, OneTask(a),
         Rendering(a) => \/ Rendering(a)' /\ aflight'[a] = aflight[a]
                         \/ flightState'[aflight[a]] # Pending,
         \A f \in Flights : flightState'[f] = Pending => flightState[f] = Pending,
         \A k \in Keys : inflightAsync'[k] \in {NoFlight, inflightAsync[k]},
         apc'[a] = "wait" =>
           \E k \in Keys : inflightAsync[k] # NoFlight /\ aflight'[a] = inflightAsync[k]
  PROVE  FlightInv'
<1> DEFINE Sent(f) == flightState'[f] = Pending =>
                        \E b \in Tasks : Rendering(b)' /\ aflight'[b] = f
<1>1. ASSUME NEW f \in Flights, Served(f) PROVE Sent(f)
  <2> SUFFICES ASSUME flightState'[f] = Pending
               PROVE  \E b \in Tasks : Rendering(b)' /\ aflight'[b] = f
    OBVIOUS
  <2>1. PICK b \in Tasks : Rendering(b) /\ aflight[b] = f
    BY <1>1 DEF Served
  <2>2. CASE b = a
    BY <2>1, <2>2
  <2>3. CASE b # a
    BY <2>1, <2>3 DEF OneTask, Rendering
  <2> QED
    BY <2>2, <2>3
<1>2. ASSUME NEW k \in Keys, inflightAsync[k] # NoFlight PROVE Sent(inflightAsync[k])
  <2>1. inflightAsync[k] \in Flights /\ Served(inflightAsync[k])
    BY <1>2 DEF AsyncInv, TaskTypes, FlightInv
  <2> QED
    BY <2>1, <1>1
<1>3. ASSUME NEW k \in Keys, inflightAsync'[k] # NoFlight PROVE Sent(inflightAsync'[k])
  BY <1>2, <1>3
<1>4. ASSUME NEW b \in Tasks, apc'[b] = "wait" PROVE Sent(aflight'[b])
  <2>1. CASE b = a
    BY <1>2, <1>4, <2>1
  <2>2. CASE b # a
    <3>1. aflight'[b] = aflight[b] /\ aflight[b] \in Flights /\ Served(aflight[b])
      BY <1>4, <2>2 DEF OneTask, AsyncInv, TaskTypes, FlightInv, Joined
    <3> QED
      BY <3>1, <1>1
  <2> QED
    BY <2>1, <2>2
<1> QED
  BY <1>3, <1>4 DEF FlightInv, Served

(* A step of a task that leaves cache and store alone. *)
LEMMA CacheUntouched ==
  ASSUME AsyncInv, UNCHANGED <<store, syncVars>>
  PROVE  /\ StalenessInv'
         /\ UNCHANGED <<generation, bumped, committed>>
         /\ generation \in Nat
<1>1. UNCHANGED vars
  BY DEF syncVars, vars
<1>2. StalenessInv'
  BY <1>1, StalenessStep DEF AsyncInv
<1> QED
  BY <1>2 DEF AsyncInv, StalenessInv, TypeOK, CacheTypes, syncVars, invVars

(* What a task finds in the store is no older than its floor. *)
LEMMA FoundCurrent ==
  ASSUME AsyncInv, NEW a \in Tasks, apc[a] # "idle",
         NEW e \in StoreGet(akey[a]), e # NoEntry
  PROVE  e.ver \in Nat /\ e.ver # Failed /\ afloor[a] <= e.ver
<1>1. akey[a] \in Keys /\ afloor[a] \in Nat /\ afloor[a] <= committed[akey[a]]
  BY DEF AsyncInv, TaskTypes, TaskStaleness
<1>2. e.ver \in Nat /\ committed[akey[a]] <= e.ver
  BY <1>1, StoreGetCurrent DEF AsyncInv
<1>3. committed[akey[a]] \in Nat
  BY <1>1 DEF AsyncInv, StalenessInv, TypeOK, InvalidationTypes
<1> QED
  BY <1>1, <1>2, <1>3, SentinelAssumption

(* A call that returns without having been an owner that still has to send. *)
LEMMA ReturnStep ==
  ASSUME AsyncInv, NEW a \in Tasks, NEW r, NEW own \in BOOLEAN,
         Resolve(a, r, own), ~Rendering(a),
         own /\ r # Failed => r \in Nat /\ afloor[a] <= r,
         \A k \in Keys : inflightAsync'[k] \in {NoFlight, inflightAsync[k]},
         inflightAsync' \in [Keys -> Flights \union {NoFlight}],
         UNCHANGED <<flightState, generation, bumped, committed>>,
         StalenessInv'
  PROVE  AsyncInv'
<1>1. TaskTypes' /\ TaskStaleness'
  <2>1. /\ TaskTypes /\ TaskStaleness /\ generation \in Nat
        /\ flightState' \in [Flights -> Outcome \union {Pending, Cancelled}]
    BY DEF AsyncInv, TaskTypes, StalenessInv, TypeOK, CacheTypes
  <2> QED
    BY <2>1, ResolveKeeps
<1>2. OneTask(a) /\ apc'[a] # "wait"
  BY DEF Resolve, OneTask, AsyncInv, TaskTypes
<1>3. FlightInv'
  BY <1>2, FlightKept
<1> QED
  BY <1>1, <1>3 DEF AsyncInv

(* A waiter or owner falls back to the store. *)
LEMMA FallBackStep ==
  ASSUME AsyncInv, NEW a \in Tasks, apc[a] = "wait", AsyncFallBack(a),
         UNCHANGED <<inflightAsync, flightState, store, syncVars>>
  PROVE  AsyncInv'
<1>1. PICK e \in StoreGet(akey[a]) :
        IF IsUsableStale(e) THEN Resolve(a, e.ver, TRUE) ELSE Resolve(a, Failed, FALSE)
  BY DEF AsyncFallBack
<1>2. /\ UNCHANGED <<generation, bumped, committed>> /\ StalenessInv'
      /\ inflightAsync' \in [Keys -> Flights \union {NoFlight}]
      /\ ~Rendering(a)
  BY CacheUntouched DEF AsyncInv, TaskTypes, Rendering
<1>3. CASE IsUsableStale(e)
  <2>1. e.ver \in Nat /\ afloor[a] <= e.ver
    BY <1>3, FoundCurrent DEF IsUsableStale
  <2>2. Resolve(a, e.ver, TRUE)
    BY <1>1, <1>3
  <2> QED
    BY <1>2, <2>1, <2>2, ReturnStep
<1>4. CASE ~IsUsableStale(e)
  <2>1. Resolve(a, Failed, FALSE)
    BY <1>1, <1>4
  <2> QED
    BY <1>2, <2>1, ReturnStep
<1> QED
  BY <1>3, <1>4

(* A call that goes on and joins nothing. *)
LEMMA ProceedStep ==
  ASSUME AsyncInv, NEW a \in Tasks, NEW r,
         NEW p \in ({"idle", "lookup", "join"} \union Joined) \ {"wait"},
         Continue(a, p, r), apc[a] # "idle",
         r \in Outcome \union {NoResult},
         p \in Rendered => r \in Nat,
         p \in Decided => r \in Outcome /\ (r # Failed => afloor[a] <= r),
         p \in Joined => aflight[a] \in Flights,
         p \in Rendered /\ agen[a] = generation => bumped[akey[a]] <= r,
         Rendering(a) => \/ p \in {"render", "failed", "send", "sendErr"}
                         \/ flightState'[aflight[a]] # Pending,
         \A f \in Flights : flightState'[f] = Pending => flightState[f] = Pending,
         flightState' \in [Flights -> Outcome \union {Pending, Cancelled}],
         UNCHANGED <<inflightAsync, store, syncVars>>
  PROVE  AsyncInv'
<1>1. /\ UNCHANGED <<generation, bumped, committed>> /\ StalenessInv'
      /\ inflightAsync' \in [Keys -> Flights \union {NoFlight}]
      /\ TaskTypes /\ TaskStaleness
      /\ p \in {"idle", "lookup", "join"} \union Joined
  BY CacheUntouched DEF AsyncInv, TaskTypes
<1>2. TaskTypes' /\ TaskStaleness'
  BY <1>1, ContinueKeeps
<1>3. OneTask(a) /\ apc'[a] = p /\ aflight'[a] = aflight[a]
  BY DEF Continue, OneTask, AsyncInv, TaskTypes
<1>4. FlightInv'
  BY <1>3, FlightKept DEF Rendering
<1> QED
  BY <1>1, <1>2, <1>4 DEF AsyncInv

LEMMA AsyncStepKeeps == AsyncInv /\ [AsyncNext]_<<vars, asyncVars>> => AsyncInv'
<1> SUFFICES ASSUME AsyncInv, [AsyncNext]_<<vars, asyncVars>> PROVE AsyncInv'
  OBVIOUS
<1>t. /\ TaskTypes /\ TaskStaleness /\ FlightInv
      /\ inflightAsync \in [Keys -> Flights \union {NoFlight}]
      /\ flightState \in [Flights -> Outcome \union {Pending, Cancelled}]
  BY DEF AsyncInv, TaskTypes
<1>1. CASE SyncNext
  BY <1>1, SyncStep
<1>2. ASSUME NEW a \in Tasks, AsyncCall(a) PROVE AsyncInv'
  <2>1. PICK k \in Keys, t \in Ttls :
          /\ apc[a] = "idle"
          /\ apc' = [apc EXCEPT ![a] = IF t THEN "lookup" ELSE "join"]
          /\ akey' = [akey EXCEPT ![a] = k]
          /\ attl' = [attl EXCEPT ![a] = t]
          /\ afloor' = [afloor EXCEPT ![a] = committed[k]]
          /\ abehind' = [abehind EXCEPT ![a] = FALSE]
          /\ UNCHANGED <<aflight, agen, ares, inflightAsync, flightState, store, syncVars>>
    BY <1>2 DEF AsyncCall
  <2>2. /\ UNCHANGED <<generation, bumped, committed>> /\ StalenessInv' /\ generation \in Nat
        /\ committed \in [Keys -> Nat]
    BY <2>1, CacheUntouched DEF AsyncInv, StalenessInv, TypeOK, InvalidationTypes
  <2>3. TaskTypes'
    BY <2>1, <2>2, <1>t, FlagsAssumption DEF TaskTypes, Rendered, Decided, Joined
  <2>4. TaskStaleness'
    BY <2>1, <2>2, <1>t DEF TaskTypes, TaskStaleness, Rendered, Decided, Joined
  <2>5. OneTask(a) /\ ~Rendering(a) /\ apc'[a] # "wait"
    BY <2>1, <1>t DEF OneTask, TaskTypes, Rendering
  <2>6. FlightInv'
    BY <2>1, <2>5, FlightKept
  <2> QED
    BY <2>2, <2>3, <2>4, <2>6 DEF AsyncInv
<1>3. ASSUME NEW a \in Tasks, AsyncLookup(a) PROVE AsyncInv'
  <2>1. PICK e \in StoreGet(akey[a]) :
          \/ IsFresh(e) /\ Resolve(a, e.ver, TRUE)
          \/ ~IsFresh(e) /\ Continue(a, "join", ares[a])
    BY <1>3 DEF AsyncLookup
  <2>2. UNCHANGED <<inflightAsync, flightState, store, syncVars>> /\ apc[a] = "lookup"
    BY <1>3 DEF AsyncLookup
  <2>3. CASE IsFresh(e) /\ Resolve(a, e.ver, TRUE)
    <3>1. e.ver \in Nat /\ afloor[a] <= e.ver
      BY <2>2, <2>3, FoundCurrent DEF IsFresh
    <3>2. UNCHANGED <<generation, bumped, committed>> /\ StalenessInv' /\ ~Rendering(a)
      BY <2>2, CacheUntouched DEF Rendering
    <3> QED
      BY <1>t, <2>2, <2>3, <3>1, <3>2, ReturnStep
  <2>4. CASE ~IsFresh(e) /\ Continue(a, "join", ares[a])
    <3>1. ares[a] \in Outcome \union {NoResult} /\ ~Rendering(a)
      BY <1>t, <2>2 DEF TaskTypes, Rendering
    <3> QED
      BY <1>t, <2>2, <2>4, <3>1, ProceedStep DEF Rendered, Decided, Joined
  <2> QED
    BY <2>1, <2>3, <2>4
<1>4. ASSUME NEW a \in Tasks, AsyncJoin(a) PROVE AsyncInv'
  <2>1. UNCHANGED <<inflightAsync, flightState, store, syncVars>> /\ apc[a] = "join" /\ ~Rendering(a)
    BY <1>4 DEF AsyncJoin, Rendering
  <2>2. UNCHANGED <<generation, bumped, committed>> /\ StalenessInv'
    BY <2>1, CacheUntouched
  <2>3. CASE /\ inflightAsync[akey[a]] # NoFlight
             /\ apc' = [apc EXCEPT ![a] = "wait"]
             /\ aflight' = [aflight EXCEPT ![a] = inflightAsync[akey[a]]]
             /\ UNCHANGED <<akey, attl, agen, ares, afloor, abehind>>
    <3>1. akey[a] \in Keys /\ inflightAsync[akey[a]] \in Flights
      BY <1>t, <2>3 DEF TaskTypes
    <3>2. TaskTypes'
      BY <1>t, <2>1, <2>3, <3>1 DEF TaskTypes, Rendered, Decided, Joined
    <3>3. TaskStaleness'
      BY <1>t, <2>1, <2>2, <2>3 DEF TaskTypes, TaskStaleness, Rendered, Decided
    <3>4. OneTask(a) /\ aflight'[a] = inflightAsync[akey[a]]
      BY <1>t, <2>3 DEF OneTask, TaskTypes
    <3>5. FlightInv'
      BY <2>1, <2>3, <3>1, <3>4, FlightKept
    <3> QED
      BY <2>2, <3>2, <3>3, <3>5 DEF AsyncInv
  <2>4. CASE \E e \in StoreGet(akey[a]) : IsFresh(e) /\ Resolve(a, e.ver, TRUE)
    <3>1. PICK e \in StoreGet(akey[a]) : IsFresh(e) /\ Resolve(a, e.ver, TRUE)
      BY <2>4
    <3>2. e.ver \in Nat /\ afloor[a] <= e.ver
      BY <2>1, <3>1, FoundCurrent DEF IsFresh
    <3> QED
      BY <1>t, <2>1, <2>2, <3>1, <3>2, ReturnStep
  <2> QED
    BY <1>4, <2>3, <2>4 DEF AsyncJoin
<1>5. ASSUME NEW a \in Tasks, AsyncOwn(a) PROVE AsyncInv'
  <2>1. PICK f \in Flights :
          /\ \A b \in Tasks : aflight[b] # f
          /\ \A k \in Keys : inflightAsync[k] # f
          /\ inflightAsync' = [inflightAsync EXCEPT ![akey[a]] = f]
          /\ flightState' = [flightState EXCEPT ![f] = Pending]
          /\ aflight' = [aflight EXCEPT ![a] = f]
    BY <1>5 DEF AsyncOwn
  <2>2. /\ apc[a] = "join" /\ apc' = [apc EXCEPT ![a] = "render"]
        /\ agen' = [agen EXCEPT ![a] = generation]
        /\ UNCHANGED <<akey, attl, ares, afloor, abehind, store, syncVars>>
    BY <1>5 DEF AsyncOwn
  <2>3. UNCHANGED <<generation, bumped, committed>> /\ StalenessInv' /\ generation \in Nat
    BY <2>2, CacheUntouched
  <2>4. TaskTypes'
    BY <1>t, <2>1, <2>2, <2>3 DEF TaskTypes, Rendered, Decided, Joined
  <2>5. TaskStaleness'
    BY <1>t, <2>1, <2>2, <2>3 DEF TaskTypes, TaskStaleness, Rendered, Decided
  <2>6. /\ apc'[a] = "render" /\ aflight'[a] = f /\ OneTask(a)
        /\ inflightAsync'[akey[a]] = f
        /\ \A k \in Keys \ {akey[a]} : inflightAsync'[k] = inflightAsync[k]
    BY <1>t, <2>1, <2>2 DEF OneTask, TaskTypes
  <2>7. ASSUME NEW g \in Flights, g # f, Served(g), flightState'[g] = Pending
        PROVE  \E b \in Tasks : Rendering(b)' /\ aflight'[b] = g
    <3>1. PICK b \in Tasks : Rendering(b) /\ aflight[b] = g
      BY <1>t, <2>1, <2>7 DEF Served
    <3>2. b # a
      BY <2>2, <3>1 DEF Rendering
    <3> QED
      BY <3>1, <3>2, <2>6 DEF OneTask, Rendering
  <2>8. ASSUME NEW k \in Keys, inflightAsync'[k] # NoFlight,
               flightState'[inflightAsync'[k]] = Pending
        PROVE  \E b \in Tasks : Rendering(b)' /\ aflight'[b] = inflightAsync'[k]
    <3>1. CASE k = akey[a]
      BY <2>6, <3>1 DEF Rendering
    <3>2. CASE k # akey[a]
      <4>1. /\ inflightAsync'[k] = inflightAsync[k] /\ inflightAsync[k] \in Flights
            /\ inflightAsync[k] # f /\ Served(inflightAsync[k])
        BY <1>t, <2>1, <2>6, <2>8, <3>2 DEF FlightInv
      <4> QED
        BY <2>7, <2>8, <4>1
    <3> QED
      BY <3>1, <3>2
  <2>9. ASSUME NEW b \in Tasks, apc'[b] = "wait", flightState'[aflight'[b]] = Pending
        PROVE  \E c \in Tasks : Rendering(c)' /\ aflight'[c] = aflight'[b]
    <3>1. /\ b # a /\ aflight'[b] = aflight[b] /\ aflight[b] \in Flights
          /\ aflight[b] # f /\ Served(aflight[b])
      BY <1>t, <2>1, <2>6, <2>9 DEF OneTask, FlightInv, TaskTypes, Joined
    <3> QED
      BY <2>7, <2>9, <3>1
  <2>10. FlightInv'
    BY <2>8, <2>9 DEF FlightInv, Served
  <2> QED
    BY <2>3, <2>4, <2>5, <2>10 DEF AsyncInv
<1>6. ASSUME NEW a \in Tasks, AsyncRender(a) PROVE AsyncInv'
  <2>1. /\ UNCHANGED <<inflightAsync, flightState, store, syncVars>> /\ apc[a] = "render"
        /\ aflight[a] \in Flights
    BY <1>6, <1>t DEF AsyncRender, TaskTypes, Joined
  <2>2. /\ data[akey[a]] \in Nat /\ bumped[akey[a]] <= data[akey[a]]
        /\ afloor[a] <= data[akey[a]]
    <3>1. akey[a] \in Keys /\ afloor[a] \in Nat /\ afloor[a] <= committed[akey[a]]
      BY <1>t, <2>1 DEF TaskTypes, TaskStaleness
    <3>2. /\ data[akey[a]] \in Nat /\ bumped[akey[a]] \in Nat /\ committed[akey[a]] \in Nat
          /\ committed[akey[a]] <= bumped[akey[a]] /\ bumped[akey[a]] <= data[akey[a]]
      BY <3>1 DEF AsyncInv, StalenessInv, TypeOK, CacheTypes, InvalidationTypes, VersionOrder
    <3> QED
      BY <3>1, <3>2
  <2>3. CASE Continue(a, "send", data[akey[a]])
    BY <1>t, <2>1, <2>2, <2>3, ProceedStep DEF Rendered, Decided, Joined, Outcome
  <2>4. CASE Continue(a, "failed", Failed)
    BY <1>t, <2>1, <2>4, ProceedStep DEF Rendered, Decided, Joined, Outcome
  <2> QED
    BY <1>6, <2>3, <2>4 DEF AsyncRender
<1>7. ASSUME NEW a \in Tasks, AsyncStaleOrFail(a) PROVE AsyncInv'
  <2>1. /\ UNCHANGED <<inflightAsync, flightState, store, syncVars>> /\ apc[a] = "failed"
        /\ aflight[a] \in Flights
    BY <1>7, <1>t DEF AsyncStaleOrFail, TaskTypes, Joined
  <2>2. PICK e \in StoreGet(akey[a]) :
          Continue(a, "sendErr", IF IsUsableStale(e) THEN e.ver ELSE Failed)
    BY <1>7 DEF AsyncStaleOrFail
  <2>3. CASE IsUsableStale(e)
    <3>1. e.ver \in Nat /\ afloor[a] <= e.ver
      BY <2>1, <2>3, FoundCurrent DEF IsUsableStale
    <3>2. Continue(a, "sendErr", e.ver)
      BY <2>2, <2>3
    <3> QED
      BY <1>t, <2>1, <3>1, <3>2, ProceedStep DEF Rendered, Decided, Joined, Outcome
  <2>4. CASE ~IsUsableStale(e)
    <3>1. Continue(a, "sendErr", Failed)
      BY <2>2, <2>4
    <3> QED
      BY <1>t, <2>1, <3>1, ProceedStep DEF Rendered, Decided, Joined, Outcome
  <2> QED
    BY <2>3, <2>4
<1>8. ASSUME NEW a \in Tasks, AsyncSend(a) PROVE AsyncInv'
  <2>1. /\ UNCHANGED <<inflightAsync, store, syncVars>> /\ apc[a] \in {"send", "sendErr"}
        /\ flightState' = [flightState EXCEPT ![aflight[a]] = ares[a]]
        /\ aflight[a] \in Flights /\ ares[a] \in Outcome
        /\ ares[a] # Failed => afloor[a] <= ares[a]
        /\ apc[a] = "send" => ares[a] \in Nat
        /\ apc[a] = "send" /\ agen[a] = generation => bumped[akey[a]] <= ares[a]
    BY <1>8, <1>t DEF AsyncSend, TaskTypes, TaskStaleness, Rendered, Decided, Joined
  <2>2. /\ flightState'[aflight[a]] # Pending
        /\ \A f \in Flights : flightState'[f] = Pending => flightState[f] = Pending
        /\ flightState' \in [Flights -> Outcome \union {Pending, Cancelled}]
    BY <1>t, <2>1, SentinelAssumption DEF Outcome
  <2>3. CASE apc[a] = "send" /\ Continue(a, "publish", ares[a])
    BY <2>1, <2>2, <2>3, ProceedStep DEF Rendered, Decided, Joined
  <2>4. CASE apc[a] = "sendErr" /\ Continue(a, "pop", ares[a])
    BY <2>1, <2>2, <2>4, ProceedStep DEF Rendered, Decided, Joined
  <2> QED
    BY <1>8, <2>3, <2>4 DEF AsyncSend
<1>9. ASSUME NEW a \in Tasks, AsyncPublish(a) PROVE AsyncInv'
  <2>1. /\ UNCHANGED <<flightState, syncVars>> /\ apc[a] = "publish"
        /\ inflightAsync' = [inflightAsync EXCEPT ![akey[a]] = NoFlight]
        /\ Resolve(a, ares[a], TRUE)
        /\ akey[a] \in Keys /\ ares[a] \in Nat /\ ares[a] # Failed /\ afloor[a] <= ares[a]
        /\ agen[a] = generation => bumped[akey[a]] <= ares[a]
        /\ ~Rendering(a)
    BY <1>9, <1>t, SentinelAssumption
       DEF AsyncPublish, TaskTypes, TaskStaleness, Rendered, Decided, Rendering
  <2>2. StalenessInv'
    <3>1. CASE UNCHANGED store
      BY <2>1, <3>1, CacheUntouched
    <3>2. CASE /\ AsyncMayStore(a) /\ Storable(ares[a])
               /\ store' = [store EXCEPT ![akey[a]] = [ver |-> ares[a], fresh |-> TRUE]]
      <4>1. StalenessInv
        BY DEF AsyncInv
      <4>2. UNCHANGED <<data, generation, inflight, lock, slotState, callVars, invVars>>
        BY <2>1 DEF syncVars
      <4>3. committed[akey[a]] <= ares[a]
        <5>1. /\ committed[akey[a]] <= bumped[akey[a]]
              /\ committed[akey[a]] \in Nat /\ bumped[akey[a]] \in Nat
          BY <2>1, <4>1 DEF StalenessInv, TypeOK, InvalidationTypes, VersionOrder
        <5>2. bumped[akey[a]] <= ares[a]
          BY <2>1, <3>2 DEF AsyncMayStore
        <5> QED
          BY <2>1, <5>1, <5>2
      <4>4. TypeOK'
        BY <2>1, <3>2, <4>1, <4>2 DEF StalenessInv, TypeOK, CacheTypes, CallTypes,
           InvalidationTypes, callVars, invVars, Entry
      <4>5. NoStaleStore'
        BY <2>1, <3>2, <4>1, <4>2, <4>3
           DEF StalenessInv, TypeOK, CacheTypes, NoStaleStore, invVars
      <4> QED
        BY <4>1, <4>2, <4>4, <4>5 DEF StalenessInv, VersionOrder, GenerationOrder,
           CurrentRenders, StoringHoldsLock, FloorBelow, OwnReadsSeeInvalidations,
           callVars, invVars
    <3> QED
      BY <1>9, <3>1, <3>2 DEF AsyncPublish
  <2>3. /\ UNCHANGED <<generation, bumped, committed>>
        /\ inflightAsync' \in [Keys -> Flights \union {NoFlight}]
        /\ \A k \in Keys : inflightAsync'[k] \in {NoFlight, inflightAsync[k]}
    BY <1>t, <2>1 DEF syncVars, invVars
  <2> QED
    BY <2>1, <2>2, <2>3, ReturnStep
<1>10. ASSUME NEW a \in Tasks, AsyncPop(a) PROVE AsyncInv'
  <2>1. /\ UNCHANGED <<flightState, store, syncVars>> /\ ~Rendering(a)
        /\ inflightAsync' = [inflightAsync EXCEPT ![akey[a]] = NoFlight]
        /\ Resolve(a, ares[a], TRUE)
        /\ ares[a] # Failed => ares[a] \in Nat /\ afloor[a] <= ares[a]
    BY <1>10, <1>t DEF AsyncPop, TaskTypes, TaskStaleness, Decided, Outcome, Rendering
  <2>2. /\ UNCHANGED <<generation, bumped, committed>> /\ StalenessInv'
        /\ inflightAsync' \in [Keys -> Flights \union {NoFlight}]
        /\ \A k \in Keys : inflightAsync'[k] \in {NoFlight, inflightAsync[k]}
    BY <1>t, <2>1, CacheUntouched
  <2> QED
    BY <2>1, <2>2, ReturnStep
<1>11. ASSUME NEW a \in Tasks, AsyncCancel(a) PROVE AsyncInv'
  <2>1. /\ UNCHANGED <<inflightAsync, store, syncVars>> /\ apc[a] \in {"render", "wait"}
        /\ flightState' = IF apc[a] = "render"
                          THEN [flightState EXCEPT ![aflight[a]] = Cancelled]
                          ELSE flightState
        /\ Resolve(a, Failed, FALSE) /\ aflight[a] \in Flights
    BY <1>11, <1>t DEF AsyncCancel, TaskTypes, Joined
  <2>2. UNCHANGED <<generation, bumped, committed>> /\ StalenessInv' /\ generation \in Nat
    BY <2>1, CacheUntouched
  <2>3. /\ flightState' \in [Flights -> Outcome \union {Pending, Cancelled}]
        /\ \A f \in Flights : flightState'[f] = Pending => flightState[f] = Pending
        /\ apc[a] = "render" => flightState'[aflight[a]] # Pending
    BY <1>t, <2>1, FlightsAssumption
  <2>4. TaskTypes' /\ TaskStaleness'
    <3>1. inflightAsync' \in [Keys -> Flights \union {NoFlight}]
      BY <1>t, <2>1
    <3> QED
      BY <1>t, <2>1, <2>2, <2>3, <3>1, ResolveKeeps
  <2>5. OneTask(a) /\ apc'[a] # "wait" /\ (Rendering(a) => apc[a] = "render")
    BY <1>t, <2>1 DEF Resolve, OneTask, TaskTypes, Rendering
  <2>6. FlightInv'
    BY <2>1, <2>3, <2>5, FlightKept
  <2> QED
    BY <2>2, <2>4, <2>6 DEF AsyncInv
<1>12. ASSUME NEW a \in Tasks, AsyncTake(a) \/ AsyncTimesOut(a) PROVE AsyncInv'
  <2>1. /\ UNCHANGED <<inflightAsync, flightState, store, syncVars>>
        /\ apc[a] = "wait" /\ ~Rendering(a)
    BY <1>12 DEF AsyncTake, AsyncTimesOut, Rendering
  <2>2. CASE AsyncFallBack(a)
    BY <2>1, <2>2, FallBackStep
  <2>3. CASE Resolve(a, flightState[aflight[a]], FALSE)
    <3>1. UNCHANGED <<generation, bumped, committed>> /\ StalenessInv'
      BY <2>1, CacheUntouched
    <3> QED
      BY <1>t, <2>1, <2>3, <3>1, ReturnStep
  <2> QED
    BY <1>12, <2>2, <2>3 DEF AsyncTake, AsyncTimesOut
<1>13. CASE UNCHANGED <<vars, asyncVars>>
  <2>1. StalenessInv'
    BY <1>13, StalenessStep DEF AsyncInv
  <2>2. TaskTypes' /\ TaskStaleness'
    BY <1>t, <1>13 DEF vars, invVars, asyncVars, taskVars, TaskTypes, TaskStaleness
  <2>3. FlightInv'
    BY <1>t, <1>13 DEF asyncVars, taskVars, FlightInv, Served, Rendering
  <2> QED
    BY <2>1, <2>2, <2>3 DEF AsyncInv
<1> QED
  BY <1>1, <1>2, <1>3, <1>4, <1>5, <1>6, <1>7, <1>8, <1>9, <1>10, <1>11, <1>12, <1>13
     DEF AsyncNext, AsyncStep

(* With tasks beside the threads, still no entry in the store is older than *)
(* a completed invalidation of its key: store_result from either function.  *)
THEOREM SharedStoreNeverStale == AsyncSpec => []NoStaleStore
<1>1. AsyncInv => NoStaleStore
  BY DEF AsyncInv, StalenessInv
<1> QED
  BY <1>1, AsyncInitially, AsyncStepKeeps, PTL DEF AsyncSpec

(* Threads that read what tasks stored see every finished invalidation. *)
THEOREM ThreadsReadCurrent == AsyncSpec => []OwnReadsSeeInvalidations
<1>1. AsyncInv => OwnReadsSeeInvalidations
  BY DEF AsyncInv, StalenessInv
<1> QED
  BY <1>1, AsyncInitially, AsyncStepKeeps, PTL DEF AsyncSpec

(* A task that renders, or reads the store, sees every invalidation of its  *)
(* key that had returned when get_or_render_async was called.               *)
THEOREM TasksReadCurrent == AsyncSpec => []TasksSeeInvalidations
<1>1. AsyncInv => TasksSeeInvalidations
  BY DEF AsyncInv, TaskStaleness, TasksSeeInvalidations
<1> QED
  BY <1>1, AsyncInitially, AsyncStepKeeps, PTL DEF AsyncSpec

(* No task waits on a shared future that nobody will resolve, though calls  *)
(* may be dropped at every await.                                           *)
THEOREM TasksAlwaysServed == AsyncSpec => []TasksServed
<1>1. AsyncInv => TasksServed
  BY DEF AsyncInv, FlightInv, Served, TasksServed
<1> QED
  BY <1>1, AsyncInitially, AsyncStepKeeps, PTL DEF AsyncSpec

----------------------------------------------------------------------------
(* What holds of the threads holds with tasks beside them: a task changes   *)
(* nothing of theirs but the store, and store_result keeps its type.        *)

LEMMA TaskStepsApart ==
  ASSUME AsyncInv, AsyncInv', [AsyncNext]_<<vars, asyncVars>>
  PROVE  TypeOK /\ TypeOK' /\ ([Next]_vars \/ UNCHANGED syncVars)
<1>1. TypeOK /\ TypeOK'
  BY DEF AsyncInv, StalenessInv
<1>2. CASE SyncNext
  BY <1>1, <1>2, SyncIsNext
<1>3. ASSUME NEW a \in Tasks,
             AsyncCall(a) \/ AsyncStep(a) \/ AsyncCancel(a) \/ AsyncTimesOut(a)
      PROVE  UNCHANGED syncVars
  BY <1>3 DEF AsyncCall, AsyncStep, AsyncCancel, AsyncTimesOut, AsyncLookup, AsyncJoin,
     AsyncOwn, AsyncRender, AsyncStaleOrFail, AsyncSend, AsyncPublish, AsyncPop, AsyncTake
<1>4. CASE UNCHANGED <<vars, asyncVars>>
  BY <1>1, <1>4
<1> QED
  BY <1>1, <1>2, <1>3, <1>4 DEF AsyncNext

LEMMA SlotApart ==
  ASSUME SlotInv, LockHeld, TypeOK', UNCHANGED syncVars
  PROVE  SlotInv' /\ LockHeld'
<1>1. UNCHANGED <<pc, slot, key, slotState, inflight, epoch, lock>>
  BY DEF syncVars, callVars, invVars
<1> QED
  BY <1>1 DEF SlotInv, OwnersDistinct, PendingUntilComplete, OwnersRegistered,
     InflightOwned, WaitersServed, LockHeld

LEMMA ThreadsBesideTasks == AsyncSpec => [](AsyncInv /\ SlotInv /\ LockHeld)
<1>1. AsyncInit => SlotInv /\ LockHeld
  <2>1. AsyncInit => Init
    BY DEF AsyncInit
  <2>2. Init => LockHeld
    BY DEF Init, LockHeld
  <2> QED
    BY <2>1, <2>2, SlotInit
<1>2. /\ AsyncInv /\ SlotInv /\ LockHeld
      /\ AsyncInv'
      /\ [AsyncNext]_<<vars, asyncVars>>
      => SlotInv' /\ LockHeld'
  BY TaskStepsApart, SlotApart, SlotStep, LockStep
<1> QED
  BY <1>1, <1>2, AsyncInitially, AsyncStepKeeps, PTL DEF AsyncSpec

(* Beside tasks, the variables the threads use keep their types, ...        *)
THEOREM SharedTypeCorrect == AsyncSpec => []TypeOK
<1>1. SlotInv => TypeOK
  BY DEF SlotInv
<1> QED
  BY <1>1, ThreadsBesideTasks, PTL

(* ... threads still share one render of a key until a clear(), ...         *)
THEOREM SharedSingleFlight == AsyncSpec => []SingleFlightUntilClear
  BY OneRenderPerKey, ThreadsBesideTasks, PTL

(* ... never attach to a slot nobody will complete, ...                     *)
THEOREM SharedNoAbandonedSlot == AsyncSpec => []InflightOwned
<1>1. SlotInv => InflightOwned
  BY DEF SlotInv
<1> QED
  BY <1>1, ThreadsBesideTasks, PTL

(* ... and never sleep through their wake-up.                               *)
THEOREM SharedWaitersServed == AsyncSpec => []WaitersServed
<1>1. SlotInv => WaitersServed
  BY DEF SlotInv
<1> QED
  BY <1>1, ThreadsBesideTasks, PTL

(* Tasks and threads never wait for one another in a circle: the thread     *)
(* with the mutex waits for nothing, and a future that has not resolved has *)
(* a task that will send to it before it waits for anything.                *)
THEOREM TasksNeverStall == AsyncSpec => [](NoCircularWait /\ NoCircularWaitAsync)
<1>1. AsyncInv /\ SlotInv /\ LockHeld => NoCircularWaitAsync
  <2> SUFFICES ASSUME AsyncInv, SlotInv, LockHeld, NEW a \in Tasks, apc[a] # "idle"
               PROVE  (\E b \in Tasks : TaskCanGoOn(b)) \/ (\E c \in Callers : CanGoOn(c))
    BY DEF NoCircularWaitAsync
  <2>1. CASE ~LockFree
    BY <2>1, HolderGoesOn DEF SlotInv
  <2>2. CASE apc[a] = "wait"
    BY <2>2 DEF AsyncInv, FlightInv, Served, TaskCanGoOn
  <2>3. CASE LockFree /\ apc[a] # "wait"
    BY <2>3 DEF AsyncInv, TaskTypes, Joined, Decided, Rendered, TaskCanGoOn, Rendering
  <2> QED
    BY <2>1, <2>2, <2>3
<1> QED
  BY <1>1, ThreadsBesideTasks, SomeThreadGoesOn, PTL

----------------------------------------------------------------------------
(* Tasks share renders.  Until the first clear() the map holds the channel  *)
(* of every task between its render and its critical section; so two such   *)
(* tasks, having channels of their own, have keys of their own.             *)

Flying(a) == Rendering(a) \/ apc[a] \in {"publish", "pop"}

FlightsApart ==
  \A a, b \in Tasks : a # b /\ Flying(a) /\ Flying(b) => aflight[a] # aflight[b]

FlightsRegistered ==
  epoch = 0 => \A a \in Tasks : Flying(a) => inflightAsync[akey[a]] = aflight[a]

(* A task that does not become an owner leaves the map to the others. *)
LEMMA ShareKept ==
  ASSUME TaskTypes, FlightsApart, FlightsRegistered, NEW a \in Tasks,
         Flying(a)' => Flying(a) /\ aflight'[a] = aflight[a] /\ akey'[a] = akey[a],
         \A b \in Tasks \ {a} : apc'[b] = apc[b] /\ aflight'[b] = aflight[b] /\ akey'[b] = akey[b],
         \/ UNCHANGED inflightAsync
         \/ /\ inflightAsync' = [inflightAsync EXCEPT ![akey[a]] = NoFlight]
            /\ Flying(a) /\ ~Flying(a)',
         UNCHANGED epoch
  PROVE  FlightsApart' /\ FlightsRegistered'
<1>1. ASSUME NEW b \in Tasks, Flying(b)'
      PROVE  Flying(b) /\ aflight'[b] = aflight[b] /\ akey'[b] = akey[b]
  BY <1>1 DEF Flying, Rendering
<1>2. FlightsApart'
  BY <1>1 DEF FlightsApart
<1>3. ASSUME epoch' = 0, NEW b \in Tasks, Flying(b)'
      PROVE  inflightAsync'[akey'[b]] = aflight'[b]
  <2>1. inflightAsync[akey[b]] = aflight[b]
    BY <1>1, <1>3 DEF FlightsRegistered
  <2>2. CASE UNCHANGED inflightAsync
    BY <1>1, <1>3, <2>1, <2>2
  <2>3. CASE /\ inflightAsync' = [inflightAsync EXCEPT ![akey[a]] = NoFlight]
             /\ Flying(a) /\ ~Flying(a)'
    <3>1. b # a
      BY <1>3, <2>3
    <3>2. akey[b] # akey[a]
      BY <1>1, <1>3, <2>1, <2>3, <3>1 DEF FlightsApart, FlightsRegistered
    <3> QED
      BY <1>1, <1>3, <2>1, <2>3, <3>2 DEF TaskTypes
  <2> QED
    BY <2>2, <2>3
<1> QED
  BY <1>2, <1>3 DEF FlightsRegistered

LEMMA ShareStep ==
  AsyncInv /\ FlightsApart /\ FlightsRegistered /\ [AsyncNext]_<<vars, asyncVars>>
    => FlightsApart' /\ FlightsRegistered'
<1> SUFFICES ASSUME AsyncInv, FlightsApart, FlightsRegistered, [AsyncNext]_<<vars, asyncVars>>
             PROVE  FlightsApart' /\ FlightsRegistered'
  OBVIOUS
<1>t. TaskTypes /\ epoch \in Nat
  BY DEF AsyncInv, StalenessInv, TypeOK, InvalidationTypes
<1>1. ASSUME UNCHANGED <<taskVars, inflightAsync, epoch>>
      PROVE  FlightsApart' /\ FlightsRegistered'
  BY <1>1 DEF taskVars, FlightsApart, FlightsRegistered, Flying, Rendering
<1>2. CASE SyncNext
  <2>1. ASSUME NEW i \in Invalidators, DropInflight(i), UNCHANGED taskVars
        PROVE  FlightsApart' /\ FlightsRegistered'
    BY <1>t, <2>1 DEF DropInflight, taskVars, FlightsApart, FlightsRegistered, Flying, Rendering
  <2>2. ASSUME NEW c \in Callers,
               Call(c) \/ CallStep(c) \/ WaiterWakes(c) \/ WaiterTimesOut(c)
        PROVE  UNCHANGED epoch
    BY <2>2 DEF Call, CallStep, WaiterWakes, WaiterTimesOut, LookupFresh, JoinAsWaiter,
       JoinFindsFresh, JoinAsOwner, Render, ServeStaleOrFail, Complete, NotifyAll, Publish,
       StoreResult, PopInflight, WaiterBlocks, WaiterTakes, invVars
  <2>3. ASSUME NEW i \in Invalidators,
               \/ Mutate(i) \/ StartClear(i)
               \/ BumpGeneration(i) \/ DeleteEntries(i) \/ DeleteFails(i)
        PROVE  UNCHANGED epoch
    BY <2>3 DEF Mutate, StartClear, BumpGeneration, DeleteEntries, DeleteFails
  <2>4. ASSUME NEW k \in Keys, Expire(k) \/ Drop(k) PROVE UNCHANGED epoch
    BY <2>4 DEF Expire, Drop, invVars
  <2> QED
    BY <1>1, <1>2, <2>1, <2>2, <2>3, <2>4 DEF SyncNext, asyncVars
<1>3. ASSUME NEW a \in Tasks, AsyncOwn(a) PROVE FlightsApart' /\ FlightsRegistered'
  <2>1. PICK f \in Flights :
          /\ \A b \in Tasks : aflight[b] # f
          /\ \A k \in Keys : inflightAsync[k] # f
          /\ inflightAsync' = [inflightAsync EXCEPT ![akey[a]] = f]
          /\ flightState' = [flightState EXCEPT ![f] = Pending]
          /\ aflight' = [aflight EXCEPT ![a] = f]
    BY <1>3 DEF AsyncOwn
  <2>2. /\ apc' = [apc EXCEPT ![a] = "render"] /\ akey' = akey /\ UNCHANGED epoch
        /\ inflightAsync[akey[a]] = NoFlight
    BY <1>3 DEF AsyncOwn, syncVars, invVars
  <2>3. /\ aflight'[a] = f /\ akey[a] \in Keys
        /\ inflightAsync'[akey[a]] = f
        /\ \A k \in Keys \ {akey[a]} : inflightAsync'[k] = inflightAsync[k]
        /\ \A b \in Tasks \ {a} : apc'[b] = apc[b] /\ aflight'[b] = aflight[b] /\ aflight[b] # f
    BY <1>t, <2>1, <2>2 DEF TaskTypes
  <2>4. FlightsApart'
    BY <2>3 DEF FlightsApart, Flying, Rendering
  <2>5. ASSUME epoch' = 0, NEW b \in Tasks \ {a}, Flying(b)'
        PROVE  inflightAsync'[akey[b]] = aflight'[b]
    <3>1. Flying(b) /\ inflightAsync[akey[b]] = aflight[b]
      BY <2>2, <2>3, <2>5 DEF FlightsRegistered, Flying, Rendering
    <3>2. aflight[b] \in Flights /\ akey[b] \in Keys
      BY <1>t, <3>1 DEF TaskTypes, Flying, Rendering, Joined, Decided, Rendered
    <3>3. akey[b] # akey[a]
      BY <2>2, <3>1, <3>2, FlightsAssumption
    <3> QED
      BY <2>3, <3>1, <3>2, <3>3
  <2> QED
    BY <2>2, <2>3, <2>4, <2>5 DEF FlightsRegistered
<1>4. ASSUME NEW a \in Tasks,
             \/ AsyncCall(a) \/ AsyncLookup(a) \/ AsyncJoin(a) \/ AsyncTake(a)
             \/ AsyncTimesOut(a) \/ AsyncCancel(a)
      PROVE  FlightsApart' /\ FlightsRegistered'
  <2>1. /\ ~Flying(a)' /\ UNCHANGED <<inflightAsync, epoch>>
        /\ \A b \in Tasks \ {a} : apc'[b] = apc[b] /\ aflight'[b] = aflight[b] /\ akey'[b] = akey[b]
    BY <1>t, <1>4 DEF TaskTypes, AsyncCall, AsyncLookup, AsyncJoin, AsyncTake, AsyncTimesOut,
       AsyncCancel, AsyncFallBack, Resolve, Continue, Flying, Rendering, syncVars, invVars
  <2> QED
    BY <1>t, <2>1, ShareKept
<1>5. ASSUME NEW a \in Tasks, AsyncRender(a) \/ AsyncStaleOrFail(a) \/ AsyncSend(a)
      PROVE  FlightsApart' /\ FlightsRegistered'
  <2>1. /\ Flying(a) /\ UNCHANGED <<aflight, akey, inflightAsync, epoch>>
        /\ \A b \in Tasks \ {a} : apc'[b] = apc[b]
    BY <1>t, <1>5 DEF TaskTypes, AsyncRender, AsyncStaleOrFail, AsyncSend, Continue, Flying,
       Rendering, syncVars, invVars
  <2> QED
    BY <1>t, <2>1, ShareKept
<1>6. ASSUME NEW a \in Tasks, AsyncPublish(a) \/ AsyncPop(a)
      PROVE  FlightsApart' /\ FlightsRegistered'
  <2>1. /\ Flying(a) /\ ~Flying(a)' /\ UNCHANGED epoch
        /\ inflightAsync' = [inflightAsync EXCEPT ![akey[a]] = NoFlight]
        /\ \A b \in Tasks \ {a} : apc'[b] = apc[b] /\ aflight'[b] = aflight[b] /\ akey'[b] = akey[b]
    BY <1>t, <1>6 DEF TaskTypes, AsyncPublish, AsyncPop, Resolve, Flying, Rendering,
       syncVars, invVars
  <2> QED
    BY <1>t, <2>1, ShareKept
<1>7. CASE UNCHANGED <<vars, asyncVars>>
  BY <1>1, <1>7 DEF vars, invVars, asyncVars
<1> QED
  BY <1>2, <1>3, <1>4, <1>5, <1>6, <1>7 DEF AsyncNext, AsyncStep

(* Until a clear(), tasks never render one key twice at a time, whichever   *)
(* of them are dropped half-way.                                            *)
THEOREM TasksSingleFlight == AsyncSpec => []TasksShareRender
<1>1. AsyncInit => FlightsApart /\ FlightsRegistered
  BY DEF AsyncInit, FlightsApart, FlightsRegistered, Flying, Rendering
<1>2. FlightsApart /\ FlightsRegistered => TasksShareRender
  BY DEF FlightsApart, FlightsRegistered, TasksShareRender, Flying
<1> QED
  BY <1>1, <1>2, ShareStep, AsyncInitially, AsyncStepKeeps, PTL DEF AsyncSpec

----------------------------------------------------------------------------
(* What is stored shows the data as they are, or whoever changed them is    *)
(* still to delete it: a render that was overtaken by a change is stored    *)
(* only while the generation stands, that is before the change is           *)
(* followed by its invalidation.                                            *)

MutatedFor(k) == \E i \in Invalidators : ipc[i] = "mutated" /\ k \in target[i]

RendersCurrent ==
  \A c \in Callers : pc[c] \in Succeeded /\ gen[c] = generation =>
    res[c] = data[key[c]] \/ MutatedFor(key[c])

CurrencyInv == RendersCurrent /\ StaleOnlyWhileDue

(* A call changes neither the data nor the invalidations.                   *)
LEMMA CallsApart ==
  ASSUME NEW c \in Callers, Call(c) \/ CallStep(c) \/ WaiterWakes(c) \/ WaiterTimesOut(c)
  PROVE  UNCHANGED <<data, generation, invVars>>
BY DEF Call, CallStep, WaiterWakes, WaiterTimesOut, LookupFresh, JoinAsWaiter, JoinFindsFresh,
   JoinAsOwner, Render, ServeStaleOrFail, Complete, NotifyAll, Publish, StoreResult, PopInflight,
   WaiterBlocks, WaiterTakes

(* An invalidation is under way from the change of its data to the deletion *)
(* of its entries, and changes nothing of the calls.                        *)
LEMMA DuesKept ==
  ASSUME TypeOK, [Next]_vars, NEW k \in Keys
  PROVE  /\ data'[k] = data[k] \/ MutatedFor(k)'
         /\ generation' = generation /\ MutatedFor(k) => MutatedFor(k)'
         /\ DueFor(k) => DueFor(k)' \/ store'[k] = NoEntry \/ StoreFaults
<1> USE DEF TypeOK, CacheTypes, InvalidationTypes, MutatedFor, DueFor
<1>1. CASE UNCHANGED <<data, generation, invVars>>
  BY <1>1 DEF invVars
<1>2. ASSUME NEW i \in Invalidators, Mutate(i)
      PROVE  /\ data'[k] = data[k] \/ MutatedFor(k)'
             /\ MutatedFor(k) => MutatedFor(k)'
             /\ DueFor(k) => DueFor(k)'
  <2>1. PICK K \in SUBSET Keys :
          /\ data' = [j \in Keys |-> IF j \in K THEN data[j] + 1 ELSE data[j]]
          /\ target' = [target EXCEPT ![i] = K]
    BY <1>2 DEF Mutate
  <2>2. /\ ipc[i] = "idle" /\ ipc'[i] = "mutated" /\ target'[i] = K
        /\ \A j \in Invalidators \ {i} : ipc'[j] = ipc[j] /\ target'[j] = target[j]
    BY <1>2, <2>1 DEF Mutate
  <2>3. CASE k \in K
    BY <2>2, <2>3
  <2>4. CASE k \notin K
    BY <2>1, <2>2, <2>4
  <2> QED
    BY <2>3, <2>4
<1>3. ASSUME NEW i \in Invalidators, StartClear(i) \/ DropInflight(i)
      PROVE  /\ UNCHANGED data
             /\ MutatedFor(k) => MutatedFor(k)'
             /\ DueFor(k) => DueFor(k)'
  <2>1. /\ ipc[i] \in {"idle", "dropping"}
        /\ \A j \in Invalidators \ {i} : ipc'[j] = ipc[j] /\ target'[j] = target[j]
        /\ UNCHANGED data
    BY <1>3 DEF StartClear, DropInflight
  <2> QED
    BY <2>1
<1>4. ASSUME NEW i \in Invalidators, BumpGeneration(i)
      PROVE  /\ UNCHANGED data /\ generation' # generation
             /\ DueFor(k) => DueFor(k)'
  <2>1. /\ ipc[i] = "mutated" => ipc'[i] = "bumped"
        /\ ipc[i] \in {"mutated", "clearing"}
        /\ \A j \in Invalidators \ {i} : ipc'[j] = ipc[j]
        /\ UNCHANGED <<data, target>> /\ generation' # generation
    BY <1>4 DEF BumpGeneration
  <2> QED
    BY <2>1
<1>5. ASSUME NEW i \in Invalidators, DeleteEntries(i) \/ DeleteFails(i)
      PROVE  /\ UNCHANGED data
             /\ MutatedFor(k) => MutatedFor(k)'
             /\ DueFor(k) => DueFor(k)' \/ store'[k] = NoEntry \/ StoreFaults
  <2>1. /\ ipc[i] = "bumped"
        /\ \A j \in Invalidators \ {i} : ipc'[j] = ipc[j] /\ target'[j] = target[j]
        /\ UNCHANGED data
        /\ k \in target[i] => store'[k] = NoEntry \/ StoreFaults
    BY <1>5 DEF DeleteEntries, DeleteFails, InvalidationReturns
  <2> QED
    BY <2>1
<1>6. ASSUME NEW j \in Keys, Expire(j) \/ Drop(j) PROVE UNCHANGED <<data, generation, invVars>>
  BY <1>6 DEF Expire, Drop
<1>7. UNCHANGED vars => UNCHANGED <<data, generation, invVars>>
  BY DEF vars
<1> QED
  BY <1>1, <1>2, <1>3, <1>4, <1>5, <1>6, <1>7, CallsApart DEF Next, InvalidationStep

(* Where a call has its own outcome, it had it before or reads the data now. *)
LEMMA OutcomesKept ==
  ASSUME TypeOK, TypeOK', [Next]_vars, NEW c \in Callers, pc'[c] \in Succeeded
  PROVE  \/ UNCHANGED data /\ res'[c] = data[key'[c]]
         \/ /\ pc[c] \in Succeeded
            /\ res'[c] = res[c] /\ key'[c] = key[c] /\ gen'[c] = gen[c]
<1> USE DEF TypeOK, CallTypes, Succeeded
<1>1. CASE UNCHANGED callVars
  BY <1>1 DEF callVars
<1>2. ASSUME NEW i \in Invalidators, Mutate(i) \/ StartClear(i) \/ InvalidationStep(i)
      PROVE  UNCHANGED callVars
  BY <1>2 DEF Mutate, StartClear, InvalidationStep, BumpGeneration, DropInflight, DeleteEntries,
     DeleteFails
<1>3. ASSUME NEW k \in Keys, Expire(k) \/ Drop(k) PROVE UNCHANGED callVars
  BY <1>3 DEF Expire, Drop
<1>4. ASSUME NEW d \in Callers, Render(d)
      PROVE  \/ UNCHANGED data /\ res'[c] = data[key'[c]]
             \/ /\ pc[c] \in Succeeded
                /\ res'[c] = res[c] /\ key'[c] = key[c] /\ gen'[c] = gen[c]
  BY <1>4 DEF Render, Goto
<1>5. ASSUME NEW d \in Callers,
             \/ Call(d) \/ LookupFresh(d) \/ JoinAsWaiter(d) \/ JoinFindsFresh(d) \/ JoinAsOwner(d)
             \/ ServeStaleOrFail(d) \/ WaiterBlocks(d) \/ WaiterTakes(d) \/ WaiterWakes(d)
             \/ WaiterTimesOut(d) \/ StoreResult(d) \/ PopInflight(d)
      PROVE  /\ pc[c] \in Succeeded
             /\ res'[c] = res[c] /\ key'[c] = key[c] /\ gen'[c] = gen[c]
  <2>1. pc'[d] \notin Succeeded
    BY <1>5 DEF Call, LookupFresh, JoinAsWaiter, JoinFindsFresh, JoinAsOwner, ServeStaleOrFail,
       WaiterBlocks, WaiterTakes, WaiterFallsBack, WaiterWakes, WaiterTimesOut, StoreResult,
       PopInflight, Return, Goto
  <2>2. \A b \in Callers \ {d} :
          pc'[b] = pc[b] /\ res'[b] = res[b] /\ key'[b] = key[b] /\ gen'[b] = gen[b]
    BY <1>5 DEF Call, LookupFresh, JoinAsWaiter, JoinFindsFresh, JoinAsOwner, ServeStaleOrFail,
       WaiterBlocks, WaiterTakes, WaiterFallsBack, WaiterWakes, WaiterTimesOut, StoreResult,
       PopInflight, Return, Goto
  <2> QED
    BY <2>1, <2>2
<1>6. ASSUME NEW d \in Callers, Complete(d) \/ NotifyAll(d)
      PROVE  /\ pc[c] \in Succeeded
             /\ res'[c] = res[c] /\ key'[c] = key[c] /\ gen'[c] = gen[c]
  BY <1>6 DEF Complete, NotifyAll, Goto
<1>7. ASSUME NEW d \in Callers, Publish(d)
      PROVE  /\ pc[c] \in Succeeded
             /\ res'[c] = res[c] /\ key'[c] = key[c] /\ gen'[c] = gen[c]
  BY <1>7 DEF Publish, Goto, Return
<1> QED
  BY <1>1, <1>2, <1>3, <1>4, <1>5, <1>6, <1>7 DEF Next, CallStep, vars

(* The entry of a key was there, or is what a call stores now.              *)
LEMMA EntriesKept ==
  ASSUME TypeOK, TypeOK', [Next]_vars, NEW k \in Keys, store'[k] # NoEntry
  PROVE  \/ store[k] # NoEntry /\ store'[k].ver = store[k].ver
         \/ \E c \in Callers : /\ pc[c] = "storing" /\ key[c] = k /\ store'[k].ver = res[c]
                               /\ UNCHANGED <<data, generation, invVars>>
<1> USE DEF TypeOK, CacheTypes
<1>1. CASE UNCHANGED store
  BY <1>1
<1>2. ASSUME NEW i \in Invalidators, Mutate(i) \/ StartClear(i) \/ InvalidationStep(i)
      PROVE  UNCHANGED store \/ \E j \in Invalidators : DeleteEntries(j)
  BY <1>2 DEF Mutate, StartClear, InvalidationStep, BumpGeneration, DropInflight, DeleteFails
<1>3. ASSUME NEW i \in Invalidators, DeleteEntries(i) PROVE store'[k] = store[k]
  BY <1>3 DEF DeleteEntries
<1>4. ASSUME NEW j \in Keys, Expire(j) \/ Drop(j)
      PROVE  store[k] # NoEntry /\ store'[k].ver = store[k].ver
  BY <1>4 DEF Expire, Drop
<1>5. ASSUME NEW c \in Callers, Call(c) \/ CallStep(c) \/ WaiterWakes(c) \/ WaiterTimesOut(c)
      PROVE  UNCHANGED store \/ StoreResult(c)
  BY <1>5 DEF Call, CallStep, WaiterWakes, WaiterTimesOut, LookupFresh, JoinAsWaiter,
     JoinFindsFresh, JoinAsOwner, Render, ServeStaleOrFail, Complete, NotifyAll, Publish,
     PopInflight, WaiterBlocks, WaiterTakes
<1>6. ASSUME NEW c \in Callers, StoreResult(c)
      PROVE  \/ store'[k] = store[k]
             \/ /\ pc[c] = "storing" /\ key[c] = k /\ store'[k].ver = res[c]
                /\ UNCHANGED <<data, generation, invVars>>
  BY <1>6 DEF StoreResult, CallTypes
<1> QED
  BY <1>1, <1>2, <1>3, <1>4, <1>5, <1>6 DEF Next, vars

LEMMA CurrencyStep ==
  ASSUME StalenessInv, StalenessInv', CurrencyInv, [Next]_vars
  PROVE  CurrencyInv'
<1>0. TypeOK /\ TypeOK' /\ GenerationOrder /\ StoringHoldsLock /\ RendersCurrent
  BY DEF StalenessInv, CurrencyInv
<1>1. RendersCurrent'
  <2> SUFFICES ASSUME NEW c \in Callers, NEW k \in Keys,
                      pc'[c] \in Succeeded, gen'[c] = generation', key'[c] = k
               PROVE  res'[c] = data'[k] \/ MutatedFor(k)'
    BY <1>0 DEF RendersCurrent, MutatedFor, TypeOK, CallTypes
  <2>1. CASE UNCHANGED data /\ res'[c] = data[key'[c]]
    BY <2>1
  <2>2. CASE pc[c] \in Succeeded /\ res'[c] = res[c] /\ key'[c] = key[c] /\ gen'[c] = gen[c]
    <3>1. generation' = generation
      <4>1. gen[c] <= generation /\ generation <= generation'
            /\ generation \in Nat /\ generation' \in Nat /\ gen[c] \in Nat
        BY <1>0, HistoryGrows DEF GenerationOrder, TypeOK, CacheTypes, CallTypes, vars
      <4> QED
        BY <2>2, <4>1
    <3>2. res[c] = data[k] \/ MutatedFor(k)
      BY <1>0, <2>2, <3>1 DEF RendersCurrent
    <3> QED
      BY <1>0, <2>2, <3>1, <3>2, DuesKept
  <2> QED
    BY <1>0, <2>1, <2>2, OutcomesKept
<1>2. StaleOnlyWhileDue'
  <2> SUFFICES ASSUME ~StoreFaults, NEW k \in Keys, store'[k] # NoEntry
               PROVE  store'[k].ver = data'[k] \/ DueFor(k)'
    BY DEF StaleOnlyWhileDue
  <2>1. MutatedFor(k)' => DueFor(k)'
    BY DEF MutatedFor, DueFor
  <2>2. CASE store[k] # NoEntry /\ store'[k].ver = store[k].ver
    <3>1. store[k].ver = data[k] \/ DueFor(k)
      BY <2>2 DEF CurrencyInv, StaleOnlyWhileDue
    <3> QED
      BY <1>0, <2>1, <2>2, <3>1, DuesKept
  <2>3. ASSUME NEW c \in Callers, pc[c] = "storing", key[c] = k, store'[k].ver = res[c],
               UNCHANGED <<data, generation, invVars>>
        PROVE  store'[k].ver = data'[k] \/ DueFor(k)'
    <3>1. res[c] = data[k] \/ MutatedFor(k)
      BY <1>0, <2>3 DEF StoringHoldsLock, RendersCurrent, Succeeded
    <3>2. MutatedFor(k) => MutatedFor(k)'
      BY <2>3 DEF MutatedFor, invVars
    <3> QED
      BY <2>1, <2>3, <3>1, <3>2
  <2> QED
    BY <1>0, <2>2, <2>3, EntriesKept
<1> QED
  BY <1>1, <1>2 DEF CurrencyInv

(* As long as no deletion fails, what the cache holds is what a render would *)
(* show now, but for changes that are on their way to delete it.  This is    *)
(* what lets Documents render and store in one step.                         *)
THEOREM EntriesAlwaysCurrent == Spec => []StaleOnlyWhileDue
<1>1. Init => StalenessInv /\ CurrencyInv
  <2>1. Init => CurrencyInv
    BY DEF Init, CurrencyInv, RendersCurrent, StaleOnlyWhileDue, Succeeded
  <2> QED
    BY <2>1, StalenessInit
<1>2. StalenessInv /\ CurrencyInv /\ [Next]_vars => StalenessInv' /\ CurrencyInv'
  BY StalenessStep, CurrencyStep
<1>3. CurrencyInv => StaleOnlyWhileDue
  BY DEF CurrencyInv
<1> QED
  BY <1>1, <1>2, <1>3, PTL DEF Spec

(* The same of tasks: what one sent and is about to store. *)
TasksCurrent ==
  \A a \in Tasks : apc[a] \in Rendered /\ agen[a] = generation =>
    ares[a] = data[akey[a]] \/ MutatedFor(akey[a])

(* A step of a task renders the data, carries on what it rendered, or stores *)
(* it while the generation stands.                                          *)
LEMMA TaskRenders ==
  ASSUME AsyncInv, NEW a \in Tasks,
         AsyncCall(a) \/ AsyncStep(a) \/ AsyncCancel(a) \/ AsyncTimesOut(a)
  PROVE  \A b \in Tasks : apc'[b] \in Rendered =>
           \/ ares'[b] = data[akey'[b]]
           \/ /\ apc[b] \in Rendered /\ agen[b] = agen'[b]
              /\ ares'[b] = ares[b] /\ akey'[b] = akey[b]
<1> USE DEF TaskTypes, Rendered
<1>t. TaskTypes
  BY DEF AsyncInv
<1>1. ASSUME AsyncCall(a) \/ AsyncOwn(a)
      PROVE  /\ apc'[a] \notin Rendered
             /\ \A b \in Tasks \ {a} : /\ apc'[b] = apc[b] /\ agen'[b] = agen[b]
                                       /\ ares'[b] = ares[b] /\ akey'[b] = akey[b]
  BY <1>t, <1>1 DEF AsyncCall, AsyncOwn
<1>2. ASSUME \/ AsyncLookup(a) \/ AsyncJoin(a) \/ AsyncTake(a) \/ AsyncTimesOut(a)
             \/ AsyncCancel(a) \/ AsyncStaleOrFail(a) \/ AsyncPublish(a) \/ AsyncPop(a)
      PROVE  /\ apc'[a] \notin Rendered
             /\ \A b \in Tasks \ {a} : /\ apc'[b] = apc[b] /\ agen'[b] = agen[b]
                                       /\ ares'[b] = ares[b] /\ akey'[b] = akey[b]
  BY <1>t, <1>2 DEF AsyncLookup, AsyncJoin, AsyncTake, AsyncTimesOut, AsyncCancel,
     AsyncStaleOrFail, AsyncPublish, AsyncPop, AsyncFallBack, Resolve, Continue
<1>3. ASSUME AsyncRender(a) \/ AsyncSend(a)
      PROVE  /\ UNCHANGED <<akey, agen>>
             /\ \A b \in Tasks \ {a} : apc'[b] = apc[b] /\ ares'[b] = ares[b]
             /\ apc'[a] \in Rendered =>
                  ares'[a] = data[akey[a]] \/ (apc[a] \in Rendered /\ ares'[a] = ares[a])
  BY <1>t, <1>3 DEF AsyncRender, AsyncSend, Continue
<1> QED
  BY <1>1, <1>2, <1>3 DEF AsyncStep

LEMMA TasksCurrencyStep ==
  ASSUME AsyncInv, AsyncInv', CurrencyInv, TasksCurrent, [AsyncNext]_<<vars, asyncVars>>
  PROVE  CurrencyInv' /\ TasksCurrent'
<1>t. StalenessInv /\ StalenessInv' /\ TaskTypes /\ TaskTypes' /\ TaskStaleness /\ TypeOK
      /\ StaleOnlyWhileDue
  BY DEF AsyncInv, StalenessInv, CurrencyInv
<1>1. CASE SyncNext
  <2>1. Next /\ UNCHANGED taskVars
    BY <1>1, SyncIsNext DEF SyncNext, asyncVars
  <2>2. TasksCurrent'
    <3> SUFFICES ASSUME NEW a \in Tasks, NEW k \in Keys, akey[a] = k,
                        apc[a] \in Rendered, agen[a] = generation'
                 PROVE  ares[a] = data'[k] \/ MutatedFor(k)'
      BY <1>t, <2>1 DEF TasksCurrent, TaskTypes, MutatedFor, taskVars
    <3>1. generation' = generation
      <4>1. agen[a] <= generation /\ generation <= generation'
            /\ generation \in Nat /\ generation' \in Nat
        BY <1>t, <2>1, HistoryGrows DEF TaskStaleness, TypeOK, CacheTypes, StalenessInv
      <4> QED
        BY <4>1
    <3>2. ares[a] = data[k] \/ MutatedFor(k)
      BY <3>1 DEF TasksCurrent
    <3> QED
      BY <1>t, <2>1, <3>1, <3>2, DuesKept
  <2> QED
    BY <1>t, <2>1, <2>2, CurrencyStep
<1>2. ASSUME NEW a \in Tasks,
             AsyncCall(a) \/ AsyncStep(a) \/ AsyncCancel(a) \/ AsyncTimesOut(a)
      PROVE  CurrencyInv' /\ TasksCurrent'
  <2>1. UNCHANGED syncVars
    BY <1>2 DEF AsyncCall, AsyncStep, AsyncCancel, AsyncTimesOut, AsyncLookup, AsyncJoin,
       AsyncOwn, AsyncRender, AsyncStaleOrFail, AsyncSend, AsyncPublish, AsyncPop, AsyncTake
  <2>2. UNCHANGED <<data, generation, pc, res, key, gen, ipc, target>>
    BY <2>1 DEF syncVars, callVars, invVars
  <2>3. RendersCurrent'
    BY <2>2 DEF CurrencyInv, RendersCurrent, MutatedFor
  <2>4. TasksCurrent'
    <3> SUFFICES ASSUME NEW b \in Tasks, apc'[b] \in Rendered, agen'[b] = generation
                 PROVE  ares'[b] = data[akey'[b]] \/ MutatedFor(akey'[b])
      BY <2>2 DEF TasksCurrent, MutatedFor
    <3> QED
      BY <1>2, TaskRenders DEF TasksCurrent
  <2>5. \/ UNCHANGED store
        \/ /\ apc[a] = "publish" /\ agen[a] = generation
           /\ store' = [store EXCEPT ![akey[a]] = [ver |-> ares[a], fresh |-> TRUE]]
    BY <1>2 DEF AsyncCall, AsyncStep, AsyncCancel, AsyncTimesOut, AsyncLookup, AsyncJoin,
       AsyncOwn, AsyncRender, AsyncStaleOrFail, AsyncSend, AsyncPublish, AsyncPop, AsyncTake,
       AsyncMayStore
  <2>6. StaleOnlyWhileDue'
    <3> SUFFICES ASSUME ~StoreFaults, NEW k \in Keys, store'[k] # NoEntry
                 PROVE  store'[k].ver = data[k] \/ DueFor(k)
      BY <2>2 DEF StaleOnlyWhileDue, DueFor
    <3>1. CASE store'[k] = store[k]
      BY <1>t, <3>1 DEF StaleOnlyWhileDue
    <3>2. CASE store'[k] # store[k]
      <4>1. /\ k = akey[a] /\ apc[a] \in Rendered /\ agen[a] = generation
            /\ store'[k].ver = ares[a]
        BY <1>t, <2>5, <3>2 DEF TaskTypes, TypeOK, CacheTypes, Rendered
      <4> QED
        BY <4>1 DEF TasksCurrent, MutatedFor, DueFor
    <3> QED
      BY <3>1, <3>2
  <2> QED
    BY <2>3, <2>4, <2>6 DEF CurrencyInv
<1>3. CASE UNCHANGED <<vars, asyncVars>>
  <2>1. UNCHANGED vars
    BY <1>3
  <2>2. TasksCurrent'
    BY <1>3 DEF vars, invVars, asyncVars, taskVars, TasksCurrent, MutatedFor
  <2> QED
    BY <1>t, <2>1, <2>2, CurrencyStep
<1> QED
  BY <1>1, <1>2, <1>3 DEF AsyncNext

(* No task stores what an invalidation will no longer find either: the entry *)
(* of a key shows the data, or their change is on its way to delete it.     *)
THEOREM SharedEntriesCurrent == AsyncSpec => []StaleOnlyWhileDue
<1>1. AsyncInit => CurrencyInv /\ TasksCurrent
  BY DEF AsyncInit, Init, CurrencyInv, RendersCurrent, StaleOnlyWhileDue, Succeeded,
     TasksCurrent, Rendered
<1>2. CurrencyInv => StaleOnlyWhileDue
  BY DEF CurrencyInv
<1> QED
  BY <1>1, <1>2, TasksCurrencyStep, AsyncInitially, AsyncStepKeeps, PTL DEF AsyncSpec

=============================================================================
