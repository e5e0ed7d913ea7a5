--------------------------- MODULE LruStoreProofs ---------------------------
(* Theorems about LruStore, for every value of its constants. *)
EXTENDS LruStore, FiniteSetTheorems, TLAPS

(* The inductive invariant: the capacity is what makes one pop enough, and *)
(* distinct ticks are what makes the popped entry the least recent one.    *)
ArgumentsSet ==
  \A t \in Threads : pc[t] = "set" => key[t] \in Keys /\ lifetime[t] \in Lifetimes

LruInv == TypeOK /\ ArgumentsSet /\ CapacityHeld /\ TicksDistinct

(* The instance of RecencyStore counts as this module does.                *)
LEMMA SameCardinality == \A S : Recency!Cardinality(S) = Cardinality(S)
BY DEF Cardinality, Recency!Cardinality

LEMMA LruInit == Init => LruInv /\ Recency!Init
<1> SUFFICES ASSUME Init PROVE LruInv /\ Recency!Init
  OBVIOUS
<1>1. Held = {}
  BY DEF Init, Held
<1>2. CapacityHeld
  BY <1>1, FS_EmptySet, StoreAssumption DEF CapacityHeld
<1>3. TypeOK /\ ArgumentsSet /\ TicksDistinct
  BY <1>1, StoreAssumption DEF Init, TypeOK, ArgumentsSet, TicksDistinct, Held
<1> QED
  BY <1>1, <1>2, <1>3 DEF LruInv, Init, Recency!Init, Held

(* Steps that only take entries away. *)
LEMMA RemovalStep ==
  ASSUME LruInv, NEW S, map' = Restrict(map, Held \ S), UNCHANGED <<tick, used>>
  PROVE  /\ Held' \subseteq Keys /\ map' \in [Held' -> Entry]
         /\ CapacityHeld' /\ TicksDistinct'
         /\ Recency!Forget
<1>1. Held' = Held \ S /\ \A k \in Held' : map'[k] = map[k]
  BY DEF Held, Restrict
<1>2. Held' \subseteq Keys /\ map' \in [Held' -> Entry]
  BY <1>1 DEF LruInv, TypeOK, Held, Restrict
<1>3. CapacityHeld'
  BY <1>1, FS_Subset, FS_CardinalityType, StoreAssumption DEF LruInv, CapacityHeld
<1>4. TicksDistinct'
  <2> SUFFICES ASSUME NEW j \in Held', NEW k \in Held'
               PROVE  map'[j].tick <= tick' /\ (map'[j].tick = map'[k].tick => j = k)
    BY DEF TicksDistinct
  <2>1. j \in Held /\ k \in Held /\ map'[j] = map[j] /\ map'[k] = map[k]
    BY <1>1
  <2> QED
    BY <2>1 DEF LruInv, TicksDistinct
<1>5. Recency!Forget
  <2>1. Held \cap S \in SUBSET Held /\ Held' = Held \ (Held \cap S)
    BY <1>1
  <2>2. {p \in Held \X Held : map[p[1]].tick < map[p[2]].tick}' =
        {p \in {q \in Held \X Held : map[q[1]].tick < map[q[2]].tick} :
           p[1] \in Held' /\ p[2] \in Held'}
    BY <1>1
  <2> QED
    BY <2>1, <2>2 DEF Recency!Forget
<1> QED
  BY <1>2, <1>3, <1>4, <1>5

(* A hit. *)
LEMMA HitStep ==
  ASSUME LruInv, NEW k \in Keys, GetHit(k)
  PROVE  LruInv' /\ Recency!Use(k)
<1>1. /\ k \in Held /\ map' = [map EXCEPT ![k].tick = tick + 1] /\ tick' = tick + 1
      /\ used' = k /\ tick \in Nat
      /\ UNCHANGED <<clock, unswept_inserts, pc, now, key, lifetime>>
  BY DEF GetHit, LruInv, TypeOK
<1>2. map \in [Held -> Entry]
  BY DEF LruInv, TypeOK
<1>3. /\ Held' = Held
      /\ map'[k].tick = tick + 1
      /\ \A j \in Held \ {k} : map'[j] = map[j]
  BY <1>1, <1>2 DEF Held, Entry
<1>4. \A j \in Held : map[j].tick \in Nat /\ map[j].tick <= tick
  BY <1>2 DEF LruInv, TicksDistinct, Entry
<1>5. map' \in [Held' -> Entry]
  <2>1. [map[k] EXCEPT !.tick = tick + 1] \in Entry
    BY <1>1, <1>2 DEF Entry
  <2> QED
    BY <1>1, <1>2, <1>3, <2>1
<1>6. TypeOK' /\ ArgumentsSet'
  BY <1>1, <1>3, <1>5 DEF LruInv, TypeOK, ArgumentsSet
<1>7. CapacityHeld'
  BY <1>3 DEF LruInv, CapacityHeld
<1>8. TicksDistinct'
  BY <1>1, <1>3, <1>4 DEF LruInv, TicksDistinct
<1>9. Recency!Use(k)
  <2>1. \A a, b \in Held : map'[a].tick < map'[b].tick <=>
                             a # k /\ (b = k \/ map[a].tick < map[b].tick)
    BY <1>1, <1>3, <1>4
  <2>2. {p \in Held \X Held : map[p[1]].tick < map[p[2]].tick}' =
        Recency!Renewed(Held, {p \in Held \X Held : map[p[1]].tick < map[p[2]].tick}, k)
    BY <1>3, <2>1 DEF Recency!Renewed
  <2> QED
    BY <1>1, <1>3, <2>2 DEF Recency!Use
<1> QED
  BY <1>6, <1>7, <1>8, <1>9 DEF LruInv

(* An insertion: at most one entry has to go, and it is not the new one.   *)
LEMMA InsertStep ==
  ASSUME LruInv, NEW t \in Threads, Insert(t)
  PROVE  LruInv' /\ Recency!Next /\ InsertKeepsLive(t)
<1>0. PICK k \in Keys : k = key[t]
  BY DEF Insert, LruInv, ArgumentsSet
<1> DEFINE e == [drop_after |-> now[t] + lifetime[t], tick |-> tick + 1]
           D == Held \union {k}
           all == [j \in D |-> IF j = k THEN e ELSE map[j]]
           full == Cardinality(D) > MaxEntries
           sweeping == full /\ SweepDue
           dead == IF sweeping THEN Expired(all, now[t]) ELSE {}
           rest == D \ dead
<1>1. /\ k \in Keys /\ lifetime[t] \in Nat \ {0} /\ now[t] \in Nat /\ tick \in Nat
      /\ unswept_inserts \in Nat /\ unswept_inserts < SweepInterval
      /\ map \in [Held -> Entry] /\ Held \subseteq Keys
  BY StoreAssumption DEF Insert, LruInv, TypeOK, ArgumentsSet
<1>2. /\ pc[t] = "set" /\ tick' = tick + 1 /\ used' = k /\ UNCHANGED clock /\ Leave(t)
      /\ unswept_inserts' = IF sweeping THEN 0
                            ELSE IF full THEN unswept_inserts + 1 ELSE unswept_inserts
      /\ DOMAIN all = D
  BY <1>0 DEF Insert
<1>3. PICK kept \in Survivors(all, rest) : map' = Restrict(all, kept)
  BY <1>0 DEF Insert
<1>4. /\ e \in Entry /\ e.tick = tick + 1 /\ e.drop_after > now[t]
  BY <1>1 DEF Entry
<1>5. /\ \A j \in D : all[j] \in Entry
      /\ all[k] = e
      /\ \A j \in Held \ {k} : all[j] = map[j]
  BY <1>1, <1>4
<1>6. \A j \in Held : map[j].tick \in Nat /\ map[j].tick <= tick /\ map[j].drop_after \in Nat
  BY <1>1 DEF LruInv, TicksDistinct, Entry
<1>7. dead \subseteq Held \ {k} /\ (~full => dead = {})
      /\ \A j \in dead : map[j].drop_after <= now[t]
  <2>1. Expired(all, now[t]) \subseteq Held \ {k}
    BY <1>1, <1>4, <1>5 DEF Expired, Entry
  <2>2. \A j \in Expired(all, now[t]) : map[j].drop_after <= now[t]
    BY <1>5, <2>1 DEF Expired
  <2> QED
    BY <2>1, <2>2
<1>8. /\ IsFiniteSet(Held) /\ IsFiniteSet(D) /\ Cardinality(D) \in Nat
      /\ Cardinality(Held) \in Nat /\ Cardinality(Held) <= MaxEntries
      /\ Cardinality(D) = IF k \in Held THEN Cardinality(Held) ELSE Cardinality(Held) + 1
  BY FS_AddElement, FS_CardinalityType DEF LruInv, CapacityHeld
<1>9. /\ IsFiniteSet(rest) /\ Cardinality(rest) \in Nat
      /\ Cardinality(rest) <= Cardinality(D)
      /\ k \in rest
  BY <1>7, <1>8, FS_Subset, FS_CardinalityType
<1> HIDE DEF e, all, D, full, sweeping, dead, rest
<1>10. /\ kept \subseteq rest /\ k \in kept /\ Cardinality(kept) <= MaxEntries
       /\ \/ kept = rest /\ Cardinality(rest) <= MaxEntries
          \/ /\ Cardinality(rest) > MaxEntries
             /\ \E v \in LeastTick(all, rest) \ {k} : kept = rest \ {v}
  <2>1. CASE Cardinality(rest) <= MaxEntries
    BY <1>3, <1>9, <2>1 DEF Survivors
  <2>2. CASE Cardinality(rest) > MaxEntries
    <3>1. PICK v \in LeastTick(all, rest) : kept = rest \ {v}
      BY <1>3, <1>9, <2>2, StoreAssumption DEF Survivors
    <3>2. PICK j \in rest : j # k
      BY <1>9, <2>2, FS_Singleton, StoreAssumption
    <3>3. v # k
      <4>1. j \in Held \ {k} /\ all[j].tick <= tick /\ all[j].tick \in Nat
        BY <1>5, <1>6, <3>2 DEF rest, D
      <4>2. all[k].tick = tick + 1
        BY <1>4, <1>5
      <4> QED
        BY <1>1, <3>1, <3>2, <4>1, <4>2 DEF LeastTick
    <3>4. Cardinality(kept) = Cardinality(rest) - 1
      BY <1>9, <3>1, FS_RemoveElement DEF LeastTick
    <3>5. Cardinality(kept) <= MaxEntries
      BY <1>8, <1>9, <3>4, StoreAssumption
    <3> QED
      BY <1>9, <2>2, <3>1, <3>3, <3>5
  <2> QED
    BY <1>9, <2>1, <2>2, StoreAssumption
<1>11. /\ Held' = kept /\ \A j \in kept : map'[j] = all[j]
       /\ IsFiniteSet(kept) /\ kept \subseteq D
  BY <1>3, <1>8, <1>10, FS_Subset DEF Held, Restrict, rest
<1>12. LruInv'
  <2>1. Held' \subseteq Keys /\ map' \in [Held' -> Entry]
    BY <1>1, <1>3, <1>5, <1>11 DEF D, Restrict
  <2>2. TypeOK' /\ ArgumentsSet'
    <3>1. unswept_inserts' \in Nat /\ unswept_inserts' < SweepInterval
      BY <1>1, <1>2, StoreAssumption DEF sweeping, SweepDue
    <3> QED
      BY <1>1, <1>2, <2>1, <3>1 DEF LruInv, TypeOK, ArgumentsSet, Leave
  <2>3. CapacityHeld'
    BY <1>10, <1>11 DEF CapacityHeld
  <2>4. TicksDistinct'
    BY <1>1, <1>2, <1>4, <1>5, <1>6, <1>11 DEF LruInv, TicksDistinct, D
  <2> QED
    BY <2>2, <2>3, <2>4 DEF LruInv
<1>13. \A a, b \in kept : map'[a].tick < map'[b].tick <=>
           a # k /\ (b = k \/ (a \in Held /\ b \in Held /\ map[a].tick < map[b].tick))
  BY <1>1, <1>4, <1>5, <1>6, <1>11 DEF D
<1>14. Recency!Put(k)
  <2> DEFINE older == {p \in Held \X Held : map[p[1]].tick < map[p[2]].tick}
  <2>1. {p \in Held \X Held : map[p[1]].tick < map[p[2]].tick}' = Recency!Renewed(kept, older, k)
    BY <1>11, <1>13 DEF Recency!Renewed
  <2>2. \A v \in LeastTick(all, rest) \ {k} :
          v \in Recency!LeastRecent(rest, Recency!Renewed(rest, older, k))
    <3>1. SUFFICES ASSUME NEW v \in LeastTick(all, rest) \ {k}, NEW j \in rest, 
                          j # k, <<j, v>> \in older
                   PROVE  FALSE
      BY DEF Recency!LeastRecent, Recency!Renewed, LeastTick
    <3>2. all[v] = map[v] /\ all[j] = map[j] /\ map[j].tick < map[v].tick
      BY <1>5, <3>1
    <3>3. j \in Held /\ v \in Held
      BY <3>1
    <3> QED
      BY <1>6, <3>1, <3>2, <3>3 DEF LeastTick
  <2>3. dead \in SUBSET (Held \ {k}) /\ (Cardinality(D) <= MaxEntries => dead = {})
    BY <1>7, <1>8, StoreAssumption DEF full
  <2>4. \/ Cardinality(rest) <= MaxEntries /\ Held' = rest
        \/ \E v \in Recency!LeastRecent(rest, Recency!Renewed(rest, older, k)) \ {k} :
             Cardinality(rest) > MaxEntries /\ Held' = rest \ {v}
    BY <1>10, <1>11, <2>2
  <2> HIDE DEF older
  <2> QED
    BY <1>2, <1>11, <2>1, <2>3, <2>4, SameCardinality DEF Recency!Put, D, rest, older
<1>15. InsertKeepsLive(t)
  <2>1. k \in Held'
    BY <1>10, <1>11
  <2>2. CASE kept = rest
    BY <1>7, <1>11, <2>1, <2>2, <1>6, <1>0, <1>1 DEF InsertKeepsLive, LiveLost, rest, D
  <2>3. CASE kept # rest
    <3>1. PICK v \in LeastTick(all, rest) \ {k} : kept = rest \ {v}
      BY <1>10, <2>3
    <3>2. LiveLost(t) \subseteq {v} /\ v \in Held
      BY <1>1, <1>6, <1>7, <1>11, <3>1 DEF LiveLost, rest, D, LeastTick
    <3>3. Cardinality(Held) = MaxEntries /\ k \notin Held
      BY <1>8, <1>9, <1>10, <2>3, StoreAssumption
    <3> QED
      BY <1>0, <2>1, <3>2, <3>3 DEF InsertKeepsLive
  <2> QED
    BY <2>2, <2>3
<1> QED
  BY <1>12, <1>14, <1>15 DEF Recency!Next

(* Every step keeps the invariant, maps to a step or a stutter of          *)
(* RecencyStore, and keeps what an insertion must keep.                    *)
LEMMA LruStep ==
  LruInv /\ [Next]_vars =>
    LruInv' /\ [Recency!Next]_(Recency!recencyVars) /\ \A t \in Threads : InsertKeepsLive(t)
<1> SUFFICES ASSUME LruInv, [Next]_vars
             PROVE  /\ LruInv' /\ [Recency!Next]_(Recency!recencyVars)
                    /\ \A t \in Threads : InsertKeepsLive(t)
  OBVIOUS
<1> DEFINE Goal == /\ LruInv' /\ [Recency!Next]_(Recency!recencyVars)
                   /\ \A t \in Threads : InsertKeepsLive(t)
<1>1. ASSUME NEW k \in Keys, GetExpired(k) PROVE Goal
  <2>1. /\ map' = Restrict(map, Held \ {k})
        /\ UNCHANGED <<clock, tick, unswept_inserts, pc, now, key, lifetime, used>>
    BY <1>1 DEF GetExpired
  <2> QED
    BY <2>1, RemovalStep DEF LruInv, TypeOK, ArgumentsSet, Recency!Next, InsertKeepsLive
<1>2. ASSUME NEW k \in Keys, GetHit(k) PROVE Goal
  BY <1>2, HitStep DEF GetHit, Recency!Next, InsertKeepsLive
<1>3. ASSUME NEW t \in Threads, BeginSet(t) \/ BeginSweep(t) PROVE Goal
  <2>1. UNCHANGED <<clock, map, tick, unswept_inserts, used>> /\ pc[t] = "idle"
    BY <1>3 DEF BeginSet, BeginSweep
  <2>2. TypeOK' /\ ArgumentsSet'
    BY <1>3, <2>1, StoreAssumption
       DEF BeginSet, BeginSweep, LruInv, TypeOK, ArgumentsSet, Held
  <2>3. CapacityHeld' /\ TicksDistinct' /\ UNCHANGED Recency!recencyVars
    BY <2>1 DEF LruInv, CapacityHeld, TicksDistinct, Held, Recency!recencyVars
  <2>4. \A s \in Threads : InsertKeepsLive(s)
    BY <1>3, <2>1 DEF BeginSet, BeginSweep, LruInv, TypeOK, InsertKeepsLive
  <2> QED
    BY <2>2, <2>3, <2>4 DEF LruInv
<1>4. ASSUME NEW t \in Threads, Insert(t) PROVE Goal
  <2>1. \A s \in Threads \ {t} : InsertKeepsLive(s)
    BY <1>4 DEF Insert, Leave, LruInv, TypeOK, InsertKeepsLive
  <2> QED
    BY <1>4, <2>1, InsertStep
<1>5. ASSUME NEW t \in Threads, Sweep(t) PROVE Goal
  <2>1. /\ pc[t] = "sweep" /\ Leave(t) /\ UNCHANGED <<clock, tick, unswept_inserts, used>>
        /\ map' = Restrict(map, Held \ Expired(map, now[t]))
    BY <1>5 DEF Sweep
  <2>2. TypeOK' /\ ArgumentsSet'
    BY <2>1, RemovalStep DEF LruInv, TypeOK, ArgumentsSet, Leave
  <2>3. \A s \in Threads : InsertKeepsLive(s)
    BY <2>1 DEF Leave, LruInv, TypeOK, InsertKeepsLive
  <2> QED
    BY <2>1, <2>2, <2>3, RemovalStep DEF LruInv, Recency!Next
<1>6. ASSUME NEW S \in SUBSET Held, Delete(S) PROVE Goal
  <2>1. /\ map' = Restrict(map, Held \ S)
        /\ UNCHANGED <<clock, tick, unswept_inserts, pc, now, key, lifetime, used>>
    BY <1>6 DEF Delete
  <2> QED
    BY <2>1, RemovalStep DEF LruInv, TypeOK, ArgumentsSet, Recency!Next, InsertKeepsLive
<1>7. CASE SetClock \/ UNCHANGED vars
  <2>1. /\ UNCHANGED <<map, tick, unswept_inserts, pc, now, key, lifetime, used>>
        /\ clock' \in Nat
    BY <1>7, StoreAssumption DEF SetClock, vars, LruInv, TypeOK
  <2>2. LruInv' /\ UNCHANGED Recency!recencyVars
    BY <2>1 DEF LruInv, TypeOK, ArgumentsSet, CapacityHeld, TicksDistinct, Held,
       Recency!recencyVars
  <2> QED
    BY <2>1, <2>2 DEF InsertKeepsLive
<1> QED
  BY <1>1, <1>2, <1>3, <1>4, <1>5, <1>6, <1>7 DEF Next

(* The store never outgrows max_entries. *)
THEOREM CapacityAlwaysHeld == Spec => []CapacityHeld
<1>1. LruInv => CapacityHeld
  BY DEF LruInv
<1> QED
  BY <1>1, LruInit, LruStep, PTL DEF Spec

(* The entry to evict is never ambiguous. *)
THEOREM TicksAlwaysDistinct == Spec => []TicksDistinct
<1>1. LruInv => TicksDistinct
  BY DEF LruInv
<1> QED
  BY <1>1, LruInit, LruStep, PTL DEF Spec

(* An insertion keeps its own entry and takes away no unexpired one from a *)
(* store that has room.                                                    *)
THEOREM InsertionsKeepLive == Spec => LiveEntriesKept
<1>1. LruInv /\ [Next]_vars => [\A t \in Threads : InsertKeepsLive(t)]_vars
  BY LruStep
<1> QED
  BY <1>1, LruInit, LruStep, PTL DEF Spec, LiveEntriesKept

(* The store with its tick counter implements the bounded LRU.             *)
THEOREM StoreIsLru == Spec => ImplementsLru
<1> QED
  BY LruInit, LruStep, PTL DEF Spec, ImplementsLru, Recency!Spec

=============================================================================
