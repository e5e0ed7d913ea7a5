------------------------- MODULE RateLimiterProofs -------------------------
(* Theorems about RateLimiter, for every value of its constants. *)
EXTENDS RateLimiter, FiniteSetTheorems, TLAPS

----------------------------------------------------------------------------
(* Every admission recent enough to share a shortened window with the      *)
(* present is still recorded: a thread can clean up only with a clock      *)
(* reading at most MaxDelay old, so it never drops one too early.          *)

Finite ==
  \A k \in Keys : IsFiniteSet(admitted[k])

ReadingsRecent ==
  \A t \in Threads : pc[t] # "idle" => now[t] <= clock /\ clock <= now[t] + MaxDelay

AdmissionsRecent ==
  \A k \in Keys : \A a \in admitted[k] : a.stamp <= a.at /\ a.at <= clock /\ a.at <= a.stamp + MaxDelay

RecentRecorded ==
  \A k \in Keys : \A a \in admitted[k] :
    clock + MaxDelay <= a.at + Window => a \in requests[k]

LimiterInv ==
  /\ TypeOK
  /\ Finite
  /\ ReadingsRecent
  /\ AdmissionsRecent
  /\ RecentRecorded
  /\ WindowBound

LEMMA LimiterInit == Init => LimiterInv
<1> SUFFICES ASSUME Init PROVE LimiterInv
  OBVIOUS
<1>1. TypeOK
  <2>1. AnyKey \in Keys
    BY LimiterAssumption DEF AnyKey
  <2>2. Bounded
    BY FS_EmptySet, LimiterAssumption DEF Init, Bounded
  <2> QED
    BY <2>1, <2>2 DEF Init, TypeOK
<1>2. Finite
  BY FS_EmptySet, LimiterAssumption DEF Init, Finite
<1>3. WindowBound
  <2> SUFFICES ASSUME NEW k \in Keys, NEW T \in 0..clock
               PROVE  Cardinality(WithinShortened(k, T)) <= MaxRequests
    BY DEF WindowBound
  <2>1. WithinShortened(k, T) = {}
    BY DEF WithinShortened, Init
  <2> QED
    BY <2>1, FS_EmptySet, LimiterAssumption
<1> QED
  BY <1>1, <1>2, <1>3 DEF LimiterInv, Init, ReadingsRecent, AdmissionsRecent, RecentRecorded

(* A cleanup leaves a finite, no larger set that keeps what is recent.     *)
LEMMA CleanupKeepsRecent ==
  ASSUME LimiterInv, NEW t \in Threads, pc[t] # "idle"
  PROVE  LET k == key[t] R == Retained(k, now[t])
         IN  /\ R \subseteq requests[k]
             /\ IsFiniteSet(R)
             /\ Cardinality(R) <= MaxRequests
             /\ \A a \in admitted[k] : clock + MaxDelay <= a.at + Window => a \in R
<1> DEFINE k == key[t]
           R == Retained(k, now[t])
<1> USE DEF LimiterInv, TypeOK
<1>1. k \in Keys /\ R \subseteq requests[k]
  BY DEF Retained
<1>2. IsFiniteSet(R) /\ Cardinality(R) <= MaxRequests
  BY <1>1, FS_Subset, FS_CardinalityType, LimiterAssumption DEF Bounded
<1>3. ASSUME NEW a \in admitted[k], clock + MaxDelay <= a.at + Window
      PROVE  a \in R
  <2>1. a \in requests[k]
    BY <1>1, <1>3 DEF RecentRecorded
  <2>2. a.at \in Nat /\ a.stamp \in Nat /\ a.at <= a.stamp + MaxDelay
    BY <1>1 DEF AdmissionsRecent, Admission
  <2>3. now[t] \in Nat /\ clock \in Nat /\ now[t] <= clock
    BY DEF ReadingsRecent
  <2>4. a.stamp + Window >= now[t]
    BY <1>3, <2>2, <2>3, LimiterAssumption
  <2> QED
    BY <2>1, <2>4 DEF Retained
<1> QED
  BY <1>1, <1>2, <1>3

(* A cleanup without an admission. *)
LEMMA CleanupStep ==
  ASSUME LimiterInv, TypeOK', NEW t \in Threads, pc[t] # "idle", Leave(t),
         requests' = [requests EXCEPT ![key[t]] = Retained(key[t], now[t])],
         UNCHANGED <<clock, admitted>>
  PROVE  LimiterInv'
<1> DEFINE k == key[t]
           R == Retained(k, now[t])
<1>0. k \in Keys /\ requests'[k] = R /\ \A j \in Keys \ {k} : requests'[j] = requests[j]
  BY DEF LimiterInv, TypeOK
<1>1. /\ IsFiniteSet(R) /\ Cardinality(R) <= MaxRequests
      /\ \A a \in admitted[k] : clock + MaxDelay <= a.at + Window => a \in R
  BY CleanupKeepsRecent
<1> HIDE DEF R, k
<1>2. Finite'
  BY DEF LimiterInv, Finite
<1>3. RecentRecorded'
  BY <1>0, <1>1 DEF LimiterInv, RecentRecorded
<1>4. ReadingsRecent' /\ AdmissionsRecent'
  BY DEF LimiterInv, TypeOK, ReadingsRecent, AdmissionsRecent, Leave
<1>5. WindowBound'
  BY DEF LimiterInv, WindowBound, WithinShortened
<1> QED
  BY <1>2, <1>3, <1>4, <1>5 DEF LimiterInv

LEMMA LeaveTypes ==
  ASSUME TypeOK, NEW t \in Threads, Leave(t)
  PROVE  /\ pc' \in [Threads -> {"idle", "check", "is_allowed"}]
         /\ now' \in [Threads -> Nat]
         /\ key' \in [Threads -> Keys]
<1> key[t] \in Keys
  BY DEF TypeOK
<1> AnyKey \in Keys
  BY LimiterAssumption DEF AnyKey
<1> QED
  BY DEF TypeOK, Leave

LEMMA LimiterStep == LimiterInv /\ [Next]_vars => LimiterInv'
<1> SUFFICES ASSUME LimiterInv, [Next]_vars PROVE LimiterInv'
  OBVIOUS
<1>1. ASSUME NEW t \in Threads, ReadClock(t) PROVE LimiterInv'
  <2>1. TypeOK'
    BY <1>1 DEF ReadClock, LimiterInv, TypeOK, Bounded
  <2>2. ReadingsRecent'
    BY <1>1, LimiterAssumption DEF ReadClock, LimiterInv, TypeOK, ReadingsRecent
  <2> QED
    BY <1>1, <2>1, <2>2 DEF ReadClock, LimiterInv, Finite, AdmissionsRecent,
       RecentRecorded, WindowBound, WithinShortened
<1>2. ASSUME NEW t \in Threads, Admit(t) PROVE LimiterInv'
  <2> DEFINE k == key[t]
             R == Retained(k, now[t])
             new == [n |-> Cardinality(admitted[k]), stamp |-> now[t], at |-> clock]
  <2>0. /\ k \in Keys /\ pc[t] = "check" /\ Cardinality(R) < MaxRequests
        /\ requests' = [requests EXCEPT ![k] = R \union {new}]
        /\ admitted' = [admitted EXCEPT ![k] = @ \union {new}]
        /\ clock' = clock /\ Leave(t)
    <3>1. Cardinality(R) \in Nat
      BY <1>2, CleanupKeepsRecent, FS_CardinalityType DEF Admit
    <3> QED
      BY <1>2, <3>1, LimiterAssumption DEF Admit, Full, LimiterInv, TypeOK
  <2>1. /\ R \subseteq requests[k] /\ IsFiniteSet(R)
        /\ \A a \in admitted[k] : clock + MaxDelay <= a.at + Window => a \in R
    BY <2>0, CleanupKeepsRecent
  <2>2. now[t] \in Nat /\ clock \in Nat /\ now[t] <= clock /\ clock <= now[t] + MaxDelay
    BY <2>0 DEF LimiterInv, TypeOK, ReadingsRecent
  <2>3. /\ IsFiniteSet(R \union {new})
        /\ Cardinality(R \union {new}) <= MaxRequests
    <3> HIDE DEF R, new
    <3>1. Cardinality(R) \in Nat
      BY <2>1, FS_CardinalityType
    <3>2. /\ IsFiniteSet(R \union {new})
          /\ Cardinality(R \union {new}) \in {Cardinality(R), Cardinality(R) + 1}
      BY <2>1, <3>1, FS_AddElement
    <3> QED
      BY <2>0, <3>1, <3>2, LimiterAssumption
  <2>4. new.stamp = now[t] /\ new.at = clock
    OBVIOUS
  <2>5. /\ requests'[k] = R \union {new} /\ admitted'[k] = admitted[k] \union {new}
        /\ \A j \in Keys \ {k} : requests'[j] = requests[j] /\ admitted'[j] = admitted[j]
    BY <2>0 DEF LimiterInv, TypeOK
  <2>6. TypeOK'
    <3>1. new \in Admission
      BY <2>0, <2>2, FS_CardinalityType DEF LimiterInv, Finite, Admission
    <3>2. Bounded'
      BY <2>0, <2>3, <2>5 DEF LimiterInv, TypeOK, Bounded
    <3>3. requests' \in [Keys -> SUBSET Admission] /\ admitted' \in [Keys -> SUBSET Admission]
      BY <3>1, <2>0, <2>1 DEF LimiterInv, TypeOK
    <3> QED
      BY <3>2, <3>3, <2>0, <2>2, LeaveTypes DEF LimiterInv, TypeOK
  <2> HIDE DEF R, k, new
  <2>7. Finite' /\ RecentRecorded'
    BY <2>0, <2>1, <2>5, FS_AddElement DEF LimiterInv, Finite, RecentRecorded
  <2>8. ReadingsRecent' /\ AdmissionsRecent'
    BY <2>0, <2>2, <2>4, <2>5, LimiterAssumption
       DEF LimiterInv, TypeOK, ReadingsRecent, AdmissionsRecent, Leave
  <2>9. WindowBound'
    <3> SUFFICES ASSUME NEW j \in Keys, NEW T \in 0..clock
                 PROVE  Cardinality(WithinShortened(j, T)') <= MaxRequests
      BY <2>0 DEF WindowBound, WithinShortened
    <3>1. CASE j # k \/ new \notin WithinShortened(j, T)'
      <4>1. WithinShortened(j, T)' = WithinShortened(j, T)
        BY <2>0, <2>5, <3>1 DEF WithinShortened
      <4> QED
        BY <4>1 DEF LimiterInv, WindowBound
    <3>2. CASE j = k /\ new \in WithinShortened(j, T)'
      <4>1. clock + MaxDelay <= T + Window
        BY <2>4, <3>2 DEF WithinShortened
      <4>2. ASSUME NEW a \in admitted[k], T <= a.at PROVE a \in R
        BY <2>0, <2>1, <2>2, <4>1, <4>2, LimiterAssumption DEF LimiterInv, TypeOK, Admission
      <4>3. WithinShortened(j, T)' \subseteq R \union {new}
        BY <2>5, <3>2, <4>2 DEF WithinShortened
      <4> QED
        BY <2>3, <4>3, FS_Subset, FS_CardinalityType, LimiterAssumption
    <3> QED
      BY <3>1, <3>2
  <2> QED
    BY <2>6, <2>7, <2>8, <2>9 DEF LimiterInv
<1>3. ASSUME NEW t \in Threads, Refuse(t) \/ IsAllowed(t) PROVE LimiterInv'
  <2>1. /\ pc[t] # "idle" /\ Leave(t) /\ UNCHANGED <<clock, admitted>>
        /\ requests' = [requests EXCEPT ![key[t]] = Retained(key[t], now[t])]
    BY <1>3 DEF Refuse, IsAllowed
  <2>2. TypeOK'
    <3>1. key[t] \in Keys /\ Retained(key[t], now[t]) \subseteq requests[key[t]]
      BY DEF LimiterInv, TypeOK, Retained
    <3>2. Bounded'
      BY <2>1, <3>1, CleanupKeepsRecent DEF LimiterInv, TypeOK, Bounded
    <3>3. requests' \in [Keys -> SUBSET Admission]
      BY <2>1, <3>1 DEF LimiterInv, TypeOK
    <3> QED
      BY <2>1, <3>2, <3>3, LeaveTypes DEF LimiterInv, TypeOK
  <2> QED
    BY <2>1, <2>2, CleanupStep
<1>4. CASE Reset
  <2>1. PICK K \in {Keys} \union {{k} : k \in Keys} :
          /\ requests' = [k \in Keys |-> IF k \in K THEN {} ELSE requests[k]]
          /\ admitted' = [k \in Keys |-> IF k \in K THEN {} ELSE admitted[k]]
    BY <1>4 DEF Reset
  <2>2. UNCHANGED <<clock, pc, now, key>>
    BY <1>4 DEF Reset
  <2>3. Bounded' /\ Finite'
    BY <2>1, FS_EmptySet, LimiterAssumption DEF LimiterInv, TypeOK, Bounded, Finite
  <2>4. TypeOK' /\ ReadingsRecent' /\ AdmissionsRecent' /\ RecentRecorded'
    BY <2>1, <2>2, <2>3 DEF LimiterInv, TypeOK, ReadingsRecent, AdmissionsRecent, RecentRecorded
  <2>5. WindowBound'
    <3> SUFFICES ASSUME NEW k \in Keys, NEW T \in 0..clock
                 PROVE  Cardinality(WithinShortened(k, T)') <= MaxRequests
      BY <2>2 DEF WindowBound, WithinShortened
    <3>1. WithinShortened(k, T)' = {} \/ WithinShortened(k, T)' = WithinShortened(k, T)
      BY <2>1 DEF WithinShortened
    <3> QED
      BY <3>1, FS_EmptySet, LimiterAssumption DEF LimiterInv, WindowBound
  <2> QED
    BY <2>3, <2>4, <2>5 DEF LimiterInv
<1>5. CASE Tick
  <2>1. /\ clock \in Nat /\ clock' = clock + 1 /\ UNCHANGED <<requests, pc, now, key, admitted>>
        /\ \A t \in Threads : pc[t] # "idle" => clock + 1 <= now[t] + MaxDelay
    BY <1>5 DEF Tick, LimiterInv, TypeOK
  <2>2. TypeOK' /\ Finite'
    BY <2>1 DEF LimiterInv, TypeOK, Bounded, Finite
  <2>3. ReadingsRecent'
    BY <2>1, LimiterAssumption DEF LimiterInv, TypeOK, ReadingsRecent
  <2>4. AdmissionsRecent'
    BY <2>1, LimiterAssumption DEF LimiterInv, TypeOK, Admission, AdmissionsRecent
  <2>5. RecentRecorded'
    BY <2>1, LimiterAssumption DEF LimiterInv, TypeOK, Admission, RecentRecorded
  <2>6. WindowBound'
    <3> SUFFICES ASSUME NEW k \in Keys, NEW T \in 0..clock + 1
                 PROVE  Cardinality(WithinShortened(k, T)) <= MaxRequests
      BY <2>1 DEF WindowBound, WithinShortened
    <3>1. CASE T \in 0..clock
      BY <3>1 DEF LimiterInv, WindowBound
    <3>2. CASE T = clock + 1
      <4>1. \A a \in admitted[k] : a.at \in Nat /\ a.at <= clock
        BY DEF LimiterInv, TypeOK, Admission, AdmissionsRecent
      <4>2. WithinShortened(k, T) = {}
        BY <2>1, <3>2, <4>1 DEF WithinShortened
      <4> QED
        BY <4>2, FS_EmptySet, LimiterAssumption
    <3> QED
      BY <2>1, <3>1, <3>2
  <2> QED
    BY <2>2, <2>3, <2>4, <2>5, <2>6 DEF LimiterInv
<1>6. CASE UNCHANGED vars
  BY <1>6 DEF vars, LimiterInv, TypeOK, Bounded, Finite, ReadingsRecent, AdmissionsRecent,
     RecentRecorded, WindowBound, WithinShortened
<1> QED
  BY <1>1, <1>2, <1>3, <1>4, <1>5, <1>6 DEF Next

(* No interval shorter than the window by the longest mutex wait sees more *)
(* than max_requests admissions of a key, in whatever order threads run.   *)
THEOREM LimiterBounded == Spec => []WindowBound
<1>1. LimiterInv => WindowBound
  BY DEF LimiterInv
<1> QED
  BY <1>1, LimiterInit, LimiterStep, PTL DEF Spec

(* The types hold, and no Vec grows past max_requests.                     *)
THEOREM LimiterTyped == Spec => []TypeOK
<1>1. LimiterInv => TypeOK
  BY DEF LimiterInv
<1> QED
  BY <1>1, LimiterInit, LimiterStep, PTL DEF Spec

----------------------------------------------------------------------------
(* Every recorded instant is that of an admission, and an admission is     *)
(* numbered by how many came before it.                                    *)
Recorded ==
  \A k \in Keys : /\ requests[k] \subseteq admitted[k]
                  /\ \A a \in admitted[k] : a.n < Cardinality(admitted[k])

LEMMA RecordedStep ==
  ASSUME LimiterInv, Recorded, [Next]_vars
  PROVE  Recorded'
<1> USE DEF Recorded
<1>1. ASSUME NEW t \in Threads, Admit(t) PROVE Recorded'
  <2> DEFINE k == key[t]
             new == [n |-> Cardinality(admitted[k]), stamp |-> now[t], at |-> clock]
  <2>1. /\ k \in Keys
        /\ requests'[k] = Retained(k, now[t]) \union {new}
        /\ admitted'[k] = admitted[k] \union {new}
        /\ \A j \in Keys \ {k} : requests'[j] = requests[j] /\ admitted'[j] = admitted[j]
    BY <1>1 DEF Admit, LimiterInv, TypeOK
  <2>2. new.n = Cardinality(admitted[k])
    OBVIOUS
  <2>3. /\ Cardinality(admitted[k]) \in Nat
        /\ \A a \in admitted[k] : a.n \in Nat
    BY <2>1, FS_CardinalityType DEF LimiterInv, TypeOK, Finite, Admission
  <2> HIDE DEF new, k
  <2>4. Cardinality(admitted[k] \union {new}) = Cardinality(admitted[k]) + 1
    <3>1. new \notin admitted[k]
      BY <2>1, <2>2, <2>3
    <3> QED
      BY <2>1, <3>1, FS_AddElement DEF LimiterInv, Finite
  <2>5. requests'[k] \subseteq admitted'[k]
    BY <2>1 DEF Retained
  <2>6. \A a \in admitted'[k] : a.n < Cardinality(admitted'[k])
    <3>1. Cardinality(admitted'[k]) = Cardinality(admitted[k]) + 1
      BY <2>1, <2>4
    <3>2. ASSUME NEW a \in admitted[k] PROVE a.n < Cardinality(admitted[k]) + 1
      BY <2>1, <2>3
    <3>3. new.n < Cardinality(admitted[k]) + 1
      BY <2>2, <2>3
    <3> QED
      BY <2>1, <3>1, <3>2, <3>3
  <2>7. \A j \in Keys \ {k} : /\ requests'[j] \subseteq admitted'[j]
                              /\ \A a \in admitted'[j] : a.n < Cardinality(admitted'[j])
    BY <2>1
  <2> QED
    BY <2>1, <2>5, <2>6, <2>7
<1>2. ASSUME NEW t \in Threads, Refuse(t) \/ IsAllowed(t) PROVE Recorded'
  <2>1. /\ key[t] \in Keys /\ UNCHANGED admitted
        /\ requests' = [requests EXCEPT ![key[t]] = Retained(key[t], now[t])]
    BY <1>2 DEF Refuse, IsAllowed, LimiterInv, TypeOK
  <2> QED
    BY <2>1 DEF Retained, LimiterInv, TypeOK
<1>3. CASE Reset
  BY <1>3, FS_EmptySet DEF Reset, LimiterInv, TypeOK
<1>4. CASE Tick \/ UNCHANGED vars \/ \E t \in Threads : ReadClock(t)
  BY <1>4 DEF Tick, ReadClock, vars
<1> QED
  BY <1>1, <1>2, <1>3, <1>4 DEF Next

(* A thread is refused only when max_requests admissions of its key lie in *)
(* the window that ends when it read the clock (check in rate_limit.rs).   *)
THEOREM RefusalsAlwaysJustified == Spec => RefusalJustified
<1> DEFINE Justified(t) ==
      pc[t] = "check" /\ pc'[t] = "idle" /\ admitted' = admitted =>
        Cardinality({a \in admitted[key[t]] : a.at + Window >= now[t]}) >= MaxRequests
<1>1. Init => Recorded
  BY FS_EmptySet DEF Init, Recorded
<1>2. ASSUME LimiterInv, Recorded, Next, NEW t \in Threads,
             pc[t] = "check", pc'[t] = "idle", admitted' = admitted
      PROVE  Cardinality({a \in admitted[key[t]] : a.at + Window >= now[t]}) >= MaxRequests
  <2> DEFINE k == key[t]
             A == {a \in admitted[k] : a.at + Window >= now[t]}
             R == Retained(k, now[t])
  <2>1. k \in Keys
    BY <1>2 DEF LimiterInv, TypeOK
  <2>2. Refuse(t)
    <3>1. \A u \in Threads : Admit(u) => admitted' # admitted
      <4> SUFFICES ASSUME NEW u \in Threads, Admit(u), admitted' = admitted PROVE FALSE
        OBVIOUS
      <4> DEFINE new == [n |-> Cardinality(admitted[key[u]]), stamp |-> now[u], at |-> clock]
      <4>1. key[u] \in Keys /\ new \in admitted[key[u]]
        BY <1>2 DEF Admit, LimiterInv, TypeOK
      <4>2. new.n < Cardinality(admitted[key[u]]) /\ new.n = Cardinality(admitted[key[u]])
        BY <1>2, <4>1 DEF Recorded
      <4>3. Cardinality(admitted[key[u]]) \in Nat
        BY <1>2, <4>1, FS_CardinalityType DEF LimiterInv, Finite
      <4> HIDE DEF new
      <4> QED
        BY <4>2, <4>3
    <3>2. \A u \in Threads \ {t} : ~Refuse(u) /\ ~IsAllowed(u) /\ ~ReadClock(u)
      BY <1>2 DEF Refuse, IsAllowed, ReadClock, Leave, LimiterInv, TypeOK
    <3>3. ~IsAllowed(t) /\ ~ReadClock(t) /\ ~Reset /\ ~Tick
      BY <1>2 DEF IsAllowed, ReadClock, Reset, Tick
    <3> QED
      BY <1>2, <3>1, <3>2, <3>3 DEF Next
  <2>3. Cardinality(R) >= MaxRequests
    BY <2>2 DEF Refuse, Full
  <2>4. IsFiniteSet(A)
    BY <1>2, <2>1, FS_Subset DEF LimiterInv, Finite
  <2>5. R \subseteq A
    <3>1. ASSUME NEW a \in R PROVE a \in A
      <4>1. a \in admitted[k] /\ a.stamp + Window >= now[t]
        BY <1>2, <2>1 DEF Recorded, Retained
      <4>2. a.stamp <= a.at /\ a.stamp \in Nat /\ a.at \in Nat /\ now[t] \in Nat
        BY <1>2, <2>1, <4>1 DEF LimiterInv, TypeOK, Admission, AdmissionsRecent
      <4> QED
        BY <4>1, <4>2, LimiterAssumption
    <3> QED
      BY <3>1
  <2>6. Cardinality(R) \in Nat /\ Cardinality(A) \in Nat /\ Cardinality(R) <= Cardinality(A)
    BY <2>4, <2>5, FS_Subset, FS_CardinalityType
  <2> HIDE DEF A, R
  <2>7. Cardinality(A) >= MaxRequests
    BY <2>3, <2>6, LimiterAssumption
  <2> QED
    BY <2>7 DEF A
<1>3. LimiterInv /\ Recorded /\ [Next]_vars => [\A t \in Threads : Justified(t)]_vars
  BY <1>2
<1>4. LimiterInv /\ Recorded /\ [Next]_vars => Recorded'
  BY RecordedStep
<1> QED
  BY <1>1, <1>3, <1>4, LimiterInit, LimiterStep, PTL DEF Spec, RefusalJustified

============================================================================
