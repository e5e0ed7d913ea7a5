---------------------------- MODULE RateLimiter ----------------------------
(***************************************************************************)
(* The per-key sliding-window rate limiter (src/rust/src/rate_limit.rs).   *)
(*                                                                         *)
(* check() reads the clock BEFORE it takes the mutex, so the instant it    *)
(* records may lie up to MaxDelay before the instant the request is let    *)
(* through, and threads may take the mutex in another order than they read *)
(* the clock.  A Vec<Instant> is the set of the admissions it stands for.  *)
(***************************************************************************)
EXTENDS Naturals, FiniteSets

CONSTANTS
  Threads,      (* threads serving requests                                 *)
  Keys,         (* client keys (IP addresses)                               *)
  MaxRequests,  (* max_requests                                             *)
  Window,       (* window                                                   *)
  MaxDelay,     (* longest wait between the clock read and the mutex        *)
  MaxTime       (* bound on the clock                                       *)

ASSUME LimiterAssumption ==
  /\ Keys # {}
  /\ MaxRequests \in Nat
  /\ Window \in Nat
  /\ MaxDelay \in Nat
  /\ MaxTime \in Nat

VARIABLES
  clock,     (* Instant::now()                                              *)
  requests,  (* RateLimiter.requests: what each key's Vec holds             *)
  pc,        (* what a thread is inside of: nothing, check or is_allowed    *)
  now,       (* its local now                                               *)
  key,       (* its argument                                                *)
  admitted   (* history: every admission since the last reset of the key    *)

vars == <<clock, requests, pc, now, key, admitted>>

AnyKey == CHOOSE k \in Keys : TRUE

(* An admission: a serial number, the instant recorded for it and the      *)
(* instant at which it happened.                                           *)
Admission == [n: Nat, stamp: Nat, at: Nat]

(* The Vecs never outgrow the limit. *)
Bounded ==
  \A k \in Keys : IsFiniteSet(requests[k]) /\ Cardinality(requests[k]) <= MaxRequests

(* The types of the variables, and the size of the recorded data. *)
TypeOK ==
  /\ clock \in Nat
  /\ requests \in [Keys -> SUBSET Admission]
  /\ pc \in [Threads -> {"idle", "check", "is_allowed"}]
  /\ now \in [Threads -> Nat]
  /\ key \in [Threads -> Keys]
  /\ admitted \in [Keys -> SUBSET Admission]
  /\ Bounded

Init ==
  /\ clock = 0
  /\ requests = [k \in Keys |-> {}]
  /\ pc = [t \in Threads |-> "idle"]
  /\ now = [t \in Threads |-> 0]
  /\ key = [t \in Threads |-> AnyKey]
  /\ admitted = [k \in Keys |-> {}]

----------------------------------------------------------------------------
(* Faulty variant: cleanup drops the instants of the current window's edge *)
(* and beyond it.                                                          *)
Retained_Early(k, t) == {a \in requests[k] : a.stamp + Window > t + 1}

(* Faulty variant: no cleanup. *)
Retained_All(k, t) == requests[k]

(* cleanup: what stays of the key's admissions; subtraction-free t >= cutoff.*)
Retained(k, t) == {a \in requests[k] : a.stamp + Window >= t}

(* Faulty variant: the limit is compared with > instead of >=. *)
Full_OffByOne(k, t) == Cardinality(Retained(k, t)) > MaxRequests

(* timestamps.len() >= self.max_requests, after the cleanup. *)
Full(k, t) == Cardinality(Retained(k, t)) >= MaxRequests

(* let now = Instant::now(), on entry to check or is_allowed. *)
ReadClock(t) ==
  /\ pc[t] = "idle"
  /\ \E k \in Keys, op \in {"check", "is_allowed"} :
       /\ pc' = [pc EXCEPT ![t] = op]
       /\ key' = [key EXCEPT ![t] = k]
  /\ now' = [now EXCEPT ![t] = clock]
  /\ UNCHANGED <<clock, requests, admitted>>

(* The thread leaves check or is_allowed. *)
Leave(t) ==
  /\ pc' = [pc EXCEPT ![t] = "idle"]
  /\ now' = [now EXCEPT ![t] = 0]
  /\ key' = [key EXCEPT ![t] = AnyKey]

(* Under the mutex: clean up, then refuse or record the request. *)
Admit(t) ==
  LET k == key[t]
      a == [n |-> Cardinality(admitted[k]), stamp |-> now[t], at |-> clock]
  IN  /\ pc[t] = "check"
      /\ ~Full(k, now[t])
      /\ requests' = [requests EXCEPT ![k] = Retained(k, now[t]) \union {a}]
      /\ admitted' = [admitted EXCEPT ![k] = @ \union {a}]
      /\ Leave(t)
      /\ UNCHANGED clock

Refuse(t) ==
  LET k == key[t]
  IN  /\ pc[t] = "check"
      /\ Full(k, now[t])
      /\ requests' = [requests EXCEPT ![k] = Retained(k, now[t])]
      /\ Leave(t)
      /\ UNCHANGED <<clock, admitted>>

(* is_allowed cleans up too, and records nothing. *)
IsAllowed(t) ==
  /\ pc[t] = "is_allowed"
  /\ requests' = [requests EXCEPT ![key[t]] = Retained(key[t], now[t])]
  /\ Leave(t)
  /\ UNCHANGED <<clock, admitted>>

(* reset(Some(key)) and reset(None). *)
Reset ==
  /\ \E K \in {Keys} \union {{k} : k \in Keys} :
       /\ requests' = [k \in Keys |-> IF k \in K THEN {} ELSE requests[k]]
       /\ admitted' = [k \in Keys |-> IF k \in K THEN {} ELSE admitted[k]]
  /\ UNCHANGED <<clock, pc, now, key>>

(* Time passes, but no thread waits for the mutex longer than MaxDelay. *)
Tick ==
  /\ clock < MaxTime
  /\ \A t \in Threads : pc[t] # "idle" => clock + 1 <= now[t] + MaxDelay
  /\ clock' = clock + 1
  /\ UNCHANGED <<requests, pc, now, key, admitted>>

Next ==
  \/ \E t \in Threads : ReadClock(t) \/ Admit(t) \/ Refuse(t) \/ IsAllowed(t)
  \/ Reset
  \/ Tick

Spec == Init /\ [][Next]_vars

----------------------------------------------------------------------------
(* Properties *)

(* Whatever the order in which threads get the mutex, no interval shorter  *)
(* than the window by the longest mutex wait sees more than max_requests   *)
(* admissions of a key.                                                    *)
WithinShortened(k, T) ==
  {a \in admitted[k] : T <= a.at /\ a.at + MaxDelay <= T + Window}

WindowBound ==
  \A k \in Keys : \A T \in 0..clock : Cardinality(WithinShortened(k, T)) <= MaxRequests

(* A request is refused only if max_requests admissions of its key lie in  *)
(* the window that ends when it read the clock: nothing older blocks it.   *)
RefusalJustified ==
  [][\A t \in Threads :
       pc[t] = "check" /\ pc'[t] = "idle" /\ admitted' = admitted =>
         Cardinality({a \in admitted[key[t]] : a.at + Window >= now[t]}) >= MaxRequests]_vars

============================================================================
