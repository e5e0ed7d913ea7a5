------------------------------ MODULE LruStore ------------------------------
(***************************************************************************)
(* InMemoryDocumentStore (src/rust/src/cache.rs): a map bounded by         *)
(* max_entries whose recency is a counter stamped on every entry.  Every   *)
(* operation holds the mutex; set() and sweep() read the wall clock before *)
(* they take it, and the wall clock may be set back.                       *)
(***************************************************************************)
EXTENDS Naturals, FiniteSets, Functions

CONSTANTS
  Threads,        (* threads calling the store                              *)
  Keys,           (* cache keys                                             *)
  MaxEntries,     (* max_entries                                            *)
  SweepInterval,  (* EVICT_SWEEP_INTERVAL                                   *)
  Lifetimes,      (* values of ttl + stale_ttl; positive, as store_result's *)
  MaxTime,        (* bound on the clock                                     *)
  MaxTick,        (* bound on the tick (u64 in the code)                    *)
  NoKey           (* not a key                                              *)

ASSUME StoreAssumption ==
  /\ NoKey \notin Keys
  /\ MaxEntries \in Nat \ {0}
  /\ SweepInterval \in Nat \ {0}
  /\ Lifetimes \subseteq Nat \ {0}
  /\ MaxTime \in Nat
  /\ MaxTick \in Nat

VARIABLES
  clock,            (* now_unix()                                           *)
  map,              (* InnerStore.map: from the held keys to their entries  *)
  tick,             (* InnerStore.tick                                      *)
  unswept_inserts,  (* over-capacity inserts since the last scan            *)
  pc,               (* what a thread is inside of: nothing, set or sweep    *)
  now,              (* its local now                                        *)
  key, lifetime,    (* its arguments                                        *)
  used              (* history: the key last hit by get or inserted by set  *)

vars == <<clock, map, tick, unswept_inserts, pc, now, key, lifetime, used>>

(* A CacheEntry with its tick; the value plays no part. *)
Entry == [drop_after: Nat, tick: Nat]

Held == DOMAIN map

TypeOK ==
  /\ clock \in Nat
  /\ Held \subseteq Keys /\ map \in [Held -> Entry]
  /\ tick \in Nat
  /\ unswept_inserts \in Nat /\ unswept_inserts < SweepInterval
  /\ pc \in [Threads -> {"idle", "set", "sweep"}]
  /\ now \in [Threads -> Nat]
  /\ key \in [Threads -> Keys \union {NoKey}]
  /\ lifetime \in [Threads -> Nat]
  /\ used \in Keys \union {NoKey}

Init ==
  /\ clock = 0
  /\ map = [k \in {} |-> 0]
  /\ tick = 0
  /\ unswept_inserts = 0
  /\ pc = [t \in Threads |-> "idle"]
  /\ now = [t \in Threads |-> 0]
  /\ key = [t \in Threads |-> NoKey]
  /\ lifetime = [t \in Threads |-> 0]
  /\ used = NoKey

----------------------------------------------------------------------------
Leave(t) ==
  /\ pc' = [pc EXCEPT ![t] = "idle"]
  /\ now' = [now EXCEPT ![t] = 0]
  /\ key' = [key EXCEPT ![t] = NoKey]
  /\ lifetime' = [lifetime EXCEPT ![t] = 0]

(* Faulty variant: deadlines are compared with the next instant. *)
Expired_Early(f, n) == {k \in DOMAIN f : f[k].drop_after <= n + 1}

(* Keys of the entries past their deadline at n. *)
Expired(f, n) == {k \in DOMAIN f : f[k].drop_after <= n}

(* get(): an expired entry is removed. *)
GetExpired(k) ==
  /\ k \in Expired(map, clock)
  /\ map' = Restrict(map, Held \ {k})
  /\ UNCHANGED <<clock, tick, unswept_inserts, pc, now, key, lifetime, used>>

(* Faulty variant: a hit does not count as a use. *)
GetHit_Untouched(k) ==
  /\ k \in Held \ Expired(map, clock)
  /\ tick < MaxTick
  /\ tick' = tick + 1
  /\ used' = k
  /\ UNCHANGED <<map, clock, unswept_inserts, pc, now, key, lifetime>>

(* get(): a hit stamps the entry with a new tick. *)
GetHit(k) ==
  /\ k \in Held \ Expired(map, clock)
  /\ tick < MaxTick
  /\ tick' = tick + 1
  /\ map' = [map EXCEPT ![k].tick = tick + 1]
  /\ used' = k
  /\ UNCHANGED <<clock, unswept_inserts, pc, now, key, lifetime>>

(* set() and sweep() read the clock before they lock. *)
BeginSet(t) ==
  /\ pc[t] = "idle"
  /\ pc' = [pc EXCEPT ![t] = "set"]
  /\ now' = [now EXCEPT ![t] = clock]
  /\ \E k \in Keys, l \in Lifetimes :
       /\ key' = [key EXCEPT ![t] = k]
       /\ lifetime' = [lifetime EXCEPT ![t] = l]
  /\ UNCHANGED <<clock, map, tick, unswept_inserts, used>>

BeginSweep(t) ==
  /\ pc[t] = "idle"
  /\ pc' = [pc EXCEPT ![t] = "sweep"]
  /\ now' = [now EXCEPT ![t] = clock]
  /\ UNCHANGED <<clock, map, tick, unswept_inserts, key, lifetime, used>>

(* The entries with the smallest tick among S (ticks are distinct). *)
LeastTick(f, S) == {v \in S : \A j \in S : f[v].tick <= f[j].tick}

(* Faulty variant: eviction starts one entry too late. *)
Survivors_OffByOne(f, S) ==
  IF Cardinality(S) <= MaxEntries + 1 THEN {S} ELSE {S \ {v} : v \in LeastTick(f, S)}

(* What may be left of S after the LRU pops; S is at most one too large.   *)
Survivors(f, S) ==
  IF Cardinality(S) <= MaxEntries THEN {S} ELSE {S \ {v} : v \in LeastTick(f, S)}

(* *unswept >= EVICT_SWEEP_INTERVAL, after the increment. *)
SweepDue == unswept_inserts + 1 >= SweepInterval

(* set(), under the mutex: insert, and if that overflows the store pop the *)
(* least recently used entry; every SweepInterval-th time, expired entries *)
(* go first.                                                               *)
Insert(t) ==
  LET e == [drop_after |-> now[t] + lifetime[t], tick |-> tick + 1]
      all == [k \in Held \union {key[t]} |-> IF k = key[t] THEN e ELSE map[k]]
      full == Cardinality(DOMAIN all) > MaxEntries
      sweeping == full /\ SweepDue
      dead == IF sweeping THEN Expired(all, now[t]) ELSE {}
  IN  /\ pc[t] = "set"
      /\ tick < MaxTick
      /\ tick' = tick + 1
      /\ \E kept \in Survivors(all, DOMAIN all \ dead) : map' = Restrict(all, kept)
      /\ unswept_inserts' = IF sweeping THEN 0
                            ELSE IF full THEN unswept_inserts + 1 ELSE unswept_inserts
      /\ Leave(t)
      /\ used' = key[t]
      /\ UNCHANGED clock

(* sweep(), under the mutex. *)
Sweep(t) ==
  /\ pc[t] = "sweep"
  /\ map' = Restrict(map, Held \ Expired(map, now[t]))
  /\ Leave(t)
  /\ UNCHANGED <<clock, tick, unswept_inserts, used>>

(* delete, delete_prefix, delete_segment and clear: some keys go. *)
Delete(S) ==
  /\ map' = Restrict(map, Held \ S)
  /\ UNCHANGED <<clock, tick, unswept_inserts, pc, now, key, lifetime, used>>

(* Wall-clock time passes, or is set. *)
SetClock ==
  /\ clock' \in 0..MaxTime
  /\ UNCHANGED <<map, tick, unswept_inserts, pc, now, key, lifetime, used>>

Next ==
  \/ \E k \in Keys : GetExpired(k) \/ GetHit(k)
  \/ \E t \in Threads : BeginSet(t) \/ BeginSweep(t) \/ Insert(t) \/ Sweep(t)
  \/ \E S \in SUBSET Held : Delete(S)
  \/ SetClock

Spec == Init /\ [][Next]_vars

----------------------------------------------------------------------------
(* Properties *)

(* The store never holds more than max_entries entries. *)
CapacityHeld == IsFiniteSet(Held) /\ Cardinality(Held) <= MaxEntries

(* No two entries share a tick, so the entry to evict is never ambiguous.  *)
TicksDistinct ==
  \A j, k \in Held : map[j].tick <= tick /\ (map[j].tick = map[k].tick => j = k)

(* The entries the step takes away though they are unexpired at the clock  *)
(* reading of thread t.                                                    *)
LiveLost(t) == {k \in Held \ Held' : map[k].drop_after > now[t]}

(* An insertion keeps the entry it inserts, and takes away an unexpired    *)
(* one only if the store was full of other keys, and then only that one.   *)
InsertKeepsLive(t) ==
  pc[t] = "set" /\ pc'[t] = "idle" =>
    /\ key[t] \in Held'
    /\ \/ LiveLost(t) = {}
       \/ /\ Cardinality(Held) = MaxEntries /\ key[t] \notin Held
          /\ \E k \in Held : LiveLost(t) = {k}

LiveEntriesKept == [][\A t \in Threads : InsertKeepsLive(t)]_vars

(* The store is a bounded LRU: it implements RecencyStore. *)
Recency == INSTANCE RecencyStore WITH
  held <- Held,
  older <- {p \in Held \X Held : map[p[1]].tick < map[p[2]].tick}

ImplementsLru == Recency!Spec

=============================================================================
