---------------------------- MODULE ServerProofs ----------------------------
(* Proofs about Server: how long keys count after they were replaced, for  *)
(* every number of threads, remote actors and local actors, whatever the   *)
(* ages and timeouts; who is dropped, who handles a request to the shared  *)
(* inbox, and what the cache shows.                                        *)
EXTENDS Server, NaturalsInduction, WellFoundedInduction, TLAPS

----------------------------------------------------------------------------
(* What has arrived, and is true of it as long as it is handled.           *)
Requested(t) ==
  pc[t] # "idle" =>
    /\ req[t].owner \in Remotes
    /\ req[t].actor \in Remotes \union {NoActor}
    /\ req[t].key \in Nat /\ req[t].key <= key[req[t].owner]
    /\ req[t].date \in Nat /\ req[t].date <= now
    /\ req[t].key < key[req[t].owner] => req[t].date <= changed[req[t].owner]
    /\ \/ req[t].method = "GET" /\ req[t].actor = NoActor
       \/ req[t].method = "POST" /\ req[t].to \in Seq(Names \union {Foreign})

(* The document a thread needs is that of the signer, or then of the actor *)
(* the signer speaks for.                                                  *)
Subject(t) ==
  pc[t] \in Verifying =>
    /\ about[t] \in Remotes
    /\ Signer(t) \/ (Delegated(t) /\ about[t] = req[t].actor)

(* A GET takes no longer than it may, and the key it found was replaced    *)
(* only after it began.                                                    *)
Reading(t) ==
  /\ pc[t] \in {"fetch", "received"} => since[t] <= now /\ now <= since[t] + FetchTime
  /\ pc[t] \in {"received", "check"} => got[t] <= key[about[t]]
  /\ pc[t] = "received" /\ got[t] < key[about[t]] => since[t] <= changed[about[t]]
  /\ pc[t] = "check" /\ got[t] < key[about[t]] => now <= changed[about[t]] + FetchTime + MaxAge

(* The latest time at which the key of a signer that was replaced is still *)
(* taken for good.                                                         *)
Trusted(t) == changed[req[t].owner] + FetchTime + MaxAge

(* When the second document is looked for, the first has been checked.     *)
SecondDocument(t) ==
  pc[t] \in Verifying /\ ~Signer(t) /\ req[t].key < key[req[t].owner] =>
    /\ pc[t] = "document" => now <= Trusted(t)
    /\ pc[t] \in {"fetch", "received"} => since[t] <= Trusted(t)
    /\ pc[t] = "check" => now <= Trusted(t) + FetchTime

RetiredKeyEnds(t) ==
  pc[t] = "admitted" =>
    \/ req[t].key = key[req[t].owner]
    \/ now <= Trusted(t) + (IF Delegated(t) THEN FetchTime ELSE 0)

Screened(t) ==
  pc[t] \in Verifying /\ req[t].actor # NoActor => DomainOf[req[t].actor] \notin Blocked

(* The addressees of a request that are local actors. *)
LocalAddressees(q) ==
  {Canonical[q.to[i]] : i \in {j \in DOMAIN q.to : q.to[j] # Foreign}} \ {Nobody}

Routed(t) ==
  /\ pc[t] \in {"idle", "transit"} => handler[t] = Nobody
  /\ multi /\ handler[t] # Nobody /\ req[t].inbox = Shared =>
       IF LocalAddressees(req[t]) = {} THEN handler[t] = Instance
       ELSE handler[t] \in LocalAddressees(req[t])

ThreadInv(t) ==
  /\ Requested(t) /\ Subject(t) /\ Reading(t) /\ SecondDocument(t)
  /\ RetiredKeyEnds(t) /\ Screened(t) /\ Routed(t)

Points == Verifying \union {"idle", "transit", "open", "admitted", "refused", "invalidate"}

ClocksTyped ==
  /\ now \in Nat
  /\ key \in [Remotes -> Nat]
  /\ changed \in [Remotes -> Nat]
  /\ \A a \in Remotes : changed[a] <= now
  /\ listed \in [Remotes -> SUBSET Remotes]
  /\ withdrawn \subseteq [by: Remotes, of: Remotes, at: Nat]

LocalsTyped ==
  /\ pc \in [Threads -> Points]
  /\ DOMAIN req = Threads /\ DOMAIN handler = Threads
  /\ about \in [Threads -> Remotes \union {NoActor}]
  /\ got \in [Threads -> Nat] /\ since \in [Threads -> Nat]
  /\ listing \in [Threads -> SUBSET Remotes]

(* A copy that is out of date was stored by a GET that began before the    *)
(* key was replaced.                                                       *)
CopiesLag ==
  /\ copies \in [Remotes -> [key: Nat, lists: SUBSET Remotes, at: Nat] \union {NoCopy}]
  /\ \A a \in Remotes : copies[a] # NoCopy =>
       /\ copies[a].at <= now /\ copies[a].key <= key[a]
       /\ copies[a].key < key[a] => copies[a].at <= changed[a] + FetchTime

ServerInv ==
  /\ setup \in Setups
  /\ ClocksTyped /\ LocalsTyped /\ CopiesLag
  /\ \A t \in Threads : ThreadInv(t)

Assumptions == VerificationAssumption /\ ServerAssumption

----------------------------------------------------------------------------
(* Every set of naturals that is not empty has a least element.            *)
Less == {p \in Nat \X Nat : p[1] < p[2]}

LEMMA LessWellFounded == IsWellFoundedOn(Less, Nat)
<1>1. OpToRel(<, Nat) = Less
  BY DEF OpToRel, Less
<1> QED
  BY NatLessThanWellFounded, <1>1

LEMMA LeastExists ==
  ASSUME NEW S \in SUBSET Nat, S # {}
  PROVE  \E i \in S : \A j \in S : i <= j
<1>1. PICK i \in S : \A j \in S : <<j, i>> \notin Less
  BY LessWellFounded, WFMin
<1>2. ASSUME NEW j \in S PROVE ~(j < i)
  <2>1. <<j, i>> \in Nat \X Nat
    OBVIOUS
  <2>2. j < i => <<j, i>> \in Less
    BY <2>1 DEF Less
  <2> QED
    BY <2>2, <1>1
<1>3. \A j \in S : i \in Int /\ j \in Int
  OBVIOUS
<1> QED
  BY <1>2, <1>3, Z3

(* Who for_addressees finds is a local addressee, if there is one.         *)
LEMMA FindsAddressee ==
  ASSUME NEW q, q.to \in Seq(Names \union {Foreign})
  PROVE  IF LocalAddressees(q) = {} THEN ForAddressees(q.to) = Instance
         ELSE ForAddressees(q.to) \in LocalAddressees(q)
<1> DEFINE found == {i \in DOMAIN q.to : IsLocal(q.to[i])}
<1>1. found \in SUBSET Nat
  OBVIOUS
<1>2. found = {} <=> LocalAddressees(q) = {}
  BY DEF LocalAddressees, IsLocal, Known
<1>3. CASE found = {}
  BY <1>2, <1>3 DEF ForAddressees
<1>4. CASE found # {}
  <2> DEFINE first == CHOOSE i \in found : \A j \in found : i <= j
  <2>1. \E i \in found : \A j \in found : i <= j
    BY <1>1, <1>4, LeastExists
  <2>2. first \in found
    BY <2>1
  <2>3. Canonical[q.to[first]] \in LocalAddressees(q)
    BY <2>2 DEF LocalAddressees, IsLocal, Known
  <2>4. ForAddressees(q.to) = Canonical[q.to[first]]
    BY <1>4 DEF ForAddressees
  <2> QED
    BY <2>3, <2>4
<1> QED
  BY <1>3, <1>4

----------------------------------------------------------------------------
LEMMA ServerInvInit == ASSUME Assumptions PROVE Init => ServerInv
<1> SUFFICES ASSUME Init PROVE ServerInv
  OBVIOUS
<1>1. ClocksTyped /\ LocalsTyped
  BY DEF Init, VerificationInit, ClocksTyped, LocalsTyped, Points, Assumptions,
     VerificationAssumption
<1>2. CopiesLag
  BY DEF Init, VerificationInit, CopiesLag
<1>3. ASSUME NEW t \in Threads PROVE ThreadInv(t)
  BY DEF Init, VerificationInit, ThreadInv, Requested, Subject, Reading, SecondDocument,
     RetiredKeyEnds, Screened, Routed, Verifying
<1> QED
  BY <1>1, <1>2, <1>3 DEF Init, ServerInv

(* What is known of a thread stays so as long as the thread, the clock and *)
(* the remote servers do nothing.                                          *)
LEMMA ThreadStays ==
  ASSUME NEW t \in Threads, ThreadInv(t), UNCHANGED <<now, key, changed, multi>>,
         pc'[t] = pc[t], req'[t] = req[t], about'[t] = about[t], got'[t] = got[t],
         since'[t] = since[t], handler'[t] = handler[t]
  PROVE  ThreadInv(t)'
<1> USE DEF ThreadInv
<1>1. Requested(t)'
  BY DEF Requested
<1>2. Subject(t)'
  BY DEF Subject, Signer, Delegated
<1>3. Reading(t)'
  BY DEF Reading
<1>4. SecondDocument(t)'
  BY DEF SecondDocument, Trusted, Signer
<1>5. RetiredKeyEnds(t)'
  BY DEF RetiredKeyEnds, Trusted, Delegated
<1>6. Screened(t)'
  BY DEF Screened
<1>7. Routed(t)'
  BY DEF Routed, LocalAddressees
<1> QED
  BY <1>1, <1>2, <1>3, <1>4, <1>5, <1>6, <1>7

(* A step of one thread, which leaves clock and remote servers alone.      *)
StepOf(t) ==
  /\ UNCHANGED <<setup, multi, now, remoteVars>>
  /\ \A u \in Threads \ {t} :
       /\ pc'[u] = pc[u] /\ req'[u] = req[u] /\ about'[u] = about[u] /\ got'[u] = got[u]
       /\ since'[u] = since[u] /\ handler'[u] = handler[u]

LEMMA StepSuffices ==
  ASSUME ServerInv, NEW t \in Threads, StepOf(t), LocalsTyped', CopiesLag', ThreadInv(t)'
  PROVE  ServerInv'
<1>1. ASSUME NEW u \in Threads \ {t} PROVE ThreadInv(u)'
  BY ThreadStays DEF ServerInv, StepOf, remoteVars
<1> QED
  BY <1>1 DEF ServerInv, StepOf, ClocksTyped, remoteVars

(* Moving a thread on.                                                     *)
LEMMA GotoTyped ==
  ASSUME LocalsTyped, NEW t \in Threads, NEW p \in Points, Goto(t, p)
  PROVE  /\ pc' \in [Threads -> Points] /\ pc'[t] = p
         /\ \A u \in Threads \ {t} : pc'[u] = pc[u]
BY DEF Goto, LocalsTyped

(* A thread that is idle knows nothing.                                    *)
LEMMA ReplyPreserves ==
  ASSUME ServerInv, NEW t \in Threads, Reply(t), UNCHANGED <<setup, multi>>
  PROVE  ServerInv'
<1>1. LocalsTyped'
  BY DEF ServerInv, LocalsTyped, Reply, Points, Requested
<1>2. pc'[t] = "idle" /\ handler'[t] = Nobody
  BY DEF ServerInv, LocalsTyped, Reply
<1>3. ThreadInv(t)'
  BY <1>2 DEF ThreadInv, Requested, Subject, Reading, SecondDocument, RetiredKeyEnds,
     Screened, Routed, Verifying
<1>4. CopiesLag'
  BY DEF ServerInv, Reply, CopiesLag, remoteVars
<1>5. StepOf(t)
  BY DEF ServerInv, LocalsTyped, Reply, StepOf
<1> QED
  BY <1>1, <1>3, <1>4, <1>5, StepSuffices

(* So do the threads that have been admitted or turned away, but for what  *)
(* they were asked.                                                        *)
LEMMA LeavesVerification ==
  ASSUME ServerInv, NEW t \in Threads,
         UNCHANGED <<setup, multi, now, remoteVars, copies, req, about, got, listing, since, handler>>,
         NEW p \in {"open", "refused", "invalidate"}, Goto(t, p),
         pc[t] \in {"idle", "transit"} => pc[t] = "transit"
  PROVE  ServerInv'
<1>1. LocalsTyped' /\ pc'[t] = p /\ \A u \in Threads \ {t} : pc'[u] = pc[u]
  BY GotoTyped DEF ServerInv, LocalsTyped, Points
<1>2. Requested(t)'
  BY <1>1 DEF ServerInv, ThreadInv, Requested, remoteVars
<1>3. Routed(t)'
  BY <1>1 DEF ServerInv, ThreadInv, Routed, LocalAddressees
<1>4. ThreadInv(t)'
  BY <1>1, <1>2, <1>3 DEF ThreadInv, Subject, Reading, SecondDocument, RetiredKeyEnds,
     Screened, Verifying
<1>5. CopiesLag'
  BY DEF ServerInv, CopiesLag, remoteVars
<1>6. StepOf(t)
  BY <1>1 DEF StepOf
<1> QED
  BY <1>1, <1>4, <1>5, <1>6, StepSuffices

(* Verification begins for a request of somebody who is not blocked, in    *)
(* the handler it is for.                                                  *)
LEMMA StartPreserves ==
  ASSUME Assumptions, ServerInv, NEW t \in Threads, pc[t] = "transit", StartVerification(t),
         UNCHANGED <<setup, multi, now, remoteVars, copies, req, got, listing, since>>,
         DOMAIN handler' = Threads, \A u \in Threads \ {t} : handler'[u] = handler[u],
         \/ req[t].method = "GET" /\ handler'[t] = handler[t]
         \/ /\ req[t].method = "POST" /\ ~Dropped(req[t])
            /\ handler'[t] = Resolve(req[t])
  PROVE  ServerInv'
<1>1. /\ pc' \in [Threads -> Points] /\ pc'[t] = "document"
      /\ \A u \in Threads \ {t} : pc'[u] = pc[u]
  BY GotoTyped DEF StartVerification, ServerInv, Points, Verifying
<1>2. Requested(t)'
  BY <1>1 DEF ServerInv, ThreadInv, Requested, remoteVars
<1>3. /\ about' \in [Threads -> Remotes \union {NoActor}] /\ about'[t] = req[t].owner
      /\ req[t].owner \in Remotes
      /\ \A u \in Threads \ {t} : about'[u] = about[u]
  BY DEF StartVerification, ServerInv, LocalsTyped, ThreadInv, Requested
<1>4. LocalsTyped'
  BY <1>1, <1>3 DEF ServerInv, LocalsTyped
<1>5. Subject(t)'
  BY <1>3 DEF Subject, Signer
<1>6. Reading(t)' /\ SecondDocument(t)' /\ RetiredKeyEnds(t)'
  BY <1>1, <1>3 DEF Reading, SecondDocument, RetiredKeyEnds, Signer
<1>7. Screened(t)'
  <2>1. CASE req[t].method = "GET"
    BY <2>1 DEF ServerInv, ThreadInv, Requested, Screened
  <2>2. CASE ~Dropped(req[t])
    BY <1>2, <1>1, <2>2 DEF Dropped, IsDomainBlocked, Screened, Requested, Assumptions,
       VerificationAssumption
  <2> QED
    BY <2>1, <2>2
<1>8. Routed(t)'
  <2>1. CASE req[t].method = "GET"
    BY <1>1, <2>1 DEF ServerInv, ThreadInv, Requested, Routed
  <2>2. CASE req[t].method = "POST"
    <3>1. req[t].to \in Seq(Names \union {Foreign})
      BY <2>2 DEF ServerInv, ThreadInv, Requested
    <3>2. multi /\ req[t].inbox = Shared => handler'[t] = ForAddressees(req[t].to)
      BY <2>2 DEF Resolve
    <3>3. IF LocalAddressees(req[t]) = {} THEN ForAddressees(req[t].to) = Instance
          ELSE ForAddressees(req[t].to) \in LocalAddressees(req[t])
      BY <3>1, FindsAddressee
    <3> QED
      BY <1>1, <3>2, <3>3 DEF Routed
  <2> QED
    BY <2>1, <2>2
<1>9. CopiesLag' /\ StepOf(t)
  BY <1>1, <1>3 DEF ServerInv, CopiesLag, remoteVars, StepOf
<1> QED
  BY <1>2, <1>4, <1>5, <1>6, <1>7, <1>8, <1>9, StepSuffices DEF ThreadInv

----------------------------------------------------------------------------
(* The steps of verification                                               *)

(* What a step of verification leaves alone, and what its thread keeps.    *)
LEMMA KeepsRequest ==
  ASSUME ServerInv, NEW t \in Threads, NEW p \in Points \ {"idle", "transit"}, Goto(t, p),
         pc[t] \in Verifying, UNCHANGED <<now, remoteVars, req, multi, handler>>
  PROVE  /\ Requested(t)' /\ Routed(t)'
         /\ pc[t] \in {"document", "fetch", "received", "check"}
         /\ req[t].owner \in Remotes /\ about[t] \in Remotes /\ got[t] \in Nat /\ since[t] \in Nat
         /\ key[about[t]] \in Nat /\ changed[about[t]] \in Nat
         /\ changed[req[t].owner] \in Nat /\ now \in Nat /\ req[t].key \in Nat
         /\ key[req[t].owner] \in Nat /\ changed[about[t]] <= now
         /\ changed[req[t].owner] <= now
<1>1. pc'[t] = p /\ p \in Points
  BY GotoTyped DEF ServerInv
<1>2. pc[t] # "idle" /\ pc[t] \in {"document", "fetch", "received", "check"}
  BY DEF Verifying
<1>3. Requested(t)'
  BY <1>2 DEF ServerInv, ThreadInv, Requested, remoteVars
<1>4. Routed(t)'
  BY <1>1, <1>2 DEF ServerInv, ThreadInv, Routed
<1>5. req[t].owner \in Remotes /\ about[t] \in Remotes /\ req[t].key \in Nat
  BY <1>2 DEF ServerInv, ThreadInv, Requested, Subject
<1> QED
  BY <1>2, <1>3, <1>4, <1>5 DEF ServerInv, LocalsTyped, ClocksTyped

LEMMA ReadCopyPreserves ==
  ASSUME Assumptions, ServerInv, NEW t \in Threads, ReadCopy(t), UNCHANGED <<setup, multi, handler>>
  PROVE  ServerInv'
<1>1. PICK p \in {"check", "fetch"} : Goto(t, p)
  BY DEF ReadCopy
<1>2. pc[t] = "document" /\ UNCHANGED <<now, remoteVars, copies, req, about>>
  BY DEF ReadCopy
<1>3. p \in Points \ {"idle", "transit"} /\ pc[t] \in Verifying
  BY <1>2 DEF Points, Verifying
<1>4. /\ pc' \in [Threads -> Points] /\ pc'[t] = p
      /\ \A u \in Threads \ {t} : pc'[u] = pc[u]
  BY <1>1, <1>3, GotoTyped DEF ServerInv
<1>5. /\ Requested(t)' /\ Routed(t)'
      /\ req[t].owner \in Remotes /\ about[t] \in Remotes /\ got[t] \in Nat /\ since[t] \in Nat
      /\ key[about[t]] \in Nat /\ changed[about[t]] \in Nat /\ now \in Nat
      /\ changed[req[t].owner] \in Nat /\ req[t].key \in Nat /\ key[req[t].owner] \in Nat
      /\ changed[about[t]] <= now /\ changed[req[t].owner] <= now
  BY <1>1, <1>2, <1>3, KeepsRequest DEF ReadCopy
<1>6. MaxAge \in Nat /\ FetchTime \in Nat
  BY DEF Assumptions, VerificationAssumption
<1>7. /\ got' \in [Threads -> Nat] /\ since' \in [Threads -> Nat]
      /\ listing' \in [Threads -> SUBSET Remotes]
      /\ \A u \in Threads \ {t} : got'[u] = got[u]
      /\ \A u \in Threads \ {t} : since'[u] = since[u]
  <2>1. CASE /\ Cached(about[t]) /\ UNCHANGED since
             /\ got' = [got EXCEPT ![t] = copies[about[t]].key]
             /\ listing' = [listing EXCEPT ![t] = copies[about[t]].lists]
    BY <1>5, <2>1 DEF Cached, ServerInv, LocalsTyped, CopiesLag
  <2>2. CASE since' = [since EXCEPT ![t] = now] /\ UNCHANGED <<got, listing>>
    BY <1>5, <2>2 DEF ServerInv, LocalsTyped
  <2> QED
    BY <2>1, <2>2 DEF ReadCopy
<1>8. LocalsTyped'
  BY <1>2, <1>4, <1>7 DEF ServerInv, LocalsTyped
<1>9. Subject(t)' /\ Screened(t)' /\ RetiredKeyEnds(t)'
  BY <1>2, <1>3, <1>4 DEF ServerInv, ThreadInv, Subject, Screened, RetiredKeyEnds, Signer, Delegated
<1>10. Reading(t)'
  <2>1. CASE /\ Cached(about[t]) /\ got' = [got EXCEPT ![t] = copies[about[t]].key]
             /\ Goto(t, "check")
    <3>1. pc'[t] = "check" /\ got'[t] = copies[about[t]].key
      BY <2>1, GotoTyped DEF ServerInv, LocalsTyped, Points, Verifying
    <3>2. /\ copies[about[t]].key \in Nat /\ copies[about[t]].at \in Nat
          /\ copies[about[t]].key <= key[about[t]]
          /\ copies[about[t]].key < key[about[t]] =>
               copies[about[t]].at <= changed[about[t]] + FetchTime
          /\ now - copies[about[t]].at <= MaxAge
      BY <2>1, <1>5 DEF Cached, ServerInv, CopiesLag
    <3>3. copies[about[t]].key < key[about[t]] => now <= changed[about[t]] + FetchTime + MaxAge
      BY <3>2, <1>5, <1>6
    <3> QED
      BY <1>2, <3>1, <3>2, <3>3 DEF Reading, remoteVars
  <2>2. CASE Goto(t, "fetch") /\ since' = [since EXCEPT ![t] = now]
    <3>1. pc'[t] = "fetch" /\ since'[t] = now
      BY <2>2, GotoTyped DEF ServerInv, LocalsTyped, Points, Verifying
    <3> QED
      BY <1>2, <1>5, <1>6, <3>1 DEF Reading
  <2> QED
    BY <2>1, <2>2 DEF ReadCopy
<1>11. SecondDocument(t)'
  <2>1. ~Signer(t) /\ req[t].key < key[req[t].owner] => now <= Trusted(t) /\ Trusted(t) \in Nat
    BY <1>2, <1>3, <1>5, <1>6 DEF ServerInv, ThreadInv, SecondDocument, Trusted
  <2>2. pc'[t] = "fetch" => since'[t] = now
    BY <1>2, <1>4, GotoTyped DEF ReadCopy, ServerInv, LocalsTyped, Goto
  <2>3. Trusted(t)' = Trusted(t) /\ Signer(t)' = Signer(t)
    BY <1>2 DEF Trusted, Signer, remoteVars
  <2>4. pc'[t] \in {"check", "fetch"}
    BY <1>4
  <2> QED
    BY <1>2, <1>5, <1>6, <2>1, <2>2, <2>3, <2>4 DEF SecondDocument, remoteVars
<1>12. CopiesLag' /\ StepOf(t)
  BY <1>2, <1>4, <1>7 DEF ServerInv, CopiesLag, StepOf, remoteVars
<1> QED
  BY <1>5, <1>8, <1>9, <1>10, <1>11, <1>12, StepSuffices DEF ThreadInv

LEMMA AnswerPreserves ==
  ASSUME Assumptions, ServerInv, NEW t \in Threads, Answer(t), UNCHANGED <<setup, multi, handler>>
  PROVE  ServerInv'
<1>1. /\ pc[t] = "fetch" /\ pc[t] \in Verifying /\ Goto(t, "received")
      /\ UNCHANGED <<now, remoteVars, copies, req, about, since>>
      /\ got' = [got EXCEPT ![t] = key[about[t]]]
      /\ listing' = [listing EXCEPT ![t] = listed[about[t]]]
  BY DEF Answer, Verifying
<1>2. /\ "received" \in Points \ {"idle", "transit"} /\ pc' \in [Threads -> Points] /\ pc'[t] = "received"
      /\ \A u \in Threads \ {t} : pc'[u] = pc[u]
  BY <1>1, GotoTyped DEF ServerInv, Points, Verifying
<1>3. /\ Requested(t)' /\ Routed(t)'
      /\ req[t].owner \in Remotes /\ about[t] \in Remotes /\ got[t] \in Nat /\ since[t] \in Nat
      /\ key[about[t]] \in Nat /\ changed[about[t]] \in Nat /\ now \in Nat
      /\ changed[req[t].owner] \in Nat /\ req[t].key \in Nat /\ key[req[t].owner] \in Nat
      /\ changed[about[t]] <= now /\ changed[req[t].owner] <= now
  BY <1>1, <1>2, KeepsRequest
<1>4. MaxAge \in Nat /\ FetchTime \in Nat
  BY DEF Assumptions, VerificationAssumption
<1>5. /\ got' \in [Threads -> Nat] /\ got'[t] = key[about[t]]
      /\ listing' \in [Threads -> SUBSET Remotes]
      /\ \A u \in Threads \ {t} : got'[u] = got[u]
  BY <1>1, <1>3 DEF ServerInv, LocalsTyped, ClocksTyped
<1>6. LocalsTyped'
  BY <1>1, <1>2, <1>5 DEF ServerInv, LocalsTyped
<1>7. Subject(t)' /\ Screened(t)' /\ RetiredKeyEnds(t)'
  BY <1>1, <1>2 DEF ServerInv, ThreadInv, Subject, Screened, RetiredKeyEnds, Signer, Delegated
<1>8. Reading(t)' /\ SecondDocument(t)'
  BY <1>1, <1>2, <1>3, <1>5 DEF ServerInv, ThreadInv, Reading, SecondDocument, Trusted, Signer, remoteVars
<1>9. CopiesLag' /\ StepOf(t)
  BY <1>1, <1>2, <1>5 DEF ServerInv, CopiesLag, StepOf, remoteVars
<1> QED
  BY <1>3, <1>6, <1>7, <1>8, <1>9, StepSuffices DEF ThreadInv

(* The copy is stored when the GET has ended.                              *)
LEMMA StoreCopyPreserves ==
  ASSUME Assumptions, ServerInv, NEW t \in Threads, StoreCopy(t), UNCHANGED <<setup, multi, handler>>
  PROVE  ServerInv'
<1>1. /\ pc[t] = "received" /\ pc[t] \in Verifying /\ Goto(t, "check")
      /\ UNCHANGED <<now, remoteVars, req, about, got, listing, since>>
  BY DEF StoreCopy, Verifying
<1>2. /\ "check" \in Points \ {"idle", "transit"} /\ pc' \in [Threads -> Points] /\ pc'[t] = "check"
      /\ \A u \in Threads \ {t} : pc'[u] = pc[u]
  BY <1>1, GotoTyped DEF ServerInv, Points, Verifying
<1>3. /\ Requested(t)' /\ Routed(t)'
      /\ req[t].owner \in Remotes /\ about[t] \in Remotes /\ got[t] \in Nat /\ since[t] \in Nat
      /\ key[about[t]] \in Nat /\ changed[about[t]] \in Nat /\ now \in Nat
      /\ changed[req[t].owner] \in Nat /\ req[t].key \in Nat /\ key[req[t].owner] \in Nat
      /\ changed[about[t]] <= now /\ changed[req[t].owner] <= now
  BY <1>1, <1>2, KeepsRequest
<1>4. MaxAge \in Nat /\ FetchTime \in Nat
  BY DEF Assumptions, VerificationAssumption
<1>5. LocalsTyped'
  BY <1>1, <1>2 DEF ServerInv, LocalsTyped
<1>6. Subject(t)' /\ Screened(t)' /\ RetiredKeyEnds(t)'
  BY <1>1, <1>2 DEF ServerInv, ThreadInv, Subject, Screened, RetiredKeyEnds, Signer, Delegated
<1>7. /\ now <= since[t] + FetchTime /\ got[t] <= key[about[t]]
      /\ got[t] < key[about[t]] => since[t] <= changed[about[t]]
  BY <1>1 DEF ServerInv, ThreadInv, Reading
<1>8. got[t] < key[about[t]] => now <= changed[about[t]] + FetchTime
  BY <1>3, <1>4, <1>7
<1>9. got[t] < key[about[t]] => now <= changed[about[t]] + FetchTime + MaxAge
  BY <1>3, <1>4, <1>8
<1>10. Reading(t)'
  BY <1>1, <1>2, <1>7, <1>9 DEF Reading, remoteVars
<1>11. SecondDocument(t)'
  <2>1. ~Signer(t) /\ req[t].key < key[req[t].owner] => since[t] <= Trusted(t)
    BY <1>1 DEF ServerInv, ThreadInv, SecondDocument
  <2>2. Trusted(t) \in Nat
    BY <1>3, <1>4 DEF Trusted
  <2>3. ~Signer(t) /\ req[t].key < key[req[t].owner] => now <= Trusted(t) + FetchTime
    BY <1>3, <1>4, <1>7, <2>1, <2>2
  <2> QED
    BY <1>1, <1>2, <2>3 DEF SecondDocument, Trusted, Signer, remoteVars
<1>12. CopiesLag'
  <2>1. CASE UNCHANGED copies
    BY <1>1, <2>1 DEF ServerInv, CopiesLag, remoteVars
  <2>2. CASE copies' = [copies EXCEPT ![about[t]] =
                          [key |-> got[t], lists |-> listing[t], at |-> now]]
    <3>1. listing[t] \in SUBSET Remotes
      BY DEF ServerInv, LocalsTyped
    <3> QED
      BY <1>1, <1>3, <1>7, <1>8, <2>2, <3>1 DEF ServerInv, CopiesLag, remoteVars
  <2> QED
    BY <2>1, <2>2 DEF StoreCopy
<1>13. StepOf(t)
  BY <1>1, <1>2 DEF StepOf
<1> QED
  BY <1>3, <1>5, <1>6, <1>10, <1>11, <1>12, <1>13, StepSuffices DEF ThreadInv

(* The document of the signer is good for now; that of the actor is next.  *)
LEMMA CheckDelegationPreserves ==
  ASSUME Assumptions, ServerInv, NEW t \in Threads, CheckDelegation(t),
         UNCHANGED <<setup, multi, handler>>
  PROVE  ServerInv'
<1>1. /\ pc[t] = "check" /\ pc[t] \in Verifying /\ Goto(t, "document")
      /\ Signer(t) /\ got[t] = req[t].key /\ Delegated(t)
      /\ UNCHANGED <<now, remoteVars, copies, req, got, listing, since>>
      /\ about' = [about EXCEPT ![t] = req[t].actor]
  BY DEF CheckDelegation, Verified, Verifying
<1>2. /\ "document" \in Points \ {"idle", "transit"} /\ pc' \in [Threads -> Points] /\ pc'[t] = "document"
      /\ \A u \in Threads \ {t} : pc'[u] = pc[u]
  BY <1>1, GotoTyped DEF ServerInv, Points, Verifying
<1>3. /\ Requested(t)' /\ Routed(t)'
      /\ req[t].owner \in Remotes /\ about[t] \in Remotes /\ got[t] \in Nat /\ since[t] \in Nat
      /\ key[about[t]] \in Nat /\ changed[about[t]] \in Nat /\ now \in Nat
      /\ changed[req[t].owner] \in Nat /\ req[t].key \in Nat /\ key[req[t].owner] \in Nat
      /\ changed[about[t]] <= now /\ changed[req[t].owner] <= now
  BY <1>1, <1>2, KeepsRequest
<1>4. MaxAge \in Nat /\ FetchTime \in Nat
  BY DEF Assumptions, VerificationAssumption
<1>5. /\ about' \in [Threads -> Remotes \union {NoActor}]
      /\ about'[t] = req[t].actor /\ req[t].actor \in Remotes
      /\ \A u \in Threads \ {t} : about'[u] = about[u]
  BY <1>1 DEF ServerInv, LocalsTyped, ThreadInv, Requested, Delegated
<1>6. LocalsTyped'
  BY <1>1, <1>2, <1>5 DEF ServerInv, LocalsTyped
<1>7. Subject(t)' /\ Screened(t)' /\ RetiredKeyEnds(t)'
  BY <1>1, <1>2, <1>5 DEF ServerInv, ThreadInv, Subject, Screened, RetiredKeyEnds, Delegated
<1>8. Reading(t)'
  BY <1>2 DEF Reading
<1>9. req[t].key < key[req[t].owner] => now <= Trusted(t)
  BY <1>1 DEF ServerInv, ThreadInv, Reading, Signer, Trusted
<1>10. SecondDocument(t)'
  BY <1>1, <1>2, <1>9 DEF SecondDocument, Trusted, remoteVars
<1>11. CopiesLag' /\ StepOf(t)
  BY <1>1, <1>2, <1>5 DEF ServerInv, CopiesLag, StepOf, remoteVars
<1> QED
  BY <1>3, <1>6, <1>7, <1>8, <1>10, <1>11, StepSuffices DEF ThreadInv

LEMMA AdmitPreserves ==
  ASSUME Assumptions, ServerInv, NEW t \in Threads, Admit(t), UNCHANGED <<setup, multi, handler>>
  PROVE  ServerInv'
<1>1. /\ pc[t] = "check" /\ pc[t] \in Verifying /\ Goto(t, "admitted")
      /\ Signer(t) => got[t] = req[t].key
      /\ UNCHANGED <<now, remoteVars, copies, req, about, got, listing, since>>
  BY DEF Admit, Verified, Verifying
<1>2. /\ "admitted" \in Points \ {"idle", "transit"} /\ pc' \in [Threads -> Points] /\ pc'[t] = "admitted"
      /\ \A u \in Threads \ {t} : pc'[u] = pc[u]
  BY <1>1, GotoTyped DEF ServerInv, Points, Verifying
<1>3. /\ Requested(t)' /\ Routed(t)'
      /\ req[t].owner \in Remotes /\ about[t] \in Remotes /\ got[t] \in Nat /\ since[t] \in Nat
      /\ key[about[t]] \in Nat /\ changed[about[t]] \in Nat /\ now \in Nat
      /\ changed[req[t].owner] \in Nat /\ req[t].key \in Nat /\ key[req[t].owner] \in Nat
      /\ changed[about[t]] <= now /\ changed[req[t].owner] <= now
  BY <1>1, <1>2, KeepsRequest
<1>4. MaxAge \in Nat /\ FetchTime \in Nat
  BY DEF Assumptions, VerificationAssumption
<1>5. LocalsTyped'
  BY <1>1, <1>2 DEF ServerInv, LocalsTyped
<1>6. Subject(t)' /\ Screened(t)' /\ Reading(t)' /\ SecondDocument(t)'
  BY <1>2 DEF Subject, Screened, Reading, SecondDocument, Verifying
<1>7. req[t].key = key[req[t].owner] \/ req[t].key < key[req[t].owner]
  <2>1. req[t].key <= key[req[t].owner]
    BY <1>1 DEF ServerInv, ThreadInv, Requested
  <2> QED
    BY <1>3, <2>1
<1>8. RetiredKeyEnds(t)'
  <2>1. CASE Signer(t)
    <3>1. req[t].key < key[req[t].owner] => now <= Trusted(t)
      BY <1>1, <2>1 DEF ServerInv, ThreadInv, Reading, Signer, Trusted
    <3>2. Trusted(t) \in Nat
      BY <1>3, <1>4 DEF Trusted
    <3>3. req[t].key < key[req[t].owner] =>
            now <= Trusted(t) + (IF Delegated(t) THEN FetchTime ELSE 0)
      BY <1>3, <1>4, <3>1, <3>2
    <3> QED
      BY <1>1, <1>7, <3>3 DEF RetiredKeyEnds, Trusted, Delegated, remoteVars
  <2>2. CASE ~Signer(t)
    <3>1. Delegated(t)
      BY <1>1, <2>2 DEF ServerInv, ThreadInv, Subject
    <3>2. req[t].key < key[req[t].owner] => now <= Trusted(t) + FetchTime
      BY <1>1, <2>2 DEF ServerInv, ThreadInv, SecondDocument
    <3> QED
      BY <1>1, <1>7, <3>1, <3>2 DEF RetiredKeyEnds, Trusted, Delegated, remoteVars
  <2> QED
    BY <2>1, <2>2
<1>9. CopiesLag' /\ StepOf(t)
  BY <1>1, <1>2 DEF ServerInv, CopiesLag, StepOf, remoteVars
<1> QED
  BY <1>3, <1>5, <1>6, <1>8, <1>9, StepSuffices DEF ThreadInv

LEMMA VerifyPreserves ==
  ASSUME Assumptions, ServerInv, NEW t \in Threads, Verify(t), UNCHANGED <<setup, multi, handler>>
  PROVE  ServerInv'
<1>1. CASE Refuse(t)
  BY <1>1, LeavesVerification DEF Refuse
<1> QED
  BY <1>1, ReadCopyPreserves, AnswerPreserves, StoreCopyPreserves, CheckDelegationPreserves,
     AdmitPreserves DEF Verify

----------------------------------------------------------------------------
(* Time, the remote servers, and the next-state relation                   *)

LEMMA TickPreserves ==
  ASSUME Assumptions, ServerInv, Tick, UNCHANGED <<setup, multi, handler>>
  PROVE  ServerInv'
<1>1. /\ now' = now + 1 /\ now \in Nat /\ MaxAge \in Nat /\ FetchTime \in Nat
      /\ UNCHANGED <<remoteVars, copies, threadVars>>
  BY DEF Tick, ServerInv, ClocksTyped, Assumptions, VerificationAssumption
<1>2. ClocksTyped' /\ LocalsTyped' /\ CopiesLag'
  BY <1>1 DEF ServerInv, ClocksTyped, LocalsTyped, CopiesLag, remoteVars, threadVars
<1>3. ASSUME NEW t \in Threads PROVE ThreadInv(t)'
  <2>1. \/ pc[t] \in {"idle", "transit"}
        \/ pc[t] \in {"fetch", "received"} /\ now < since[t] + FetchTime
    BY DEF Tick
  <2>2. Requested(t)'
    BY <1>1 DEF ServerInv, ThreadInv, Requested, remoteVars, threadVars
  <2>3. Subject(t)' /\ Screened(t)' /\ Routed(t)'
    BY <1>1 DEF ServerInv, ThreadInv, Subject, Signer, Delegated, Screened, Routed, threadVars
  <2>4. Reading(t)'
    <3>1. since[t] \in Nat
      BY DEF ServerInv, LocalsTyped
    <3> QED
      BY <1>1, <2>1, <3>1 DEF ServerInv, ThreadInv, Reading, remoteVars, threadVars
  <2>5. SecondDocument(t)' /\ RetiredKeyEnds(t)'
    BY <1>1, <2>1 DEF ServerInv, ThreadInv, SecondDocument, RetiredKeyEnds, Signer, Trusted,
       remoteVars, threadVars, Verifying
  <2> QED
    BY <2>2, <2>3, <2>4, <2>5 DEF ThreadInv
<1> QED
  BY <1>1, <1>2, <1>3 DEF ServerInv

(* A key that is replaced now has been good until now.                     *)
LEMMA RotatePreserves ==
  ASSUME Assumptions, ServerInv, NEW a \in Remotes, Rotate(a), UNCHANGED <<setup, multi, handler>>
  PROVE  ServerInv'
<1>1. /\ now \in Nat /\ key \in [Remotes -> Nat] /\ changed \in [Remotes -> Nat]
      /\ \A r \in Remotes : changed[r] <= now
      /\ MaxAge \in Nat /\ FetchTime \in Nat
      /\ UNCHANGED <<now, listed, withdrawn, copies, threadVars>>
  BY DEF Rotate, ServerInv, ClocksTyped, Assumptions, VerificationAssumption
<1>2. /\ key' \in [Remotes -> Nat] /\ changed' \in [Remotes -> Nat]
      /\ key'[a] = key[a] + 1 /\ changed'[a] = now
      /\ \A r \in Remotes \ {a} : key'[r] = key[r] /\ changed'[r] = changed[r]
      /\ \A r \in Remotes : key[r] <= key'[r] /\ changed[r] <= changed'[r] /\ changed'[r] <= now
  BY <1>1 DEF Rotate
<1>3. ClocksTyped' /\ LocalsTyped'
  BY <1>1, <1>2 DEF ServerInv, ClocksTyped, LocalsTyped, threadVars
<1>4. CopiesLag'
  BY <1>1, <1>2 DEF ServerInv, CopiesLag
<1>5. ASSUME NEW t \in Threads PROVE ThreadInv(t)'
  <2>1. UNCHANGED <<pc, req, about, got, listing, since, handler, multi, now>>
    BY <1>1 DEF threadVars
  <2>2. Requested(t)'
    <3>1. Requested(t)
      BY DEF ServerInv, ThreadInv
    <3>2. CASE req[t].owner = a
      BY <1>1, <1>2, <2>1, <3>1, <3>2 DEF Requested
    <3>3. CASE req[t].owner # a
      BY <1>1, <1>2, <2>1, <3>1, <3>3 DEF Requested
    <3> QED
      BY <3>2, <3>3
  <2>3. Subject(t)' /\ Screened(t)' /\ Routed(t)'
    BY <2>1 DEF ServerInv, ThreadInv, Subject, Signer, Delegated, Screened, Routed
  <2>4. Reading(t)'
    <3>1. Reading(t) /\ (pc[t] \in {"received", "check"} => about[t] \in Remotes)
          /\ got[t] \in Nat /\ since[t] \in Nat
      BY DEF ServerInv, ThreadInv, Subject, Verifying, LocalsTyped
    <3>2. CASE about[t] = a
      BY <1>1, <1>2, <2>1, <3>1, <3>2 DEF Reading
    <3>3. CASE about[t] # a
      BY <1>1, <1>2, <2>1, <3>1, <3>3 DEF Reading
    <3> QED
      BY <3>2, <3>3
  <2>5. CASE req[t].owner = a
    <3>1. Trusted(t)' = now + FetchTime + MaxAge
      BY <1>2, <2>1, <2>5 DEF Trusted
    <3>2. pc[t] \in {"fetch", "received"} => since[t] <= now
      BY DEF ServerInv, ThreadInv, Reading
    <3>3. since[t] \in Nat
      BY DEF ServerInv, LocalsTyped
    <3>4. SecondDocument(t)'
      BY <1>1, <2>1, <3>1, <3>2, <3>3 DEF SecondDocument
    <3>5. RetiredKeyEnds(t)'
      BY <1>1, <2>1, <3>1 DEF RetiredKeyEnds, Delegated
    <3> QED
      BY <2>2, <2>3, <2>4, <3>4, <3>5 DEF ThreadInv
  <2>6. CASE req[t].owner # a
    <3>1. pc[t] # "idle" => Trusted(t)' = Trusted(t) /\ key'[req[t].owner] = key[req[t].owner]
      BY <1>1, <1>2, <2>1, <2>6 DEF ServerInv, ThreadInv, Requested, Trusted
    <3>2. SecondDocument(t)' /\ RetiredKeyEnds(t)'
      BY <2>1, <3>1 DEF ServerInv, ThreadInv, SecondDocument, RetiredKeyEnds, Signer, Delegated,
         Verifying
    <3> QED
      BY <2>2, <2>3, <2>4, <3>2 DEF ThreadInv
  <2> QED
    BY <2>5, <2>6
<1> QED
  BY <1>1, <1>3, <1>4, <1>5 DEF ServerInv

LEMMA RelistPreserves ==
  ASSUME ServerInv, NEW a \in Remotes, NEW S \in SUBSET Remotes, Relist(a, S),
         UNCHANGED <<setup, multi, handler>>
  PROVE  ServerInv'
<1>1. UNCHANGED <<now, key, changed, copies, pc, req, about, got, listing, since>>
  BY DEF Relist, threadVars
<1>2. listed' \in [Remotes -> SUBSET Remotes]
  BY DEF Relist, ServerInv, ClocksTyped
<1>3. withdrawn' \subseteq [by: Remotes, of: Remotes, at: Nat]
  BY DEF Relist, ServerInv, ClocksTyped
<1>4. ClocksTyped' /\ LocalsTyped' /\ CopiesLag'
  BY <1>1, <1>2, <1>3 DEF ServerInv, ClocksTyped, LocalsTyped, CopiesLag
<1>5. ASSUME NEW t \in Threads PROVE ThreadInv(t)'
  BY <1>1, ThreadStays DEF ServerInv
<1> QED
  BY <1>4, <1>5 DEF ServerInv

LEMMA SendPreserves ==
  ASSUME Assumptions, ServerInv, NEW t \in Threads, NEW q \in setup.requests[t], Send(t, q),
         UNCHANGED <<setup, multi, handler>>
  PROVE  ServerInv'
<1>1. Sent(q)
  BY DEF Assumptions, ServerAssumption, ServerInv
<1>2. /\ pc[t] = "idle" /\ Goto(t, "transit") /\ "transit" \in Points
      /\ req' = [req EXCEPT ![t] = [q EXCEPT !.key = key[q.owner], !.date = now]]
      /\ UNCHANGED <<now, remoteVars, copies, about, got, listing, since>>
  BY DEF Send, Points
<1>3. /\ pc' \in [Threads -> Points] /\ pc'[t] = "transit"
      /\ \A u \in Threads \ {t} : pc'[u] = pc[u]
  BY <1>2, GotoTyped DEF ServerInv
<1>4. /\ DOMAIN req' = Threads
      /\ req'[t] = [q EXCEPT !.key = key[q.owner], !.date = now]
      /\ \A u \in Threads \ {t} : req'[u] = req[u]
  BY <1>2 DEF ServerInv, LocalsTyped
<1>5. /\ req'[t].owner = q.owner /\ req'[t].actor = q.actor /\ req'[t].method = q.method
      /\ req'[t].key = key[q.owner] /\ req'[t].date = now
      /\ q.method = "POST" => req'[t].to = q.to
  BY <1>1, <1>4 DEF Sent
<1>6. LocalsTyped' /\ CopiesLag' /\ StepOf(t)
  BY <1>2, <1>3, <1>4 DEF ServerInv, LocalsTyped, CopiesLag, StepOf, remoteVars
<1>7. Requested(t)'
  BY <1>1, <1>2, <1>5 DEF Requested, Sent, Signed, ServerInv, ClocksTyped, remoteVars
<1>8. Routed(t)'
  BY <1>2 DEF ServerInv, ThreadInv, Routed
<1>9. ThreadInv(t)'
  BY <1>3, <1>7, <1>8 DEF ThreadInv, Subject, Reading, SecondDocument, RetiredKeyEnds, Screened,
     Verifying
<1> QED
  BY <1>6, <1>9, StepSuffices

(* The application and the cache.                                          *)
LEMMA DocumentsPreserve ==
  ASSUME ServerInv, UNCHANGED <<setup, multi, verificationVars, handler>>
  PROVE  ServerInv'
<1>1. UNCHANGED <<now, remoteVars, copies, pc, req, about, got, listing, since>>
  BY DEF verificationVars, threadVars
<1>2. ClocksTyped' /\ LocalsTyped' /\ CopiesLag'
  BY <1>1 DEF ServerInv, ClocksTyped, LocalsTyped, CopiesLag, remoteVars
<1>3. ASSUME NEW t \in Threads PROVE ThreadInv(t)'
  BY <1>1, ThreadStays DEF ServerInv, remoteVars
<1> QED
  BY <1>2, <1>3 DEF ServerInv

LEMMA RespondPreserves ==
  ASSUME Assumptions, ServerInv, NEW t \in Threads, Respond(t), UNCHANGED setup
  PROVE  ServerInv'
<1>1. ASSUME Reply(t), UNCHANGED multi PROVE ServerInv'
  BY <1>1, ReplyPreserves
<1>2. CASE ArrivePost(t)
  <2>1. UNCHANGED multi /\ pc[t] = "transit" /\ req[t].method = "POST"
    BY <1>2 DEF ArrivePost, documentVars
  <2>2. CASE Reply(t)
    BY <1>1, <2>1, <2>2
  <2>3. CASE /\ ~TurnedAway(req[t]) /\ StartVerification(t)
             /\ handler' = [handler EXCEPT ![t] = Resolve(req[t])]
             /\ UNCHANGED <<now, remoteVars, copies, req, got, listing, since>>
    <3>1. /\ DOMAIN handler' = Threads /\ handler'[t] = Resolve(req[t])
          /\ \A u \in Threads \ {t} : handler'[u] = handler[u]
      BY <2>3 DEF ServerInv, LocalsTyped
    <3> QED
      BY <2>1, <2>3, <3>1, StartPreserves DEF TurnedAway
  <2> QED
    BY <1>2, <2>2, <2>3 DEF ArrivePost
<1>3. CASE ArriveGet(t)
  <2>1. UNCHANGED multi /\ pc[t] = "transit" /\ req[t].method = "GET"
    BY <1>3 DEF ArriveGet, documentVars
  <2>2. CASE Reply(t)
    BY <1>1, <2>1, <2>2
  <2>3. CASE StartVerification(t) /\ UNCHANGED <<now, remoteVars, copies, req, got, listing, since, handler>>
    BY <2>1, <2>3, StartPreserves DEF ServerInv, LocalsTyped
  <2>4. CASE Goto(t, "open") /\ UNCHANGED <<now, remoteVars, copies, req, about, got, listing, since, handler>>
    BY <2>1, <2>4, LeavesVerification
  <2> QED
    BY <1>3, <2>2, <2>3, <2>4 DEF ArriveGet
<1>4. CASE Dispatch(t)
  <2>1. pc[t] = "admitted" /\ UNCHANGED multi
    BY <1>4 DEF Dispatch, documentVars, ChangeFollowers, StoreQuote
  <2>2. CASE Goto(t, "invalidate") /\ UNCHANGED <<now, remoteVars, copies, req, about, got, listing, since, handler>>
    BY <2>1, <2>2, LeavesVerification
  <2> QED
    BY <1>1, <1>4, <2>1, <2>2 DEF Dispatch
<1>5. CASE Accepted(t) \/ ServeDocument(t) \/ Unauthorized(t)
  BY <1>1, <1>5 DEF Accepted, ServeDocument, Unauthorized, Invalidate, Serve, documentVars
<1>6. CASE Verify(t) /\ UNCHANGED <<documentVars, handler>>
  BY <1>6, VerifyPreserves DEF documentVars
<1> QED
  BY <1>2, <1>3, <1>4, <1>5, <1>6 DEF Respond

LEMMA ServerInvStep ==
  ASSUME Assumptions, ServerInv, [Next]_serverVars
  PROVE  ServerInv'
<1>1. CASE UNCHANGED serverVars
  BY <1>1, DocumentsPreserve DEF serverVars, documentVars
<1>2. CASE Remote /\ UNCHANGED <<setup, documentVars, handler>>
  <2>1. CASE \E w \in setup.lists : Relist(w[1], w[2])
    <3>1. setup.lists \subseteq Remotes \X SUBSET Remotes
      BY DEF Assumptions, ServerAssumption, ServerInv
    <3>2. PICK w \in setup.lists : Relist(w[1], w[2])
      BY <2>1
    <3>3. w[1] \in Remotes /\ w[2] \in SUBSET Remotes
      BY <3>1
    <3> QED
      BY <1>2, <3>2, <3>3, RelistPreserves DEF documentVars
  <2> QED
    BY <1>2, <2>1, TickPreserves, RotatePreserves, SendPreserves DEF Remote, documentVars
<1>3. CASE Change(setup.active) /\ UNCHANGED <<setup, verificationVars, handler>>
  BY <1>3, DocumentsPreserve DEF Change, Publish, EditProfile
<1>4. CASE CatchUp /\ UNCHANGED <<setup, verificationVars, handler>>
  BY <1>4, DocumentsPreserve DEF CatchUp, Invalidate, Expire
<1> QED
  BY <1>1, <1>2, <1>3, <1>4, RespondPreserves DEF Next

(* A copy of a document is good for a day, and then what was fetched last  *)
(* counts: an actor that changes its key is refused for no longer than a   *)
(* day and a GET after the change.                                         *)
THEOREM RotationsHeal == Spec => []RotationHeals
<1> Assumptions
  BY VerificationAssumption, ServerAssumption DEF Assumptions
<1>1. ServerInv => RotationHeals
  <2> SUFFICES ASSUME ServerInv, NEW t \in Threads, pc[t] = "check", Signer(t)
               PROVE  /\ got[t] < req[t].key => now <= changed[req[t].owner] + FetchTime + MaxAge
                      /\ got[t] > req[t].key => req[t].date <= changed[req[t].owner]
    BY DEF RotationHeals
  <2>1. ThreadInv(t) /\ Requested(t) /\ Reading(t) /\ about[t] = req[t].owner
    BY DEF ServerInv, ThreadInv, Signer
  <2>2. /\ req[t].key \in Nat /\ req[t].key <= key[req[t].owner] /\ got[t] <= key[req[t].owner]
        /\ req[t].key < key[req[t].owner] => req[t].date <= changed[req[t].owner]
        /\ got[t] < key[req[t].owner] => now <= changed[req[t].owner] + FetchTime + MaxAge
    BY <2>1 DEF Requested, Reading
  <2>3. got[t] \in Nat /\ key[req[t].owner] \in Nat
    BY <2>1 DEF ServerInv, LocalsTyped, ClocksTyped, Requested
  <2> QED
    BY <2>2, <2>3
<1>2. Init => ServerInv
  BY ServerInvInit
<1>3. ServerInv /\ [Next]_serverVars => ServerInv'
  BY ServerInvStep
<1> QED
  BY <1>1, <1>2, <1>3, PTL DEF Spec

(* A key that was replaced admits nothing for longer than a day and one    *)
(* GET, or two if the signer speaks for somebody else.                     *)
THEOREM RetiredKeysAlwaysEnd == Spec => []RetiredKeysEnd
<1> Assumptions
  BY VerificationAssumption, ServerAssumption DEF Assumptions
<1>1. ServerInv => RetiredKeysEnd
  BY DEF ServerInv, ThreadInv, RetiredKeyEnds, Trusted, RetiredKeysEnd
<1>2. Init => ServerInv
  BY ServerInvInit
<1>3. ServerInv /\ [Next]_serverVars => ServerInv'
  BY ServerInvStep
<1> QED
  BY <1>1, <1>2, <1>3, PTL DEF Spec

(* For an activity of an actor on a blocked instance no document is        *)
(* fetched, be it of the actor or of another who signed it.                *)
THEOREM BlockedNeverFetched == Spec => []BlockedNotFetched
<1> Assumptions
  BY VerificationAssumption, ServerAssumption DEF Assumptions
<1>1. ServerInv => BlockedNotFetched
  BY DEF ServerInv, ThreadInv, Screened, BlockedNotFetched
<1>2. Init => ServerInv
  BY ServerInvInit
<1>3. ServerInv /\ [Next]_serverVars => ServerInv'
  BY ServerInvStep
<1> QED
  BY <1>1, <1>2, <1>3, PTL DEF Spec

(* Whoever handles a request to the shared inbox is addressed by it, or is *)
(* the instance actor of a request that addresses nobody here, however     *)
(* many addressees there are.                                              *)
THEOREM AlwaysRoutedToAddressee == Spec => []RoutedToAddressee
<1> Assumptions
  BY VerificationAssumption, ServerAssumption DEF Assumptions
<1>1. ServerInv => RoutedToAddressee
  BY DEF ServerInv, ThreadInv, Routed, LocalAddressees, RoutedToAddressee
<1>2. Init => ServerInv
  BY ServerInvInit
<1>3. ServerInv /\ [Next]_serverVars => ServerInv'
  BY ServerInvStep
<1> QED
  BY <1>1, <1>2, <1>3, PTL DEF Spec

----------------------------------------------------------------------------
(* Documents.  An entry is the document of every route that finds it if     *)
(* the spellings of a WebFinger resource that share a key mean one account: *)
(* with dispatch_multi acct:user@domain and user@domain do not.             *)
SpellingsAgree ==
  \A s \in Setups : \A r, q \in s.routes :
    /\ r.kind = "webfinger" /\ q.kind = "webfinger" /\ Key(r) = Key(q)
    /\ s.multi \/ (Resource(r) # Nobody /\ Resource(q) # Nobody)
    => Resource(r) = Resource(q)

(* A document is read by a route of the server. *)
Asked(t) == pc[t] # "idle" /\ req[t].method = "GET" => req[t].route \in routes

Serving ==
  /\ multi = setup.multi /\ routes = setup.routes
  /\ \A t \in Threads : Asked(t)
  /\ DOMAIN cache = {Key(r) : r \in routes}

RoutedInv == ServerInv /\ Serving

DocumentsInv == RoutedInv /\ CachedIsCurrent

LEMMA KeyNamesKind ==
  ASSUME NEW r \in Route
  PROVE  Key(r)[1] = r.kind
<1>1. CASE r.kind \in ActorKinds
  BY <1>1 DEF Key, ActorKinds
<1>2. CASE r.kind = "webfinger"
  BY <1>2 DEF Key, ActorKinds
<1>3. CASE r.kind = "nodeinfo"
  BY <1>3 DEF Key, ActorKinds
<1>4. CASE r.kind = "quote-authorization"
  BY <1>4 DEF Key, ActorKinds
<1> QED
  BY <1>1, <1>2, <1>3, <1>4 DEF Route

LEMMA RoutesTyped ==
  ASSUME Assumptions, RoutedInv
  PROVE  routes \subseteq Route /\ setup \in Setups
BY DEF Assumptions, ServerAssumption, RoutedInv, Serving, ServerInv

(* Routes that share a key show the same document. *)
LEMMA SameKeySameDocument ==
  ASSUME Assumptions, SpellingsAgree, RoutedInv, NEW r \in routes, NEW q \in routes,
         Key(r) = Key(q), ~Rejected(r), ~Rejected(q)
  PROVE  Render(r) = Render(q)
<1>1. r \in Route /\ q \in Route
  BY RoutesTyped
<1>2. r.kind = q.kind
  BY <1>1, KeyNamesKind
<1>3. CASE r.kind \in ActorKinds
  <2>1. r.name = q.name /\ r.arg = q.arg
    BY <1>2, <1>3 DEF Key, ActorKinds
  <2> QED
    BY <1>2, <2>1 DEF Render
<1>4. CASE r.kind = "webfinger"
  <2>1. setup.multi \/ (Resource(r) # Nobody /\ Resource(q) # Nobody)
    BY <1>2, <1>4 DEF Rejected, RoutedInv, Serving
  <2>2. Resource(r) = Resource(q)
    BY <1>2, <1>4, <2>1 DEF SpellingsAgree, RoutedInv, Serving, ServerInv
  <2>3. Render(r) = Account(Resource(r)) /\ Render(q) = Account(Resource(q))
    BY <1>2, <1>4 DEF Render
  <2> QED
    BY <2>2, <2>3
<1>5. CASE r.kind = "nodeinfo"
  BY <1>2, <1>5 DEF Render
<1>6. CASE r.kind = "quote-authorization"
  <2>1. r.arg = q.arg
    BY <1>2, <1>6 DEF Key, ActorKinds
  <2> QED
    BY <1>2, <1>6, <2>1 DEF Render
<1> QED
  BY <1>1, <1>3, <1>4, <1>5, <1>6 DEF Route

(* What a route shows, as a set grows that it may not show. *)
LEMMA RenderGrows ==
  ASSUME NEW r \in Route, UNCHANGED <<profile, fans>>,
         published \subseteq published', quotes \subseteq quotes',
         r.kind \in {"outbox", "nodeinfo"} => UNCHANGED published
  PROVE  \/ Render(r)' = Render(r)
         \/ r.kind \in {"activities", "quote-authorization"} /\ Render(r) = Missing
<1>1. CASE r.kind = "actor"
  BY <1>1 DEF Render, ActorDocument
<1>2. CASE r.kind = "outbox"
  BY <1>2 DEF Render, OutboxPage
<1>3. CASE r.kind = "followers"
  BY <1>3 DEF Render, FollowersCollection
<1>4. CASE r.kind = "nodeinfo"
  BY <1>4 DEF Render, NodeInfo
<1>5. CASE r.kind = "activities"
  <2>1. Render(r) = ActivityDocument(r.arg, Canonical[r.name])
    BY <1>5 DEF Render
  <2>2. Render(r)' = ActivityDocument(r.arg, Canonical[r.name])'
    BY <1>5 DEF Render
  <2> QED
    BY <1>5, <2>1, <2>2 DEF ActivityDocument
<1>6. CASE r.kind = "quote-authorization"
  <2>1. Render(r) = Authorization(r.arg)
    BY <1>6 DEF Render
  <2>2. Render(r)' = Authorization(r.arg)'
    BY <1>6 DEF Render
  <2> QED
    BY <1>6, <2>1, <2>2 DEF Authorization
<1>7. CASE r.kind = "webfinger"
  BY <1>7 DEF Render
<1> QED
  BY <1>1, <1>2, <1>3, <1>4, <1>5, <1>6, <1>7 DEF Route, ActorKinds

(* A change that leaves the cache alone, and withdraws no invalidation.     *)
LEMMA ChangeKeepsCurrent ==
  ASSUME Assumptions, DocumentsInv, UNCHANGED <<multi, routes, cache>>, due \subseteq due',
         \A r \in routes : \/ \E d \in due' : r.kind \in d.kinds
                           \/ Render(r)' = Render(r)
                           \/ /\ r.kind \in {"activities", "quote-authorization"}
                              /\ Render(r) = Missing
  PROVE  CachedIsCurrent'
<1> SUFFICES ASSUME NEW r \in routes, cache[Key(r)] # NoEntry, ~Rejected(r)
             PROVE  \/ cache[Key(r)].doc = Render(r)'
                    \/ \E d \in due' : r.kind \in d.kinds
                    \/ /\ r.kind \in {"activities", "quote-authorization"}
                       /\ cache[Key(r)].doc = Missing
  BY DEF CachedIsCurrent, Rejected
<1>1. \/ cache[Key(r)].doc = Render(r)
      \/ \E d \in due : r.kind \in d.kinds
      \/ /\ r.kind \in {"activities", "quote-authorization"}
         /\ cache[Key(r)].doc = Missing
  BY DEF DocumentsInv, CachedIsCurrent
<1> QED
  BY <1>1

LEMMA PublishCurrent ==
  ASSUME Assumptions, DocumentsInv, NEW a \in Activities, Publish(a)
  PROVE  CachedIsCurrent'
<1>1. /\ published' = published \union {a} /\ due' = due \union {PublishDue}
      /\ UNCHANGED <<multi, routes, profile, quotes, fans, cache>>
  BY DEF Publish
<1>2. ASSUME NEW r \in routes
      PROVE  \/ \E d \in due' : r.kind \in d.kinds
             \/ Render(r)' = Render(r)
             \/ r.kind \in {"activities", "quote-authorization"} /\ Render(r) = Missing
  <2>1. CASE r.kind \in {"outbox", "nodeinfo"}
    <3>1. PublishDue \in due'
      BY <1>1
    <3>2. r.kind \in PublishDue.kinds
      BY <2>1 DEF PublishDue, Due
    <3> QED
      BY <3>1, <3>2
  <2>2. CASE r.kind \notin {"outbox", "nodeinfo"}
    BY <1>1, <2>2, RenderGrows, RoutesTyped DEF DocumentsInv
  <2> QED
    BY <2>1, <2>2
<1> QED
  BY <1>1, <1>2, ChangeKeepsCurrent

LEMMA EditCurrent ==
  ASSUME Assumptions, DocumentsInv, NEW u \in Users, EditProfile(u)
  PROVE  CachedIsCurrent'
<1> DEFINE d == Due({"actor", "webfinger", "outbox", "followers", "following"}, UpdateOf[u])
<1>1. /\ due' = due \union {d}
      /\ UNCHANGED <<multi, routes, published, quotes, fans, cache>>
  BY DEF EditProfile
<1>2. ASSUME NEW r \in routes
      PROVE  \/ \E e \in due' : r.kind \in e.kinds
             \/ Render(r)' = Render(r)
  <2>0. r \in Route
    BY RoutesTyped DEF DocumentsInv
  <2>1. CASE r.kind \in {"actor", "webfinger", "outbox", "followers"}
    <3>1. d \in due'
      BY <1>1
    <3>2. r.kind \in d.kinds
      BY <2>1 DEF Due
    <3> QED
      BY <3>1, <3>2
  <2>2. CASE r.kind = "nodeinfo"
    BY <1>1, <2>2 DEF Render, NodeInfo
  <2>3. CASE r.kind = "activities"
    BY <1>1, <2>3 DEF Render, ActivityDocument
  <2>4. CASE r.kind = "quote-authorization"
    BY <1>1, <2>4 DEF Render, Authorization
  <2> QED
    BY <2>0, <2>1, <2>2, <2>3, <2>4 DEF Route, ActorKinds
<1> QED
  BY <1>1, <1>2, ChangeKeepsCurrent

LEMMA FollowersCurrent ==
  ASSUME Assumptions, DocumentsInv, NEW u, NEW F, ChangeFollowers(u, F)
  PROVE  CachedIsCurrent'
<1>1. /\ due' = due \union {FollowersDue}
      /\ UNCHANGED <<multi, routes, profile, published, quotes, cache>>
  BY DEF ChangeFollowers
<1>2. ASSUME NEW r \in routes
      PROVE  \/ \E d \in due' : r.kind \in d.kinds
             \/ Render(r)' = Render(r)
  <2>0. r \in Route
    BY RoutesTyped DEF DocumentsInv
  <2>1. CASE r.kind = "followers"
    <3>1. FollowersDue \in due'
      BY <1>1
    <3>2. r.kind \in FollowersDue.kinds
      BY <2>1 DEF FollowersDue, Due
    <3> QED
      BY <3>1, <3>2
  <2>2. CASE r.kind = "actor"
    BY <1>1, <2>2 DEF Render, ActorDocument
  <2>3. CASE r.kind = "outbox"
    BY <1>1, <2>3 DEF Render, OutboxPage
  <2>4. CASE r.kind = "nodeinfo"
    BY <1>1, <2>4 DEF Render, NodeInfo
  <2>5. CASE r.kind = "activities"
    BY <1>1, <2>5 DEF Render, ActivityDocument
  <2>6. CASE r.kind = "quote-authorization"
    BY <1>1, <2>6 DEF Render, Authorization
  <2>7. CASE r.kind = "webfinger"
    BY <1>1, <2>7 DEF Render
  <2> QED
    BY <2>0, <2>1, <2>2, <2>3, <2>4, <2>5, <2>6, <2>7 DEF Route, ActorKinds
<1> QED
  BY <1>1, <1>2, ChangeKeepsCurrent

LEMMA QuoteCurrent ==
  ASSUME Assumptions, DocumentsInv, NEW q, StoreQuote(q)
  PROVE  CachedIsCurrent'
<1>1. quotes' = quotes \union {q} /\ UNCHANGED <<multi, routes, profile, published, fans, cache, due>>
  BY DEF StoreQuote
<1>2. ASSUME NEW r \in routes
      PROVE  \/ Render(r)' = Render(r)
             \/ r.kind \in {"activities", "quote-authorization"} /\ Render(r) = Missing
  BY <1>1, RenderGrows, RoutesTyped DEF DocumentsInv
<1> QED
  BY <1>1, <1>2, ChangeKeepsCurrent

(* An invalidation empties what it is for; what an Update of a profile adds *)
(* to the storage has an invalidation of its own.                           *)
LEMMA InvalidateCurrent ==
  ASSUME Assumptions, DocumentsInv, NEW d, Invalidate(d)
  PROVE  CachedIsCurrent' /\ DOMAIN cache' = DOMAIN cache
<1>1. /\ cache' = [k \in DOMAIN cache |-> IF k[1] \in d.kinds THEN NoEntry ELSE cache[k]]
      /\ UNCHANGED <<multi, routes, profile, quotes, fans>>
      /\ published \subseteq published' /\ due \ {d} \subseteq due'
      /\ UNCHANGED published \/ PublishDue \in due'
  BY DEF Invalidate
<1> SUFFICES ASSUME NEW r \in routes, cache'[Key(r)] # NoEntry, ~Rejected(r)
             PROVE  \/ cache'[Key(r)].doc = Render(r)'
                    \/ \E c \in due' : r.kind \in c.kinds
                    \/ /\ r.kind \in {"activities", "quote-authorization"}
                       /\ cache'[Key(r)].doc = Missing
  BY <1>1 DEF CachedIsCurrent, Rejected
<1>2. r \in Route /\ Key(r) \in DOMAIN cache /\ Key(r)[1] = r.kind
  BY RoutesTyped, KeyNamesKind DEF DocumentsInv, RoutedInv, Serving
<1>3. r.kind \notin d.kinds /\ cache'[Key(r)] = cache[Key(r)]
  BY <1>1, <1>2
<1>4. \/ cache[Key(r)].doc = Render(r)
      \/ \E c \in due : r.kind \in c.kinds
      \/ /\ r.kind \in {"activities", "quote-authorization"}
         /\ cache[Key(r)].doc = Missing
  BY <1>3 DEF DocumentsInv, CachedIsCurrent
<1>5. ASSUME NEW c \in due, r.kind \in c.kinds PROVE c \in due'
  BY <1>1, <1>3, <1>5
<1>6. CASE r.kind \in {"outbox", "nodeinfo"} /\ PublishDue \in due'
  BY <1>6 DEF PublishDue, Due
<1>7. CASE r.kind \in {"outbox", "nodeinfo"} => UNCHANGED published
  <2>1. \/ Render(r)' = Render(r)
        \/ r.kind \in {"activities", "quote-authorization"} /\ Render(r) = Missing
    BY <1>1, <1>2, <1>7, RenderGrows
  <2> QED
    BY <1>3, <1>4, <1>5, <2>1
<1> QED
  BY <1>1, <1>6, <1>7

LEMMA ServeCurrent ==
  ASSUME Assumptions, SpellingsAgree, DocumentsInv, NEW q \in routes, Serve(q)
  PROVE  CachedIsCurrent' /\ DOMAIN cache' = DOMAIN cache
<1>1. /\ ~Rejected(q)
      /\ cache' = IF cache[Key(q)] = NoEntry THEN [cache EXCEPT ![Key(q)] = [doc |-> Render(q)]]
                  ELSE cache
      /\ UNCHANGED <<multi, routes, profile, published, quotes, fans, due>>
  BY DEF Serve, contents
<1>2. DOMAIN cache' = DOMAIN cache
  BY <1>1
<1> SUFFICES ASSUME NEW r \in routes, cache'[Key(r)] # NoEntry, ~Rejected(r)
             PROVE  \/ cache'[Key(r)].doc = Render(r)'
                    \/ \E c \in due : r.kind \in c.kinds
                    \/ /\ r.kind \in {"activities", "quote-authorization"}
                       /\ cache'[Key(r)].doc = Missing
  BY <1>1, <1>2 DEF CachedIsCurrent, Rejected
<1>3. r \in Route /\ Key(r) \in DOMAIN cache
  BY RoutesTyped DEF DocumentsInv, RoutedInv, Serving
<1>4. Render(r)' = Render(r)
  <2>1. \/ Render(r)' = Render(r)
        \/ r.kind \in {"activities", "quote-authorization"} /\ Render(r) = Missing
    BY <1>1, <1>3, RenderGrows
  <2>2. CASE r.kind = "activities"
    BY <1>1, <2>2 DEF Render, ActivityDocument
  <2>3. CASE r.kind = "quote-authorization"
    BY <1>1, <2>3 DEF Render, Authorization
  <2> QED
    BY <2>1, <2>2, <2>3
<1>5. CASE cache'[Key(r)] = cache[Key(r)]
  BY <1>4, <1>5 DEF DocumentsInv, CachedIsCurrent
<1>6. CASE Key(r) = Key(q) /\ cache'[Key(r)] = [doc |-> Render(q)]
  BY <1>1, <1>4, <1>6, SameKeySameDocument DEF DocumentsInv
<1> QED
  BY <1>1, <1>3, <1>5, <1>6

(* Who asks, and what has a key, as long as nothing else is asked.         *)
LEMMA ServingKept ==
  ASSUME RoutedInv, UNCHANGED <<setup, multi, routes>>, DOMAIN cache' = DOMAIN cache,
         \A t \in Threads : pc'[t] # "idle" => pc[t] # "idle" /\ req'[t] = req[t]
  PROVE  Serving'
BY DEF RoutedInv, Serving, Asked

(* What a response leaves of the threads.                                  *)
LEMMA ReplyAsks ==
  ASSUME RoutedInv, NEW t \in Threads, Reply(t)
  PROVE  \A u \in Threads : pc'[u] # "idle" => pc[u] # "idle" /\ req'[u] = req[u]
BY DEF RoutedInv, ServerInv, LocalsTyped, Reply

LEMMA GotoAsks ==
  ASSUME RoutedInv, NEW t \in Threads, NEW p, Goto(t, p), pc[t] # "idle", UNCHANGED req
  PROVE  \A u \in Threads : pc'[u] # "idle" => pc[u] # "idle" /\ req'[u] = req[u]
BY DEF RoutedInv, ServerInv, LocalsTyped, Goto

LEMMA VerifyAsks ==
  ASSUME RoutedInv, NEW t \in Threads, Verify(t)
  PROVE  \A u \in Threads : pc'[u] # "idle" => pc[u] # "idle" /\ req'[u] = req[u]
<1>1. pc[t] \in {"document", "fetch", "received", "check"} /\ UNCHANGED req
  BY DEF Verify, ReadCopy, Answer, StoreCopy, CheckDelegation, Admit, Refuse
<1>2. PICK p : Goto(t, p)
  BY DEF Verify, ReadCopy, Answer, StoreCopy, CheckDelegation, Admit, Refuse
<1> QED
  BY <1>1, <1>2, GotoAsks

(* The part of a thread's step that is about documents.                    *)
LEMMA DocumentsIdle ==
  ASSUME DocumentsInv, UNCHANGED documentVars
  PROVE  CachedIsCurrent' /\ DOMAIN cache' = DOMAIN cache /\ UNCHANGED <<multi, routes>>
<1>1. UNCHANGED <<multi, routes, cache, due, profile, published, quotes, fans>>
  BY DEF documentVars, contents
<1>2. ASSUME NEW r \in routes PROVE Render(r)' = Render(r) /\ (Rejected(r)' <=> Rejected(r))
  BY <1>1 DEF Render, ActorDocument, OutboxPage, FollowersCollection, NodeInfo,
     ActivityDocument, Authorization, Rejected
<1> QED
  BY <1>1, <1>2 DEF DocumentsInv, CachedIsCurrent

LEMMA RespondCurrent ==
  ASSUME Assumptions, SpellingsAgree, DocumentsInv, NEW t \in Threads, Respond(t), UNCHANGED setup
  PROVE  Serving' /\ CachedIsCurrent'
<1> DEFINE Asks == \A u \in Threads : pc'[u] # "idle" => pc[u] # "idle" /\ req'[u] = req[u]
<1>0. RoutedInv
  BY DEF DocumentsInv
<1>r. Reply(t) => Asks
  BY <1>0, ReplyAsks
<1>1. ASSUME Asks, UNCHANGED documentVars PROVE Serving' /\ CachedIsCurrent'
  BY <1>0, <1>1, DocumentsIdle, ServingKept
<1>2. CASE ArrivePost(t)
  <2>1. UNCHANGED documentVars
    BY <1>2 DEF ArrivePost
  <2>2. Asks
    <3>1. CASE Reply(t)
      BY <1>r, <3>1
    <3>2. CASE Goto(t, "document") /\ pc[t] = "transit" /\ UNCHANGED req
      BY <1>0, <3>2, GotoAsks
    <3> QED
      BY <1>2, <3>1, <3>2 DEF ArrivePost, StartVerification
  <2> QED
    BY <1>1, <2>1, <2>2
<1>3. CASE ArriveGet(t)
  <2>1. UNCHANGED documentVars
    BY <1>3 DEF ArriveGet
  <2>2. Asks
    <3>1. CASE Reply(t)
      BY <1>r, <3>1
    <3>2. CASE Goto(t, "document") /\ pc[t] = "transit" /\ UNCHANGED req
      BY <1>0, <3>2, GotoAsks
    <3>3. CASE Goto(t, "open") /\ pc[t] = "transit" /\ UNCHANGED req
      BY <1>0, <3>3, GotoAsks
    <3> QED
      BY <1>3, <3>1, <3>2, <3>3 DEF ArriveGet, StartVerification
  <2> QED
    BY <1>1, <2>1, <2>2
<1>4. CASE Dispatch(t)
  <2>1. CASE Reply(t) /\ UNCHANGED documentVars
    BY <1>1, <1>r, <2>1
  <2>2. CASE \E F : ChangeFollowers(req[t].target, F) /\ Goto(t, "invalidate") /\ UNCHANGED req
    <3>1. PICK F : ChangeFollowers(req[t].target, F) /\ Goto(t, "invalidate") /\ UNCHANGED req
      BY <2>2
    <3>2. Asks
      BY <1>0, <1>4, <3>1, GotoAsks DEF Dispatch
    <3>3. Serving'
      BY <1>0, <3>1, <3>2, ServingKept DEF ChangeFollowers
    <3>4. CachedIsCurrent'
      BY <3>1, FollowersCurrent
    <3> QED
      BY <3>3, <3>4
  <2>3. CASE StoreQuote(req[t].target) /\ Reply(t)
    <3>1. Serving'
      BY <1>0, <1>r, <2>3, ServingKept DEF StoreQuote
    <3>2. CachedIsCurrent'
      BY <2>3, QuoteCurrent
    <3> QED
      BY <3>1, <3>2
  <2> QED
    BY <1>4, <2>1, <2>2, <2>3 DEF Dispatch
<1>5. CASE Accepted(t)
  <2>1. Invalidate(FollowersDue) /\ Reply(t)
    BY <1>5 DEF Accepted
  <2>2. CachedIsCurrent' /\ DOMAIN cache' = DOMAIN cache
    BY <2>1, InvalidateCurrent
  <2>3. UNCHANGED <<multi, routes>>
    BY <2>1 DEF Invalidate
  <2> QED
    BY <1>0, <1>r, <2>1, <2>2, <2>3, ServingKept
<1>6. CASE ServeDocument(t)
  <2>1. Serve(req[t].route) /\ Reply(t) /\ req[t].route \in routes
    BY <1>6 DEF ServeDocument, DocumentsInv, RoutedInv, Serving, Asked
  <2>2. CachedIsCurrent' /\ DOMAIN cache' = DOMAIN cache
    BY <2>1, ServeCurrent
  <2>3. UNCHANGED <<multi, routes>>
    BY <2>1 DEF Serve
  <2> QED
    BY <1>0, <1>r, <2>1, <2>2, <2>3, ServingKept
<1>7. CASE Unauthorized(t)
  BY <1>1, <1>7, <1>r DEF Unauthorized
<1>8. CASE Verify(t) /\ UNCHANGED <<documentVars, handler>>
  <2>1. Asks
    BY <1>0, <1>8, VerifyAsks
  <2> QED
    BY <1>1, <1>8, <2>1
<1> QED
  BY <1>2, <1>3, <1>4, <1>5, <1>6, <1>7, <1>8 DEF Respond

(* What is asked for is a route of the server.                             *)
LEMMA SendAsks ==
  ASSUME Assumptions, RoutedInv, NEW t \in Threads, NEW q \in setup.requests[t], Send(t, q),
         UNCHANGED <<setup, documentVars>>
  PROVE  Serving'
<1>1. q.method = "GET" => q.route \in routes
  BY DEF Assumptions, ServerAssumption, RoutedInv, Serving, ServerInv
<1>2. Sent(q)
  BY DEF Assumptions, ServerAssumption, RoutedInv, ServerInv
<1>3. /\ req'[t] = [q EXCEPT !.key = key[q.owner], !.date = now]
      /\ \A u \in Threads \ {t} : req'[u] = req[u] /\ pc'[u] = pc[u]
  BY DEF Send, Goto, RoutedInv, ServerInv, LocalsTyped
<1>4. /\ req'[t].method = q.method
      /\ q.method = "GET" => req'[t].route = q.route
  BY <1>2, <1>3 DEF Sent
<1>5. UNCHANGED <<setup, multi, routes, cache>>
  BY DEF documentVars
<1>6. ASSUME NEW u \in Threads PROVE Asked(u)'
  <2>1. CASE u = t
    BY <1>1, <1>4, <1>5, <2>1 DEF Asked
  <2>2. CASE u # t
    BY <1>3, <1>5, <2>2 DEF RoutedInv, Serving, Asked
  <2> QED
    BY <2>1, <2>2
<1> QED
  BY <1>5, <1>6 DEF RoutedInv, Serving

LEMMA RemoteCurrent ==
  ASSUME Assumptions, DocumentsInv, Remote, UNCHANGED <<setup, documentVars>>
  PROVE  Serving' /\ CachedIsCurrent'
<1>0. RoutedInv /\ UNCHANGED <<multi, routes>> /\ DOMAIN cache' = DOMAIN cache
  BY DEF DocumentsInv, documentVars
<1>1. CachedIsCurrent'
  BY DocumentsIdle
<1>2. CASE UNCHANGED threadVars
  BY <1>0, <1>1, <1>2, ServingKept DEF threadVars
<1>3. ASSUME NEW t \in Threads, NEW q \in setup.requests[t], Send(t, q) PROVE Serving'
  BY <1>0, <1>3, SendAsks
<1> QED
  BY <1>1, <1>2, <1>3 DEF Remote, Tick, Rotate, Relist

LEMMA ApplicationCurrent ==
  ASSUME Assumptions, DocumentsInv, Change(setup.active) \/ CatchUp,
         UNCHANGED <<setup, verificationVars>>
  PROVE  Serving' /\ CachedIsCurrent'
<1>0. RoutedInv /\ UNCHANGED <<pc, req>> /\ setup.active \subseteq Users
  BY DEF DocumentsInv, verificationVars, threadVars, Assumptions, ServerAssumption,
     RoutedInv, ServerInv
<1>1. ASSUME NEW a \in Activities, Publish(a) PROVE Serving' /\ CachedIsCurrent'
  BY <1>0, <1>1, PublishCurrent, ServingKept DEF Publish
<1>2. ASSUME NEW u \in Users, EditProfile(u) PROVE Serving' /\ CachedIsCurrent'
  BY <1>0, <1>2, EditCurrent, ServingKept DEF EditProfile
<1>3. ASSUME NEW d \in due, Invalidate(d) PROVE Serving' /\ CachedIsCurrent'
  BY <1>0, <1>3, InvalidateCurrent, ServingKept DEF Invalidate
<1>4. ASSUME NEW k \in DOMAIN cache, Expire(k) PROVE Serving' /\ CachedIsCurrent'
  <2>1. /\ cache' = [cache EXCEPT ![k] = NoEntry]
        /\ UNCHANGED <<multi, routes, profile, published, quotes, fans, due>>
    BY <1>4 DEF Expire, contents
  <2>2. Serving'
    BY <1>0, <2>1, ServingKept
  <2>3. ASSUME NEW r \in routes PROVE Render(r)' = Render(r) /\ (Rejected(r)' <=> Rejected(r))
    BY <2>1 DEF Render, ActorDocument, OutboxPage, FollowersCollection, NodeInfo,
       ActivityDocument, Authorization, Rejected
  <2>4. ASSUME NEW r \in routes, cache'[Key(r)] # NoEntry PROVE cache'[Key(r)] = cache[Key(r)]
    BY <2>1, <2>4 DEF DocumentsInv, RoutedInv, Serving
  <2>5. CachedIsCurrent'
    BY <2>1, <2>3, <2>4 DEF DocumentsInv, CachedIsCurrent
  <2> QED
    BY <2>2, <2>5
<1> QED
  BY <1>0, <1>1, <1>2, <1>3, <1>4 DEF Change, CatchUp

LEMMA DocumentsStep ==
  ASSUME Assumptions, SpellingsAgree, DocumentsInv, [Next]_serverVars
  PROVE  DocumentsInv'
<1>1. ServerInv'
  BY ServerInvStep DEF DocumentsInv, RoutedInv
<1>2. CASE UNCHANGED serverVars
  <2>1. UNCHANGED <<setup, documentVars, pc, req>>
    BY <1>2 DEF serverVars, verificationVars, threadVars
  <2>2. Serving'
    BY <2>1, ServingKept DEF DocumentsInv, documentVars
  <2>3. CachedIsCurrent'
    BY <2>1, DocumentsIdle
  <2> QED
    BY <1>1, <2>2, <2>3 DEF DocumentsInv, RoutedInv
<1>3. CASE Next
  <2>1. CASE \E t \in Threads : Respond(t)
    BY <1>1, <1>3, <2>1, RespondCurrent DEF Next, DocumentsInv, RoutedInv
  <2>2. CASE Remote /\ UNCHANGED <<documentVars, handler>>
    BY <1>1, <1>3, <2>2, RemoteCurrent DEF Next, DocumentsInv, RoutedInv
  <2>3. CASE (Change(setup.active) \/ CatchUp) /\ UNCHANGED <<verificationVars, handler>>
    BY <1>1, <1>3, <2>3, ApplicationCurrent DEF Next, DocumentsInv, RoutedInv
  <2> QED
    BY <1>3, <2>1, <2>2, <2>3 DEF Next
<1> QED
  BY <1>2, <1>3

LEMMA DocumentsInitially ==
  ASSUME Assumptions
  PROVE  Init => DocumentsInv
<1> SUFFICES ASSUME Init PROVE DocumentsInv
  OBVIOUS
<1>1. ServerInv
  BY ServerInvInit
<1>2. Serving
  BY DEF Init, VerificationInit, DocumentsInit, Serving, Asked
<1>3. CachedIsCurrent
  BY DEF Init, DocumentsInit, CachedIsCurrent
<1> QED
  BY <1>1, <1>2, <1>3 DEF DocumentsInv, RoutedInv

(* Where the spellings that share a key agree, whatever the document routes *)
(* find in the cache is what they would render, but for what an             *)
(* invalidation is on its way to and for the miss of an object.             *)
THEOREM CacheAlwaysCurrent ==
  ASSUME SpellingsAgree
  PROVE  Spec => []CachedIsCurrent
<1> Assumptions
  BY VerificationAssumption, ServerAssumption DEF Assumptions
<1>1. DocumentsInv => CachedIsCurrent
  BY DEF DocumentsInv
<1>2. Init => DocumentsInv
  BY DocumentsInitially
<1>3. DocumentsInv /\ [Next]_serverVars => DocumentsInv'
  BY DocumentsStep
<1> QED
  BY <1>1, <1>2, <1>3, PTL DEF Spec

----------------------------------------------------------------------------
(* Who is admitted: what was checked with the first document still counts  *)
(* when the second has been read.                                          *)
Checked(t) ==
  /\ pc[t] \in Verifying /\ ~Signer(t) =>
       /\ req[t].sound
       /\ req[t].dated =>
            /\ pc[t] = "document" => now <= req[t].date + MaxSkew
            /\ pc[t] \in {"fetch", "received"} => since[t] <= req[t].date + MaxSkew
            /\ pc[t] = "check" => now <= req[t].date + MaxSkew + FetchTime
  /\ pc[t] = "admitted" =>
       /\ req[t].sound
       /\ req[t].dated =>
            now <= req[t].date + MaxSkew + (IF Delegated(t) THEN FetchTime ELSE 0)

CheckedInv == ServerInv /\ \A t \in Threads : Checked(t)

(* Nothing was checked for a thread that does not verify.                  *)
LEMMA NothingChecked ==
  ASSUME NEW t \in Threads, pc[t] \notin Verifying, pc[t] # "admitted"
  PROVE  Checked(t)
BY DEF Checked

LEMMA CheckedStays ==
  ASSUME NEW t \in Threads, Checked(t), UNCHANGED now,
         pc'[t] = pc[t], req'[t] = req[t], about'[t] = about[t], since'[t] = since[t]
  PROVE  Checked(t)'
BY DEF Checked, Signer, Delegated

(* A step of verification moves its own thread only.                       *)
LEMMA VerifyApart ==
  ASSUME ServerInv, NEW t \in Threads, Verify(t), NEW u \in Threads \ {t}
  PROVE  /\ pc'[u] = pc[u] /\ req'[u] = req[u] /\ about'[u] = about[u] /\ since'[u] = since[u]
         /\ UNCHANGED now
BY DEF Verify, ReadCopy, Answer, StoreCopy, CheckDelegation, Admit, Refuse, Goto, ServerInv,
   LocalsTyped

LEMMA VerifyChecks ==
  ASSUME Assumptions, CheckedInv, NEW t \in Threads, Verify(t)
  PROVE  Checked(t)'
<1>1. /\ Checked(t) /\ Requested(t) /\ Subject(t) /\ Reading(t)
      /\ now \in Nat /\ since[t] \in Nat /\ MaxSkew \in Nat /\ FetchTime \in Nat
  BY DEF CheckedInv, ServerInv, ThreadInv, ClocksTyped, LocalsTyped, Assumptions,
     VerificationAssumption
<1>2. /\ pc[t] \in {"document", "fetch", "received", "check"}
      /\ UNCHANGED <<now, req>>
      /\ req[t].date \in Nat
  BY <1>1 DEF Verify, ReadCopy, Answer, StoreCopy, CheckDelegation, Admit, Refuse, Requested
<1>3. /\ \A p : Goto(t, p) => pc'[t] = p
      /\ UNCHANGED about => Signer(t)' = Signer(t)
      /\ Delegated(t)' = Delegated(t)
  BY <1>2 DEF CheckedInv, ServerInv, LocalsTyped, Goto, Signer, Delegated
<1>4. CASE ReadCopy(t)
  <2>1. pc'[t] = "check" \/ (pc'[t] = "fetch" /\ since'[t] = now)
    BY <1>3, <1>4 DEF ReadCopy, CheckedInv, ServerInv, LocalsTyped
  <2>2. pc[t] = "document" /\ UNCHANGED about
    BY <1>4 DEF ReadCopy
  <2>3. ~Signer(t) => req[t].sound /\ (req[t].dated => now <= req[t].date + MaxSkew)
    BY <1>1, <2>2 DEF Checked, Verifying
  <2>4. ~Signer(t) /\ req[t].dated => now <= req[t].date + MaxSkew + FetchTime
    BY <1>1, <1>2, <2>3
  <2> QED
    BY <1>2, <1>3, <2>1, <2>2, <2>3, <2>4 DEF Checked
<1>5. CASE Answer(t)
  BY <1>1, <1>2, <1>3, <1>5 DEF Answer, Checked, Verifying
<1>6. CASE StoreCopy(t)
  <2>1. pc[t] = "received" /\ pc'[t] = "check" /\ UNCHANGED about
    BY <1>3, <1>6 DEF StoreCopy
  <2>2. ~Signer(t) => req[t].sound /\ (req[t].dated => since[t] <= req[t].date + MaxSkew)
    BY <1>1, <2>1 DEF Checked, Verifying
  <2>3. now <= since[t] + FetchTime
    BY <1>1, <2>1 DEF Reading
  <2>4. ~Signer(t) /\ req[t].dated => now <= req[t].date + MaxSkew + FetchTime
    BY <1>1, <1>2, <2>2, <2>3
  <2> QED
    BY <1>2, <1>3, <2>1, <2>2, <2>4 DEF Checked
<1>7. CASE CheckDelegation(t)
  <2>1. pc'[t] = "document" /\ req[t].sound /\ Fresh(req[t])
    BY <1>3, <1>7 DEF CheckDelegation, Verified
  <2>2. req[t].dated => now <= req[t].date + MaxSkew
    BY <1>1, <1>2, <2>1 DEF Fresh
  <2> QED
    BY <1>2, <2>1, <2>2 DEF Checked
<1>8. CASE Admit(t)
  <2>1. pc[t] = "check" /\ pc'[t] = "admitted"
    BY <1>3, <1>8 DEF Admit
  <2>2. CASE Signer(t)
    <3>1. req[t].sound /\ Fresh(req[t]) /\ ~Delegated(t)
      BY <1>8, <2>2 DEF Admit, Verified
    <3>2. req[t].dated => now <= req[t].date + MaxSkew + 0
      BY <1>1, <1>2, <3>1 DEF Fresh
    <3> QED
      BY <1>2, <1>3, <2>1, <3>1, <3>2 DEF Checked, Verifying
  <2>3. CASE ~Signer(t)
    <3>1. Delegated(t)
      BY <1>1, <2>1, <2>3 DEF Subject, Verifying
    <3>2. req[t].sound /\ (req[t].dated => now <= req[t].date + MaxSkew + FetchTime)
      BY <1>1, <2>1, <2>3 DEF Checked, Verifying
    <3> QED
      BY <1>2, <1>3, <2>1, <3>1, <3>2 DEF Checked, Verifying
  <2> QED
    BY <2>2, <2>3
<1>9. CASE Refuse(t)
  BY <1>3, <1>9 DEF Refuse, Checked, Verifying
<1> QED
  BY <1>4, <1>5, <1>6, <1>7, <1>8, <1>9 DEF Verify

(* A response ends with a thread that has checked nothing, and so does     *)
(* whoever opens a document or starts to verify.                           *)
LEMMA RespondChecks ==
  ASSUME Assumptions, CheckedInv, NEW t \in Threads, Respond(t)
  PROVE  \A u \in Threads : Checked(u)'
<1>1. ServerInv /\ LocalsTyped /\ \A u \in Threads : Checked(u)
  BY DEF CheckedInv, ServerInv
<1>2. CASE Verify(t)
  <2>1. ASSUME NEW u \in Threads \ {t} PROVE Checked(u)'
    BY <1>1, <1>2, VerifyApart, CheckedStays
  <2> QED
    BY <1>2, <2>1, VerifyChecks
<1>3. CASE ~Verify(t)
  <2>1. \/ Reply(t)
        \/ \E p \in {"open", "invalidate"} :
             Goto(t, p) /\ UNCHANGED <<now, req, about, since>>
        \/ StartVerification(t) /\ UNCHANGED <<now, req, since>>
    BY <1>3 DEF Respond, ArrivePost, ArriveGet, Dispatch, Accepted, ServeDocument, Unauthorized
  <2>2. UNCHANGED now
    BY <2>1 DEF Reply
  <2>3. ASSUME NEW u \in Threads \ {t}
        PROVE  pc'[u] = pc[u] /\ req'[u] = req[u] /\ about'[u] = about[u] /\ since'[u] = since[u]
    BY <1>1, <2>1 DEF Reply, StartVerification, Goto, LocalsTyped
  <2>4. \/ pc'[t] \in {"idle", "open", "invalidate"}
        \/ pc'[t] = "document" /\ about'[t] = req'[t].owner
    BY <1>1, <2>1 DEF Reply, StartVerification, Goto, LocalsTyped
  <2>5. Checked(t)'
    BY <2>4 DEF Checked, Signer, Verifying
  <2>6. ASSUME NEW u \in Threads \ {t} PROVE Checked(u)'
    BY <1>1, <2>2, <2>3, CheckedStays
  <2> QED
    BY <2>5, <2>6
<1> QED
  BY <1>2, <1>3

LEMMA CheckedStep ==
  ASSUME Assumptions, CheckedInv, [Next]_serverVars
  PROVE  CheckedInv'
<1>1. ServerInv'
  BY ServerInvStep DEF CheckedInv
<1>2. \A t \in Threads : Checked(t)
  BY DEF CheckedInv
<1>3. CASE UNCHANGED <<now, threadVars>>
  BY <1>1, <1>2, <1>3, CheckedStays DEF CheckedInv, threadVars
<1>4. CASE Tick
  <2>1. /\ now' = now + 1 /\ now \in Nat /\ MaxSkew \in Nat /\ FetchTime \in Nat
        /\ UNCHANGED threadVars
    BY <1>4 DEF Tick, CheckedInv, ServerInv, ClocksTyped, Assumptions, VerificationAssumption
  <2>2. ASSUME NEW t \in Threads PROVE Checked(t)'
    <3>1. \/ pc[t] \in {"idle", "transit"}
          \/ pc[t] \in {"fetch", "received"}
      BY <1>4 DEF Tick
    <3> QED
      BY <1>2, <2>1, <3>1 DEF Checked, Verifying, Signer, threadVars
  <2> QED
    BY <1>1, <2>2 DEF CheckedInv
<1>5. CASE \E a, S : Rotate(a) \/ Relist(a, S)
  BY <1>3, <1>5 DEF Rotate, Relist
<1>6. CASE \E t \in Threads : \E q \in setup.requests[t] : Send(t, q)
  <2>1. PICK t \in Threads : \E q \in setup.requests[t] : Send(t, q)
    BY <1>6
  <2>2. pc'[t] = "transit"
    BY <2>1 DEF Send, Goto, CheckedInv, ServerInv, LocalsTyped
  <2>3. ASSUME NEW u \in Threads \ {t} PROVE Checked(u)'
    <3>1. /\ pc'[u] = pc[u] /\ req'[u] = req[u] /\ about'[u] = about[u] /\ since'[u] = since[u]
          /\ UNCHANGED now
      BY <2>1 DEF Send, Goto, CheckedInv, ServerInv, LocalsTyped
    <3> QED
      BY <1>2, <3>1, CheckedStays
  <2>4. Checked(t)'
    BY <2>2 DEF Checked, Verifying
  <2> QED
    BY <1>1, <2>3, <2>4 DEF CheckedInv
<1>7. CASE \E t \in Threads : Respond(t)
  BY <1>1, <1>7, RespondChecks DEF CheckedInv
<1>8. UNCHANGED serverVars \/ UNCHANGED verificationVars => UNCHANGED <<now, threadVars>>
  BY DEF serverVars, verificationVars
<1> QED
  BY <1>3, <1>4, <1>5, <1>6, <1>7, <1>8 DEF Next, Remote

LEMMA CheckedInitially == ASSUME Assumptions PROVE Init => CheckedInv
<1> SUFFICES ASSUME Init PROVE CheckedInv
  OBVIOUS
<1>1. \A t \in Threads : pc[t] = "idle"
  BY DEF Init, VerificationInit
<1> QED
  BY <1>1, ServerInvInit DEF CheckedInv, Checked, Verifying

(* A request with a signed Date is admitted for no longer than the skew    *)
(* that is allowed, and one GET if the signer speaks for somebody else.    *)
THEOREM DatesAlwaysExpire == Spec => []DatesExpire
<1> Assumptions
  BY VerificationAssumption, ServerAssumption DEF Assumptions
<1>1. CheckedInv => DatesExpire
  BY DEF CheckedInv, Checked, DatesExpire
<1>2. Init => CheckedInv
  BY CheckedInitially
<1>3. CheckedInv /\ [Next]_serverVars => CheckedInv'
  BY CheckedStep
<1> QED
  BY <1>1, <1>2, <1>3, PTL DEF Spec

----------------------------------------------------------------------------
(* Who speaks for whom: a key that a document listed is listed still, or   *)
(* it was withdrawn no earlier than that document was asked for.           *)
Spoke(a, b, x) ==
  \/ b \in listed[a]
  \/ \E w \in withdrawn : w.by = a /\ w.of = b /\ x <= w.at

Heard(t) ==
  /\ pc[t] = "received" => \A b \in listing[t] : Spoke(about[t], b, since[t])
  /\ pc[t] = "check" => \A b \in listing[t] : Spoke(about[t], b, now - FetchTime - MaxAge)
  /\ pc[t] = "admitted" /\ Delegated(t) =>
       Spoke(req[t].actor, req[t].owner, now - FetchTime - MaxAge)

CopiesList ==
  \A a \in Remotes : copies[a] # NoCopy =>
    \A b \in copies[a].lists : Spoke(a, b, copies[a].at - FetchTime)

ListedInv == CheckedInv /\ CopiesList /\ \A t \in Threads : Heard(t)

(* What was listed at a time was listed before, too.                       *)
LEMMA SpokeBefore ==
  ASSUME ClocksTyped, NEW a \in Remotes, NEW b, NEW x \in Int, NEW y \in Int, y <= x,
         Spoke(a, b, x)
  PROVE  Spoke(a, b, y)
<1>1. CASE b \in listed[a]
  BY <1>1 DEF Spoke
<1>2. CASE \E w \in withdrawn : w.by = a /\ w.of = b /\ x <= w.at
  <2>1. PICK w \in withdrawn : w.by = a /\ w.of = b /\ x <= w.at
    BY <1>2
  <2>2. w.at \in Int
    BY DEF ClocksTyped
  <2>3. y <= w.at
    BY <2>1, <2>2
  <2> QED
    BY <2>1, <2>3 DEF Spoke
<1> QED
  BY <1>1, <1>2 DEF Spoke

(* An actor that stops listing a key does so now, and nothing else changes *)
(* what was listed.                                                        *)
LEMMA SpokeStays ==
  ASSUME ClocksTyped, NEW a \in Remotes, NEW b, NEW x \in Int, Spoke(a, b, x),
         \/ UNCHANGED <<listed, withdrawn>>
         \/ x <= now /\ \E c, S : Relist(c, S)
  PROVE  b \in listed'[a] \/ \E w \in withdrawn' : w.by = a /\ w.of = b /\ x <= w.at
<1>1. CASE UNCHANGED <<listed, withdrawn>>
  BY <1>1 DEF Spoke
<1>2. CASE x <= now /\ \E c, S : Relist(c, S)
  <2>1. PICK c, S : Relist(c, S)
    BY <1>2
  <2>2. CASE \E w \in withdrawn : w.by = a /\ w.of = b /\ x <= w.at
    BY <2>1, <2>2 DEF Relist
  <2>3. CASE b \in listed[a] /\ b \in listed'[a]
    BY <2>3
  <2>4. CASE b \in listed[a] /\ b \notin listed'[a]
    <3>1. a = c /\ b \in listed[c] \ S
      BY <2>1, <2>4 DEF Relist, ClocksTyped
    <3>2. [by |-> c, of |-> b, at |-> now] \in withdrawn'
      BY <2>1, <3>1 DEF Relist
    <3> QED
      BY <1>2, <3>1, <3>2
  <2> QED
    BY <2>2, <2>3, <2>4 DEF Spoke
<1> QED
  BY <1>1, <1>2

(* What is known of the lists stays so while time stands still and the     *)
(* thread does nothing.                                                    *)
LEMMA HeardStays ==
  ASSUME Assumptions, ListedInv, NEW t \in Threads,
         pc[t] \in {"check", "admitted"} => UNCHANGED now,
         pc'[t] = pc[t], req'[t] = req[t], about'[t] = about[t], since'[t] = since[t],
         listing'[t] = listing[t],
         UNCHANGED <<listed, withdrawn>> \/ \E c, S : Relist(c, S)
  PROVE  Heard(t)'
<1>1. /\ ClocksTyped /\ Heard(t) /\ now \in Nat /\ since[t] \in Nat
      /\ MaxAge \in Nat /\ FetchTime \in Nat
      /\ pc[t] = "received" => since[t] <= now
      /\ pc[t] \in {"received", "check"} => about[t] \in Remotes
      /\ pc[t] = "admitted" /\ Delegated(t) => req[t].actor \in Remotes
  BY DEF ListedInv, CheckedInv, ServerInv, ClocksTyped, LocalsTyped, ThreadInv, Reading, Subject,
     Requested, Delegated, Verifying, Assumptions, VerificationAssumption
<1>2. CASE pc[t] = "received"
  <2>1. ASSUME NEW b \in listing[t]
        PROVE  \/ b \in listed'[about[t]]
               \/ \E w \in withdrawn' : w.by = about[t] /\ w.of = b /\ since[t] <= w.at
    BY <1>1, <1>2, SpokeStays DEF Heard
  <2> QED
    BY <1>2, <2>1 DEF Heard, Spoke
<1> DEFINE x == now - FetchTime - MaxAge
<1>3. x \in Int /\ x <= now
  BY <1>1
<1>4. CASE pc[t] = "check"
  <2>1. ASSUME NEW b \in listing[t]
        PROVE  \/ b \in listed'[about[t]]
               \/ \E w \in withdrawn' : w.by = about[t] /\ w.of = b /\ x <= w.at
    <3>1. Spoke(about[t], b, x)
      BY <1>1, <1>4 DEF Heard
    <3> HIDE DEF x
    <3> QED
      BY <1>1, <1>3, <1>4, <3>1, SpokeStays
  <2> QED
    BY <1>4, <2>1 DEF Heard, Spoke
<1>5. CASE pc[t] = "admitted" /\ Delegated(t)
  <2>1. \/ req[t].owner \in listed'[req[t].actor]
        \/ \E w \in withdrawn' : w.by = req[t].actor /\ w.of = req[t].owner /\ x <= w.at
    <3>1. Spoke(req[t].actor, req[t].owner, x)
      BY <1>1, <1>5 DEF Heard
    <3> HIDE DEF x
    <3> QED
      BY <1>1, <1>3, <1>5, <3>1, SpokeStays
  <2> QED
    BY <1>5, <2>1 DEF Heard, Spoke
<1> QED
  BY <1>2, <1>4, <1>5 DEF Heard, Delegated

LEMMA CopiesListStays ==
  ASSUME Assumptions, ListedInv, UNCHANGED copies,
         UNCHANGED <<listed, withdrawn>> \/ \E c, S : Relist(c, S)
  PROVE  CopiesList'
<1> SUFFICES ASSUME NEW a \in Remotes, copies[a] # NoCopy, NEW b \in copies[a].lists
             PROVE  \/ b \in listed'[a]
                    \/ \E w \in withdrawn' : w.by = a /\ w.of = b /\ copies[a].at - FetchTime <= w.at
  BY DEF CopiesList, Spoke
<1> DEFINE x == copies[a].at - FetchTime
<1>1. /\ ClocksTyped /\ now \in Nat /\ FetchTime \in Nat
      /\ copies[a].at \in Nat /\ copies[a].at <= now
  BY DEF ListedInv, CheckedInv, ServerInv, ClocksTyped, CopiesLag, Assumptions,
     VerificationAssumption
<1>2. x \in Int /\ x <= now
  BY <1>1
<1>3. Spoke(a, b, x)
  BY DEF ListedInv, CopiesList
<1> HIDE DEF x
<1>4. b \in listed'[a] \/ \E w \in withdrawn' : w.by = a /\ w.of = b /\ x <= w.at
  BY <1>1, <1>2, <1>3, SpokeStays
<1> QED
  BY <1>4 DEF x

(* A thread that is not told of a list knows nothing of one.               *)
LEMMA NothingHeard ==
  ASSUME NEW t \in Threads, pc[t] \notin {"received", "check", "admitted"}
  PROVE  Heard(t)
BY DEF Heard

(* What a step of verification makes of the lists its thread has read.     *)
LEMMA VerifyHears ==
  ASSUME Assumptions, ListedInv, NEW t \in Threads, Verify(t)
  PROVE  Heard(t)' /\ CopiesList'
<1>1. /\ ClocksTyped /\ CopiesLag /\ Heard(t) /\ Subject(t) /\ Reading(t) /\ CopiesList
      /\ now \in Nat /\ since[t] \in Nat /\ MaxAge \in Nat /\ FetchTime \in Nat
      /\ LocalsTyped
  BY DEF ListedInv, CheckedInv, ServerInv, ThreadInv, ClocksTyped, LocalsTyped, Assumptions,
     VerificationAssumption
<1>2. /\ pc[t] \in Verifying /\ UNCHANGED <<now, listed, withdrawn, req>>
      /\ about[t] \in Remotes
      /\ \A p : Goto(t, p) => pc'[t] = p
  BY <1>1 DEF Verify, ReadCopy, Answer, StoreCopy, CheckDelegation, Admit, Refuse, Verifying,
     remoteVars, Subject, Goto, LocalsTyped
<1>3. UNCHANGED copies => CopiesList'
  BY <1>2, CopiesListStays
<1> DEFINE x == now - FetchTime - MaxAge
<1>4. x \in Int
  BY <1>1
<1>5. CASE ReadCopy(t)
  <2>1. pc'[t] \in {"check", "fetch"} /\ UNCHANGED <<about, copies>>
    BY <1>2, <1>5 DEF ReadCopy
  <2>2. CASE pc'[t] = "check"
    <3>1. /\ Cached(about[t]) /\ listing'[t] = copies[about[t]].lists
      BY <1>1, <1>2, <1>5, <2>2 DEF ReadCopy, LocalsTyped
    <3>2. /\ copies[about[t]].at \in Nat /\ now - copies[about[t]].at <= MaxAge
          /\ copies[about[t]] # NoCopy
      BY <1>1, <1>2, <3>1 DEF Cached, CopiesLag
    <3>3. copies[about[t]].at - FetchTime \in Int /\ x <= copies[about[t]].at - FetchTime
      BY <1>1, <3>2
    <3>4. ASSUME NEW b \in copies[about[t]].lists PROVE Spoke(about[t], b, x)
      <4>1. Spoke(about[t], b, copies[about[t]].at - FetchTime)
        BY <1>1, <1>2, <3>2 DEF CopiesList
      <4> HIDE DEF x
      <4> QED
        BY <1>1, <1>2, <1>4, <3>3, <4>1, SpokeBefore
    <3> QED
      BY <1>2, <1>3, <2>1, <2>2, <3>1, <3>4 DEF Heard, Spoke
  <2>3. CASE pc'[t] = "fetch"
    BY <1>3, <2>1, <2>3 DEF Heard
  <2> QED
    BY <2>1, <2>2, <2>3
<1>6. CASE Answer(t)
  <2>1. /\ pc'[t] = "received" /\ UNCHANGED <<about, since, copies>>
        /\ listing'[t] = listed[about[t]]
    BY <1>1, <1>2, <1>6 DEF Answer, LocalsTyped
  <2> QED
    BY <1>2, <1>3, <2>1 DEF Heard, Spoke
<1>7. CASE StoreCopy(t)
  <2>1. /\ pc[t] = "received" /\ pc'[t] = "check" /\ UNCHANGED <<about, listing>>
    BY <1>2, <1>7 DEF StoreCopy
  <2>2. now <= since[t] + FetchTime
    BY <1>1, <2>1 DEF Reading
  <2>3. x <= since[t] /\ now - FetchTime <= since[t] /\ now - FetchTime \in Int
    BY <1>1, <2>2
  <2>4. ASSUME NEW b \in listing[t], NEW y \in Int, y <= since[t]
        PROVE  Spoke(about[t], b, y)
    BY <1>1, <1>2, <2>1, <2>4, SpokeBefore DEF Heard
  <2>5. Heard(t)'
    <3>1. ASSUME NEW b \in listing[t] PROVE Spoke(about[t], b, x)
      BY <1>4, <2>3, <2>4
    <3> QED
      BY <1>2, <2>1, <3>1 DEF Heard, Spoke
  <2>6. CopiesList'
    <3>1. CASE copies' = [copies EXCEPT ![about[t]] =
                            [key |-> got[t], lists |-> listing[t], at |-> now]]
      <4> SUFFICES ASSUME NEW a \in Remotes, copies'[a] # NoCopy, NEW b \in copies'[a].lists
                   PROVE  Spoke(a, b, copies'[a].at - FetchTime)
        BY <1>2 DEF CopiesList, Spoke
      <4>1. CASE a = about[t]
        <5>1. copies'[a].lists = listing[t] /\ copies'[a].at = now
          BY <1>1, <3>1, <4>1 DEF CopiesLag
        <5> QED
          BY <2>3, <2>4, <4>1, <5>1
      <4>2. CASE a # about[t]
        <5>1. copies'[a] = copies[a]
          BY <1>1, <3>1, <4>2 DEF CopiesLag
        <5> QED
          BY <1>1, <5>1 DEF CopiesList
      <4> QED
        BY <4>1, <4>2
    <3> QED
      BY <1>3, <1>7, <3>1 DEF StoreCopy
  <2> QED
    BY <2>5, <2>6
<1>8. CASE CheckDelegation(t) \/ Refuse(t)
  <2>1. pc'[t] \in {"document", "refused"} /\ UNCHANGED copies
    BY <1>2, <1>8 DEF CheckDelegation, Refuse
  <2> QED
    BY <1>3, <2>1 DEF Heard
<1>9. CASE Admit(t)
  <2>1. pc[t] = "check" /\ pc'[t] = "admitted" /\ UNCHANGED copies
    BY <1>2, <1>9 DEF Admit
  <2>2. Delegated(t) => about[t] = req[t].actor /\ Owned(t)
    BY <1>1, <1>2, <1>9 DEF Admit, Subject
  <2>3. Delegated(t) => Spoke(req[t].actor, req[t].owner, x)
    BY <1>1, <2>1, <2>2 DEF Heard, Owned
  <2> QED
    BY <1>2, <1>3, <2>1, <2>3 DEF Heard, Spoke, Delegated
<1> QED
  BY <1>5, <1>6, <1>7, <1>8, <1>9 DEF Verify

LEMMA ListedStep ==
  ASSUME Assumptions, ListedInv, [Next]_serverVars
  PROVE  ListedInv'
<1>1. CheckedInv'
  BY CheckedStep DEF ListedInv
<1>2. LocalsTyped
  BY DEF ListedInv, CheckedInv, ServerInv
<1>3. CASE UNCHANGED verificationVars
  <2>1. UNCHANGED <<now, listed, withdrawn, copies, pc, req, about, listing, since>>
    BY <1>3 DEF verificationVars, remoteVars, threadVars
  <2> QED
    BY <1>1, <2>1, HeardStays, CopiesListStays DEF ListedInv
<1>4. CASE Tick
  <2>1. UNCHANGED <<listed, withdrawn, copies, pc, req, about, listing, since>>
    BY <1>4 DEF Tick, remoteVars, threadVars
  <2>2. \A t \in Threads : pc[t] \notin {"check", "admitted"}
    BY <1>4 DEF Tick
  <2> QED
    BY <1>1, <2>1, <2>2, HeardStays, CopiesListStays DEF ListedInv
<1>5. CASE \E a, S : Rotate(a) \/ Relist(a, S)
  <2>1. /\ UNCHANGED <<now, copies, pc, req, about, listing, since>>
        /\ UNCHANGED <<listed, withdrawn>> \/ \E a, S : Relist(a, S)
    BY <1>5 DEF Rotate, Relist, threadVars
  <2> QED
    BY <1>1, <2>1, HeardStays, CopiesListStays DEF ListedInv
<1>6. ASSUME NEW t \in Threads, NEW q, Send(t, q) PROVE ListedInv'
  <2>1. UNCHANGED <<now, listed, withdrawn, copies, about, listing, since>> /\ pc'[t] = "transit"
    BY <1>2, <1>6 DEF Send, Goto, remoteVars, LocalsTyped
  <2>2. ASSUME NEW u \in Threads \ {t} PROVE pc'[u] = pc[u] /\ req'[u] = req[u]
    BY <1>2, <1>6 DEF Send, Goto, LocalsTyped
  <2>3. ASSUME NEW u \in Threads \ {t} PROVE Heard(u)'
    BY <2>1, <2>2, HeardStays
  <2>4. Heard(t)'
    BY <2>1 DEF Heard
  <2> QED
    BY <1>1, <2>1, <2>3, <2>4, CopiesListStays DEF ListedInv
<1>7. ASSUME NEW t \in Threads, Verify(t) PROVE ListedInv'
  <2>1. ASSUME NEW u \in Threads \ {t}
        PROVE  /\ pc'[u] = pc[u] /\ req'[u] = req[u] /\ about'[u] = about[u]
               /\ since'[u] = since[u] /\ UNCHANGED now
               /\ listing'[u] = listing[u] /\ UNCHANGED <<listed, withdrawn>>
    <3>1. listing'[u] = listing[u] /\ UNCHANGED <<listed, withdrawn>>
      BY <1>2, <1>7 DEF Verify, ReadCopy, Answer, StoreCopy, CheckDelegation, Admit, Refuse,
         LocalsTyped, remoteVars
    <3> QED
      BY <1>7, <3>1, VerifyApart DEF ListedInv, CheckedInv
  <2>2. ASSUME NEW u \in Threads \ {t} PROVE Heard(u)'
    BY <2>1, HeardStays
  <2> QED
    BY <1>1, <1>7, <2>2, VerifyHears DEF ListedInv
<1>8. ASSUME NEW t \in Threads, Respond(t), ~Verify(t) PROVE ListedInv'
  <2>1. \/ Reply(t)
        \/ \E p \in {"open", "invalidate"} :
             Goto(t, p) /\ UNCHANGED <<now, remoteVars, copies, req, about, listing, since>>
        \/ StartVerification(t) /\ UNCHANGED <<now, remoteVars, copies, req, listing, since>>
    BY <1>8 DEF Respond, ArrivePost, ArriveGet, Dispatch, Accepted, ServeDocument, Unauthorized
  <2>2. UNCHANGED <<now, listed, withdrawn, copies>>
    BY <2>1 DEF Reply, remoteVars
  <2>3. ASSUME NEW u \in Threads \ {t}
        PROVE  /\ pc'[u] = pc[u] /\ req'[u] = req[u] /\ about'[u] = about[u]
               /\ since'[u] = since[u] /\ listing'[u] = listing[u]
    BY <1>2, <2>1 DEF Reply, StartVerification, Goto, LocalsTyped
  <2>4. pc'[t] \in {"idle", "open", "invalidate", "document"}
    BY <1>2, <2>1 DEF Reply, StartVerification, Goto, LocalsTyped
  <2>5. ASSUME NEW u \in Threads \ {t} PROVE Heard(u)'
    BY <2>2, <2>3, HeardStays
  <2>6. Heard(t)'
    BY <2>4 DEF Heard
  <2> QED
    BY <1>1, <2>2, <2>5, <2>6, CopiesListStays DEF ListedInv
<1>9. UNCHANGED serverVars => UNCHANGED verificationVars
  BY DEF serverVars
<1> QED
  BY <1>3, <1>4, <1>5, <1>6, <1>7, <1>8, <1>9 DEF Next, Remote

(* Nobody is admitted without a good signature, and whoever speaks for an  *)
(* actor has a key that the document of that one lists, or listed until    *)
(* no longer ago than a copy is kept and a GET takes.                      *)
THEOREM SpeakersAlwaysListed == Spec => []SpeakersListed
<1> Assumptions
  BY VerificationAssumption, ServerAssumption DEF Assumptions
<1>1. ListedInv => SpeakersListed
  <2> SUFFICES ASSUME ListedInv, NEW t \in Threads, pc[t] = "admitted"
               PROVE  /\ req[t].sound
                      /\ Delegated(t) =>
                           \/ req[t].owner \in listed[req[t].actor]
                           \/ \E w \in withdrawn :
                                /\ w.by = req[t].actor /\ w.of = req[t].owner
                                /\ now <= w.at + FetchTime + MaxAge
    BY DEF SpeakersListed
  <2>1. Checked(t) /\ Heard(t)
    BY DEF ListedInv, CheckedInv
  <2>2. now \in Nat /\ FetchTime \in Nat /\ MaxAge \in Nat /\ \A w \in withdrawn : w.at \in Nat
    BY DEF ListedInv, CheckedInv, ServerInv, ClocksTyped, Assumptions, VerificationAssumption
  <2>3. \A w \in withdrawn :
          now - FetchTime - MaxAge <= w.at => now <= w.at + FetchTime + MaxAge
    BY <2>2
  <2> QED
    BY <2>1, <2>3 DEF Checked, Heard, Spoke
<1>2. Init => ListedInv
  <2> SUFFICES ASSUME Init PROVE ListedInv
    OBVIOUS
  <2> QED
    BY CheckedInitially DEF ListedInv, CopiesList, Heard, Init, VerificationInit
<1>3. ListedInv /\ [Next]_serverVars => ListedInv'
  BY ListedStep
<1> QED
  BY <1>1, <1>2, <1>3, PTL DEF Spec

(* What a step makes of its thread: it is done, or goes on with what it    *)
(* was asked.                                                              *)
LEMMA RespondMoves ==
  ASSUME NEW t \in Threads, Respond(t)
  PROVE  Reply(t) \/ (pc[t] # "idle" /\ UNCHANGED req /\ \E p : Goto(t, p))
<1>1. CASE Verify(t)
  <2>1. pc[t] # "idle" /\ UNCHANGED req
    BY <1>1 DEF Verify, ReadCopy, Answer, StoreCopy, CheckDelegation, Admit, Refuse
  <2>2. \E p : Goto(t, p)
    BY <1>1 DEF Verify, ReadCopy, Answer, StoreCopy, CheckDelegation, Admit, Refuse
  <2> QED
    BY <2>1, <2>2
<1>2. CASE ~Verify(t)
  BY <1>2 DEF Respond, ArrivePost, ArriveGet, StartVerification, Dispatch, Accepted,
     ServeDocument, Unauthorized
<1> QED
  BY <1>1, <1>2

(* The routes and their keys stay what the server was set up for.          *)
LEMMA RoutesKept ==
  ASSUME [Next]_serverVars
  PROVE  UNCHANGED <<setup, multi, routes>> /\ DOMAIN cache' = DOMAIN cache
<1>1. UNCHANGED <<setup, multi, routes>>
  BY DEF Next, serverVars, documentVars, Respond, ArrivePost, ArriveGet, Dispatch, Accepted,
     ServeDocument, Unauthorized, ChangeFollowers, StoreQuote, Invalidate, Serve, Change,
     CatchUp, Publish, EditProfile, Expire
<1>2. DOMAIN cache' = DOMAIN cache
  BY DEF Next, serverVars, documentVars, Respond, ArrivePost, ArriveGet, Dispatch, Accepted,
     ServeDocument, Unauthorized, ChangeFollowers, StoreQuote, Invalidate, Serve, Change,
     CatchUp, Publish, EditProfile, Expire
<1> QED
  BY <1>1, <1>2

LEMMA RoutedStep ==
  ASSUME Assumptions, RoutedInv, [Next]_serverVars
  PROVE  RoutedInv'
<1>1. ServerInv'
  BY ServerInvStep DEF RoutedInv
<1>2. UNCHANGED <<setup, multi, routes>> /\ DOMAIN cache' = DOMAIN cache
  BY RoutesKept
<1>3. CASE UNCHANGED <<pc, req>>
  BY <1>1, <1>2, <1>3, ServingKept DEF RoutedInv
<1>4. ASSUME NEW t \in Threads, Respond(t) PROVE RoutedInv'
  <2>1. \A u \in Threads : pc'[u] # "idle" => pc[u] # "idle" /\ req'[u] = req[u]
    BY <1>4, RespondMoves, ReplyAsks, GotoAsks
  <2> QED
    BY <1>1, <1>2, <2>1, ServingKept DEF RoutedInv
<1>5. CASE Remote /\ UNCHANGED documentVars
  <2>1. ASSUME NEW t \in Threads, NEW q \in setup.requests[t], Send(t, q) PROVE RoutedInv'
    BY <1>1, <1>2, <1>5, <2>1, SendAsks DEF RoutedInv
  <2> QED
    BY <1>3, <1>5, <2>1 DEF Remote, Tick, Rotate, Relist, threadVars
<1> QED
  BY <1>3, <1>4, <1>5 DEF Next, serverVars, verificationVars, threadVars

----------------------------------------------------------------------------
(* A server of one actor, for whom no other is mistaken whose name differs *)
(* in case only.                                                           *)
OneActor ==
  /\ \A s \in Setups : ~s.multi
  /\ \A n, m \in Names : Lowercase[n] = Lowercase[m] /\ Known(n) /\ Known(m) =>
       Canonical[n] = Canonical[m]

LEMMA OneActorAgrees ==
  ASSUME Assumptions, OneActor
  PROVE  SpellingsAgree
<1> SUFFICES ASSUME NEW s \in Setups, NEW r \in s.routes, NEW q \in s.routes,
                    r.kind = "webfinger", q.kind = "webfinger", Key(r) = Key(q),
                    Resource(r) # Nobody, Resource(q) # Nobody
             PROVE  Resource(r) = Resource(q)
  BY DEF SpellingsAgree, OneActor
<1>1. r \in Route /\ q \in Route
  BY DEF Assumptions, ServerAssumption
<1>2. /\ Lowercase[r.name] = Lowercase[q.name] /\ (r.arg = "url" <=> q.arg = "url")
      /\ r.name \in Names /\ q.name \in Names
  BY <1>1 DEF Key, ActorKinds, Route
<1>3. r.arg \in {"acct", "url"} /\ q.arg \in {"acct", "url"}
  BY <1>1 DEF Route, ActorKinds, Resource
<1>4. CASE r.arg = "url"
  BY <1>2, <1>4 DEF Resource, Known, OneActor
<1>5. CASE r.arg = "acct"
  BY <1>2, <1>3, <1>5 DEF Resource
<1> QED
  BY <1>3, <1>4, <1>5

(* A server of one actor rejects the spellings that do not resolve before  *)
(* it looks at the cache, and needs no condition on the others: what it    *)
(* finds in the cache is what it would render.                             *)
THEOREM OneActorAlwaysCurrent ==
  ASSUME OneActor
  PROVE  Spec => []CachedIsCurrent
<1>1. Assumptions
  BY VerificationAssumption, ServerAssumption DEF Assumptions
<1> QED
  BY <1>1, OneActorAgrees, CacheAlwaysCurrent

(* No miss is kept under the key of a WebFinger resource.                  *)
NoMiss ==
  \A r \in routes : r.kind = "webfinger" /\ cache[Key(r)] # NoEntry =>
    cache[Key(r)].doc # Missing

HealthyInv == RoutedInv /\ NoMiss

LEMMA HealthyStep ==
  ASSUME Assumptions, DocumentsAssumption, OneActor, HealthyInv, [Next]_serverVars
  PROVE  NoMiss'
<1>1. /\ ~multi /\ routes' = routes /\ \A t \in Threads : Asked(t)
      /\ \A r \in routes : r \in Route /\ Key(r) \in DOMAIN cache
  BY RoutesTyped, RoutesKept DEF HealthyInv, RoutedInv, Serving, OneActor
<1>2. ASSUME \A k \in DOMAIN cache : cache'[k] \in {cache[k], NoEntry}
      PROVE  NoMiss'
  BY <1>1, <1>2 DEF HealthyInv, NoMiss
<1>3. CASE \E t \in Threads : ServeDocument(t)
  <2>1. PICK t \in Threads : ServeDocument(t)
    BY <1>3
  <2> DEFINE q == req[t].route
  <2>2. Serve(q) /\ q \in routes
    BY <1>1, <2>1 DEF ServeDocument, Asked
  <2>3. /\ ~Rejected(q)
        /\ cache' = IF cache[Key(q)] = NoEntry THEN [cache EXCEPT ![Key(q)] = [doc |-> Render(q)]]
                    ELSE cache
    BY <2>2 DEF Serve
  <2>4. CASE cache' = cache
    BY <1>2, <2>4
  <2>5. CASE cache' = [cache EXCEPT ![Key(q)] = [doc |-> Render(q)]]
    <3> SUFFICES ASSUME NEW r \in routes, r.kind = "webfinger", cache'[Key(r)] # NoEntry
                 PROVE  cache'[Key(r)].doc # Missing
      BY <1>1 DEF NoMiss
    <3>1. CASE Key(r) # Key(q)
      BY <1>1, <2>5, <3>1 DEF HealthyInv, NoMiss
    <3>2. CASE Key(r) = Key(q)
      <4>1. q.kind = "webfinger" /\ q.name \in Names
            /\ q.arg \in {"acct", "bare", "url"}
        <5>1. r \in Route /\ q \in Route
          BY <1>1, <2>2
        <5>2. q.kind = "webfinger"
          BY <3>2, <5>1, KeyNamesKind
        <5> QED
          BY <5>1, <5>2 DEF Route, ActorKinds
      <4>2. Resource(q) # Nobody
        BY <1>1, <2>3, <4>1 DEF Rejected
      <4>3. Resource(q) \in Users
        BY <4>1, <4>2 DEF Resource, DocumentsAssumption
      <4>4. Render(q) = Resource(q)
        BY <4>1, <4>2 DEF Render, Account
      <4>5. cache'[Key(r)] = [doc |-> Render(q)]
        BY <1>1, <2>2, <2>5, <3>2
      <4> QED
        BY <4>3, <4>4, <4>5 DEF DocumentsAssumption
    <3> QED
      BY <3>1, <3>2
  <2> QED
    BY <2>3, <2>4, <2>5
<1>4. CASE \E d \in due \union {FollowersDue} : Invalidate(d)
  BY <1>2, <1>4 DEF Invalidate
<1>5. CASE \E k \in DOMAIN cache : Expire(k)
  BY <1>2, <1>5 DEF Expire
<1>6. CASE UNCHANGED cache
  BY <1>2, <1>6
<1> QED
  BY <1>3, <1>4, <1>5, <1>6 DEF Next, serverVars, documentVars, Respond, ArrivePost, ArriveGet,
     Dispatch, Accepted, Unauthorized, ChangeFollowers, StoreQuote, Change, CatchUp, Publish,
     EditProfile

(* "A malformed resource is rejected uncached and cannot poison the valid  *)
(* account's entry" (README.md) is true of a server of one actor; the run  *)
(* server_webfinger shows that it is not of dispatch_multi.                *)
THEOREM OneActorNeverPoisoned ==
  ASSUME OneActor
  PROVE  Spec => []MalformedIsUncached
<1>1. Assumptions /\ DocumentsAssumption
  BY VerificationAssumption, ServerAssumption, DocumentsAssumption DEF Assumptions
<1>2. Init => HealthyInv
  BY <1>1, DocumentsInitially DEF HealthyInv, NoMiss, DocumentsInv, Init, DocumentsInit
<1>3. HealthyInv /\ [Next]_serverVars => HealthyInv'
  BY <1>1, RoutedStep, HealthyStep DEF HealthyInv
<1>4. HealthyInv => MalformedIsUncached
  BY DEF HealthyInv, NoMiss, MalformedIsUncached
<1> QED
  BY <1>2, <1>3, <1>4, PTL DEF Spec

----------------------------------------------------------------------------
(* Types                                                                   *)

(* What is sent stays what it was, and is handled for a local actor as     *)
(* soon as it has been found to be for one.                                *)
Handled(t) ==
  pc[t] # "idle" =>
    /\ Signed(req[t])
    /\ req[t].method = "POST" =>
         /\ req[t].inbox \in Names \union {Shared}
         /\ req[t].type \in {"Follow", "Undo"} =>
              req[t].target \in Users /\ req[t].actor \in Followers
         /\ req[t].type = "QuoteRequest" => req[t].target \in Quotes
         /\ pc[t] \in Verifying \union {"admitted", "invalidate"} => handler[t] \in Users

HandlersTyped == handler \in [Threads -> Users \union {Nobody}]

ContentsTyped ==
  /\ profile \in [Users -> 0..MaxEdits]
  /\ published \subseteq Activities /\ quotes \subseteq Quotes
  /\ fans \in [Users -> SUBSET Followers]
  /\ \A d \in due : d.then \in Activities \union {Missing}

TypeInv == RoutedInv /\ ContentsTyped /\ HandlersTyped /\ \A t \in Threads : Handled(t)

LEMMA AddresseeTyped ==
  ASSUME DocumentsAssumption, NEW to \in Seq(Names \union {Foreign})
  PROVE  ForAddressees(to) \in Users
<1> DEFINE found == {i \in DOMAIN to : IsLocal(to[i])}
<1>1. CASE found = {}
  BY <1>1 DEF ForAddressees, DocumentsAssumption
<1>2. CASE found # {}
  <2>1. found \in SUBSET Nat
    OBVIOUS
  <2>2. \E i \in found : \A j \in found : i <= j
    BY <1>2, <2>1, LeastExists
  <2> DEFINE first == CHOOSE i \in found : \A j \in found : i <= j
  <2>3. first \in found
    BY <2>2
  <2>4. to[first] \in Names /\ Canonical[to[first]] # Nobody
    BY <2>3 DEF IsLocal, Known
  <2>5. ForAddressees(to) = Canonical[to[first]]
    BY <1>2 DEF ForAddressees
  <2> QED
    BY <2>4, <2>5 DEF DocumentsAssumption
<1> QED
  BY <1>1, <1>2

LEMMA HandledStays ==
  ASSUME NEW t \in Threads, Handled(t), pc'[t] = pc[t], req'[t] = req[t],
         handler'[t] = handler[t]
  PROVE  Handled(t)'
BY DEF Handled, Signed

(* A thread goes on with its request, for the local actor it found.        *)
LEMMA HandledGoesOn ==
  ASSUME NEW t \in Threads, Handled(t), pc[t] # "idle", req'[t] = req[t],
         \/ handler'[t] \in Users
         \/ handler'[t] = handler[t] /\ req[t].method # "POST"
         \/ handler'[t] = handler[t] /\ pc[t] \in Verifying \union {"admitted", "invalidate"}
  PROVE  Handled(t)'
BY DEF Handled, Signed

(* What a thread does: it goes on, or is done.                             *)
LEMMA RespondHandles ==
  ASSUME Assumptions, DocumentsAssumption, TypeInv, NEW t \in Threads, Respond(t)
  PROVE  HandlersTyped' /\ \A u \in Threads : Handled(u)'
<1>1. /\ LocalsTyped /\ HandlersTyped /\ \A u \in Threads : Handled(u)
      /\ \A u \in Threads : Requested(u)
  BY DEF TypeInv, RoutedInv, ServerInv, ThreadInv
<1>2. SUFFICES /\ \A u \in Threads \ {t} :
                    pc'[u] = pc[u] /\ req'[u] = req[u] /\ handler'[u] = handler[u]
               /\ HandlersTyped' /\ Handled(t)'
  BY <1>1, HandledStays
<1>3. CASE Reply(t)
  BY <1>1, <1>3 DEF Reply, Handled, HandlersTyped, LocalsTyped
<1>4. CASE /\ pc[t] = "transit" /\ req[t].method = "POST" /\ ~TurnedAway(req[t])
           /\ StartVerification(t) /\ UNCHANGED req
           /\ handler' = [handler EXCEPT ![t] = Resolve(req[t])]
  <2>1. /\ handler'[t] = Resolve(req[t]) /\ Resolve(req[t]) # Nobody /\ req'[t] = req[t]
        /\ \A u \in Threads \ {t} :
             pc'[u] = pc[u] /\ req'[u] = req[u] /\ handler'[u] = handler[u]
    BY <1>1, <1>4 DEF StartVerification, Goto, TurnedAway, LocalsTyped
  <2>2. /\ req[t].inbox \in Names \union {Shared}
        /\ req[t].to \in Seq(Names \union {Foreign})
    BY <1>1, <1>4 DEF Handled, Requested
  <2>3. Resolve(req[t]) \in Users
    BY <2>1, <2>2, AddresseeTyped DEF Resolve, DocumentsAssumption, TypeInv, RoutedInv, Serving
  <2> QED
    BY <1>1, <1>4, <2>1, <2>3, HandledGoesOn DEF HandlersTyped
<1>5. CASE /\ pc[t] # "idle" /\ UNCHANGED <<req, handler>>
           /\ req[t].method # "POST" \/ pc[t] \in Verifying \union {"admitted", "invalidate"}
           /\ \E p : Goto(t, p)
  BY <1>1, <1>5, HandledGoesOn DEF Goto, LocalsTyped, HandlersTyped
<1>6. \/ Reply(t)
      \/ /\ pc[t] = "transit" /\ req[t].method = "POST" /\ ~TurnedAway(req[t])
         /\ StartVerification(t) /\ UNCHANGED req
         /\ handler' = [handler EXCEPT ![t] = Resolve(req[t])]
      \/ /\ pc[t] # "idle" /\ UNCHANGED <<req, handler>>
         /\ req[t].method # "POST" \/ pc[t] \in Verifying \union {"admitted", "invalidate"}
         /\ \E p : Goto(t, p)
  <2>1. CASE ArrivePost(t)
    BY <2>1 DEF ArrivePost
  <2>2. CASE ArriveGet(t)
    BY <2>2 DEF ArriveGet, StartVerification
  <2>3. CASE Dispatch(t)
    BY <2>3 DEF Dispatch
  <2>4. CASE Accepted(t) \/ ServeDocument(t) \/ Unauthorized(t)
    BY <2>4 DEF Accepted, ServeDocument, Unauthorized
  <2>5. CASE Verify(t) /\ UNCHANGED <<documentVars, handler>>
    <3>1. pc[t] \in Verifying /\ UNCHANGED req
      BY <2>5 DEF Verify, ReadCopy, Answer, StoreCopy, CheckDelegation, Admit, Refuse, Verifying
    <3>2. \E p : Goto(t, p)
      BY <2>5 DEF Verify, ReadCopy, Answer, StoreCopy, CheckDelegation, Admit, Refuse
    <3> QED
      BY <2>5, <3>1, <3>2 DEF Verifying
  <2> QED
    BY <2>1, <2>2, <2>3, <2>4, <2>5 DEF Respond
<1> QED
  BY <1>3, <1>4, <1>5, <1>6

LEMMA SendHandles ==
  ASSUME Assumptions, TypeInv, NEW t \in Threads, NEW q \in setup.requests[t], Send(t, q),
         UNCHANGED handler
  PROVE  \A u \in Threads : Handled(u)'
<1>1. /\ LocalsTyped /\ key \in [Remotes -> Nat] /\ now \in Nat /\ Sent(q)
      /\ \A u \in Threads : Handled(u)
  BY DEF TypeInv, RoutedInv, ServerInv, ClocksTyped, Assumptions, ServerAssumption
<1>2. /\ pc'[t] = "transit" /\ handler'[t] = handler[t]
      /\ req'[t] = [q EXCEPT !.key = key[q.owner], !.date = now]
      /\ \A u \in Threads \ {t} :
           pc'[u] = pc[u] /\ req'[u] = req[u] /\ handler'[u] = handler[u]
  BY <1>1 DEF Send, Goto, LocalsTyped
<1>3. /\ req'[t].owner = q.owner /\ req'[t].actor = q.actor /\ req'[t].dated = q.dated
      /\ req'[t].sound = q.sound /\ req'[t].method = q.method
      /\ req'[t].key = key[q.owner] /\ req'[t].date = now
      /\ q.method = "POST" => /\ req'[t].inbox = q.inbox /\ req'[t].type = q.type
                              /\ req'[t].target = q.target
  BY <1>1, <1>2 DEF Sent, Signed
<1>4. Signed(req[t])'
  BY <1>1, <1>3 DEF Sent, Signed
<1>5. Handled(t)'
  BY <1>1, <1>2, <1>3, <1>4 DEF Handled, Sent, Verifying
<1> QED
  BY <1>1, <1>2, <1>5, HandledStays

LEMMA ContentsStep ==
  ASSUME Assumptions, DocumentsAssumption, TypeInv, [Next]_serverVars
  PROVE  ContentsTyped'
<1>1. CASE UNCHANGED <<contents, due>>
  BY <1>1 DEF TypeInv, ContentsTyped, contents
<1>2. ASSUME NEW a \in Activities, Publish(a) PROVE ContentsTyped'
  BY <1>2 DEF TypeInv, ContentsTyped, Publish, PublishDue, Due
<1>3. ASSUME NEW u \in Users, EditProfile(u) PROVE ContentsTyped'
  BY <1>3 DEF TypeInv, ContentsTyped, EditProfile, Due, DocumentsAssumption
<1>4. ASSUME NEW d, d \in due \/ d = FollowersDue, Invalidate(d) PROVE ContentsTyped'
  <2>1. d.then \in Activities \union {Missing}
    BY <1>4 DEF TypeInv, ContentsTyped, FollowersDue, Due
  <2> QED
    BY <1>4, <2>1 DEF TypeInv, ContentsTyped, Invalidate, PublishDue, Due
<1>5. ASSUME NEW t \in Threads, Dispatch(t) PROVE ContentsTyped'
  <2>1. CASE UNCHANGED documentVars
    BY <1>1, <2>1 DEF documentVars
  <2>2. CASE /\ req[t].type \in {"Follow", "Undo"}
             /\ \E F \in {fans[req[t].target] \union {req[t].actor},
                          fans[req[t].target] \ {req[t].actor}} :
                  ChangeFollowers(req[t].target, F)
    <3>1. req[t].target \in Users /\ req[t].actor \in Followers
      BY <1>5, <2>2 DEF Dispatch, TypeInv, Handled
    <3> QED
      BY <2>2, <3>1 DEF TypeInv, ContentsTyped, ChangeFollowers, FollowersDue, Due
  <2>3. CASE req[t].type = "QuoteRequest" /\ StoreQuote(req[t].target)
    <3>1. req[t].target \in Quotes
      BY <1>5, <2>3 DEF Dispatch, TypeInv, Handled
    <3> QED
      BY <2>3, <3>1 DEF TypeInv, ContentsTyped, StoreQuote
  <2> QED
    BY <1>5, <2>1, <2>2, <2>3 DEF Dispatch
<1>6. CASE \E t \in Threads : Respond(t)
  <2>1. PICK t \in Threads : Respond(t)
    BY <1>6
  <2>2. CASE Accepted(t)
    BY <1>4, <2>2 DEF Accepted
  <2>3. CASE ServeDocument(t)
    BY <1>1, <2>3 DEF ServeDocument, Serve
  <2> QED
    BY <1>1, <1>5, <2>1, <2>2, <2>3 DEF Respond, ArrivePost, ArriveGet, Unauthorized, documentVars
<1>7. setup.active \subseteq Users
  BY DEF TypeInv, RoutedInv, ServerInv, Assumptions, ServerAssumption
<1>8. CASE Change(setup.active) \/ CatchUp
  BY <1>1, <1>2, <1>3, <1>4, <1>7, <1>8 DEF Change, CatchUp, Expire
<1> QED
  BY <1>1, <1>6, <1>8 DEF Next, serverVars, documentVars

(* Every thread works for a local actor with a request whose signature is  *)
(* of a key that exists, the documents show what local actors publish and  *)
(* who follows them, and the cache has the keys of the routes.             *)
THEOREM ServerTypeCorrect == Spec => []TypeOK
<1> Assumptions /\ DocumentsAssumption
  BY VerificationAssumption, ServerAssumption, DocumentsAssumption DEF Assumptions
<1>1. Init => TypeInv
  <2> SUFFICES ASSUME Init PROVE TypeInv
    OBVIOUS
  <2>1. RoutedInv
    BY DocumentsInitially DEF DocumentsInv
  <2>2. ContentsTyped
    BY DEF Init, DocumentsInit, ContentsTyped, DocumentsAssumption
  <2>3. HandlersTyped /\ \A t \in Threads : Handled(t)
    BY DEF Init, VerificationInit, HandlersTyped, Handled
  <2> QED
    BY <2>1, <2>2, <2>3 DEF TypeInv
<1>2. TypeInv /\ [Next]_serverVars => TypeInv'
  <2> SUFFICES ASSUME TypeInv, [Next]_serverVars PROVE TypeInv'
    OBVIOUS
  <2>1. RoutedInv'
    BY RoutedStep DEF TypeInv
  <2>2. ASSUME UNCHANGED <<pc, req, handler>> 
        PROVE  HandlersTyped' /\ \A t \in Threads : Handled(t)'
    BY <2>2, HandledStays DEF TypeInv, HandlersTyped
  <2>3. HandlersTyped' /\ \A t \in Threads : Handled(t)'
    <3>1. CASE \E t \in Threads : \E q \in setup.requests[t] : Send(t, q) /\ UNCHANGED handler
      BY <3>1, SendHandles DEF TypeInv, HandlersTyped
    <3>2. CASE \E t \in Threads : Respond(t)
      BY <3>2, RespondHandles
    <3>3. CASE UNCHANGED serverVars \/ UNCHANGED <<verificationVars, handler>>
      BY <2>2, <3>3 DEF serverVars, verificationVars, threadVars
    <3> QED
      BY <2>2, <3>1, <3>2, <3>3 DEF Next, Remote, Tick, Rotate, Relist, threadVars
  <2> QED
    BY <2>1, <2>3, ContentsStep DEF TypeInv
<1>3. TypeInv => TypeOK
  <2> SUFFICES ASSUME TypeInv PROVE TypeOK
    OBVIOUS
  <2>1. /\ ServerInv /\ Serving /\ ContentsTyped /\ HandlersTyped
        /\ \A t \in Threads : Handled(t)
    BY DEF TypeInv, RoutedInv
  <2>2. VerificationTypeOK
    <3>1. ASSUME NEW t \in Threads
          PROVE  /\ pc[t] # "idle" => Signed(req[t]) /\ req[t].key <= key[req[t].owner]
                                      /\ req[t].date <= now
                 /\ pc[t] \in Verifying => about[t] \in Remotes
      BY <2>1 DEF ServerInv, ThreadInv, Requested, Subject, Handled
    <3> QED
      BY <2>1, <3>1 DEF VerificationTypeOK, ServerInv, ClocksTyped, LocalsTyped, CopiesLag
  <2>3. DocumentsTypeOK
    <3>1. setup.multi \in BOOLEAN /\ setup.routes \subseteq Route
      BY <2>1 DEF ServerInv, Assumptions, ServerAssumption
    <3> QED
      BY <2>1, <3>1 DEF DocumentsTypeOK, ContentsTyped, Serving
  <2>4. /\ handler \in [Threads -> Users \union {Nobody}]
        /\ pc \in [Threads -> Verifying \union {"idle", "transit", "open", "admitted", "refused",
                                                "invalidate"}]
        /\ setup \in Setups
    BY <2>1 DEF ServerInv, LocalsTyped, Points, HandlersTyped
  <2>5. \A t \in Threads :
          pc[t] \in {"admitted", "invalidate"} /\ req[t].method = "POST" => handler[t] \in Users
    BY <2>1 DEF Handled
  <2> QED
    BY <2>2, <2>3, <2>4, <2>5 DEF TypeOK
<1> QED
  BY <1>1, <1>2, <1>3, PTL DEF Spec

=============================================================================
