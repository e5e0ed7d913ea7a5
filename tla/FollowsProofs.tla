--------------------------- MODULE FollowsProofs ---------------------------
(* Proofs about Follows, for every set of threads and remote actors, every *)
(* policy, and threads that overlap as they like.                          *)
EXTENDS Follows, TLAPS

----------------------------------------------------------------------------
(* Whoever is let in at once: by the policy, or by a storage that has no   *)
(* place for who is held back.                                             *)
Admitted(r) ==
  /\ policy[r] # "reject"
  /\ r \in Held => ~supported

(* Where the handling of a Follow is tells what the policy said of it, and *)
(* a thread that approves works for somebody the application chose.        *)
Guided ==
  \A t \in Threads :
    /\ pc[t] = "request" => who[t] \in Held
    /\ pc[t] = "store_follower" => Admitted(who[t])
    /\ pc[t] = "approve" => who[t] \in approved \cap Held

PolicyInv == TypeOK /\ Guided /\ PolicyHonoured

LEMMA PolicyInvInit == ASSUME FollowsAssumption PROVE Init => PolicyInv
  BY DEF FollowsAssumption, Init, PolicyInv, TypeOK, Guided, PolicyHonoured, Points, Held

(* A beginning or a move of a thread keeps the control part of TypeOK.     *)
LEMMA BeginTyped ==
  ASSUME FollowsAssumption, TypeOK, NEW t \in Threads, NEW r \in Remotes,
         NEW p \in Points \ {"idle"}, Begin(t, r, p)
  PROVE  /\ pc' \in [Threads -> Points]
         /\ who' \in [Threads -> Remotes \union {NoRemote}]
         /\ \A u \in Threads : pc'[u] = "idle" <=> who'[u] = NoRemote
         /\ pc'[t] = p /\ who'[t] = r
         /\ \A u \in Threads \ {t} : pc'[u] = pc[u] /\ who'[u] = who[u]
  BY DEF FollowsAssumption, TypeOK, Begin

LEMMA GotoTyped ==
  ASSUME FollowsAssumption, TypeOK, NEW t \in Threads, pc[t] # "idle",
         NEW p \in Points \ {"idle"}, Goto(t, p)
  PROVE  /\ pc' \in [Threads -> Points]
         /\ who' \in [Threads -> Remotes \union {NoRemote}]
         /\ \A u \in Threads : pc'[u] = "idle" <=> who'[u] = NoRemote
         /\ pc'[t] = p /\ who'[t] = who[t] /\ who[t] \in Remotes
         /\ \A u \in Threads \ {t} : pc'[u] = pc[u] /\ who'[u] = who[u]
  BY DEF FollowsAssumption, TypeOK, Goto

LEMMA LeaveTyped ==
  ASSUME FollowsAssumption, TypeOK, NEW t \in Threads, Leave(t)
  PROVE  /\ pc' \in [Threads -> Points]
         /\ who' \in [Threads -> Remotes \union {NoRemote}]
         /\ \A u \in Threads : pc'[u] = "idle" <=> who'[u] = NoRemote
         /\ pc'[t] = "idle"
         /\ \A u \in Threads \ {t} : pc'[u] = pc[u] /\ who'[u] = who[u]
  BY DEF FollowsAssumption, TypeOK, Leave, Points

(* A step of one thread keeps what is known of the others, as long as no   *)
(* approval is taken back.                                                 *)
LEMMA OthersGuided ==
  ASSUME Guided, UNCHANGED config, NEW t \in Threads, approved \subseteq approved',
         \A u \in Threads \ {t} : pc'[u] = pc[u] /\ who'[u] = who[u],
         /\ pc'[t] = "request" => who'[t] \in Held
         /\ pc'[t] = "store_follower" => Admitted(who'[t])
         /\ pc'[t] = "approve" => who'[t] \in approved' \cap Held
  PROVE  Guided'
  BY DEF Guided, Admitted, Held, config

----------------------------------------------------------------------------
LEMMA ReceivePreserves ==
  ASSUME FollowsAssumption, PolicyInv, UNCHANGED config, NEW t \in Threads, NEW r \in Remotes, Receive(t, r)
  PROVE  PolicyInv'
<1>1. PICK p \in {"follow", "undo", "delete"} : Begin(t, r, p)
  BY DEF Receive, ReceiveFollow, ReceiveUndo, ReceiveDelete
<1>2. UNCHANGED <<storage, cache, approved>>
  BY DEF Receive, ReceiveFollow, ReceiveUndo, ReceiveDelete
<1>3. /\ last' \in [Remotes -> {"nothing", "Follow", "Undo", "Delete"}]
      /\ undone' \subseteq Remotes
      /\ answered' \in [Remotes -> {"nothing", "Accept", "Reject"}]
  BY DEF Receive, ReceiveFollow, ReceiveUndo, ReceiveDelete, PolicyInv, TypeOK
<1>4. p \in Points \ {"idle"}
  BY DEF Points
<1>5. TypeOK'
  BY <1>1, <1>2, <1>3, <1>4, BeginTyped DEF PolicyInv, TypeOK, storage, cache, config, Held
<1>6. Guided'
  BY <1>1, <1>2, <1>4, BeginTyped, OthersGuided DEF PolicyInv
<1>7. PolicyHonoured'
  BY <1>2 DEF PolicyInv, PolicyHonoured, Held, storage, config
<1> QED BY <1>5, <1>6, <1>7 DEF PolicyInv

LEMMA DecidePreserves ==
  ASSUME FollowsAssumption, PolicyInv, UNCHANGED config, NEW t \in Threads, NEW r \in Remotes, Decide(t, r)
  PROVE  PolicyInv'
<1>1. PICK p \in {"approve", "decline"} :
         Begin(t, r, p) /\ (p = "approve" => r \in approved' \cap Held)
  BY DEF Decide, BeginApprove, BeginDecline, PolicyInv, TypeOK, Held, config
<1>2. /\ UNCHANGED <<storage, cache, last, undone, answered>>
      /\ approved \subseteq approved' /\ approved' \subseteq Remotes
  BY DEF Decide, BeginApprove, BeginDecline, PolicyInv, TypeOK, history
<1>3. p \in Points \ {"idle"}
  BY DEF Points
<1>4. TypeOK'
  BY <1>1, <1>2, <1>3, BeginTyped DEF PolicyInv, TypeOK, storage, cache, config, Held
<1>5. Guided'
  BY <1>1, <1>2, <1>3, BeginTyped, OthersGuided DEF PolicyInv
<1>6. PolicyHonoured'
  BY <1>2 DEF PolicyInv, PolicyHonoured, Held, storage, config
<1> QED BY <1>4, <1>5, <1>6 DEF PolicyInv

----------------------------------------------------------------------------
(* The steps of a thread that change neither followers nor requests nor    *)
(* approvals, and that enter no guarded point, are all alike.              *)
LEMMA QuietStepPreserves ==
  ASSUME FollowsAssumption, PolicyInv, UNCHANGED config, NEW t \in Threads, pc[t] # "idle",
         UNCHANGED <<approved, last>>,
         \/ Leave(t)
         \/ \E p \in Points \ {"idle", "request", "store_follower", "approve"} : Goto(t, p),
         followers' \subseteq followers, requests' \subseteq requests,
         document' \in (SUBSET Remotes) \union {NoDoc},
         missed' \subseteq Remotes,
         undone' \subseteq Remotes,
         answered' \in [Remotes -> {"nothing", "Accept", "Reject"}]
  PROVE  PolicyInv'
<1>1. TypeOK'
  BY GotoTyped, LeaveTyped DEF PolicyInv, TypeOK, config, Held
<1>2. Guided'
  BY GotoTyped, LeaveTyped, OthersGuided DEF PolicyInv
<1>3. PolicyHonoured'
  BY DEF PolicyInv, PolicyHonoured, Held, config
<1> QED BY <1>1, <1>2, <1>3 DEF PolicyInv

LEMMA DeliverTyped ==
  ASSUME TypeOK, NEW t \in Threads, NEW a \in {"Accept", "Reject"}, Deliver(t, a)
  PROVE  answered' \in [Remotes -> {"nothing", "Accept", "Reject"}]
  BY DEF Deliver, TypeOK

LEMMA FollowPreserves ==
  ASSUME FollowsAssumption, PolicyInv, UNCHANGED config, NEW t \in Threads,
         \/ FetchFollower(t) \/ ResolvePolicy(t) \/ StoreFollowRequest(t)
         \/ StoreFollower(t) \/ AnswerFollow(t)
  PROVE  PolicyInv'
<1> USE DEF history, storage, cache, config
<1>1. CASE FetchFollower(t)
  <2>1. "policy" \in Points \ {"idle", "request", "store_follower", "approve"}
    BY DEF Points
  <2> QED BY <1>1, <2>1, QuietStepPreserves DEF FetchFollower, PolicyInv, TypeOK
<1>2. CASE ResolvePolicy(t)
  <2>1. who[t] \in Remotes
    BY <1>2 DEF ResolvePolicy, PolicyInv, TypeOK
  <2>2. policy[who[t]] \in {"unset", "accept", "none", "manual", "reject", "panic"}
    BY <2>1 DEF FollowsAssumption, PolicyInv, TypeOK
  <2>3. PICK p \in {"store_follower", "request", "reject"} :
          /\ Goto(t, p)
          /\ p = "store_follower" => Admitted(who[t])
          /\ p = "request" => who[t] \in Held
    <3>1. CASE Resolved(who[t]) = "accept"
      BY <1>2, <2>1, <2>2, <3>1 DEF ResolvePolicy, Resolved, Admitted, Held
    <3>2. CASE Resolved(who[t]) = "manual"
      BY <1>2, <2>1, <2>2, <3>2 DEF ResolvePolicy, Resolved, Admitted, Held
    <3>3. CASE Resolved(who[t]) = "reject"
      BY <1>2, <2>1, <2>2, <3>3 DEF ResolvePolicy, Resolved, Admitted, Held
    <3> QED BY <2>2, <3>1, <3>2, <3>3 DEF Resolved
  <2>4. p \in Points \ {"idle"} /\ pc[t] # "idle" /\ p # "approve"
    BY <1>2 DEF ResolvePolicy, Points
  <2>5. UNCHANGED <<followers, requests, cache, approved, last, undone, answered>>
    BY <1>2 DEF ResolvePolicy
  <2>6. TypeOK'
    BY <2>3, <2>4, <2>5, GotoTyped DEF PolicyInv, TypeOK, Held
  <2>7. Guided'
    BY <2>3, <2>4, <2>5, GotoTyped, OthersGuided DEF PolicyInv
  <2>8. PolicyHonoured'
    BY <2>5 DEF PolicyInv, PolicyHonoured, Held
  <2> QED BY <2>6, <2>7, <2>8 DEF PolicyInv
<1>3. CASE StoreFollowRequest(t)
  <2>1. pc[t] = "request" /\ who[t] \in Held /\ UNCHANGED <<followers, cache, history>>
    BY <1>3 DEF StoreFollowRequest, CallFails, PolicyInv, Guided
  <2>2. \/ supported /\ requests' = requests \union {who[t]} /\ Leave(t)
        \/ ~supported /\ requests' = requests /\ Goto(t, "store_follower")
        \/ requests' = requests /\ Leave(t)
    BY <1>3 DEF StoreFollowRequest, CallFails
  <2>3. "store_follower" \in Points \ {"idle"}
    BY DEF Points
  <2>4. TypeOK'
    BY <2>1, <2>2, <2>3, GotoTyped, LeaveTyped DEF PolicyInv, TypeOK, Held
  <2>5. ~supported => Admitted(who[t])
    BY <2>1 DEF Admitted, Held
  <2>6. Guided'
    BY <2>1, <2>2, <2>3, <2>5, GotoTyped, LeaveTyped, OthersGuided DEF PolicyInv
  <2>7. PolicyHonoured'
    BY <2>1 DEF PolicyInv, PolicyHonoured, Held
  <2> QED BY <2>4, <2>6, <2>7 DEF PolicyInv
<1>4. CASE StoreFollower(t)
  <2>1. pc[t] = "store_follower" /\ Admitted(who[t]) /\ UNCHANGED <<requests, cache, history>>
    BY <1>4 DEF StoreFollower, CallFails, PolicyInv, Guided
  <2>2. \/ followers' = followers \union {who[t]} /\ Goto(t, "follow_invalidate")
        \/ followers' = followers /\ Leave(t)
    BY <1>4 DEF StoreFollower, CallFails
  <2>3. "follow_invalidate" \in Points \ {"idle", "request", "store_follower", "approve"}
    BY DEF Points, Invalidating
  <2>4. TypeOK'
    BY <2>1, <2>2, <2>3, GotoTyped, LeaveTyped DEF PolicyInv, TypeOK, Held
  <2>5. Guided'
    BY <2>1, <2>2, <2>3, GotoTyped, LeaveTyped, OthersGuided DEF PolicyInv
  <2>6. PolicyHonoured'
    BY <2>1, <2>2 DEF PolicyInv, PolicyHonoured, Held, Admitted
  <2> QED BY <2>4, <2>5, <2>6 DEF PolicyInv
<1>5. CASE AnswerFollow(t)
  <2>1. answered' \in [Remotes -> {"nothing", "Accept", "Reject"}]
    BY <1>5, DeliverTyped DEF AnswerFollow, PolicyInv
  <2> QED BY <1>5, <2>1, QuietStepPreserves DEF AnswerFollow, PolicyInv, TypeOK
<1> QED BY <1>1, <1>2, <1>3, <1>4, <1>5

LEMMA WithdrawPreserves ==
  ASSUME FollowsAssumption, PolicyInv, UNCHANGED config, NEW t \in Threads,
         RemoveFollower(t) \/ RemoveRequest(t) \/ InvalidateFollowers(t)
  PROVE  PolicyInv'
<1> USE DEF history, storage, cache, config
<1> DEFINE Elsewhere == Points \ {"idle", "request", "store_follower", "approve"}
<1>0. {"undo_invalidate", "delete_invalidate", "accept", "undo_request", "approve_accept"}
        \subseteq Elsewhere
  BY DEF Points, Invalidating
<1>1. CASE RemoveFollower(t)
  <2>1. Leave(t) \/ \E p \in Elsewhere : Goto(t, p)
    BY <1>0, <1>1 DEF RemoveFollower, CallFails
  <2> QED BY <1>1, <2>1, QuietStepPreserves DEF RemoveFollower, CallFails, PolicyInv, TypeOK
<1>2. CASE RemoveRequest(t)
  <2>1. who[t] \in Remotes
    BY <1>2 DEF RemoveRequest, PolicyInv, TypeOK
  <2> QED BY <1>2, <2>1, QuietStepPreserves DEF RemoveRequest, PolicyInv, TypeOK
<1>3. CASE InvalidateFollowers(t)
  <2>1. Leave(t) \/ \E p \in Elsewhere : Goto(t, p)
    BY <1>0, <1>3 DEF InvalidateFollowers, Invalidating
  <2> QED BY <1>3, <2>1, QuietStepPreserves
          DEF InvalidateFollowers, Invalidating, PolicyInv, TypeOK
<1> QED BY <1>1, <1>2, <1>3

LEMMA DecisionPreserves ==
  ASSUME FollowsAssumption, PolicyInv, UNCHANGED config, NEW t \in Threads,
         \/ ApproveStore(t) \/ ApproveRemove(t) \/ ApproveAnswer(t)
         \/ DeclineRemove(t) \/ DeclineAnswer(t)
  PROVE  PolicyInv'
<1> USE DEF history, storage, cache, config
<1> DEFINE Elsewhere == Points \ {"idle", "request", "store_follower", "approve"}
<1>0. {"approve_remove", "approve_invalidate", "decline_reject"} \subseteq Elsewhere
  BY DEF Points, Invalidating
<1>1. CASE ApproveStore(t)
  <2>1. /\ pc[t] = "approve" /\ who[t] \in approved \cap Held /\ who[t] \in Remotes
        /\ UNCHANGED <<requests, cache, history>>
    BY <1>1 DEF ApproveStore, CallFails, PolicyInv, Guided, TypeOK
  <2>2. \/ followers' = followers \union {who[t]} /\ Goto(t, "approve_remove")
        \/ followers' = followers /\ Leave(t)
    BY <1>1 DEF ApproveStore, CallFails
  <2>3. "approve_remove" \in Points \ {"idle", "request", "store_follower", "approve"}
    BY <1>0
  <2>4. TypeOK'
    BY <2>1, <2>2, <2>3, GotoTyped, LeaveTyped DEF PolicyInv, TypeOK, Held
  <2>5. Guided'
    BY <2>1, <2>2, <2>3, GotoTyped, LeaveTyped, OthersGuided DEF PolicyInv
  <2>6. PolicyHonoured'
    BY <2>1, <2>2 DEF PolicyInv, PolicyHonoured, Held
  <2> QED BY <2>4, <2>5, <2>6 DEF PolicyInv
<1>2. CASE ApproveRemove(t)
  <2>1. Leave(t) \/ \E p \in Elsewhere : Goto(t, p)
    BY <1>0, <1>2 DEF ApproveRemove, CallFails
  <2> QED BY <1>2, <2>1, QuietStepPreserves DEF ApproveRemove, CallFails, PolicyInv, TypeOK
<1>3. CASE DeclineRemove(t)
  <2>1. Leave(t) \/ \E p \in Elsewhere : Goto(t, p)
    BY <1>0, <1>3 DEF DeclineRemove, CallFails
  <2> QED BY <1>3, <2>1, QuietStepPreserves DEF DeclineRemove, CallFails, PolicyInv, TypeOK
<1>4. CASE ApproveAnswer(t) \/ DeclineAnswer(t)
  <2>1. answered' \in [Remotes -> {"nothing", "Accept", "Reject"}]
    BY <1>4, DeliverTyped DEF ApproveAnswer, DeclineAnswer, PolicyInv
  <2> QED BY <1>4, <2>1, QuietStepPreserves
          DEF ApproveAnswer, DeclineAnswer, PolicyInv, TypeOK
<1> QED BY <1>1, <1>2, <1>3, <1>4

(* PolicyInv is inductive. *)
LEMMA PolicyInvNext ==
  ASSUME FollowsAssumption, PolicyInv, [Next]_vars
  PROVE  PolicyInv'
<1>1. CASE UNCHANGED config /\ \E t \in Threads, r \in Remotes : Receive(t, r) \/ Decide(t, r)
  BY <1>1, ReceivePreserves, DecidePreserves
<1>2. CASE UNCHANGED config /\ \E t \in Threads : Handle(t)
  BY <1>2, FollowPreserves, WithdrawPreserves, DecisionPreserves DEF Handle
<1>3. CASE UNCHANGED config /\ ServeFollowers
  BY <1>3 DEF ServeFollowers, PolicyInv, TypeOK, Guided, PolicyHonoured, Admitted, Held,
              storage, cache, history, config
<1>4. CASE UNCHANGED vars
  BY <1>4 DEF vars, PolicyInv, TypeOK, Guided, PolicyHonoured, Admitted, Held,
              storage, cache, history, config
<1> QED BY <1>1, <1>2, <1>3, <1>4 DEF Next

(* The types hold, and only who is held back has a pending request         *)
(* (handle_follow in inbox.rs).                                            *)
THEOREM FollowsTyped == ASSUME FollowsAssumption PROVE Spec => []TypeOK
<1>1. Init => PolicyInv BY PolicyInvInit
<1>2. PolicyInv /\ [Next]_vars => PolicyInv' BY PolicyInvNext
<1>3. PolicyInv => TypeOK BY DEF PolicyInv
<1> QED BY <1>1, <1>2, <1>3, PTL DEF Spec

(* However the activities of remote actors and the decisions of the        *)
(* application interleave, and whatever storage calls fail, nobody gets    *)
(* past the follow policy (handle_follow and resolve_follow_policy in      *)
(* inbox.rs, accept_follow_request in follows.rs).                         *)
THEOREM PolicyAlwaysHonoured == ASSUME FollowsAssumption PROVE Spec => []PolicyHonoured
<1>1. Init => PolicyInv BY PolicyInvInit
<1>2. PolicyInv /\ [Next]_vars => PolicyInv' BY PolicyInvNext
<1>3. PolicyInv => PolicyHonoured BY DEF PolicyInv
<1> QED BY <1>1, <1>2, <1>3, PTL DEF Spec

----------------------------------------------------------------------------
(* A step that keeps the followers and the cached collection, and lets no   *)
(* other thread move, keeps the collection current unless it ends the wait  *)
(* for an invalidation.                                                     *)
Due(t) == pc[t] \in Invalidating \union {"approve_remove"}

LEMMA IdleStepCurrent ==
  ASSUME CollectionCurrent, NEW t \in Threads, ~Due(t),
         UNCHANGED <<followers, cache>>,
         \A u \in Threads \ {t} : pc'[u] = pc[u] /\ who'[u] = who[u]
  PROVE  CollectionCurrent'
  BY DEF CollectionCurrent, Due, cache, Invalidating

(* A step that changes the followers of the thread's remote actor only is   *)
(* fine when an invalidation is due after it.                               *)
LEMMA ChangeStepCurrent ==
  ASSUME TypeOK, CollectionCurrent, NEW t \in Threads, UNCHANGED cache, Due(t)',
         who'[t] = who[t],
         \A r \in Remotes \ {who[t]} : r \in followers' <=> r \in followers,
         \A u \in Threads \ {t} : pc'[u] = pc[u] /\ who'[u] = who[u]
  PROVE  CollectionCurrent'
  BY DEF CollectionCurrent, Due, cache, Invalidating

LEMMA CurrentNext ==
  ASSUME FollowsAssumption, TypeOK, CollectionCurrent, Next
  PROVE  CollectionCurrent'
<1> USE DEF history, storage
<1>1. CASE ServeFollowers
  BY <1>1 DEF ServeFollowers, CollectionCurrent
<1>2. ASSUME NEW t \in Threads, NEW r \in Remotes, Receive(t, r) \/ Decide(t, r)
      PROVE  CollectionCurrent'
  <2>1. /\ pc[t] = "idle"
        /\ \A u \in Threads \ {t} : pc'[u] = pc[u] /\ who'[u] = who[u]
    BY <1>2 DEF Receive, Decide, ReceiveFollow, ReceiveUndo, ReceiveDelete, BeginApprove,
                BeginDecline, Begin, TypeOK
  <2>2. UNCHANGED <<cache, followers>>
    BY <1>2 DEF Receive, Decide, ReceiveFollow, ReceiveUndo, ReceiveDelete, BeginApprove,
                BeginDecline
  <2>3. ~Due(t)
    BY <2>1 DEF Due, Invalidating
  <2> QED BY <2>1, <2>2, <2>3, IdleStepCurrent
<1>3. ASSUME NEW t \in Threads, Handle(t) PROVE CollectionCurrent'
  <2>1. CASE InvalidateFollowers(t)
    BY <2>1 DEF InvalidateFollowers, CollectionCurrent
  <2>2. CASE StoreFollower(t) \/ RemoveFollower(t) \/ ApproveStore(t)
    <3>1. \A u \in Threads \ {t} : pc'[u] = pc[u] /\ who'[u] = who[u]
      BY <2>2 DEF StoreFollower, RemoveFollower, ApproveStore, CallFails, Goto, Leave, TypeOK
    <3>2. CASE CallFails(t)
      <4>1. UNCHANGED <<cache, followers>> /\ ~Due(t)
        BY <2>2, <3>2 DEF StoreFollower, RemoveFollower, ApproveStore, CallFails, Goto, Leave,
                          TypeOK, Due, Invalidating
      <4> QED BY <3>1, <4>1, IdleStepCurrent
    <3>3. CASE ~CallFails(t)
      <4>1. UNCHANGED cache /\ Due(t)' /\ who'[t] = who[t]
        BY <2>2, <3>3 DEF StoreFollower, RemoveFollower, ApproveStore, Goto, TypeOK, Due,
                          Invalidating
      <4>2. \A r \in Remotes \ {who[t]} : r \in followers' <=> r \in followers
        BY <2>2, <3>3 DEF StoreFollower, RemoveFollower, ApproveStore
      <4> QED BY <1>2, <3>1, <4>1, <4>2, ChangeStepCurrent
    <3> QED BY <3>2, <3>3
  <2>3. CASE ApproveRemove(t)
    <3>1. \A u \in Threads \ {t} : pc'[u] = pc[u] /\ who'[u] = who[u]
      BY <2>3 DEF ApproveRemove, CallFails, Goto, Leave, TypeOK
    <3>2. UNCHANGED <<document, followers>>
      BY <2>3 DEF ApproveRemove, CallFails
    <3>3. \/ missed' = missed /\ Due(t)' /\ who'[t] = who[t]
          \/ missed' = missed \union {who[t]}
      BY <2>3 DEF ApproveRemove, CallFails, Goto, TypeOK, Due, Invalidating
    <3> QED BY <3>1, <3>2, <3>3 DEF CollectionCurrent, Due, Invalidating
  <2>4. CASE \/ FetchFollower(t) \/ ResolvePolicy(t) \/ StoreFollowRequest(t) \/ AnswerFollow(t)
             \/ RemoveRequest(t) \/ ApproveAnswer(t) \/ DeclineRemove(t) \/ DeclineAnswer(t)
    <3>1. ~Due(t) /\ \A u \in Threads \ {t} : pc'[u] = pc[u] /\ who'[u] = who[u]
      BY <2>4 DEF FetchFollower, ResolvePolicy, StoreFollowRequest, AnswerFollow, RemoveRequest,
                  ApproveAnswer, DeclineRemove, DeclineAnswer, CallFails, Goto, Leave, TypeOK,
                  Due, Invalidating
    <3>2. UNCHANGED <<cache, followers>>
      BY <2>4 DEF FetchFollower, ResolvePolicy, StoreFollowRequest, AnswerFollow, RemoveRequest,
                  ApproveAnswer, DeclineRemove, DeclineAnswer, CallFails
    <3> QED BY <3>1, <3>2, IdleStepCurrent
  <2> QED BY <1>3, <2>1, <2>2, <2>3, <2>4 DEF Handle
<1> QED BY <1>1, <1>2, <1>3 DEF Next

(* The cached collection of followers is current, but for invalidations    *)
(* under way and approvals a storage error cut short                       *)
(* (invalidate_cached_documents in inbox.rs, accept_follow_request in      *)
(* follows.rs).                                                            *)
THEOREM CollectionAlwaysCurrent == ASSUME FollowsAssumption PROVE Spec => []CollectionCurrent
<1>1. Init => CollectionCurrent
  BY DEF Init, CollectionCurrent
<1>2. ASSUME TypeOK, CollectionCurrent, [Next]_vars PROVE CollectionCurrent'
  <2>1. CASE Next
    BY <1>2, <2>1, CurrentNext
  <2>2. CASE UNCHANGED vars
    BY <1>2, <2>2 DEF vars, storage, cache, CollectionCurrent, Invalidating
  <2> QED BY <1>2, <2>1, <2>2
<1>3. Spec => []TypeOK
  BY FollowsTyped
<1> QED BY <1>1, <1>2, <1>3, PTL DEF Spec

----------------------------------------------------------------------------
(* A server that handles one remote actor at a time                        *)

Withdrawing == {"undo", "undo_invalidate", "undo_request", "delete", "delete_invalidate"}

(* What a thread knows of the actor that nobody else works for.            *)
SerialThread(t) ==
  /\ pc[t] \in Withdrawing => last[who[t]] # "Follow"
  /\ pc[t] \in {"undo_invalidate", "undo_request"} => who[t] \notin followers
  /\ pc[t] \in {"follow_invalidate", "accept", "approve_remove", "approve_invalidate",
                "approve_accept"} => who[t] \in followers
  /\ who[t] \in undone => pc[t] \in Withdrawing

SerialRemote(r) ==
  /\ r \in undone => r \notin followers /\ r \notin requests
  /\ answered[r] = "Accept" /\ last[r] = "Follow" => r \in followers

SerialInv ==
  /\ \A t, u \in Threads : who[t] = who[u] /\ who[t] # NoRemote => t = u
  /\ \A t \in Threads : SerialThread(t)
  /\ \A r \in Remotes : SerialRemote(r)

(* A step of a thread that touches nothing but its own remote actor.       *)
LEMMA SerialStep ==
  ASSUME TypeOK, TypeOK', SerialInv, NEW t \in Threads, NEW r \in Remotes,
         \A u \in Threads \ {t} : pc'[u] = pc[u] /\ who'[u] = who[u] /\ who[u] # r,
         who'[t] \in {r, NoRemote},
         \A x \in Remotes \ {r} : /\ x \in followers' <=> x \in followers
                                  /\ x \in requests' <=> x \in requests
                                  /\ x \in undone' <=> x \in undone
                                  /\ last'[x] = last[x] /\ answered'[x] = answered[x],
         SerialThread(t)', SerialRemote(r)'
  PROVE  SerialInv'
<1>1. ASSUME NEW u \in Threads \ {t} PROVE SerialThread(u)'
  <2>1. CASE who[u] = NoRemote
    <3>1. pc'[u] = "idle" /\ who'[u] = NoRemote
      BY <2>1 DEF TypeOK
    <3>2. NoRemote \notin undone' \/ pc'[u] \in Withdrawing
      BY FollowsAssumption DEF TypeOK
    <3> QED BY <3>1, <3>2 DEF SerialThread, Withdrawing
  <2>2. CASE who[u] # NoRemote
    <3>1. who[u] \in Remotes \ {r} /\ who'[u] = who[u] /\ pc'[u] = pc[u]
      BY <2>2 DEF TypeOK
    <3>2. SerialThread(u)
      BY DEF SerialInv
    <3> QED BY <3>1, <3>2 DEF SerialThread
  <2> QED BY <2>1, <2>2
<1>2. ASSUME NEW x \in Remotes \ {r} PROVE SerialRemote(x)'
  BY DEF SerialInv, SerialRemote
<1>3. \A u, v \in Threads : who'[u] = who'[v] /\ who'[u] # NoRemote => u = v
  BY DEF SerialInv
<1> QED BY <1>1, <1>2, <1>3 DEF SerialInv

LEMMA SerialBegin ==
  ASSUME TypeOK, TypeOK', SerialInv, ~overlap, NEW t \in Threads, NEW r \in Remotes,
         Receive(t, r) \/ Decide(t, r)
  PROVE  SerialInv'
<1> USE DEF storage, cache, history
<1>1. PICK p \in {"follow", "undo", "delete", "approve", "decline"} : Begin(t, r, p)
  BY DEF Receive, Decide, ReceiveFollow, ReceiveUndo, ReceiveDelete, BeginApprove, BeginDecline
<1>2. /\ pc'[t] = p /\ who'[t] = r
      /\ \A u \in Threads \ {t} : pc'[u] = pc[u] /\ who'[u] = who[u] /\ who[u] # r
      /\ UNCHANGED <<followers, requests>>
  BY <1>1 DEF Begin, Quiet, TypeOK, Receive, Decide, ReceiveFollow, ReceiveUndo, ReceiveDelete,
              BeginApprove, BeginDecline
<1>3. /\ \A x \in Remotes \ {r} : /\ x \in undone' <=> x \in undone
                                  /\ last'[x] = last[x] /\ answered'[x] = answered[x]
      /\ SerialRemote(r)'
  BY <1>2 DEF SerialInv, SerialRemote, TypeOK, Receive, Decide, ReceiveFollow, ReceiveUndo,
              ReceiveDelete, BeginApprove, BeginDecline
<1>4. SerialThread(t)'
  <2>1. CASE ReceiveFollow(t, r)
    BY <1>2, <2>1 DEF ReceiveFollow, Begin, SerialThread, Withdrawing, TypeOK
  <2>2. CASE ReceiveUndo(t, r) \/ ReceiveDelete(t, r)
    BY <1>2, <2>2 DEF ReceiveUndo, ReceiveDelete, Begin, SerialThread, Withdrawing, TypeOK
  <2>3. CASE BeginApprove(t, r) \/ BeginDecline(t, r)
    <3>1. r \notin undone
      BY <2>3 DEF BeginApprove, BeginDecline, SerialInv, SerialRemote
    <3> QED BY <1>2, <2>3, <3>1
            DEF BeginApprove, BeginDecline, Begin, SerialThread, Withdrawing, TypeOK
  <2> QED BY <2>1, <2>2, <2>3 DEF Receive, Decide
<1> QED BY <1>2, <1>3, <1>4, SerialStep

LEMMA SerialHandle ==
  ASSUME TypeOK, TypeOK', SerialInv, NEW t \in Threads, Handle(t)
  PROVE  SerialInv'
<1> USE DEF storage, cache, history
<1>1. pc[t] # "idle"
  BY DEF Handle, FetchFollower, ResolvePolicy, StoreFollowRequest, StoreFollower, AnswerFollow,
         RemoveFollower, RemoveRequest, InvalidateFollowers, ApproveStore, ApproveRemove,
         ApproveAnswer, DeclineRemove, DeclineAnswer, Invalidating
<1>2. who[t] \in Remotes
  BY <1>1 DEF TypeOK
<1> PICK r \in Remotes : r = who[t]
  BY <1>2
<1>3. SerialThread(t) /\ SerialRemote(r) /\ \A u \in Threads \ {t} : who[u] # r
  BY FollowsAssumption DEF SerialInv, TypeOK
<1> DEFINE
      Moved == /\ \A u \in Threads \ {t} : pc'[u] = pc[u] /\ who'[u] = who[u]
               /\ who'[t] \in {r, NoRemote}
      Local == \A x \in Remotes \ {r} : /\ x \in followers' <=> x \in followers
                                        /\ x \in requests' <=> x \in requests
                                        /\ x \in undone' <=> x \in undone
                                        /\ last'[x] = last[x] /\ answered'[x] = answered[x]
<1>4. ASSUME Leave(t) PROVE SerialThread(t)' /\ Moved
  <2>1. pc'[t] = "idle" /\ who'[t] = NoRemote /\ Moved
    BY <1>4 DEF Leave, TypeOK
  <2>2. NoRemote \notin undone'
    BY FollowsAssumption DEF TypeOK
  <2> QED BY <2>1, <2>2 DEF SerialThread, Withdrawing
<1>5. ASSUME NEW p, Goto(t, p) PROVE pc'[t] = p /\ who'[t] = r /\ Moved
  BY <1>5 DEF Goto, TypeOK
<1> SUFFICES Moved /\ Local /\ SerialThread(t)' /\ SerialRemote(r)'
  BY <1>3, SerialStep
<1> USE <1>3
<1>6. CASE CallFails(t) /\ UNCHANGED <<followers, requests, last, undone, answered>>
  BY <1>4, <1>6 DEF CallFails, SerialRemote
<1>7. CASE FetchFollower(t) \/ ResolvePolicy(t)
  <2>1. UNCHANGED <<followers, requests, last, undone, answered>>
    BY <1>7 DEF FetchFollower, ResolvePolicy
  <2>2. r \notin undone
    BY <1>7 DEF FetchFollower, ResolvePolicy, SerialThread, Withdrawing
  <2>3. Leave(t) \/ \E p \in {"policy", "store_follower", "request", "reject"} : Goto(t, p)
    <3>1. FetchFollower(t) => Goto(t, "policy") \/ Leave(t)
      BY DEF FetchFollower
    <3>2. ResolvePolicy(t) => Resolved(who[t]) \in {"accept", "manual", "reject"}
      BY <1>2, FollowsAssumption DEF Resolved, TypeOK
    <3>3. ResolvePolicy(t) => \E p \in {"store_follower", "request", "reject"} : Goto(t, p)
      BY <3>2 DEF ResolvePolicy
    <3> QED BY <1>7, <3>1, <3>3
  <2> QED BY <1>4, <1>5, <2>1, <2>2, <2>3 DEF SerialThread, SerialRemote, Withdrawing
<1>8. CASE StoreFollowRequest(t)
  <2>1. r \notin undone
    BY <1>8 DEF StoreFollowRequest, SerialThread, Withdrawing
  <2>2. /\ UNCHANGED <<followers, last, undone, answered>> /\ requests' \in {requests, requests \union {r}}
        /\ Leave(t) \/ Goto(t, "store_follower")
    BY <1>8 DEF StoreFollowRequest, CallFails
  <2> QED BY <1>4, <1>5, <2>1, <2>2 DEF SerialThread, SerialRemote, Withdrawing
<1>9. CASE StoreFollower(t) \/ ApproveStore(t)
  <2>1. r \notin undone
    BY <1>9 DEF StoreFollower, ApproveStore, SerialThread, Withdrawing
  <2>2. /\ UNCHANGED <<requests, last, undone, answered>>
        /\ \/ followers' = followers /\ Leave(t)
           \/ /\ followers' = followers \union {r}
              /\ Goto(t, "follow_invalidate") \/ Goto(t, "approve_remove")
    BY <1>9 DEF StoreFollower, ApproveStore, CallFails
  <2> QED BY <1>4, <1>5, <2>1, <2>2 DEF SerialThread, SerialRemote, Withdrawing
<1>10. CASE AnswerFollow(t) \/ ApproveAnswer(t)
  <2>1. /\ Leave(t) /\ UNCHANGED <<followers, requests, last, undone>>
        /\ \/ UNCHANGED answered
           \/ answered' = [answered EXCEPT ![r] = "Reject"]
           \/ answered' = [answered EXCEPT ![r] = "Accept"] /\ r \in followers
    BY <1>10 DEF AnswerFollow, ApproveAnswer, Deliver, SerialThread
  <2>2. /\ answered'[r] = "Accept" => answered[r] = "Accept" \/ r \in followers
        /\ \A x \in Remotes \ {r} : answered'[x] = answered[x]
    BY <2>1 DEF TypeOK
  <2> QED BY <1>4, <2>1, <2>2 DEF SerialRemote
<1>11. CASE RemoveFollower(t)
  <2>1. /\ UNCHANGED <<requests, last, undone, answered>> /\ last[r] # "Follow"
        /\ \/ followers' = followers /\ Leave(t)
           \/ /\ followers' = followers \ {r}
              /\ Goto(t, "undo_invalidate") \/ Goto(t, "delete_invalidate")
    BY <1>11 DEF RemoveFollower, CallFails, SerialThread, Withdrawing
  <2> QED BY <1>4, <1>5, <2>1 DEF SerialThread, SerialRemote, Withdrawing
<1>12. CASE RemoveRequest(t)
  <2>1. /\ UNCHANGED <<followers, last, answered>> /\ Leave(t) /\ r \notin followers
        /\ \/ requests' = requests /\ undone' = undone
           \/ requests' = requests \ {r} /\ undone' \in {undone, undone \union {r}}
    BY <1>12 DEF RemoveRequest, SerialThread
  <2> QED BY <1>4, <2>1 DEF SerialRemote
<1>13. CASE InvalidateFollowers(t)
  <2>1. /\ UNCHANGED <<followers, requests, last, undone, answered>>
        /\ \/ Leave(t)
           \/ pc[t] = "follow_invalidate" /\ Goto(t, "accept")
           \/ pc[t] = "undo_invalidate" /\ Goto(t, "undo_request")
           \/ pc[t] = "approve_invalidate" /\ Goto(t, "approve_accept")
    BY <1>13 DEF InvalidateFollowers, Invalidating
  <2> QED BY <1>4, <1>5, <2>1 DEF SerialThread, SerialRemote, Withdrawing
<1>14. CASE ApproveRemove(t) \/ DeclineRemove(t)
  <2>1. /\ UNCHANGED <<followers, last, undone, answered>> /\ requests' \in {requests, requests \ {r}}
        /\ \/ Leave(t)
           \/ pc[t] = "approve_remove" /\ Goto(t, "approve_invalidate")
           \/ pc[t] = "decline" /\ Goto(t, "decline_reject")
    BY <1>14 DEF ApproveRemove, DeclineRemove, CallFails
  <2>2. r \notin undone
    BY <1>14 DEF ApproveRemove, DeclineRemove, SerialThread, Withdrawing
  <2> QED BY <1>4, <1>5, <2>1, <2>2 DEF SerialThread, SerialRemote, Withdrawing
<1>15. CASE DeclineAnswer(t)
  <2>1. /\ Leave(t) /\ UNCHANGED <<followers, requests, last, undone>>
        /\ UNCHANGED answered \/ answered' = [answered EXCEPT ![r] = "Reject"]
    BY <1>15 DEF DeclineAnswer, Deliver
  <2>2. /\ answered'[r] = "Accept" => answered[r] = "Accept"
        /\ \A x \in Remotes \ {r} : answered'[x] = answered[x]
    BY <2>1 DEF TypeOK
  <2> QED BY <1>4, <2>1, <2>2 DEF SerialRemote
<1> QED BY <1>7, <1>8, <1>9, <1>10, <1>11, <1>12, <1>13, <1>14, <1>15 DEF Handle

LEMMA SerialAlways == Spec => [](overlap \/ SerialInv)
<1> USE FollowsAssumption
<1>1. Init => SerialInv
  BY DEF Init, SerialInv, SerialThread, SerialRemote, Withdrawing
<1>2. ASSUME TypeOK, TypeOK', overlap \/ SerialInv, [Next]_vars PROVE (overlap \/ SerialInv)'
  <2>1. CASE UNCHANGED vars
    BY <1>2, <2>1 DEF vars, storage, cache, history, config, SerialInv, SerialThread, SerialRemote
  <2>2. CASE Next
    <3>1. CASE overlap
      BY <2>2, <3>1 DEF Next, config
    <3>2. CASE ~overlap /\ ServeFollowers
      BY <1>2, <3>2 DEF ServeFollowers, storage, history, SerialInv, SerialThread, SerialRemote
    <3> QED BY <1>2, <2>2, <3>1, <3>2, SerialBegin, SerialHandle DEF Next
  <2> QED BY <1>2, <2>1, <2>2
<1>3. Spec => []TypeOK
  BY FollowsTyped
<1> QED BY <1>1, <1>2, <1>3, PTL DEF Spec

(* Where no two threads work for one remote actor, a withdrawal that ended *)
(* well stays complete (handle_undo in inbox.rs).                          *)
THEOREM SerialUndoAlwaysWithdraws == Spec => []SerialUndoWithdraws
<1>1. TypeOK /\ (overlap \/ SerialInv) => SerialUndoWithdraws
  <2> SUFFICES ASSUME TypeOK, SerialInv PROVE UndoWithdraws
    BY DEF SerialUndoWithdraws
  <2> QED BY DEF TypeOK, SerialInv, SerialRemote, UndoWithdraws
<1>2. Spec => []TypeOK
  BY FollowsTyped, FollowsAssumption
<1> QED BY <1>1, <1>2, SerialAlways, PTL

(* Where no two threads work for one remote actor, who was told Accept is  *)
(* a follower until it withdraws (handle_follow in inbox.rs,               *)
(* accept_follow_request in follows.rs).                                   *)
THEOREM AcceptedAlwaysFollower == Spec => []AcceptedIsFollower
<1>1. overlap \/ SerialInv => AcceptedIsFollower
  BY DEF SerialInv, SerialRemote, AcceptedIsFollower
<1> QED BY <1>1, SerialAlways, PTL

=============================================================================
