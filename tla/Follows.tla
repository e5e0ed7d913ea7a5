------------------------------ MODULE Follows ------------------------------
(***************************************************************************)
(* The followers of a local actor: Follow, Undo(Follow) and Delete as the  *)
(* inbox handles them (src/rust/src/handlers/inbox.rs), and the            *)
(* application's answer to pending requests (src/rust/src/follows.rs).     *)
(*                                                                         *)
(* A thread works for one remote actor at a time.  Every storage call is   *)
(* one step; what happens between two of them is up to the other threads.  *)
(***************************************************************************)
EXTENDS Naturals

CONSTANTS
  Threads,       (* threads of the server and of the application            *)
  Remotes,       (* remote actors                                           *)
  Policies,      (* the policies the application may configure              *)
  Storages,      (* may the storage have follow requests, and may it lack   *)
                 (* them?                                                   *)
  StorageFaults, (* may a storage call return an error?                     *)
  Overlaps,      (* may two threads work for one remote actor at once, and  *)
                 (* may they be kept from it?                               *)
  NoRemote,      (* not a remote actor                                      *)
  NoDoc          (* no cached document                                      *)

ASSUME FollowsAssumption ==
  /\ Policies \subseteq [Remotes -> {"unset", "accept", "none", "manual", "reject", "panic"}]
  /\ Storages \subseteq BOOLEAN
  /\ StorageFaults \in BOOLEAN
  /\ Overlaps \subseteq BOOLEAN
  /\ NoRemote \notin Remotes

VARIABLES
  policy,     (* what follow_policy does for a remote actor                 *)
  supported,  (* does the storage implement follow requests?                *)
  overlap,    (* may two threads work for one remote actor at once?         *)
  followers,  (* the stored followers of the local actor                    *)
  requests,   (* the remote actors with a stored FollowRequest              *)
  document,   (* the followers in the cached collection, or NoDoc           *)
  missed,     (* history: who was approved with no invalidation to follow,  *)
              (* because a storage call failed                              *)
  pc,         (* where a thread is                                          *)
  who,        (* the remote actor it works for                              *)
  approved,   (* history: requests the application chose to accept          *)
  last,       (* history: the last activity each remote actor sent          *)
  undone,     (* history: who withdrew, all storage calls succeeding, and   *)
              (* sent no Follow since                                       *)
  answered    (* history: the last answer delivered to each remote actor    *)

config == <<policy, supported, overlap>>
storage == <<followers, requests>>
cache == <<document, missed>>
history == <<approved, last, undone, answered>>
vars == <<config, storage, cache, pc, who, history>>

(* Where a thread is between the change of a follower and the invalidation.*)
Invalidating ==
  {"follow_invalidate", "undo_invalidate", "delete_invalidate", "approve_invalidate"}

HandlingFollow ==
  {"follow", "policy", "request", "store_follower", "follow_invalidate", "accept", "reject"}

Points ==
  {"idle", "follow", "policy", "request", "store_follower", "accept", "reject", "undo",
   "undo_request", "delete", "approve", "approve_remove", "approve_accept", "decline",
   "decline_reject"} \union Invalidating

(* Remote actors whose Follow the policy holds back. *)
Held == {r \in Remotes : policy[r] \in {"manual", "panic"}}

(* Types; a request is pending only of who is held back, where the storage *)
(* has requests at all; and a thread works for somebody until it is idle.  *)
TypeOK ==
  /\ policy \in Policies
  /\ supported \in Storages
  /\ overlap \in Overlaps
  /\ followers \subseteq Remotes
  /\ requests \subseteq (IF supported THEN Held ELSE {})
  /\ \A t \in Threads : pc[t] = "idle" <=> who[t] = NoRemote
  /\ document \in (SUBSET Remotes) \union {NoDoc}
  /\ missed \subseteq Remotes
  /\ pc \in [Threads -> Points]
  /\ who \in [Threads -> Remotes \union {NoRemote}]
  /\ approved \subseteq Remotes
  /\ last \in [Remotes -> {"nothing", "Follow", "Undo", "Delete"}]
  /\ undone \subseteq Remotes
  /\ answered \in [Remotes -> {"nothing", "Accept", "Reject"}]

Init ==
  /\ policy \in Policies
  /\ supported \in Storages
  /\ overlap \in Overlaps
  /\ followers = {}
  /\ requests = {}
  /\ document = NoDoc
  /\ missed = {}
  /\ pc = [t \in Threads |-> "idle"]
  /\ who = [t \in Threads |-> NoRemote]
  /\ approved = {}
  /\ last = [r \in Remotes |-> "nothing"]
  /\ undone = {}
  /\ answered = [r \in Remotes |-> "nothing"]

----------------------------------------------------------------------------
(* No thread works for r. *)
Quiet(r) == \A t \in Threads : who[t] # r

Begin(t, r, p) ==
  /\ pc[t] = "idle"
  /\ overlap \/ Quiet(r)
  /\ pc' = [pc EXCEPT ![t] = p]
  /\ who' = [who EXCEPT ![t] = r]

Goto(t, p) == pc' = [pc EXCEPT ![t] = p] /\ UNCHANGED who

Leave(t) == pc' = [pc EXCEPT ![t] = "idle"] /\ who' = [who EXCEPT ![t] = NoRemote]

(* A storage call fails, and ? hands the error to the caller. *)
CallFails(t) == StorageFaults /\ Leave(t) /\ UNCHANGED storage

Deliver(t, answer) ==
  \/ answered' = [answered EXCEPT ![who[t]] = answer]
  \/ UNCHANGED answered

----------------------------------------------------------------------------
(* Follow                                                                  *)

ReceiveFollow(t, r) ==
  /\ Begin(t, r, "follow")
  /\ last' = [last EXCEPT ![r] = "Follow"]
  /\ undone' = undone \ {r}
  /\ answered' = [answered EXCEPT ![r] = "nothing"]
  /\ UNCHANGED <<storage, cache, approved>>

(* self.fetch_actor(actor_id), over the network *)
FetchFollower(t) ==
  /\ pc[t] = "follow"
  /\ Goto(t, "policy") \/ Leave(t)
  /\ UNCHANGED <<storage, cache, history>>

(* Faulty variant: a callback that panics lets the follower in. *)
Resolved_FailOpen(r) ==
  CASE policy[r] = "manual" -> "manual"
    [] policy[r] = "reject" -> "reject"
    [] OTHER                -> "accept"

(* resolve_follow_policy: no callback and None accept, a panic holds back. *)
Resolved(r) ==
  CASE policy[r] \in {"manual", "panic"}         -> "manual"
    [] policy[r] = "reject"                      -> "reject"
    [] policy[r] \in {"unset", "accept", "none"} -> "accept"

ResolvePolicy(t) ==
  /\ pc[t] = "policy"
  /\ Goto(t, CASE Resolved(who[t]) = "accept" -> "store_follower"
               [] Resolved(who[t]) = "manual" -> "request"
               [] Resolved(who[t]) = "reject" -> "reject")
  /\ UNCHANGED <<storage, cache, history>>

(* store_follow_request; a storage without requests falls back to accepting*)
StoreFollowRequest(t) ==
  /\ pc[t] = "request"
  /\ \/ supported /\ requests' = requests \union {who[t]} /\ Leave(t) /\ UNCHANGED followers
     \/ ~supported /\ Goto(t, "store_follower") /\ UNCHANGED storage
     \/ CallFails(t)
  /\ UNCHANGED <<cache, history>>

(* Faulty variant: an error of the storage is ignored. *)
StoreFollower_Ignored(t) ==
  /\ pc[t] = "store_follower"
  /\ \/ followers' = followers \union {who[t]}
     \/ StorageFaults /\ UNCHANGED followers
  /\ Goto(t, "follow_invalidate")
  /\ UNCHANGED <<requests, cache, history>>

(* self.storage.store_follower(&follower)? *)
StoreFollower(t) ==
  /\ pc[t] = "store_follower"
  /\ \/ /\ followers' = followers \union {who[t]}
        /\ Goto(t, "follow_invalidate")
        /\ UNCHANGED requests
     \/ CallFails(t)
  /\ UNCHANGED <<cache, history>>

(* deliver_to_inbox of the Accept or Reject, whose result is ignored *)
AnswerFollow(t) ==
  /\ \/ pc[t] = "accept" /\ Deliver(t, "Accept")
     \/ pc[t] = "reject" /\ Deliver(t, "Reject")
  /\ Leave(t)
  /\ UNCHANGED <<storage, cache, approved, last, undone>>

----------------------------------------------------------------------------
(* Undo(Follow) and Delete of the remote actor                             *)

ReceiveUndo(t, r) ==
  /\ Begin(t, r, "undo")
  /\ last' = [last EXCEPT ![r] = "Undo"]
  /\ UNCHANGED <<storage, cache, approved, undone, answered>>

ReceiveDelete(t, r) ==
  /\ Begin(t, r, "delete")
  /\ last' = [last EXCEPT ![r] = "Delete"]
  /\ UNCHANGED <<storage, cache, approved, undone, answered>>

(* self.storage.remove_follower(..)?, in handle_undo and handle_delete *)
RemoveFollower(t) ==
  /\ pc[t] \in {"undo", "delete"}
  /\ \/ /\ followers' = followers \ {who[t]}
        /\ Goto(t, IF pc[t] = "undo" THEN "undo_invalidate" ELSE "delete_invalidate")
        /\ UNCHANGED requests
     \/ CallFails(t)
  /\ UNCHANGED <<cache, history>>

(* The Undo that t handles is the last word of its sender, and no Follow   *)
(* of the sender is still being handled.                                   *)
Withdrawn(t) ==
  /\ last[who[t]] = "Undo"
  /\ \A u \in Threads \ {t} : who[u] = who[t] => pc[u] \notin HandlingFollow

(* Faulty variant: only the follower is removed. *)
RemoveRequest_Kept(t) ==
  /\ pc[t] = "undo_request"
  /\ undone' = IF Withdrawn(t) THEN undone \union {who[t]} ELSE undone
  /\ Leave(t)
  /\ UNCHANGED <<storage, cache, approved, last, answered>>

(* let _ = self.storage.remove_follow_request(..), the end of an Undo *)
RemoveRequest(t) ==
  /\ pc[t] = "undo_request"
  /\ \/ /\ requests' = requests \ {who[t]}
        /\ undone' = IF Withdrawn(t) THEN undone \union {who[t]} ELSE undone
     \/ StorageFaults /\ UNCHANGED <<requests, undone>>
  /\ Leave(t)
  /\ UNCHANGED <<followers, cache, approved, last, answered>>

----------------------------------------------------------------------------
(* The application                                                         *)

(* It reads a pending request, and accept_follow_request works on its copy *)
BeginApprove(t, r) ==
  /\ r \in requests
  /\ Begin(t, r, "approve")
  /\ approved' = approved \union {r}
  /\ UNCHANGED <<storage, cache, last, undone, answered>>

ApproveStore(t) ==
  /\ pc[t] = "approve"
  /\ \/ /\ followers' = followers \union {who[t]}
        /\ Goto(t, "approve_remove")
        /\ UNCHANGED requests
     \/ CallFails(t)
  /\ UNCHANGED <<cache, history>>

ApproveRemove(t) ==
  /\ pc[t] = "approve_remove"
  /\ \/ /\ requests' = requests \ {who[t]}
        /\ Goto(t, "approve_invalidate")
        /\ UNCHANGED <<followers, missed>>
     \/ CallFails(t) /\ missed' = missed \union {who[t]}
  /\ UNCHANGED <<document, history>>

(* deliver_response of the Accept *)
ApproveAnswer(t) ==
  /\ pc[t] = "approve_accept"
  /\ Deliver(t, "Accept")
  /\ Leave(t)
  /\ UNCHANGED <<storage, cache, approved, last, undone>>

(* reject_follow_request *)
BeginDecline(t, r) ==
  /\ r \in requests
  /\ Begin(t, r, "decline")
  /\ UNCHANGED <<storage, cache, history>>

DeclineRemove(t) ==
  /\ pc[t] = "decline"
  /\ \/ /\ requests' = requests \ {who[t]}
        /\ Goto(t, "decline_reject")
        /\ UNCHANGED followers
     \/ CallFails(t)
  /\ UNCHANGED <<cache, history>>

DeclineAnswer(t) ==
  /\ pc[t] = "decline_reject"
  /\ Deliver(t, "Reject")
  /\ Leave(t)
  /\ UNCHANGED <<storage, cache, approved, last, undone>>

----------------------------------------------------------------------------
(* The cached followers collection                                         *)

(* Faulty variant: an Undo does not invalidate the collection. *)
InvalidateFollowers_NotUndo(t) ==
  /\ pc[t] \in Invalidating
  /\ document' = IF pc[t] = "undo_invalidate" THEN document ELSE NoDoc
  /\ missed' = IF pc[t] = "undo_invalidate" THEN missed ELSE {}
  /\ IF pc[t] = "delete_invalidate" THEN Leave(t)
     ELSE Goto(t, CASE pc[t] = "follow_invalidate"  -> "accept"
                    [] pc[t] = "undo_invalidate"    -> "undo_request"
                    [] pc[t] = "approve_invalidate" -> "approve_accept")
  /\ UNCHANGED <<storage, history>>

(* invalidate_cached_documents(&[followers_key()]).  What handle_delete    *)
(* does after it concerns interactions only.                               *)
InvalidateFollowers(t) ==
  /\ pc[t] \in Invalidating
  /\ document' = NoDoc
  /\ missed' = {}
  /\ IF pc[t] = "delete_invalidate" THEN Leave(t)
     ELSE Goto(t, CASE pc[t] = "follow_invalidate"  -> "accept"
                    [] pc[t] = "undo_invalidate"    -> "undo_request"
                    [] pc[t] = "approve_invalidate" -> "approve_accept")
  /\ UNCHANGED <<storage, history>>

(* The collection is rendered and cached. *)
ServeFollowers ==
  /\ document = NoDoc
  /\ document' = followers
  /\ missed' = {}
  /\ UNCHANGED <<storage, pc, who, history>>

----------------------------------------------------------------------------
Receive(t, r) == ReceiveFollow(t, r) \/ ReceiveUndo(t, r) \/ ReceiveDelete(t, r)

Decide(t, r) == BeginApprove(t, r) \/ BeginDecline(t, r)

Handle(t) ==
  \/ FetchFollower(t) \/ ResolvePolicy(t) \/ StoreFollowRequest(t) \/ StoreFollower(t)
  \/ AnswerFollow(t) \/ RemoveFollower(t) \/ RemoveRequest(t) \/ InvalidateFollowers(t)
  \/ ApproveStore(t) \/ ApproveRemove(t) \/ ApproveAnswer(t)
  \/ DeclineRemove(t) \/ DeclineAnswer(t)

(* The configuration of a server does not change while it runs. *)
Next ==
  /\ UNCHANGED config
  /\ \/ \E t \in Threads, r \in Remotes : Receive(t, r) \/ Decide(t, r)
     \/ \E t \in Threads : Handle(t)
     \/ ServeFollowers

Spec == Init /\ [][Next]_vars

----------------------------------------------------------------------------
(* Properties *)

(* Nobody gets past the follow policy, in whatever order activities and    *)
(* the decisions on them are handled: who it rejects is no follower, and   *)
(* where the storage has follow requests, a follower that it holds back,   *)
(* by a panic included, was approved by the application.                   *)
PolicyHonoured ==
  \A r \in followers :
    /\ policy[r] # "reject"
    /\ supported /\ r \in Held => r \in approved

(* "A policy failure must not silently grant a follow" (inbox.rs): who is  *)
(* a follower although the callback panicked was approved, whatever the    *)
(* storage.  The code breaks this, and no run checks it (README, 5.2): a   *)
(* storage without requests is documented to let in whoever the "manual"   *)
(* policy holds back, and handle_follow does not tell a panic from that.   *)
FailsClosed == \A r \in followers : policy[r] = "panic" => r \in approved

(* Once a change of the followers has been invalidated, no collection      *)
(* without it is served: the cached collection and the storage disagree    *)
(* only about remote actors whose change some thread still has to          *)
(* invalidate, and about those whose approval failed half way.             *)
CollectionCurrent ==
  document # NoDoc =>
    \A r \in Remotes :
      \/ r \in document <=> r \in followers
      \/ r \in missed
      \/ \E t \in Threads : who[t] = r /\ pc[t] \in Invalidating \union {"approve_remove"}

(* "An Undo(Follow) removes both the accepted follower and any pending     *)
(* request" (README.md): who withdrew, and asked no more, is neither.      *)
UndoWithdraws == \A r \in undone : Quiet(r) => r \notin followers \union requests

(* The same, of a server that handles one remote actor at a time: whatever *)
(* storage calls fail on the way, a withdrawal that ended well is complete.*)
SerialUndoWithdraws == overlap \/ UndoWithdraws

(* A remote actor told Accept is a follower, until it withdraws, of a      *)
(* server that handles one remote actor at a time.                         *)
AcceptedIsFollower ==
  overlap \/
  \A r \in Remotes :
    answered[r] = "Accept" /\ last[r] = "Follow" /\ Quiet(r) => r \in followers

=============================================================================
