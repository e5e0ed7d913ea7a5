---------------------------- MODULE Verification ----------------------------
(***************************************************************************)
(* Who signed a request: the instance filter, the copies of actor          *)
(* documents the storage keeps for a day, and the HTTP signature           *)
(* (InboxProcessor::process, verify_signature and fetch_actor of           *)
(* src/rust/src/handlers/inbox.rs, verify_request of                       *)
(* src/rust/src/crypto/signatures.rs).                                     *)
(*                                                                         *)
(* Remote actors change their keys, keep the key id, and sign with the key *)
(* they have; they also change which keys their documents list.  A         *)
(* signature is the version of the key it was made with; what matters of a *)
(* document is its version of the key and whose keys it lists.             *)
(***************************************************************************)
EXTENDS Integers

CONSTANTS
  Threads,       (* threads that handle requests                            *)
  Remotes,       (* remote actors                                           *)
  DomainOf,      (* the domain of each, or NoDomain if there is none        *)
  Allowed,       (* allowed_instances, {} for all                           *)
  Blocked,       (* blocked_instances                                       *)
  Listed,        (* whose keys the document of each one lists at first      *)
  MaxAge,        (* seconds a copy of a document is used, 86400             *)
  MaxSkew,       (* MAX_SIGNED_DATE_SKEW_SECS, 300                          *)
  FetchTime,     (* http_timeout                                            *)
  StorageFaults, (* may a storage call return an error?                     *)
  MaxTime,       (* bound on the clock                                      *)
  NoActor, NoDomain, NoCopy, NoRequest

ASSUME VerificationAssumption ==
  /\ MaxAge \in Nat /\ MaxSkew \in Nat /\ FetchTime \in Nat /\ MaxTime \in Nat
  /\ DomainOf \in [Remotes -> Allowed \union Blocked \union {NoDomain}]
  /\ Listed \in [Remotes -> SUBSET Remotes]
  /\ StorageFaults \in BOOLEAN
  /\ NoDomain \notin Allowed \union Blocked
  /\ NoActor \notin Remotes
  /\ NoCopy \notin [key: Nat, lists: SUBSET Remotes, at: Nat]

VARIABLES
  now,      (* the clock                                                    *)
  key,      (* the version of the key of each remote actor                  *)
  changed,  (* history: when it last changed                                *)
  listed,   (* the actors whose keys the document of each one lists         *)
  withdrawn, (* history: who stopped listing whose key, and when            *)
  copies,   (* the cached documents: a version of the key, whose keys are   *)
            (* listed, and the time of the copy                             *)
  pc,       (* where a thread is                                            *)
  req,      (* the request it handles                                       *)
  about,    (* the actor whose document it needs                            *)
  got,      (* the version of the key it read there                         *)
  listing,  (* the actors whose keys that document lists                    *)
  since     (* when its GET began                                           *)

remoteVars == <<key, changed, listed, withdrawn>>
threadVars == <<pc, req, about, got, listing, since>>
verificationVars == <<now, remoteVars, copies, threadVars>>

(* What verification looks at: who signed, with which key and when, whom   *)
(* the body names as actor, whether the Date is signed, and whether the    *)
(* headers are well formed and the signed Digest is that of the body.      *)
Signed(q) ==
  /\ q.owner \in Remotes /\ q.key \in Nat /\ q.date \in Nat
  /\ q.actor \in Remotes \union {NoActor}
  /\ q.dated \in BOOLEAN /\ q.sound \in BOOLEAN

Verifying == {"document", "fetch", "received", "check"}

(* Types; and nobody knows a version of a key before it exists.            *)
VerificationTypeOK ==
  /\ now \in Nat
  /\ key \in [Remotes -> Nat]
  /\ changed \in [Remotes -> Nat] /\ \A a \in Remotes : changed[a] <= now
  /\ listed \in [Remotes -> SUBSET Remotes]
  /\ withdrawn \subseteq [by: Remotes, of: Remotes, at: Nat]
  /\ copies \in [Remotes -> [key: Nat, lists: SUBSET Remotes, at: Nat] \union {NoCopy}]
  /\ \A a \in Remotes : copies[a] # NoCopy => copies[a].key <= key[a] /\ copies[a].at <= now
  /\ \A t \in Threads : pc[t] # "idle" =>
       Signed(req[t]) /\ req[t].key <= key[req[t].owner] /\ req[t].date <= now
  /\ about \in [Threads -> Remotes \union {NoActor}]
  /\ \A t \in Threads : pc[t] \in Verifying => about[t] \in Remotes
  /\ got \in [Threads -> Nat]
  /\ listing \in [Threads -> SUBSET Remotes]
  /\ since \in [Threads -> Nat]

VerificationInit ==
  /\ now = 0
  /\ key = [a \in Remotes |-> 0]
  /\ changed = [a \in Remotes |-> 0]
  /\ listed = Listed
  /\ withdrawn = {}
  /\ copies = [a \in Remotes |-> NoCopy]
  /\ pc = [t \in Threads |-> "idle"]
  /\ req = [t \in Threads |-> NoRequest]
  /\ about = [t \in Threads |-> NoActor]
  /\ got = [t \in Threads |-> 0]
  /\ listing = [t \in Threads |-> {}]
  /\ since = [t \in Threads |-> 0]

Goto(t, p) == pc' = [pc EXCEPT ![t] = p]

----------------------------------------------------------------------------
(* Time and the remote servers                                             *)

(* A GET ends within FetchTime, and what a thread does without waiting for *)
(* others takes no time.                                                   *)
Tick ==
  /\ now < MaxTime
  /\ \A t \in Threads :
       \/ pc[t] \in {"idle", "transit"}
       \/ pc[t] \in {"fetch", "received"} /\ now < since[t] + FetchTime
  /\ now' = now + 1
  /\ UNCHANGED <<remoteVars, copies, threadVars>>

Rotate(a) ==
  /\ key' = [key EXCEPT ![a] = @ + 1]
  /\ changed' = [changed EXCEPT ![a] = now]
  /\ UNCHANGED <<now, listed, withdrawn, copies, threadVars>>

(* An actor changes whose keys its document lists. *)
Relist(a, S) ==
  /\ listed' = [listed EXCEPT ![a] = S]
  /\ withdrawn' = withdrawn \union {[by |-> a, of |-> b, at |-> now] : b \in listed[a] \ S}
  /\ UNCHANGED <<now, key, changed, copies, threadVars>>

(* A request leaves its sender, signed and dated; it may arrive later. *)
Send(t, q) ==
  /\ pc[t] = "idle"
  /\ Goto(t, "transit")
  /\ req' = [req EXCEPT ![t] = [q EXCEPT !.key = key[q.owner], !.date = now]]
  /\ UNCHANGED <<now, remoteVars, copies, about, got, listing, since>>

----------------------------------------------------------------------------
(* is_domain_blocked: an actor without a domain passes. *)
IsDomainBlocked(a) ==
  /\ DomainOf[a] # NoDomain
  /\ DomainOf[a] \in Blocked \/ (Allowed # {} /\ DomainOf[a] \notin Allowed)

(* process() drops an activity whose actor is on a blocked instance. *)
Dropped(q) == q.actor # NoActor /\ IsDomainBlocked(q.actor)

(* verify_signature begins with the document of the owner of the key. *)
StartVerification(t) ==
  /\ Goto(t, "document")
  /\ about' = [about EXCEPT ![t] = req[t].owner]

(* Faulty variant: a copy never ages. *)
Cached_Forever(a) == copies[a] # NoCopy

(* get_cached_actor(.., 86400.0) *)
Cached(a) == copies[a] # NoCopy /\ now - copies[a].at <= MaxAge

(* fetch_actor: the copy, or a GET. *)
ReadCopy(t) ==
  /\ pc[t] = "document"
  /\ \/ /\ Cached(about[t])
        /\ got' = [got EXCEPT ![t] = copies[about[t]].key]
        /\ listing' = [listing EXCEPT ![t] = copies[about[t]].lists]
        /\ Goto(t, "check")
        /\ UNCHANGED since
     \/ /\ ~Cached(about[t]) \/ StorageFaults
        /\ Goto(t, "fetch")
        /\ since' = [since EXCEPT ![t] = now]
        /\ UNCHANGED <<got, listing>>
  /\ UNCHANGED <<now, remoteVars, copies, req, about>>

(* Faulty variant: where there is a copy, an old one is as good as a GET.  *)
Answer_Stale(t) ==
  /\ pc[t] = "fetch"
  /\ LET old == copies[about[t]]
     IN  /\ got' = [got EXCEPT ![t] = IF old # NoCopy THEN old.key ELSE key[about[t]]]
         /\ listing' = [listing EXCEPT ![t] =
                          IF old # NoCopy THEN old.lists ELSE listed[about[t]]]
  /\ Goto(t, "received")
  /\ UNCHANGED <<now, remoteVars, copies, req, about, since>>

(* The remote server answers; the answer is on its way. *)
Answer(t) ==
  /\ pc[t] = "fetch"
  /\ got' = [got EXCEPT ![t] = key[about[t]]]
  /\ listing' = [listing EXCEPT ![t] = listed[about[t]]]
  /\ Goto(t, "received")
  /\ UNCHANGED <<now, remoteVars, copies, req, about, since>>

(* cache_remote_actor(.., None), whose errors are ignored. *)
StoreCopy(t) ==
  /\ pc[t] = "received"
  /\ \/ copies' = [copies EXCEPT ![about[t]] = 
                  [key |-> got[t], lists |-> listing[t], at |-> now]]
     \/ StorageFaults /\ UNCHANGED copies
  /\ Goto(t, "check")
  /\ UNCHANGED <<now, remoteVars, req, about, got, listing, since>>

----------------------------------------------------------------------------
(* Faulty variant: the skew without abs(), so that only a Date ahead of    *)
(* the clock is refused.                                                   *)
Fresh_NoAbs(q) == q.dated => q.date - now <= MaxSkew

(* The signed Date is close to now. *)
Fresh(q) == q.dated => now - q.date <= MaxSkew

(* verify_request, with the key that was read. *)
Verified(t) == req[t].sound /\ Fresh(req[t]) /\ got[t] = req[t].key

(* verify_key_ownership: the document that was read lists the key. *)
Owned(t) == req[t].owner \in listing[t]

(* The document is the one of the signer. *)
Signer(t) == about[t] = req[t].owner

(* The signer is not the actor it speaks for. *)
Delegated(t) == req[t].actor \notin {NoActor, req[t].owner}

(* Who signs for somebody else has to be listed by that one. *)
CheckDelegation(t) ==
  /\ pc[t] = "check" /\ Signer(t) /\ Verified(t) /\ Delegated(t)
  /\ Goto(t, "document")
  /\ about' = [about EXCEPT ![t] = req[t].actor]
  /\ UNCHANGED <<now, remoteVars, copies, req, got, listing, since>>

Admit(t) ==
  /\ pc[t] = "check"
  /\ IF Signer(t) THEN Verified(t) /\ ~Delegated(t) ELSE Owned(t)
  /\ Goto(t, "admitted")
  /\ UNCHANGED <<now, remoteVars, copies, req, about, got, listing, since>>

(* No document, a signature that does not fit, or somebody else's key. *)
Refuse(t) ==
  /\ \/ pc[t] \in {"fetch", "received"}
     \/ pc[t] = "check" /\ ~(IF Signer(t) THEN Verified(t) ELSE Owned(t))
  /\ Goto(t, "refused")
  /\ UNCHANGED <<now, remoteVars, copies, req, about, got, listing, since>>

Verify(t) ==
  ReadCopy(t) \/ Answer(t) \/ StoreCopy(t) \/ CheckDelegation(t) \/ Admit(t) \/ Refuse(t)

----------------------------------------------------------------------------
(* Properties *)

(* An actor that changes its key is refused for no longer than a day after *)
(* the change, and a GET: whatever GETs were under way and whatever copies *)
(* they left, a version older than that of the signature was replaced      *)
(* since, and one that is newer replaced it after it was made.             *)
RotationHeals ==
  \A t \in Threads : pc[t] = "check" /\ Signer(t) =>
    /\ got[t] < req[t].key => now <= changed[req[t].owner] + FetchTime + MaxAge
    /\ got[t] > req[t].key => req[t].date <= changed[req[t].owner]

(* Whoever is admitted signed what it sent, and for somebody else only     *)
(* with a key that the document of that one lists, or listed no longer ago *)
(* than a day and a GET: the copies of documents keep a delegation alive   *)
(* that was withdrawn.                                                     *)
SpeakersListed ==
  \A t \in Threads : pc[t] = "admitted" =>
    /\ req[t].sound
    /\ Delegated(t) =>
         \/ req[t].owner \in listed[req[t].actor]
         \/ \E w \in withdrawn :
              /\ w.by = req[t].actor /\ w.of = req[t].owner
              /\ now <= w.at + FetchTime + MaxAge

(* A signed Date counts for MAX_SIGNED_DATE_SKEW_SECS, and for a GET more  *)
(* if the document of the actor is fetched after the Date was checked.     *)
DatesExpire ==
  \A t \in Threads : pc[t] = "admitted" /\ req[t].dated =>
    now <= req[t].date + MaxSkew + (IF Delegated(t) THEN FetchTime ELSE 0)

(* A key that was replaced admits nothing for longer than a day and the    *)
(* GETs that may be under way, which are two if the signer speaks for      *)
(* somebody else.                                                          *)
RetiredKeysEnd ==
  \A t \in Threads : pc[t] = "admitted" =>
    \/ req[t].key = key[req[t].owner]
    \/ now <= changed[req[t].owner] + FetchTime + MaxAge
              + (IF Delegated(t) THEN FetchTime ELSE 0)

=============================================================================
