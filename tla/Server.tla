------------------------------ MODULE Server ------------------------------
(***************************************************************************)
(* The server: dispatch and dispatch_multi of                              *)
(* src/rust/src/server/mod.rs route a request to the handler of a local    *)
(* actor, which verifies it (Verification) and answers from the documents  *)
(* of the local actors (Documents), or lets an activity change them.       *)
(*                                                                         *)
(* What the inbox does with an activity is modelled step by step in        *)
(* Follows and Interactions; here an admitted activity changes what the    *)
(* documents show.                                                         *)
(***************************************************************************)
EXTENDS Verification, Documents

CONSTANTS
  Setups,   (* how servers may be set up and what they are asked            *)
  Shared,   (* the shared inbox                                             *)
  Foreign   (* an addressee that is not under the URL of the server         *)

VARIABLES
  setup,    (* what stays the same                                          *)
  handler   (* the local actor whose handler works for a thread, or Nobody  *)

(* A request as it is sent: who reads a document speaks for nobody, and    *)
(* who posts an activity addresses local names and others.                 *)
Sent(q) ==
  /\ Signed(q)
  /\ {"owner", "actor", "key", "date", "method"} \subseteq DOMAIN q
  /\ \/ q.method = "GET" /\ q.actor = NoActor /\ "route" \in DOMAIN q
     \/ /\ q.method = "POST"
        /\ {"to", "inbox", "type", "target"} \subseteq DOMAIN q
        /\ q.to \in Seq(Names \union {Foreign}) /\ q.inbox \in Names \union {Shared}
        /\ q.type \in {"Follow", "Undo"} => q.target \in Users /\ q.actor \in Followers
        /\ q.type = "QuoteRequest" => q.target \in Quotes

(* Is a signature required to read, what requests does a thread get, which *)
(* local actors publish and edit, and the bounds on the clock, on keys and *)
(* on what documents come to list.                                         *)
ASSUME ServerAssumption ==
  \A s \in Setups :
    /\ s.authorized \in BOOLEAN /\ s.multi \in BOOLEAN /\ s.active \subseteq Users
    /\ s.routes \subseteq Route /\ s.time \in 0..MaxTime /\ s.keys \in [Remotes -> Nat]
    /\ s.lists \subseteq Remotes \X SUBSET Remotes
    /\ \A t \in Threads : \A q \in s.requests[t] :
         Sent(q) /\ (q.method = "GET" => q.route \in s.routes)

serverVars == <<verificationVars, documentVars, setup, handler>>

TypeOK ==
  /\ VerificationTypeOK /\ DocumentsTypeOK
  /\ setup \in Setups
  /\ handler \in [Threads -> Users \union {Nobody}]
  /\ pc \in [Threads -> Verifying \union {"idle", "transit", "open", "admitted", "refused", "invalidate"}]
  /\ \A t \in Threads :
       pc[t] \in {"admitted", "invalidate"} /\ req[t].method = "POST" => handler[t] \in Users

Init ==
  /\ setup \in Setups
  /\ multi = setup.multi
  /\ routes = setup.routes
  /\ VerificationInit /\ DocumentsInit
  /\ handler = [t \in Threads |-> Nobody]

(* A response; its thread takes the next request. *)
Reply(t) ==
  /\ pc' = [pc EXCEPT ![t] = "idle"]
  /\ req' = [req EXCEPT ![t] = NoRequest]
  /\ about' = [about EXCEPT ![t] = NoActor]
  /\ got' = [got EXCEPT ![t] = 0]
  /\ listing' = [listing EXCEPT ![t] = {}]
  /\ since' = [since EXCEPT ![t] = 0]
  /\ handler' = [handler EXCEPT ![t] = Nobody]
  /\ UNCHANGED <<now, remoteVars, copies>>

----------------------------------------------------------------------------
(* POST to an inbox                                                        *)

IsLocal(n) == n # Foreign /\ Known(n)

(* Faulty variant: only the first addressee is looked at. *)
ForAddressees_FirstOnly(to) ==
  IF to # <<>> /\ IsLocal(to[1]) THEN Canonical[to[1]] ELSE Instance

(* for_addressees: the first that is a local actor, else the instance.     *)
ForAddressees(to) ==
  LET found == {i \in DOMAIN to : IsLocal(to[i])}
  IN  IF found = {} THEN Instance
      ELSE Canonical[to[CHOOSE i \in found : \A j \in found : i <= j]]

(* The handler of an inbox, or Nobody. *)
Resolve(q) ==
  CASE ~multi                       -> Instance
    [] multi /\ q.inbox = Shared    -> ForAddressees(q.to)
    [] multi /\ q.inbox # Shared    -> Canonical[q.inbox]

(* The rate limiter refuses, the body is no JSON, or nobody is there; then *)
(* what process() finds before it verifies: a blocked instance, or no      *)
(* signature at all.                                                       *)
TurnedAway(q) == ~q.parses \/ Resolve(q) = Nobody \/ Dropped(q) \/ ~q.signed

ArrivePost(t) ==
  /\ pc[t] = "transit" /\ req[t].method = "POST"
  /\ \/ Reply(t)
     \/ /\ ~TurnedAway(req[t])
        /\ StartVerification(t)
        /\ handler' = [handler EXCEPT ![t] = Resolve(req[t])]
        /\ UNCHANGED <<now, remoteVars, copies, req, got, listing, since>>
  /\ UNCHANGED documentVars

(* The hook of the application takes the activity, its type is unknown or  *)
(* it changes no document; or the change is made, and its documents are    *)
(* invalidated before the response.                                        *)
Dispatch(t) ==
  /\ pc[t] = "admitted" /\ req[t].method = "POST"
  /\ \/ Reply(t) /\ UNCHANGED documentVars
     \/ /\ req[t].type = "Follow"
        /\ ChangeFollowers(req[t].target, fans[req[t].target] \union {req[t].actor})
        /\ Goto(t, "invalidate")
        /\ UNCHANGED <<now, remoteVars, copies, req, about, got, listing, since, handler>>
     \/ /\ req[t].type = "Undo"
        /\ ChangeFollowers(req[t].target, fans[req[t].target] \ {req[t].actor})
        /\ Goto(t, "invalidate")
        /\ UNCHANGED <<now, remoteVars, copies, req, about, got, listing, since, handler>>
     \/ /\ req[t].type = "QuoteRequest"
        /\ StoreQuote(req[t].target)
        /\ Reply(t)

Accepted(t) ==
  /\ pc[t] = "invalidate"
  /\ Invalidate(FollowersDue)
  /\ Reply(t)

----------------------------------------------------------------------------
(* GET of a document                                                       *)

(* The routes that authorized fetch guards: all but discovery. *)
Closed(r) == r.kind \notin {"webfinger", "nodeinfo"}

(* No such actor, or a resource that dispatch rejects. *)
Absent(r) == (r.kind \in ActorKinds /\ ~Known(r.name)) \/ Rejected(r)

ArriveGet(t) ==
  /\ pc[t] = "transit" /\ req[t].method = "GET"
  /\ LET q == req[t]
     IN  \/ /\ Absent(q.route) \/ (setup.authorized /\ Closed(q.route) /\ ~q.signed)
            /\ Reply(t)
         \/ /\ ~Absent(q.route) /\ setup.authorized /\ Closed(q.route) /\ q.signed
            /\ StartVerification(t)
            /\ UNCHANGED <<now, remoteVars, copies, req, got, listing, since, handler>>
         \/ /\ ~Absent(q.route) /\ ~(setup.authorized /\ Closed(q.route))
            /\ Goto(t, "open")
            /\ UNCHANGED <<now, remoteVars, copies, req, about, got, listing, since, handler>>
  /\ UNCHANGED documentVars

ServeDocument(t) ==
  /\ pc[t] \in {"open", "admitted"} /\ req[t].method = "GET"
  /\ Serve(req[t].route)
  /\ Reply(t)

(* 401 *)
Unauthorized(t) == pc[t] = "refused" /\ Reply(t) /\ UNCHANGED documentVars

----------------------------------------------------------------------------
Respond(t) ==
  \/ ArrivePost(t) \/ ArriveGet(t) \/ Dispatch(t) \/ Accepted(t)
  \/ ServeDocument(t) \/ Unauthorized(t)
  \/ Verify(t) /\ UNCHANGED <<documentVars, handler>>

(* Remote servers, and time. *)
Remote ==
  \/ now < setup.time /\ Tick
  \/ \E a \in Remotes : key[a] < setup.keys[a] /\ Rotate(a)
  \/ \E w \in setup.lists : listed[w[1]] # w[2] /\ Relist(w[1], w[2])
  \/ \E t \in Threads : \E q \in setup.requests[t] : Send(t, q)

Next ==
  /\ UNCHANGED setup
  /\ \/ \E t \in Threads : Respond(t)
     \/ Remote /\ UNCHANGED <<documentVars, handler>>
     \/ Change(setup.active) /\ UNCHANGED <<verificationVars, handler>>
     \/ CatchUp /\ UNCHANGED <<verificationVars, handler>>

Spec == Init /\ [][Next]_serverVars

----------------------------------------------------------------------------
(* Properties *)

(* A request to the shared inbox is handled for somebody it addresses, and *)
(* for the instance only if it addresses nobody here.                      *)
RoutedToAddressee ==
  multi => \A t \in Threads : handler[t] # Nobody /\ req[t].inbox = Shared =>
    LET local == {Canonical[req[t].to[i]] : i \in {j \in DOMAIN req[t].to : req[t].to[j] # Foreign}}
                  \ {Nobody}
    IN  IF local = {} THEN handler[t] = Instance ELSE handler[t] \in local

(* No document is fetched for an activity of an actor on a blocked         *)
(* instance: "rejected instances are dropped without fetching the key"     *)
(* (process in inbox.rs), and "blocked domains take precedence over        *)
(* allowed domains" (moderation.rs).                                       *)
BlockedNotFetched ==
  \A t \in Threads : pc[t] \in Verifying /\ req[t].actor # NoActor =>
    DomainOf[req[t].actor] \notin Blocked

=============================================================================
