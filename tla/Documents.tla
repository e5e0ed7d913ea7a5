----------------------------- MODULE Documents -----------------------------
(***************************************************************************)
(* The documents of the local actors that the GET routes serve through the *)
(* document cache (src/rust/src/server/mod.rs), and the invalidations of   *)
(* those who change what the documents show.                               *)
(*                                                                         *)
(* Rendering and storing are one step here: a document that is stored late *)
(* shows the data, or whoever changed them is on the way to delete it      *)
(* (StaleOnlyWhileDue of DocumentCache), as those in due are.  What a      *)
(* document shows is a version number or a set.                            *)
(***************************************************************************)
EXTENDS Naturals, Sequences

CONSTANTS
  Users,       (* the local actors                                          *)
  Canonical,   (* the local actor a username resolves to, or Nobody         *)
  Lowercase,   (* the username in lower case                                *)
  Instance,    (* the instance actor, who is one of the local actors        *)
  Activities,  (* activities the local actors publish                       *)
  AuthorOf,    (* who publishes one                                         *)
  UpdateOf,    (* the Update of its profile an actor publishes              *)
  Quotes,      (* quote authorizations                                      *)
  Followers,   (* remote actors                                             *)
  MaxEdits,    (* bound on the changes of a profile                         *)
  Nobody, NoEntry, Missing

Names == DOMAIN Canonical

ASSUME DocumentsAssumption ==
  /\ Canonical \in [Names -> Users \union {Nobody}]
  /\ Lowercase \in [Names -> Names]
  /\ Instance \in Users
  /\ AuthorOf \in [Activities -> Users]
  /\ UpdateOf \in [Users -> Activities]
  /\ MaxEdits \in Nat
  /\ Missing \notin Users

VARIABLES
  multi,      (* is this dispatch_multi, for many local actors?             *)
  routes,     (* the GET routes that are asked for                          *)
  profile,    (* the version of the profile of each local actor             *)
  published,  (* the activities in the storage                              *)
  quotes,     (* the quote authorizations in the storage                    *)
  fans,       (* the stored followers of each local actor                   *)
  cache,      (* the cached documents                                       *)
  due         (* the invalidations that changes are on their way to         *)

contents == <<profile, published, quotes, fans>>
documentVars == <<multi, routes, contents, cache, due>>

(* Routes of an actor, which name whom they want; and those without actor. *)
ActorKinds == {"actor", "outbox", "followers", "activities"}

(* A route: what is asked for, of whom (a name, or Instance for the routes *)
(* of the instance), and the page, the activity, or the spelling of the    *)
(* resource ("acct", "bare" or "url").                                     *)
Route ==
  [kind: ActorKinds \union {"quote-authorization", "nodeinfo"}, name: Names,
   arg: {"page"} \union Activities \union Quotes]
  \union [kind: {"webfinger"}, name: Names, arg: {"acct", "bare", "url"}]

(* A username resolves to a local actor. *)
Known(n) == Canonical[n] # Nobody

----------------------------------------------------------------------------
(* Who a WebFinger resource is, which does not ask for the actor of a bare *)
(* user@domain.                                                            *)
Resource(r) ==
  CASE r.arg = "acct" -> Canonical[Lowercase[r.name]]
    [] r.arg = "url"  -> Canonical[r.name]
    [] r.arg = "bare" -> Nobody

(* is_valid_webfinger_resource, which dispatch asks and dispatch_multi     *)
(* does not.                                                               *)
Rejected(r) == r.kind = "webfinger" /\ ~multi /\ Resource(r) = Nobody

(* The documents.  The one of an actor is written for the spelling of its  *)
(* name that was asked for; of the storage, an outbox page shows what its  *)
(* actor published, in a storage that holds no more than a page.           *)
ActorDocument(n) == [version |-> profile[Canonical[n]], name |-> n]
OutboxPage(u) == {a \in published : AuthorOf[a] = u}
FollowersCollection(u) == fans[u]
NodeInfo == published
ActivityDocument(a, u) == IF a \in published /\ AuthorOf[a] = u THEN a ELSE Missing
Authorization(q) == IF q \in quotes THEN q ELSE Missing
Account(u) == IF u = Nobody THEN Missing ELSE u

(* The document of a route, as it would be rendered now.                   *)
Render(r) ==
  LET u == Canonical[r.name]
  IN  CASE r.kind = "actor"               -> ActorDocument(r.name)
        [] r.kind = "outbox"              -> OutboxPage(u)
        [] r.kind = "followers"           -> FollowersCollection(u)
        [] r.kind = "nodeinfo"            -> NodeInfo
        [] r.kind = "activities"          -> ActivityDocument(r.arg, u)
        [] r.kind = "quote-authorization" -> Authorization(r.arg)
        [] r.kind = "webfinger"           -> Account(Resource(r))

(* Faulty variant: the documents of an actor are kept under the actor, and *)
(* not under the name that was asked for.                                  *)
Key_Canonical(r) ==
  CASE r.kind \in ActorKinds -> <<r.kind, Canonical[r.name], r.arg>>
    [] r.kind = "webfinger"  -> <<r.kind, Lowercase[r.name], r.arg = "url">>
    [] r.kind = "nodeinfo"   -> <<r.kind>>
    [] r.kind = "quote-authorization" -> <<r.kind, r.arg>>

(* The keys of the routes; acct: and the leading @ are not part of them,   *)
(* and upper case is not either.                                           *)
Key(r) ==
  CASE r.kind \in ActorKinds -> <<r.kind, r.name, r.arg>>
    [] r.kind = "webfinger"  -> <<r.kind, Lowercase[r.name], r.arg = "url">>
    [] r.kind = "nodeinfo"   -> <<r.kind>>
    [] r.kind = "quote-authorization" -> <<r.kind, r.arg>>

DocumentsTypeOK ==
  /\ multi \in BOOLEAN /\ routes \subseteq Route
  /\ profile \in [Users -> 0..MaxEdits]
  /\ published \subseteq Activities /\ quotes \subseteq Quotes
  /\ fans \in [Users -> SUBSET Followers]
  /\ DOMAIN cache = {Key(r) : r \in routes}

DocumentsInit ==
  /\ profile = [u \in Users |-> 0]
  /\ published = {}
  /\ quotes = {}
  /\ fans = [u \in Users |-> {}]
  /\ cache = [k \in {Key(r) : r \in routes} |-> NoEntry]
  /\ due = {}

----------------------------------------------------------------------------
(* Changes, each with the invalidation it is on its way to.                *)

Due(kinds, then) == [kinds |-> kinds, then |-> then]

(* Faulty variant: the count of posts is forgotten. *)
PublishDue_OutboxOnly == Due({"outbox"}, Missing)

(* What publish() invalidates. *)
PublishDue == Due({"outbox", "nodeinfo"}, Missing)

(* publish(): the activity is stored, or stored again under its id, and    *)
(* the invalidation is to come.  What an activity says does not change     *)
(* here: publish() would keep the document of the old text under           *)
(* "activities" until its TTL ends, as it invalidates the outbox only.     *)
Publish(a) ==
  /\ published' = published \union {a}
  /\ due' = due \union {PublishDue}
  /\ UNCHANGED <<multi, routes, profile, quotes, fans, cache>>

(* The application changes a profile and calls publish_actor_update.       *)
EditProfile(u) ==
  /\ profile[u] < MaxEdits
  /\ profile' = [profile EXCEPT ![u] = @ + 1]
  /\ due' = due \union
       {Due({"actor", "webfinger", "outbox", "followers", "following"}, UpdateOf[u])}
  /\ UNCHANGED <<multi, routes, published, quotes, fans, cache>>

FollowersDue == Due({"followers"}, Missing)

(* The inbox stores or removes a follower. *)
ChangeFollowers(u, F) ==
  /\ fans' = [fans EXCEPT ![u] = F]
  /\ due' = due \union {FollowersDue}
  /\ UNCHANGED <<multi, routes, profile, published, quotes, cache>>

(* The inbox stores a quote authorization, and invalidates nothing. *)
StoreQuote(q) ==
  /\ quotes' = quotes \union {q}
  /\ UNCHANGED <<multi, routes, profile, published, fans, cache, due>>

(* invalidate_prefix: everything under the kinds.  A profile update goes   *)
(* on to publish its Update.                                               *)
Invalidate(d) ==
  /\ cache' = [k \in DOMAIN cache |-> IF k[1] \in d.kinds THEN NoEntry ELSE cache[k]]
  /\ IF d.then = Missing
       THEN due' = due \ {d} /\ UNCHANGED published
       ELSE due' = (due \ {d}) \union {PublishDue} /\ published' = published \union {d.then}
  /\ UNCHANGED <<multi, routes, profile, quotes, fans>>

(* serve_document: the entry, or the document that is rendered and kept.   *)
Serve(r) ==
  /\ ~Rejected(r)
  /\ cache' = IF cache[Key(r)] = NoEntry THEN [cache EXCEPT ![Key(r)] = [doc |-> Render(r)]]
              ELSE cache
  /\ UNCHANGED <<multi, routes, contents, due>>

(* The end of a TTL. *)
Expire(k) ==
  /\ cache[k] # NoEntry
  /\ cache' = [cache EXCEPT ![k] = NoEntry]
  /\ UNCHANGED <<multi, routes, contents, due>>

(* The application publishes and edits; the cache catches up with it.  Who  *)
(* changes the followers invalidates them as well.                         *)
Change(active) ==
  \/ \E a \in Activities : AuthorOf[a] \in active /\ Publish(a)
  \/ \E u \in active : EditProfile(u)

CatchUp ==
  \/ \E d \in due \ {FollowersDue} : Invalidate(d)
  \/ \E k \in DOMAIN cache : Expire(k)

----------------------------------------------------------------------------
(* Properties *)

(* Whatever route a document was cached by, and whoever changed what it    *)
(* shows, the entry a route finds is the document the route would render,  *)
(* unless an invalidation is on its way.  The absence of an activity or a  *)
(* quote authorization is remembered for the TTL of a miss; and so is that *)
(* of an account in dispatch_multi, which this property is false of where  *)
(* two spellings of one resource share a key and one does not resolve (see *)
(* MalformedIsUncached).                                                   *)
CachedIsCurrent ==
  \A r \in routes : cache[Key(r)] # NoEntry /\ ~Rejected(r) =>
    \/ cache[Key(r)].doc = Render(r)
    \/ \E d \in due : r.kind \in d.kinds
    \/ r.kind \in {"activities", "quote-authorization"} /\ cache[Key(r)].doc = Missing

(* "WebFinger resources are validated before cache lookup, so a malformed  *)
(* resource is rejected uncached and cannot poison the valid account's     *)
(* entry" (README.md).                                                     *)
MalformedIsUncached ==
  \A r \in routes : r.kind = "webfinger" /\ Resource(r) # Nobody /\ cache[Key(r)] # NoEntry =>
    cache[Key(r)].doc # Missing

=============================================================================
