----------------------------- MODULE MCServer -----------------------------
(* Servers that verify every request while keys change, a server of one    *)
(* actor, and servers of two actors behind one domain.                     *)
EXTENDS Server, TLC

CONSTANTS t1, t2, alice, relay, bob, here, there

MCDomainOf == alice :> here @@ relay :> NoDomain @@ bob :> there
MCListed == alice :> {alice} @@ relay :> {relay, alice} @@ bob :> {bob}

MCCanonical == [pub |-> "pub", bo |-> "bo", Bo |-> "bo", who |-> Nobody]
MCLowercase == [pub |-> "pub", bo |-> "bo", Bo |-> "bo", who |-> "who"]
MCAuthorOf == [upub |-> "pub", ubo |-> "bo"]
MCUpdateOf == [pub |-> "upub", bo |-> "ubo"]

At(kind, name, arg) == [kind |-> kind, name |-> name, arg |-> arg]

(* A request before it is signed and dated. *)
By(owner, actor, dated) ==
  [owner |-> owner, actor |-> actor, dated |-> dated, sound |-> TRUE, signed |-> TRUE,
   key |-> 0, date |-> 0]
Get(r) == By(alice, NoActor, TRUE) @@ [method |-> "GET", route |-> r]
Post(to, type) ==
  By(alice, alice, TRUE) @@
    [method |-> "POST", inbox |-> Shared, to |-> to, type |-> type, target |-> "bo", parses |-> TRUE]

None == [a \in Remotes |-> 0]
Home == At("actor", "pub", "page")

Server0 ==
  [authorized |-> FALSE, multi |-> FALSE, active |-> {}, routes |-> {}, time |-> 0,
   keys |-> None, lists |-> {}, requests |-> t1 :> {} @@ t2 :> {}]

(* Every request is verified, and keys change. *)
Verifies ==
  [Server0 EXCEPT !.authorized = TRUE, !.routes = {Home}, !.time = 3, !.keys[alice] = 1,
     !.requests = t1 :> {[Get(Home) EXCEPT !.dated = FALSE]} @@ t2 :> {Post(<<>>, "Note")}]

(* One of them speaks for another actor, who may stop listing its key. *)
Delegates ==
  [Server0 EXCEPT !.authorized = TRUE, !.time = 4, !.keys[alice] = 1, !.lists = {<<relay, {relay}>>},
     !.requests[t2] = {[Post(<<>>, "Note") EXCEPT !.actor = relay, !.dated = FALSE], [Post(<<>>, "Note") EXCEPT !.actor = relay],
                       [Post(<<>>, "Note") EXCEPT !.actor = relay, !.owner = bob]}]

(* Resources are spelled in all ways, and a blocked instance asks. *)
Spellings ==
  LET all == {At("webfinger", "pub", s) : s \in {"acct", "bare", "url"}}
  IN  [Server0 EXCEPT !.routes = all,
         !.requests = t1 :> {Get(r) : r \in all} @@ t2 :> {[Post(<<>>, "Note") EXCEPT !.actor = bob]}]

(* One actor publishes and edits. *)
Single ==
  LET all == {At(k, "pub", "page") : k \in {"actor", "outbox", "nodeinfo"}}
  IN  [Server0 EXCEPT !.active = {"pub"}, !.routes = all, !.requests[t1] = {Get(r) : r \in all}]

(* Two actors behind one domain, one of whom publishes, edits, has         *)
(* followers and allows to be quoted.                                      *)
Behind(all, posts) ==
  [Server0 EXCEPT !.multi = TRUE, !.active = {"bo"}, !.routes = all,
     !.requests = t1 :> {Get(r) : r \in all} @@ t2 :> posts]

Multi ==
  Behind({At("actor", "bo", "page"), At("actor", "Bo", "page"), At("followers", "Bo", "page"),
          At("actor", "who", "page")},
         {Post(<<Foreign, "Bo">>, "Follow"), Post(<<"who">>, "Note"),
          [Post(<<>>, "Undo") EXCEPT !.inbox = "Bo"], [Post(<<>>, "Undo") EXCEPT !.inbox = "who"]})

Objects ==
  Behind({At("activities", "bo", "ubo"), At("quote-authorization", "bo", "quote"),
          At("webfinger", "Bo", "acct")},
         {[Post(<<>>, "QuoteRequest") EXCEPT !.inbox = "Bo", !.target = "quote"]})

MCSetups == {Verifies, Delegates, Spellings, Single, Multi, Objects}

(* WebFinger behind one domain, with and without the scheme of an address. *)
Discovers ==
  LET all == {At("webfinger", "bo", s) : s \in {"acct", "bare"}}
  IN  [Server0 EXCEPT !.multi = TRUE, !.routes = all, !.requests[t1] = {Get(r) : r \in all}]
DiscoverySetups == {Discovers}

=============================================================================
