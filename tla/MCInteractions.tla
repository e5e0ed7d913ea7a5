-------------------------- MODULE MCInteractions --------------------------
(* TLC instances of Interactions. *)
EXTENDS Interactions, TLC

CONSTANTS x1, x2, o1, o2, o3, post, elsewhere, d1, d2

(* x1 and o1 live on d1, x2, o2 and o3 on d2. *)
Domains == x1 :> d1 @@ o1 :> d1 @@ x2 :> d2 @@ o2 :> d2 @@ o3 :> d2 @@ Us :> NoDomain

Quotes(third) == [n \in QuoteFields |-> IF n = 3 THEN third ELSE IF n = 4 THEN elsewhere ELSE NoResource]
NoQuotes == [n \in QuoteFields |-> NoResource]
To(who) == [f \in AudienceFields |-> IF f = "cc" THEN who ELSE {}]
Public == To({"as:Public", Us})
Private == To({Us})

Doc(id, quotes, reply, audience, tags, by) ==
  [id |-> id, quotes |-> quotes, reply |-> reply, audience |-> audience, tags |-> tags,
   attributed |-> by]

Post(kind, actor, addressed, doc) == [kind |-> kind, actor |-> actor, addressed |-> addressed, doc |-> doc]
React(kind, actor, target) == [kind |-> kind, actor |-> actor, target |-> target]
Retract(actor, target, type) == [kind |-> "Undo", actor |-> actor, target |-> target, type |-> type]

(* One object: a public reply, a quote that replies as well, a private     *)
(* edit, its deletion, and a reply to it.                                  *)
OneObject ==
  {Post("Create", x1, {}, Doc(o1, NoQuotes, post, Public, {x2}, {x1})),
   Post("Create", x1, {}, Doc(o1, Quotes(post), post, Public, {}, {})),
   Post("Update", x1, {}, Doc(o1, NoQuotes, post, Private, {}, {})),
   Post("Create", x2, {}, Doc(o2, NoQuotes, o1, Public, {}, {})),
   React("Delete", x1, o1)}

(* Mentions, public and private; a reply without id; an object delivered   *)
(* by another server; an edit of a mention; the deletion of an actor.      *)
Guestbook ==
  {Post("Create", x2, {Us}, Doc(o2, NoQuotes, NoResource, Private, {}, {})),
   Post("Create", x2, {}, Doc(o3, NoQuotes, NoResource, Public, {Us}, {x2})),
   Post("Create", x2, {}, Doc(NoObject, NoQuotes, elsewhere, Public, {Us}, {})),
   Post("Create", x1, {}, Doc(o3, NoQuotes, elsewhere, Public, {}, {x2})),
   Post("Update", x2, {}, Doc(o3, NoQuotes, NoResource, Public, {Us}, {})),
   React("Delete", x2, o3), React("Delete", x2, x2)}

(* Likes, boosts and quote requests; and a Delete that names nothing.      *)
Reactions ==
  {React("Like", x1, post), React("Announce", x1, post), React("Like", x2, elsewhere),
   Retract(x1, post, "like"), Retract(x1, post, "boost"), React("Delete", x1, NoObject),
   [kind |-> "QuoteRequest", actor |-> x2, target |-> post, instrument |-> o2]}

AllWorkloads == {OneObject, Guestbook, Reactions}

LaxAndStrict ==
  {[strict |-> FALSE, localOnly |-> FALSE, approve |-> TRUE],
   [strict |-> TRUE, localOnly |-> TRUE, approve |-> FALSE]}

ThreadSymmetry == Permutations(Threads)

=============================================================================
