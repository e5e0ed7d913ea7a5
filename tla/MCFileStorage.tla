--------------------------- MODULE MCFileStorage ---------------------------
(* A post of ours and our actor, two remote authors: a reply to the post,  *)
(* its edit, its object refiled as a quote, a reply without id, two        *)
(* mentions of us, a like.                                                 *)
EXTENDS FileStorage, TLC

CONSTANTS x1, x2, us, post, o1, o2, o3, t1, t2

Made(source, target, type, object, mentions) ==
  [source |-> source, target |-> target, type |-> type, object |-> object,
   mentions |-> mentions, status |-> "confirmed"]

Reply == Made(x1, post, "reply", o1, {x2})
Edited == Made(x1, post, "reply", o1, {})
Quoted == Made(x1, post, "quote", o1, {})
Anonymous == Made(x1, post, "reply", NoObject, {})
Mention == Made(x2, us, "mention", o2, {us})
SecondMention == Made(x2, us, "mention", o3, {us})
Like == Made(x1, post, "like", NoObject, {})

MCActors == {x1, x2, us}
MCResources == {post, us}
MCObjects == {o1, o2, o3}
MCInputs == {Reply, Edited, SecondMention}
TwoMentions == {Mention, SecondMention}
MCWithdrawals == {[source |-> x1, target |-> post, type |-> "reply"]}
MCDeletions == {[source |-> x1, object |-> o1], [source |-> x2, object |-> o2]}
MCLegacies == {{Edited, Like}, {Anonymous, Mention}, {Quoted}}
MCTags == [o \in {o1, o2, o3, NoObject} |-> IF o = o1 THEN {x2} ELSE {}]
NoLegacy == {{}}
MCVersions == {0, 2, 3, 4}

(* The condition the theorems suppose holds of these inputs. *)
ASSUME MCArrivals == OneAuthor

SameThreads == Permutations(Threads)
=============================================================================
