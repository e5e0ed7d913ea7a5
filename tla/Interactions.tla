--------------------------- MODULE Interactions ---------------------------
(***************************************************************************)
(* How the inbox turns Create, Update, Like, Announce, Undo, Delete and    *)
(* QuoteRequest activities into stored interactions                        *)
(* (src/rust/src/handlers/inbox.rs).                                       *)
(*                                                                         *)
(* A thread handles one activity.  Fetching its author, telling the        *)
(* application and every storage call are steps of their own; the handlers *)
(* of other activities run in between.                                     *)
(***************************************************************************)
EXTENDS InteractionStore, Naturals

CONSTANTS
  Threads,         (* threads that handle requests                          *)
  Objects,         (* ids of remote objects                                 *)
  Workloads,       (* the sets of activities that may arrive                *)
  Configs,         (* the configurations of the processor                   *)
  Us,              (* the local actor                                       *)
  LocalResources,  (* what lies under the base URLs of this server          *)
  Domain,          (* the domain of an actor or object id                   *)
  StoreFaults,     (* may a storage call fail?                              *)
  CallbackPanics,  (* may on_interaction_received panic?                    *)
  NoResource, NoActivity, NoDomain

(* The four spellings of a quoted object, in order of preference, and the  *)
(* spellings of the public audience.                                       *)
QuoteFields == 1..4
AudienceFields == {"to", "cc", "bto", "bcc"}
PublicUris == {"https://www.w3.org/ns/activitystreams#Public", "Public", "as:Public"}

(* A remote object; attributed is empty when it names nobody.              *)
Document ==
  [id: Objects \union {NoObject},
   quotes: [QuoteFields -> Resources \union {NoResource}],
   reply: Resources \union {NoResource},
   audience: [AudienceFields -> SUBSET (Actors \union PublicUris)],
   tags: SUBSET Actors,
   attributed: SUBSET Actors]

Posting == [kind: {"Create", "Update"}, actor: Actors, addressed: SUBSET Actors, doc: Document]
Reacting == [kind: {"Like", "Announce"}, actor: Actors, target: Resources]
Deleting == [kind: {"Delete"}, actor: Actors, target: Resources \union {NoObject}]
Undoing == [kind: {"Undo"}, actor: Actors, target: Resources, type: {"like", "boost"}]
Quoting == [kind: {"QuoteRequest"}, actor: Actors, target: Resources, instrument: Resources]

Config == [strict: BOOLEAN, localOnly: BOOLEAN, approve: BOOLEAN]

Activities == UNION Workloads

ASSUME InteractionsAssumption ==
  /\ Activities \subseteq Posting \union Reacting \union Deleting \union Undoing \union Quoting
  /\ Configs \subseteq Config
  /\ Us \in LocalResources \intersect Resources
  /\ Objects \subseteq Resources
  /\ NoObject \notin Resources
  /\ NoResource \notin Resources
  /\ NoActivity \notin Activities
  /\ {StoreFaults, CallbackPanics} \subseteq BOOLEAN

VARIABLES
  config,     (* strict_attribution, store_local_only, auto_approve_quotes  *)
  workload,   (* the activities that may arrive in this behaviour           *)
  auths,      (* the stored quote authorizations                            *)
  pc, hand,   (* where a thread is, and the activity it handles             *)
  turn,       (* the type the fallback of a Delete is at                    *)
  told,       (* history: what the application was told of                  *)
  accepts,    (* history: the quote requests that were accepted             *)
  gone,       (* history: objects whose Delete was the last word            *)
  retracted   (* history: likes and boosts whose Undo was the last word     *)

history == <<told, accepts, gone, retracted>>
vars == <<config, workload, table, auths, pc, hand, turn, history>>

(* InteractionType::variants(), the order of the fallback.                 *)
Variants == <<"reply", "like", "boost", "mention", "quote">>

Points ==
  {"idle", "author", "tell", "store", "undo", "drop_follower", "delete_object",
   "delete_typed", "quote_author", "authorize", "accept"}

TypeOK ==
  /\ config \in Configs /\ workload \in Workloads
  /\ \A r \in table : /\ r.source \in Actors /\ r.target \in Resources
                      /\ r.type \in Types /\ r.status \in Statuses
                      /\ r.object \in Objects \union {NoObject}
                      /\ r.mentions \subseteq Actors
                      /\ r.activity \in Activities
  /\ auths \subseteq Resources \X Resources
  /\ pc \in [Threads -> Points]
  /\ hand \in [Threads -> Activities \union {NoActivity}]
  /\ \A t \in Threads : pc[t] = "idle" <=> hand[t] = NoActivity
  /\ turn \in [Threads -> 1..5]
  /\ told \subseteq Activities /\ accepts \subseteq Activities
  /\ gone \subseteq Actors \X Resources
  /\ retracted \subseteq Actors \X Resources \X {"like", "boost"}

Init ==
  /\ config \in Configs
  /\ workload \in Workloads
  /\ table = {}
  /\ auths = {}
  /\ pc = [t \in Threads |-> "idle"]
  /\ hand = [t \in Threads |-> NoActivity]
  /\ turn = [t \in Threads |-> 1]
  /\ told = {}
  /\ accepts = {}
  /\ gone = {}
  /\ retracted = {}

----------------------------------------------------------------------------
(* What an object says                                                     *)

(* extract_quote_target: the first spelling that is not empty. *)
QuoteTarget(doc) ==
  LET named == {n \in QuoteFields : doc.quotes[n] # NoResource}
  IN  IF named = {} THEN NoResource
      ELSE doc.quotes[CHOOSE n \in named : \A m \in named : n <= m]

Addressees(doc) == UNION {doc.audience[f] : f \in AudienceFields}

IsPublic(doc) == Addressees(doc) \intersect PublicUris # {}

(* validate_attribution: it names the actor, if it names anybody, and its  *)
(* id lies on the domain of the actor.                                     *)
Attributed(actor, doc) ==
  /\ doc.attributed = {} \/ actor \in doc.attributed
  /\ doc.id \in {NoObject} \union {o \in Objects : Domain[o] = Domain[actor] /\ Domain[o] # NoDomain}

(* is_mention_of_actor looks at the activity and at the tags of its object.*)
MentionsUs(a) == Us \in a.addressed \union a.doc.tags

(* What a Create is to us, and of which resource: quote, reply or mention. *)
Meaning(a) ==
  CASE QuoteTarget(a.doc) # NoResource -> <<"quote", QuoteTarget(a.doc)>>
    [] QuoteTarget(a.doc) = NoResource /\ a.doc.reply # NoResource
                                       -> <<"reply", a.doc.reply>>
    [] QuoteTarget(a.doc) = NoResource /\ a.doc.reply = NoResource /\ MentionsUs(a)
                                       -> <<"mention", Us>>
    [] OTHER                           -> <<"nothing", NoResource>>

(* The interaction that a Create, Update, Like or Announce makes.  An      *)
(* Update is always a reply, and carries no mentions.                      *)
Made(a, type, target, object, mentions) ==
  [source |-> a.actor, target |-> target, type |-> type, object |-> object,
   mentions |-> mentions, status |-> "confirmed", activity |-> a]

Interaction(a) ==
  CASE a.kind = "Create"   -> Made(a, Meaning(a)[1], Meaning(a)[2], a.doc.id, a.doc.tags)
    [] a.kind = "Update"   -> Made(a, "reply", a.doc.reply, a.doc.id, {})
    [] a.kind = "Like"     -> Made(a, "like", a.target, NoObject, {})
    [] a.kind = "Announce" -> Made(a, "boost", a.target, NoObject, {})

(* should_store_interaction *)
ShouldStore(target, mentioned) == config.localOnly => target \in LocalResources \/ mentioned

(* Faulty variant: what is not public is stored as well. *)
Storable_Private(a) == ShouldStore(Interaction(a).target, Us \in Interaction(a).mentions)

(* A Create must be public, and what it is stored under is ours or it      *)
(* mentions us.                                                            *)
Storable(a) ==
  /\ a.kind = "Create" => IsPublic(a.doc)
  /\ ShouldStore(Interaction(a).target, Us \in Interaction(a).mentions)

----------------------------------------------------------------------------
Goto(t, p) == pc' = [pc EXCEPT ![t] = p] /\ UNCHANGED <<hand, turn>>

Leave(t) ==
  /\ pc' = [pc EXCEPT ![t] = "idle"]
  /\ hand' = [hand EXCEPT ![t] = NoActivity]
  /\ turn' = [turn EXCEPT ![t] = 1]

Take(t, a, p) ==
  /\ pc[t] = "idle"
  /\ pc' = [pc EXCEPT ![t] = p]
  /\ hand' = [hand EXCEPT ![t] = a]
  /\ UNCHANGED <<config, workload, table, auths, turn, told, accepts>>

(* A storage call fails, and ? hands the error to the caller. *)
CallFails(t) == StoreFaults /\ Leave(t) /\ UNCHANGED <<table, auths>>

(* The objects and reactions an activity brings back, should a Delete or   *)
(* Undo have removed them.                                                 *)
Objecting(a) == IF a.kind \in {"Create", "Update"} THEN {<<a.actor, a.doc.id>>} ELSE {}
Reacted(a) ==
  CASE a.kind = "Like"     -> {<<a.actor, a.target, "like">>}
    [] a.kind = "Announce" -> {<<a.actor, a.target, "boost">>}
    [] OTHER               -> {}

(* Create and Update: dropped when the attribution does not hold, and when *)
(* they mean nothing to us.                                                *)
ReceivePost(t, a) ==
  /\ a.kind \in {"Create", "Update"}
  /\ config.strict => Attributed(a.actor, a.doc)
  /\ IF a.kind = "Create" THEN Meaning(a)[1] # "nothing" ELSE a.doc.reply # NoResource
  /\ Take(t, a, "author")
  /\ gone' = gone \ Objecting(a)
  /\ UNCHANGED retracted

ReceiveReaction(t, a) ==
  /\ a.kind \in {"Like", "Announce"}
  /\ Take(t, a, "author")
  /\ retracted' = retracted \ Reacted(a)
  /\ UNCHANGED gone

(* self.author_fields(..): over the network, and whatever comes of it.     *)
(* Nobody is told of an Update.                                            *)
FetchAuthor(t) ==
  /\ pc[t] = "author"
  /\ Goto(t, IF hand[t].kind = "Update" THEN "store" ELSE "tell")
  /\ UNCHANGED <<config, workload, table, auths, history>>

(* Faulty variant: the callback is skipped after a panic, not the rest.    *)
Tell_Caught(t) ==
  /\ pc[t] = "tell"
  /\ told' = told \union {hand[t]} \/ (CallbackPanics /\ UNCHANGED told)
  /\ IF Storable(hand[t]) THEN Goto(t, "store") ELSE Leave(t)
  /\ UNCHANGED <<config, workload, table, auths, accepts, gone, retracted>>

(* cb(&interaction), whose panic ends the handler; then whether to store.  *)
Tell(t) ==
  /\ pc[t] = "tell"
  /\ \/ /\ told' = told \union {hand[t]}
        /\ IF Storable(hand[t]) THEN Goto(t, "store") ELSE Leave(t)
     \/ CallbackPanics /\ Leave(t) /\ UNCHANGED told
  /\ UNCHANGED <<config, workload, table, auths, accepts, gone, retracted>>

(* self.storage.store_interaction(..)?  The statements of the SQL backend  *)
(* are no transaction: an error may leave a row without its mentions.       *)
Store(t) ==
  /\ pc[t] = "store"
  /\ LET i == Interaction(hand[t])
     IN  \/ ~Refused(table, i) /\ Put(i)
         \/ Refused(table, i) /\ UNCHANGED table
         \/ StoreFaults /\ UNCHANGED table
         \/ /\ StoreFaults /\ ~Refused(table, i)
            /\ \E m \in SUBSET Actors : /\ MayMention(table, i, m)
                                        /\ table' = Upserted(table, [i EXCEPT !.mentions = m])
  /\ Leave(t)
  /\ UNCHANGED <<config, workload, auths, history>>

----------------------------------------------------------------------------
(* Undo(Like), Undo(Announce) and Delete                                   *)

ReceiveUndo(t, a) ==
  /\ a.kind = "Undo"
  /\ Take(t, a, "undo")
  /\ UNCHANGED <<gone, retracted>>

(* Nobody else handles an activity that brings back what t removes. *)
NobodyPosts(t) ==
  \A u \in Threads \ {t} : hand[u] # NoActivity => <<hand[t].actor, hand[t].target>> \notin Objecting(hand[u])
NobodyReacts(t) ==
  \A u \in Threads \ {t} :
    hand[u] # NoActivity => <<hand[t].actor, hand[t].target, hand[t].type>> \notin Reacted(hand[u])

(* Faulty variant: an Undo of a boost removes the like. *)
Undo_AlwaysLike(t) ==
  /\ pc[t] = "undo"
  /\ table' = Marked(table, OfResource(table, hand[t].actor, hand[t].target, "like"))
  /\ retracted' = IF NobodyReacts(t)
                  THEN retracted \union {<<hand[t].actor, hand[t].target, hand[t].type>>}
                  ELSE retracted
  /\ Leave(t)
  /\ UNCHANGED <<config, workload, auths, told, accepts, gone>>

(* handle_undo_interaction *)
Undo(t) ==
  /\ pc[t] = "undo"
  /\ \/ /\ table' = Marked(table, OfResource(table, hand[t].actor, hand[t].target, hand[t].type))
        /\ retracted' = IF NobodyReacts(t)
                        THEN retracted \union {<<hand[t].actor, hand[t].target, hand[t].type>>}
                        ELSE retracted
        /\ Leave(t)
        /\ UNCHANGED auths
     \/ CallFails(t) /\ UNCHANGED retracted
  /\ UNCHANGED <<config, workload, told, accepts, gone>>

ReceiveDelete(t, a) ==
  /\ a.kind = "Delete"
  /\ Take(t, a, IF a.target = a.actor THEN "drop_follower" ELSE "delete_object")
  /\ UNCHANGED <<gone, retracted>>

(* remove_follower(..)? of a remote actor that is no more: the followers   *)
(* are the matter of Follows.                                              *)
DropFollower(t) ==
  /\ pc[t] = "drop_follower"
  /\ Goto(t, "delete_object") \/ (StoreFaults /\ Leave(t))
  /\ UNCHANGED <<config, workload, table, auths, history>>

(* delete_interaction_by_object_id(..)?, and the fallback when it finds    *)
(* nothing.  A Delete that names no object marks everything of its author  *)
(* that has none: the likes, the boosts, the replies without id.           *)
DeleteObject(t) ==
  /\ pc[t] = "delete_object"
  /\ LET found == OfObject(table, hand[t].actor, hand[t].target)
     IN  \/ /\ table' = Marked(table, found)
            /\ gone' = IF NobodyPosts(t) /\ hand[t].target # NoObject
                       THEN gone \union {<<hand[t].actor, hand[t].target>>} ELSE gone
            /\ IF found = {} THEN Goto(t, "delete_typed") ELSE Leave(t)
            /\ UNCHANGED auths
         \/ CallFails(t) /\ UNCHANGED gone
  /\ UNCHANGED <<config, workload, told, accepts, retracted>>

(* delete_interaction(.., *itype)?, type by type, with the target taken    *)
(* for the resource.                                                       *)
DeleteTyped(t) ==
  /\ pc[t] = "delete_typed"
  /\ \/ /\ table' = Marked(table, OfResource(table, hand[t].actor, hand[t].target, Variants[turn[t]]))
        /\ IF turn[t] = 5 THEN Leave(t)
           ELSE turn' = [turn EXCEPT ![t] = @ + 1] /\ UNCHANGED <<pc, hand>>
        /\ UNCHANGED auths
     \/ CallFails(t)
  /\ UNCHANGED <<config, workload, history>>

----------------------------------------------------------------------------
(* QuoteRequest                                                            *)

ReceiveQuoteRequest(t, a) ==
  /\ a.kind = "QuoteRequest"
  /\ config.approve
  /\ Take(t, a, "quote_author")
  /\ UNCHANGED <<gone, retracted>>

(* An author that cannot be fetched, or has no inbox, gets no answer. *)
FetchQuoteAuthor(t) ==
  /\ pc[t] = "quote_author"
  /\ Goto(t, "authorize") \/ Leave(t)
  /\ UNCHANGED <<config, workload, table, auths, history>>

(* Faulty variant: an error of the storage is ignored. *)
Authorize_Ignored(t) ==
  /\ pc[t] = "authorize"
  /\ \/ auths' = auths \union {<<hand[t].instrument, hand[t].target>>}
     \/ StoreFaults /\ UNCHANGED auths
  /\ Goto(t, "accept")
  /\ UNCHANGED <<config, workload, table, history>>

(* store_quote_authorization(..)? *)
Authorize(t) ==
  /\ pc[t] = "authorize"
  /\ \/ /\ auths' = auths \union {<<hand[t].instrument, hand[t].target>>}
        /\ Goto(t, "accept")
        /\ UNCHANGED table
     \/ CallFails(t)
  /\ UNCHANGED <<config, workload, history>>

(* deliver_to_inbox of the Accept; whether it arrives is not looked at.    *)
AcceptQuote(t) ==
  /\ pc[t] = "accept"
  /\ accepts' = accepts \union {hand[t]} \/ UNCHANGED accepts
  /\ Leave(t)
  /\ UNCHANGED <<config, workload, table, auths, told, gone, retracted>>

----------------------------------------------------------------------------
Receive(t, a) ==
  \/ ReceivePost(t, a) \/ ReceiveReaction(t, a) \/ ReceiveUndo(t, a)
  \/ ReceiveDelete(t, a) \/ ReceiveQuoteRequest(t, a)

Handle(t) ==
  \/ FetchAuthor(t) \/ Tell(t) \/ Store(t)
  \/ Undo(t) \/ DropFollower(t) \/ DeleteObject(t) \/ DeleteTyped(t)
  \/ FetchQuoteAuthor(t) \/ Authorize(t) \/ AcceptQuote(t)

Next ==
  \/ \E t \in Threads, a \in workload : Receive(t, a)
  \/ \E t \in Threads : Handle(t)

Spec == Init /\ [][Next]_vars

----------------------------------------------------------------------------
(* Properties *)

(* "only publicly addressed interactions are persisted" (ARCHITECTURE.md): *)
(* what a Create stored is public, attributed to its author if that is     *)
(* asked for, and, if only local interactions are kept, of something local *)
(* or a mention.  Rows last written by an Update are not held to it: the   *)
(* code does not look.                                                     *)
CreatedRowsEligible ==
  \A r \in table :
    r.activity.kind = "Create" =>
      /\ IsPublic(r.activity.doc)
      /\ config.strict => Attributed(r.source, r.activity.doc)
      /\ config.localOnly => r.target \in LocalResources \/ Us \in r.activity.doc.tags

(* The application hears of an interaction before it can be read, and one  *)
(* whose callback panicked is not stored.                                  *)
StoredWasTold == \A r \in table : r.activity.kind = "Update" \/ r.activity \in told

(* A Delete that is the last word of the author on an object leaves no     *)
(* confirmed interaction of it, wherever the object was stored.            *)
DeletedStaysDeleted ==
  \A g \in gone : \A r \in table :
    <<r.source, r.object>> = g => r.status = "deleted"

(* Likewise an Undo of a like or a boost. *)
RetractedStaysRetracted ==
  \A g \in retracted : \A r \in table :
    <<r.source, r.target, r.type>> = g => r.status = "deleted"

(* Who is told Accept finds the authorization stored. *)
AcceptsAuthorized == \A a \in accepts : <<a.instrument, a.target>> \in auths

(* However activities overlap, a key has one row: what the unique index of *)
(* the SQL backend enforces never has to be enforced.                      *)
KeysOnce == \A r, s \in table : SameRow(r, s) => r = s

(* Nobody's activity touches an interaction of somebody else: rows come    *)
(* and go by an activity of their source that is being handled.            *)
OwnRowsOnly ==
  [][\E t \in Threads : \A r \in (table \ table') \union (table' \ table) :
       hand[t] # NoActivity /\ r.source = hand[t].actor]_table

(* What was stored leaves a row behind, and a deleted row is confirmed     *)
(* again only by the activity that a thread is storing.                    *)
RowsRemain ==
  [][\A r \in table :
       /\ \E s \in table' : SameRow(s, r)
       /\ \A s \in table' :
            SameRow(s, r) /\ r.status = "deleted" /\ s.status = "confirmed" =>
              \E t \in Threads : pc[t] = "store" /\ s.activity = hand[t]]_table

=============================================================================
