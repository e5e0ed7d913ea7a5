# Pubby in TLA+

Pubby is a library that makes a web site an ActivityPub server: it receives
activities in an inbox, stores followers and interactions, publishes activities
to the inboxes of followers, and serves the documents (actor, outbox,
collections) other servers read.  The repository holds two implementations of
one design, in Rust (`src/src/rust/src`) and in Python (`src/src/python/pubby`).
**The Rust code is the reference of this development.**  File names below are
relative to `src/src/rust/src` unless they say otherwise.

The directory holds the specifications of the parts whose correctness depends
on order (threads, tasks, retries, invalidations, crashes, storage errors), the
TLC instances that check them, and TLAPS proofs of what holds for every value
of the constants.  `PROJECT.json` is the machine-readable index: components,
runs, the faulty variant each property catches, the source lines of every
definition, the hazards of the code, and the theorems.

    tlc -workers 2 -config MCDocumentCache_flight.cfg MCDocumentCache
    tlapm CacheProofs.tla

## 1. Inventory

### 1.1 The parts and how they interact

An HTTP framework (`server/axum.rs`) gives requests to `dispatch` or
`dispatch_multi` (`server/mod.rs`).  These consult the **rate limiter**, ask
the **document cache** for documents, and hand inbox posts to the
`ActivityPubHandler` (`handlers/handler.rs`) of a local actor, which verifies
and dispatches them through the **inbox** (`handlers/inbox.rs`).  The
application calls the handler too: to publish (**outbox**), and to answer
follow requests (`follows.rs`).  Everybody shares one **storage** (`storage/`)
behind a trait, and one document cache that every mutation has to invalidate.
Requests run on many threads; nothing holds a lock across two calls of the
storage.  Remote servers are reached through the **HTTP client** (`http.rs`),
with requests signed by `crypto/`.

| Part | State | Operations | What is hard | What makes it correct | Modelled in |
|---|---|---|---|---|---|
| Document cache, `cache.rs:448-832` | generation, in-flight map (mutex), one slot per render (mutex and condition variable) | `get_or_render`, `invalidate*`, `clear` | owners, waiters and invalidations interleave; deadlines; renders and stores that fail | a finished invalidation is never undone by an older render; one render per key; no waiter is forgotten | `DocumentCache` |
| Async cache, `cache.rs:834-1000` | a second in-flight map, of shared futures | `get_or_render_async` | a future dropped at an await; tasks and threads that render one key without knowing of each other | the same promises to tasks; no task waits for a render nobody runs | `AsyncCache` |
| In-memory store, `cache.rs:253-446` | map with deadlines, tick, sweep counter (mutex) | `get`, `set`, `sweep`, `delete*`, `clear` | clock read outside the mutex, wall clock set back, eviction at the limit | bounded; evicts the least recently used entry; keeps live entries when there is room | `LruStore`, `RecencyStore` |
| Rate limiter, `rate_limit.rs` | instants per key (mutex) | `check`, `is_allowed`, `reset` | clock read before the mutex; edges of the window and the limit | bounded admissions per interval; no unjustified refusal | `RateLimiter` |
| Outbox, `handlers/outbox.rs` | queue of a fan-out, workers; stored activities; cached outbox | `publish`, `fan_out_delivery`, `deliver_with_retry` | workers share a queue; retries; storage errors halfway; panics; followers who come and go | every steady follower is served once; nothing after a success; what is delivered can be looked up | `Outbox` |
| Follows, `handlers/inbox.rs:581-740, 1013-1038`, `follows.rs` | followers, follow requests, cached collection | Follow, Undo, Delete, accept, reject | handlers of one actor overlap; copies of requests; errors between two storage calls | nobody gets past the policy; the cached collection is current; an Undo withdraws | `Follows` |
| Interactions, `handlers/inbox.rs:742-1177` | interactions per target, quote authorizations | Create, Update, Delete, Like, Announce, Undo, QuoteRequest | author fetched before the store; Delete before Create; callback before store | stored only if eligible and told; the last word of the author counts; no Accept without authorization | `Interactions`, `InteractionStore` |
| SQL storage, `storage/db.rs` | one table per kind of record (connection mutex) | the storage trait | the unique index, null object ids | the table of `InteractionStore` | `InteractionStore` |
| File storage, `storage/file.rs`, `storage/migrations.rs` | one file per record, two indexes, a schema version | the storage trait, migrations, maintenance tools | a call is many steps; crashes between them; migrations that run again | what is confirmed is found; nothing is lost; the files are the table the trait promises | `FileStorage` |
| Verification, `handlers/inbox.rs:281-525`, `crypto/signatures.rs`, `moderation.rs` | copies of actor documents | `process`, `verify_signature`, `fetch_actor` | a key rotated while the old one is cached or fetched; keys of delegates | a rotation is accepted within a bounded time; a retired key ends; blocked instances are not contacted | `Verification` |
| Documents, `server/mod.rs`, `handlers/handler.rs` | profiles, activities, followers, quote authorizations; the cached documents | GET routes, `publish`, `publish_actor_update` | one document under several keys; several documents of one change | what is cached is what would be rendered | `Documents` |
| Server and registry, `server/mod.rs`, `handlers/multi.rs` | the handlers of the local actors | `dispatch`, `dispatch_multi`, `for_addressees` | an activity for several actors; order of the gates | a local addressee handles it | `Server` |
| Redis store, `cache.rs:1097-1300` | external | the store trait | generations are per process | documented as weaker | not modelled |
| HTTP client, Axum glue, Mastodon API, data model, content, rendering, discovery and collection documents, client, errors | none of their own | formatting, parsing, one request | little to interleave | unit tests reach it | not modelled |

### 1.2 Hazards

`PROJECT.json` lists forty hazards at their lines.  Each names the properties
that would catch it going wrong; for the ten that have none, it says why:

* the code does it and nothing in the repository forbids it, so that there is
  no promise to state: a call that joins an older render (`cache.rs:647`), a
  second render of a key after `clear()` (`cache.rs:733`), an approval whose
  error skips the invalidation (`follows.rs:126`), an Undo that overtakes its
  Follow (`inbox.rs:605`), a Delete or Undo that comes before what it is about,
  or while the author of that is fetched (`inbox.rs:945`), a pending request
  that outlives its actor (`inbox.rs:1027`), an Update that stores what Create
  would not (`inbox.rs:1092`), a crash between a file and its indexes
  (`file.rs:627`), a delete that writes back what it read (`file.rs:747`).  The
  steps are in the models, and the properties nearby say what they except;
* the state it needs is not in the model: the paging of the outbox
  (`storage/mod.rs:163`).

## 2. How the modules fit together

    RecencyStore   <- LruStore
    DocumentCache  <- AsyncCache              (threads and tasks on one cache)
    InteractionStore <- Interactions          (EXTENDS: the inbox writes the table)
                     <- FileStorage           (implements it, INSTANCE WITH)
    Verification + Documents <- Server        (EXTENDS both: one system)
    RateLimiter, Outbox, Follows              (on their own)

`AsyncCache` extends `DocumentCache` by tasks: every step of a thread stays a
step of `DocumentCache`, and store, generation and mutex are shared.  `Server`
is the composition of the request path: `Verification` decides whether a
request is admitted, `Documents` holds what admitted requests read and change.
In `Documents` rendering and storing a document is one step.  What justifies it
is `StaleOnlyWhileDue` of `DocumentCache`, proved for threads and for threads
beside tasks: however long a render takes, what is stored shows the data, or
whoever changed them is on the way to delete it, which is what `Documents` calls
`due`.  `Interactions` writes the table of `InteractionStore` in one step per
storage call, as the SQL backend does, and follows `StoreSpec`
(`InboxKeepsStore`); `FileStorage` follows it too (`DirectoryIsStore`), so the
table between them is one specification from both sides.

Abstract specifications: `RecencyStore` (a bounded LRU without counters) and
`StoreSpec` of `InteractionStore` (interactions are put under their key and
marked, and never disappear).

What a continuation would add: the paging of the outbox as operators, and
`handle_follow_response`.

## 3. The modules

### 3.1 `DocumentCache`

A document is the **version of the data** it was rendered from; a render reads
the data in a step of its own, between taking the slot and reporting the
outcome.  Callers are threads inside `get_or_render`; invalidators are threads
that change the data and then invalidate, as every handler does.

| Code | Model |
|---|---|
| `CacheState.generation`, `.inflight` under the mutex | `generation`, `inflight`; `lock` is the caller that holds the mutex from check to store |
| `Slot { state, cond }` | `slotState`; a caller at `"blocked"` sleeps on the condition variable. A slot identity may be reused once nobody refers to it, as memory is |
| the store | `store`: version and freshness. Reads and writes are single steps, since the store has its own mutex |
| fast path, join, re-check under lock | `LookupFresh`, `JoinAsWaiter`, `JoinFindsFresh`, `JoinAsOwner` |
| render, stale-if-error | `Render`, `ServeStaleOrFail` |
| `complete()`: outcome, then `notify_all` | `Complete`, `NotifyAll` |
| removal, generation check, store under lock | `Publish` (takes the lock), `StoreResult` (releases it) |
| error path | `PopInflight` |
| the predicate loop of a waiter | `WaiterBlocks`, `WaiterWakes`, `WaiterTakes`, `WaiterTimesOut` |
| `invalidate*`: bump, then delete without the lock | `Mutate`, `BumpGeneration`, `DeleteEntries`/`DeleteFails` |
| `clear()`: bump, empty the maps, clear the store | `StartClear`, `BumpGeneration`, `DropInflight`, `DeleteEntries` |
| expiry, eviction | `Expire`, `Drop` at any moment |

A document that does not exist (`Missing`) is a result too, stored only if
misses have a lifetime.  History variables (`bumped`, `committed`, `floor`,
`behind`, `epoch`, `born`) guard nothing.  `committed` advances only when the
deletion took place: a store that panics while deleting leaves the old entries,
which the code accepts with a log line.

* `NoStaleStore`: what is in the store is at least as recent as the last
  finished invalidation of its key.
* `OwnReadsSeeInvalidations`: a call that rendered, or was served from the
  store, sees every invalidation that had returned when it began.  A *waiter*
  is left out on purpose, see 5.2.
* `SingleFlightUntilClear`: until the first `clear()`, two calls never render
  one key at once.
* `WaitersServed`: a waiter has an owner that will complete its slot, and no
  wake-up is lost.
* `NoCircularWait`: whenever somebody is inside the cache, somebody can go on by
  itself: owners and invalidations never all wait for the mutex, and waiters for
  slots, in a circle.  `CallsReturn`: every call returns.
* `StaleOnlyWhileDue`: while deletions do not fail, an entry shows the data as
  they are, or whoever changed them has still to delete it.  `NoStaleStore`
  looks back at invalidations that finished; this one says there is nothing else
  to be stale for.

### 3.2 `AsyncCache`

A task is a call of `get_or_render_async`: `AsyncCall`, `AsyncLookup`,
`AsyncJoin` or `AsyncOwn`, `AsyncRender`, `AsyncSend`, `AsyncPublish` or
`AsyncPop`; a task that found a future in `inflight_async` waits (`AsyncTake`,
`AsyncTimesOut`).  `flightState` is what the shared future of a channel
resolves to.  `AsyncCancel` is the drop of a task's future at either of its
awaits: the sender goes with it, which resolves the shared future to
`Cancelled`, and the entry of `inflight_async` stays.  `clear()` empties both
maps in one step.

* `NoStaleStore` and `OwnReadsSeeInvalidations` again, now with tasks storing;
  `TasksSeeInvalidations` says the same of tasks.
* `TasksServed`: a task never waits on a future that is unresolved and that
  nobody will resolve, wherever owners are dropped.
* `TasksShareRender`: until a `clear()`, tasks render a key once at a time.
  `NoCircularWaitAsync`: threads and tasks do not wait for one another in a
  circle.

### 3.3 `LruStore` and `RecencyStore`

`map`, `tick` and `unswept_inserts` are the fields of `InnerStore`.  `get` is
one step; `set` and `sweep` are two, because they read the wall clock before
the mutex, and `SetClock` may move the clock anywhere in between, backwards
included.  The three `delete*` and `clear` are `Delete(S)` for any set of held
keys.  `Insert` is the whole of `set`'s critical section: insertion, the
occasional scan for expired entries, and the pops.

`RecencyStore` states the promise without counters: which keys are held, and
which was used before which.  The refinement mapping is `held <- DOMAIN map`
and `older <- {<<a, b>> : tick of a < tick of b}`; `used` is a history variable
of both.

* `CapacityHeld`, `ImplementsLru`.
* `LiveEntriesKept`: an insertion keeps what it inserts, takes away nothing
  unexpired when there is room, and otherwise one entry at most.

### 3.4 `RateLimiter`

`ReadClock` is `Instant::now()` before the mutex; `Admit`, `Refuse` and
`IsAllowed` are what happens under it; `Reset` and `Tick` the rest.  The `Vec`
of a key is a set of admissions (serial number, recorded instant, instant at
which it happened); an empty `Vec` and an absent one are the same here, and
behave the same.

* `WindowBound`: no interval shorter than the window **by the longest wait for
  the mutex** has more than `max_requests` admissions.  The plain bound over the
  full window does not follow from the code, see 5.2.
* `RefusalJustified`: a refused request really has `max_requests` admissions in
  the window before its clock reading (or later ones).
* `TypeOK` includes that no `Vec` outgrows the limit.

### 3.5 `Outbox`

One `publish()` per activity, each in its own thread, its storage calls one
step each (`StoreActivity`, `InvalidateOutbox`, `ReadFollowers`,
`CollectRecipients`, `StartFanOut`); then a custom `deliver` callback for each
inbox (`CallDeliver`), or workers (`Pop`, `Post`, `ReportOutcome`, `Backoff`)
that `publish()` joins (`Join`) or leaves running.  `mode` says which, and is
chosen by `Init`.  The queue is a set: the order in which inboxes are taken is
left open.  An answer is a 2xx, a 4xx, or anything else.  The fetch of a
recipient's actor may fail, so any subset of the permitted recipients is
collected.  `Panics` lets the log line of a refused delivery panic (5.2).  The
storage may fail at every call that returns an error, after which the
application may publish again.

* `SoleDeliverer`, `SuccessIsLast`: one deliverer per inbox; nothing is posted
  after a 2xx and the attempts reported are distinct.
* `DeliveredIsPublic`: whatever was posted is stored, and the outbox document
  served is not an older one without it.
* `SteadyFollowersServed`: who followed from the call of `publish()` to the end
  of the fan-out has been served, at the shared inbox where there is one.  A
  panic costs the inbox its worker was at, the surviving workers serve the rest,
  and only where panics killed every worker is an inbox left in the queue.
* `EveryAttemptReported`: what the host hears through `on_delivery_result` is
  complete ("invoked after every delivery attempt"): of the POSTs to an inbox
  only the last may be unreported, when it is in hand or its worker panicked.
* `BlockedNeverServed`: nothing is posted to an inbox on a blocked domain.
* `FanOutEnds`: every `publish()` ends, and so does its fan-out.

### 3.6 `Follows`

A thread works for one remote actor at a time, each storage call a step:
`ReceiveFollow`, `FetchFollower`, `ResolvePolicy`, `StoreFollowRequest` or
`StoreFollower`, `InvalidateFollowers`, `AnswerFollow` for a Follow;
`ReceiveUndo`, `RemoveFollower`, `InvalidateFollowers`, `RemoveRequest` for an
Undo; `ReceiveDelete`, `RemoveFollower`, `InvalidateFollowers` for a Delete;
`BeginApprove`, `ApproveStore`, `ApproveRemove`, `InvalidateFollowers`,
`ApproveAnswer` and `BeginDecline`, `DeclineRemove`, `DeclineAnswer` for the
application's decisions.  An error propagated by `?` leaves the handler
(`CallFails`); one ignored by `let _ =` does not.  The policy callback of an
actor accepts, holds back, rejects, returns `None`, panics, or is not set.
`Init` chooses the policies, whether the storage supports requests, and whether
handlers of one remote actor may overlap (`overlap`): a front end that queues
the activities of an actor is a server without overlap.

* `PolicyHonoured`: whom the policy rejects is no follower; where the storage
  has follow requests, a follower whom it holds back, by a panic included, was
  approved by the application.  Where the storage has none, those held back are
  let in; of a policy that panics the comments promise otherwise, which is
  `FailsClosed`, and the code does not keep it (5.2).
* `CollectionCurrent`: the cached collection differs from the storage only
  while a thread is about to invalidate it, or about an approval that a storage
  error cut short (`missed`).
* `SerialUndoWithdraws`, without overlap: who withdrew and has asked no more is
  neither follower nor pending.  With overlap the code does not do that (5.1).
* `AcceptedIsFollower`, without overlap: who was told Accept and has not
  withdrawn is a follower.

Signature verification and dispatch are `Server`'s.

### 3.7 `InteractionStore` and `Interactions`

`InteractionStore` is the table of interactions in the words of the SQL
backend: which rows a store replaces (`SameRow`, `Upserted`), when the unique
index refuses one (`Refused`), what a row may mention whose store fails between
its statements (`MayMention`), which rows the two deletions mark (`OfResource`,
`OfObject`), and `StoreSpec`, the promise of it.

`Interactions` is the inbox: a thread takes an activity (`ReceivePost`,
`ReceiveReaction`, `ReceiveUndo`, `ReceiveDelete`, `ReceiveQuoteRequest`) after
the checks that need no storage, fetches the author (`FetchAuthor`), tells the
application (`Tell`, which may panic) and stores (`Store`, which may fail, and
may leave a row with some of its mentions, since the statements of the SQL
backend are no transaction).  `Undo`, `DropFollower`, `DeleteObject` and the
five steps of the fallback `DeleteTyped`, `FetchQuoteAuthor`, `Authorize` and
`AcceptQuote` are the rest.  An object is a record of what decides: its id, the
four spellings of a quoted object, what it replies to, audience, tags and
attribution; `QuoteTarget`, `IsPublic`, `Attributed`, `MentionsUs` and
`ShouldStore` are the pure functions of `quotes.rs`, `audience.rs`,
`attribution.rs` and `inbox.rs`.

* `CreatedRowsEligible`: what a Create stored is public, attributed (if that is
  asked for) and local or a mention (if only such are kept).
* `StoredWasTold`: the application heard of every interaction before it can be
  read.
* `DeletedStaysDeleted`, `RetractedStaysRetracted`: once a Delete or Undo was
  carried out while no activity that brings the thing back was in hand, it
  stays away until one is received.  With one in hand the code gives no such
  promise: the interaction may be stored after its deletion.
* `AcceptsAuthorized`: an Accept of a quote is sent after its authorization was
  stored.
* `OwnRowsOnly`: no step adds, removes or changes an interaction of anybody but
  the actor of an activity in hand.
* `KeysOnce`, `RowsRemain`: a key has one row; a row never disappears, and a
  deleted one is confirmed again only by the activity a thread is storing.

### 3.8 `FileStorage`

The files and the two indexes are functions; a read, a write and an update of
an index are steps.  `store_interaction` is `BeginStore`, `WriteFile`,
`AddMention` per actor, `WriteObjectIndex`; `delete_interaction` is
`BeginDelete`, `ListFiles`, `ScanFile`, `NextFile`, `ReadFile`, `Unlist`,
`MarkFile`, `EndDelete`; the deletion by object begins with `LookupObject`.
The maintenance tools store from a snapshot that may be out of date
(`BackfillMentions`, `BackfillObjectId`).  The process starts (`Start`) in any
schema version, runs the migrations after it (`MigrateObjectId`,
`NextMigration`, `MigrateMultiFile`, `EndMigrations`), writes the version
(`EmptyVersion`, `FinishMigrations`: the write is not atomic, and an emptied
file reads as version 0) and serves; `Crash` stops it between any two steps,
`Fail` ends one call.

* `ConfirmedIsFound`: a confirmed interaction is found by resource, by mention
  and by object, unless a call is at its file or was cut short there and nothing
  has stored it since (`broken`).  By object it is found if the object leads to
  no other place (`OnePlace`): a quote that an Update files again as a reply is
  two files of one object, and the index has the last.
* `ObjectIndexSound`: what an object is looked up as is of that object if it is
  a reply or a quote, and otherwise the interaction of that type which the
  object's author has with that resource, as a second mention overwrites the
  first.
* `NothingLost`: what was once stored, or left by an older server, has a file,
  whenever crashes interrupt migrations and calls.
* `MigrationsKeep`: a migration changes no interaction, however often it begins
  anew.  `FiledUnderPath`: once the server runs, every file is where its
  interaction is looked for.
* `ImplementsStore`: the directory is a table that follows `StoreSpec`.  A row of
  it (`Row`) is an interaction without whom it mentions and, for what an author
  does once with a resource, without its object: a second mention is the same
  row, stored again.
* `DeletesByAuthor`: a delete by object id marks an interaction of the author
  that deletes, and of that object if it is a reply or a quote.  That it is of
  the object whatever the type is `DeletesByObject`, which
  `file_second_mention` refutes.

The storage takes what it is given, and these properties suppose one thing of
that, `OneAuthor`: an object id is of one author.  Neither the storage nor the
inbox makes sure of it (`strict_attribution` compares the author an object
names, if it names one, and the host).  `MCFileStorage` states it of its
inputs, which include an edit, a second mention by the author of the first and
an object that was a quote before it is a reply.

### 3.9 `Verification`, `Documents` and `Server`

`Verification` counts the versions of each remote key.  `Send` signs a request
with the key its sender has and dates it; `ReadCopy`, `Answer`, `StoreCopy` are
`fetch_actor`, where the GET takes up to `FetchTime` and finds the key of the
moment it is answered; `CheckDelegation`, `Admit`, `Refuse` are
`verify_signature`, with the Digest, the signed Date and the ownership of the
key.  A document lists the keys of those who may sign for its actor
(`listed`); a copy keeps the list it was fetched with, and `listing` is the list
of the document a thread has read.  `Rotate`, `Relist` and `Tick` are the remote
servers and the clock; `withdrawn` is the history of delegations that ended.

`Documents` has what the documents show, the cached documents by key, and `due`:
the invalidations that those who changed something have still to make
(`Publish`, `EditProfile`, `ChangeFollowers`; `Invalidate`).  A route is a kind,
the name that was asked by, and a page, an activity or the spelling of a
WebFinger resource; `Key` folds the spellings as `cache.rs:1003-1095` does.

`Server` routes: `ArrivePost`, `Dispatch`, `Accepted` for the inboxes,
`ArriveGet`, `ServeDocument` for documents (with `authorized_fetch` or without),
`Unauthorized`.  `setup` says which server it is, with one local actor or many.

* `RotationHeals`: an actor that changed its key is refused for its old copy no
  longer than a day and a GET after the change.
* `RetiredKeysEnd`: a key that was replaced admits nothing for longer than a
  day and a GET (two GETs when the signer speaks for somebody else).
* `DatesExpire`: a request whose Date is signed is admitted for no longer than
  the permitted skew, however long it was on its way, and a GET more when the
  document of the actor is fetched after the Date was checked.
* `SpeakersListed`: who is admitted signed what it sent, and for somebody else
  only with a key that the document of that one lists, or stopped listing no
  longer than a day and a GET ago.
* `CachedIsCurrent`: whatever route a document was cached by, the entry a route
  finds is what it would render, but for invalidations on their way and the
  lifetime of a miss.
* `RoutedToAddressee`: the shared inbox finds a local addressee, or falls back
  to the instance actor.
* `BlockedNotFetched`: no document is fetched for an activity of an actor on a
  blocked instance (proved, in no run).

## 4. The runs

State counts are distinct states.  Each run takes three minutes or so at most
on two workers.

| Run | Instance | Checks | States |
|---|---|---|---|
| `cache_flight` | 3 callers, 1 invalidator that may `clear()`, 1 key, deadlines, a failing store, 1 mutation, fairness | `SingleFlightUntilClear`, `WaitersServed`, `NoCircularWait`, `CallsReturn` | 433 000 |
| `cache_async` | 2 tasks, 1 caller, 1 invalidator that may `clear()`, 1 key, cancellation, deadlines, a failing store, 1 mutation | `NoStaleStore`, `OwnReadsSeeInvalidations`, `TasksSeeInvalidations`, `TasksServed` | 681 000 |
| `rate_window` | 3 threads, 1 key, limit 2, window 3, wait 1, clock to 6 | `TypeOK`, `WindowBound`, `RefusalJustified` | 41 000 |
| `lru_store` | 2 threads, 3 keys, 2 entries, sweep every 2nd overflow, clock 0..2, tick to 5 | `CapacityHeld`, `LiveEntriesKept`, `ImplementsLru` | 262 000 |
| `outbox_fanout` | 1 activity, 4 actors, 3 inboxes, one of them blocked, 2 workers, 2 attempts, all modes, panics, storage errors, fairness | `SoleDeliverer`, `SuccessIsLast`, `SteadyFollowersServed`, `DeliveredIsPublic`, `EveryAttemptReported`, `FanOutEnds` | 627 000 |
| `follows` | 2 threads, 2 actors, 4 policies in pairs, storage with and without requests, failing storage, with and without overlap | `CollectionCurrent`, `PolicyHonoured`, `SerialUndoWithdraws`, `AcceptedIsFollower` | 999 000 |
| `interactions` | 2 threads, 2 authors, 3 sets of up to 7 activities, lax and strict, failing storage, panicking callbacks | `CreatedRowsEligible`, `StoredWasTold`, `DeletedStaysDeleted`, `RetractedStaysRetracted`, `AcceptsAuthorized`, `OwnRowsOnly` | 250 000 |
| `files` | 2 threads, a reply, its edit and a second mention to store, 3 legacy directories (replies, a like, a quote, a first mention) in versions 0, 2, 3 and 4, 1 crash or failed call | `ConfirmedIsFound`, `ObjectIndexSound`, `NothingLost`, `ImplementsStore` | 2 029 000 |
| `server` | 2 threads, 3 remote actors on 2 instances, 2 local actors, 6 setups | `RotationHeals`, `RetiredKeysEnd`, `DatesExpire`, `CachedIsCurrent`, `RoutedToAddressee`, `SpeakersListed` | 3 001 000 |
| `follows_undo_race` | both actors held back, overlapping | refutes `UndoWithdraws` (5.1) | |
| `file_second_mention` | two mentions of one author | refutes `DeletesByObject` (5.1) | |
| `server_webfinger` | two spellings of one resource, many local actors | refutes `MalformedIsUncached` (5.1) | |

**Why these bounds.**  *Cache*: three callers are an owner, a waiter, and the
late one who comes after the owner has removed its slot.  Keys meet only in the
generation and the mutex, where a second key behaves as one whose generation
changed, so one key is enough for TLC; the proofs cover any number.  One
mutation puts a bump and a deletion at every place of every render.  In
`cache_async` a second task is the waiter of a cancelled first one, and the
thread is who renders beside both.  *Rate limiter*: the clock passes the window
twice, so an entry can expire and another fill its place; three threads let one
overtake two.  *LRU*: three keys in two places force evictions, and five ticks
allow an eviction, a hit and a second eviction after a sweep.  *Outbox*: an
inbox shared by two followers, one of a follower who is mentioned as well, and
a blocked one; two workers share the queue, each with something to do or one of
them idle or dead; two attempts distinguish the first, the last and a retry.  *Follows*: two threads
are a handler and whatever overtakes it; a second remote actor is what an
invalidation that forgot the wrong document would show on.  *Interactions*:
three sets of activities, each the ones that meet in a row of the table: those
of one object, those of mentions and replies without id, those of reactions;
two threads are a handler and what runs during its fetch.  *Files*: a reply, its
edit and a reply without id share a directory, two mentions of one author a
file, a quote and the reply it becomes an object; two threads
overlap, one crash or failed call falls anywhere, and the server starts in the
versions from which each migration begins.  *Server*: a day, a GET and the
permitted skew are one tick each, and the clock goes on to three or four, past
the longest sum of them that a property names; the six setups are the smallest
that have, in turn, verified reads beside posts, a delegate whose delegation may be
withdrawn, all spellings of a
resource beside a blocked sender, a server of one actor that publishes and
edits, and two servers of two actors.

Symmetry is used over interchangeable threads, tasks, slots and, in
`lru_store`, keys, and never in a run with a liveness property.

**Stopping.**  Deadlock is checked in every run but the two of the server,
where the clock and the keys end: elsewhere callers can always call again,
followers come and go, processes restart.

**Fairness.**  `CallsReturn` (`cache_flight`) assumes that a thread inside
`get_or_render` that can take a step of its own takes one (weak fairness of
`CallStep` for each caller) and the same of each invalidation.  This holds of OS
threads and a mutex as long as `render()` returns.  Nothing is assumed of
deadlines, of spurious wake-ups or of the clock; the property supposes that
calls stop arriving, because a mutex that is not fair may be taken by newcomers
for ever.  `FanOutEnds` (`outbox_fanout`) assumes weak fairness of the steps of
each `publish()` and of each worker; every POST has a timeout in the HTTP client
and the backoff is a sleep, so both end.

## 5. What the model disagrees with

### 5.1 Findings, each with a run that refutes a sentence of the repository

* **An approval that overlaps an Undo wins** (`follows.rs:125`, run
  `follows_undo_race`).  `accept_follow_request` stores the follower from its
  copy of the request without looking whether the request is still there, and
  the Undo removes the follower first, the request second.  `README.md:761` says
  an Undo removes both.
* **A Delete of an old mention deletes the new one** (`storage/file.rs:729`, run
  `file_second_mention`).  A mention is kept in a file named by its author, so
  the second one overwrites the first; the object index still leads from the
  first object to that file, and the deletion looks at the author only.
  `storage/mod.rs:109` says that the deletion is by object id.
* **A WebFinger miss hides an account of a server of many actors**
  (`server/mod.rs:443`, run `server_webfinger`).  `dispatch_multi` does not
  validate the resource before the cache; `user@domain` and
  `acct:user@domain` share a key and only the second resolves, so whichever is
  asked first answers for both until it expires.  `README.md:1042-1045` says a
  malformed resource is rejected uncached.

### 5.2 Behaviour met while modelling, and left as it is

Cache
: A call that begins after an invalidation may attach to a render that began
  before it and be served the discarded data once (`cache.rs:647`, `:764`);
  that is why `OwnReadsSeeInvalidations` speaks of a call's own reads.  After
  `clear()` an old owner removes by key the slot of the owner that began after
  it (`cache.rs:733`), so a third call renders beside the second; hence
  `SingleFlightUntilClear`.  A cancelled asynchronous owner leaves its entry in
  `inflight_async` (`cache.rs:919`): later tasks of the key get a stale entry or
  an error until `clear()`.  The Redis store never caches misses.

Rate limiter
: The clock is read before the mutex (`rate_limit.rs:56`), so more than
  `max_requests` admissions fit in a full window by as much as threads wait.

Outbox
: 4xx answers are retried like the others (`outbox.rs:874`), where
  `docs/ARCHITECTURE.md:429` describes, for the Python code, that they are not.
  The warning about a refused delivery slices the body at byte 200
  (`outbox.rs:124`), which panics inside a multi-byte character; the worker
  dies, and with the last worker the rest of the queue.  Two publications of one
  actor fan out without regard to each other (`outbox.rs:629`), so a follower
  may receive the second one first.

Follows
: An error between storing an approved follower and removing its request
  (`follows.rs:126`) skips the invalidation.  A Delete of a remote actor leaves
  its pending request (`inbox.rs:1027`).  A Follow whose actor document is still
  being fetched is overtaken by an Undo (`inbox.rs:605`).  A policy callback
  that panics counts as `manual`, so on a storage without follow requests it
  admits the follower (`inbox.rs:688`), where `inbox.rs:55-56` says that a policy
  failure must not silently grant a follow and `README.md:760` that it fails
  closed; the fallback of such a storage is documented (`README.md:768-770`,
  `storage/mod.rs:62-64`), for pending requests and not for failing policies.
  `FailsClosed` of `Follows` states the promise: add it to the invariants of
  `MCFollows_follows.cfg`, and TLC refutes it in five steps.

Interactions
: An Update stores a reply without the audience and locality checks of Create
  (`inbox.rs:1092`), against `docs/ARCHITECTURE.md:379`.  Nothing remembers that
  an object is gone, so a Delete that comes first, or during the fetch of the
  author, is without effect.  A Delete that names no object marks everything of
  its author that has no object id (SQL), and the fallback of a Delete takes the
  object id for the resource.  A second reply without object id is refused by
  SQL, and overwrites the first as a file.

File storage
: A reply is a file named by its object alone (`file.rs:333`), so one that
  another author stored under the same object id is replaced, where SQL keeps a
  row for each; an object that is a reply and a mention at once is looked up as
  the last of them.  `OneAuthor` excludes the first of these cases, the second is
  excepted by `OnePlace`.  An object that turns from a reply into a quote, or
  replies to something else, leaves its old file confirmed.  The version file is
  emptied before it is written (`file.rs:112`), so a crash there runs every
  migration again.  A delete writes back what it read
  (`file.rs:747`), over a mention stored there meanwhile.  An Update, whose
  mentions are empty, leaves the mention index of the original behind, where SQL
  drops it.  A crash between index and file leaves a confirmed interaction that
  is not found by mention.  `backfill_mentions` may bring back an interaction
  deleted meanwhile.  `remove_follower` leaves a legacy record beside one for
  the target.

Verification
: The list of keys in a cached document is believed like the keys themselves:
  an actor that stops listing somebody's key is spoken for by it for up to a day
  and a GET.  The other way round, a delegate listed since is refused until the
  copy ends, as a rotated key is: a refusal fetches nothing anew.

Documents
: An activity published again under its id with another text stays cached as it
  was (`outbox.rs:577-579` invalidates the outbox and the NodeInfo only); in the
  model the text of an activity does not change.  A cache passed to `dispatch`
  only is not assigned to the handler, so nothing
  invalidates it, against `docs/ARCHITECTURE.md:656-658`.  Misses of activities
  and quote authorizations are not invalidated when the thing appears; the
  following collection only by a profile update.  The default
  `get_activities_for_actor` (`storage/mod.rs:157`), which both backends use,
  cuts the page before it filters by actor and so loses entries, against its
  comment.  With SQL, quote authorizations are rows of the activities and count
  in pages and NodeInfo.

## 6. What is proved

Every theorem is about the specification for **all** values of the constants
that satisfy the module's assumptions: any number of threads, tasks, keys,
slots, actors and activities, any window, limit, capacity, age and timeout.  The
bounds on counters (`MaxGeneration`, `MaxTime`, `MaxTick`, `MaxEdits`) are
arbitrary naturals there.

| Theorem | Statement | Argument |
|---|---|---|
| `TypeCorrect` | `TypeOK` of the cache | inductive as it stands |
| `StoreNeverStale`, `OwnReadsCurrent` | `NoStaleStore`, `OwnReadsSeeInvalidations` | `StalenessInv` |
| `EntriesAlwaysCurrent` | `StaleOnlyWhileDue` | `StalenessInv`, `CurrencyInv` |
| `SingleFlightHolds`, `NoAbandonedSlot`, `WaitersAlwaysServed` | `SingleFlightUntilClear`, `InflightOwned`, `WaitersServed` | `SlotInv` |
| `CallsNeverStall` | `NoCircularWait` | `SlotInv`, `LockHeld` |
| `SharedStoreNeverStale`, `ThreadsReadCurrent`, `TasksReadCurrent`, `TasksAlwaysServed` | `NoStaleStore`, `OwnReadsSeeInvalidations`, `TasksSeeInvalidations`, `TasksServed`, with tasks | `AsyncInv` |
| `SharedTypeCorrect`, `SharedSingleFlight`, `SharedNoAbandonedSlot`, `SharedWaitersServed`, `SharedEntriesCurrent` | what is proved of threads, with tasks beside them | the same invariants: `TaskStepsApart`, `TasksCurrent` |
| `TasksSingleFlight` | `TasksShareRender` | `FlightsApart`, `FlightsRegistered` |
| `TasksNeverStall` | `NoCircularWait` and `NoCircularWaitAsync`, with tasks | `AsyncInv`, `SlotInv`, `LockHeld` |
| `LimiterTyped`, `LimiterBounded`, `RefusalsAlwaysJustified` | `TypeOK`, `WindowBound`, `RefusalJustified` | `LimiterInv`, `Recorded` |
| `CapacityAlwaysHeld`, `TicksAlwaysDistinct`, `InsertionsKeepLive` | `CapacityHeld`, `TicksDistinct`, `LiveEntriesKept` | `LruInv` |
| `StoreIsLru` | `ImplementsLru`: the store implements `RecencyStore` | `LruInv` and one mapped step per action |
| `OutboxTyped`, `AlwaysSoleDeliverer`, `SuccessAlwaysLast`, `DeliveredAlwaysPublic`, `SteadyFollowersAlwaysServed` | the safety properties of `Outbox` | `OutboxInv` |
| `LedgerComplete`, `BlockedNeverReached` | `EveryAttemptReported`, `BlockedNeverServed` | `ServedInv` |
| `FollowsTyped`, `PolicyAlwaysHonoured` | `TypeOK`, `PolicyHonoured` (the rejected on any storage, those held back on one with follow requests), with any interleaving and failing storage | `PolicyInv` |
| `CollectionAlwaysCurrent` | `CollectionCurrent` | each change enters a point from which its thread invalidates |
| `SerialUndoAlwaysWithdraws`, `AcceptedAlwaysFollower` | `SerialUndoWithdraws`, `AcceptedIsFollower` | `SerialInv` |
| `InteractionsTyped`, `CreatedAlwaysEligible`, `StoredAlwaysTold`, `DeletedAlwaysStaysDeleted`, `RetractedAlwaysStaysRetracted`, `AcceptsAlwaysAuthorized` | the invariants of `Interactions` | `StoringInv` |
| `InboxKeepsKeys`, `InboxOwnRowsOnly`, `InboxRowsRemain` | `KeysOnce`, `OwnRowsOnly`, `RowsRemain` | `StoringInv` and one row per key |
| `InboxKeepsStore` | the inbox implements `StoreSpec` | one put, mark or stutter per step |
| `RotationsHeal`, `RetiredKeysAlwaysEnd`, `BlockedNeverFetched`, `AlwaysRoutedToAddressee` | the properties of `Server` about requests | `ServerInv` |
| `DatesAlwaysExpire` | `DatesExpire` | `CheckedInv` |
| `SpeakersAlwaysListed` | `SpeakersListed`, whenever actors change whose keys they list | `ListedInv` |
| `CacheAlwaysCurrent` | `CachedIsCurrent`, assuming `SpellingsAgree` | `DocumentsInv` |
| `OneActorAlwaysCurrent` | `CachedIsCurrent` of a server of one actor | `OneActor` gives `SpellingsAgree` |
| `OneActorNeverPoisoned` | `MalformedIsUncached` of a server of one actor, where `server_webfinger` refutes it of many | `HealthyInv` |
| `ServerTypeCorrect` | `TypeOK` of `Server` | `TypeInv` |
| `NothingEverLost` | `NothingLost`, assuming `OneAuthor` | `StorageInv` |
| `MigrationsAlwaysKeep`, `AlwaysFiledUnderPath` | `MigrationsKeep`, `FiledUnderPath`, assuming `OneAuthor` | `StorageInv` |
| `DirectoryIsStore` | `ImplementsStore`, assuming `OneAuthor` | `StorageInv` and one mapped step per write |
| `ConfirmedAlwaysFound`, `ObjectIndexAlwaysSound` | `ConfirmedIsFound`, `ObjectIndexSound`, assuming `OneAuthor` | `IndexInv` |
| `DeletesAlwaysByAuthor` | `DeletesByAuthor`, assuming `OneAuthor`: what holds where `file_second_mention` refutes `DeletesByObject` | `IndexInv`, `Aimed` |

* `StalenessInv`.  `NoStaleStore` alone is not inductive: it must be known that
  a render about to be stored is recent.  The invariant says that versions are
  ordered (`committed <= bumped <= data`, and every mark an invalidation will
  commit is at most `bumped`), that an outcome whose generation is still the
  current one is at least as recent as `bumped` (`CurrentRenders`), and that a
  thread at its store write holds the lock with the current generation
  (`StoringHoldsLock`), so no bump comes between.  `FloorBelow` carries it over
  to what a call returns.
* `SlotInv`.  Owners hold distinct slots; a slot is pending exactly until its
  owner completes it; every registered slot has an owner; and while no `clear()`
  has come (`OwnersRegistered`) the in-flight map holds the slot of every owner,
  which is what makes a second owner impossible.  After a `clear()` only the
  last conjunct is lost, so waiters and slots stay safe.
* `LockHeld`.  Whoever holds the state mutex between two steps is at its store
  write, and can go on; otherwise the mutex is free, an owner or an invalidation
  needs nothing else, and a waiter has an owner or an outcome.  Hence
  `NoCircularWait`, the part of "every call returns" that is not about fairness.
* `CurrencyInv`.  A successful render shows the data while the generation it
  began with stands, unless they were changed by somebody who has still to bump
  it (`MutatedFor`): the change, the bump and the deletion come in this order,
  so a render overtaken by a change is either seen by the bump or stored before
  the deletion.  `TasksCurrent` is the same of what a task sent.
* `AsyncInv`.  A step of a thread is a step of `DocumentCache` (`SyncIsNext`),
  so `StalenessInv` is taken over.  `TaskStaleness` is its counterpart for the
  locals of tasks, and `FlightInv` says that a future in the map, or waited for,
  is resolved or has a task that will resolve it; a dropped owner leaves the
  first alternative.  A task changes nothing of the threads but the store
  (`TaskStepsApart`), so what `SlotInv` and `LockHeld` say of threads holds
  beside tasks; that tasks share renders has an invariant of its own, since a
  dropped task leaves its channel in the map: until a `clear()` the map holds
  the channel of every task that renders (`FlightsRegistered`), and no two have
  the same (`FlightsApart`).
* `LimiterInv`.  A thread's clock reading is at most `MaxDelay` old, so a cleanup
  never drops an admission that could share a shortened window with the present
  (`RecentRecorded`); then any such window is a subset of a `Vec`, whose size is
  bounded.  `Recorded`, for the refusals, is the converse: a `Vec` holds
  nothing that was not admitted since the last reset.
* `LruInv`.  The capacity means that one pop is enough, and distinct ticks make
  the least of them unique; the mapped order of uses then changes as
  `RecencyStore` says.
* `OutboxInv`, activity by activity.  `PublishInv`: past a step of `publish()`
  what the step is for has happened, and the preferred inbox of each steady
  follower is collected.  `FanOutInv`, `WorkerInv`, `InboxInv`: the queue and
  the inboxes in hand are disjoint; a worker has reported every attempt before
  its current one and none was accepted; an inbox of the fan-out is in the
  queue, in hand, or settled.  `ServedInv` adds where posts go (to inboxes left
  after the filter), that an inbox whose worker panicked is with nobody any
  more, and `Ledger`, the reports of one inbox.
* `PolicyInv`.  `Guided`: who is at the point of being stored was admitted, at
  the point of being requested is held back, at the point of being approved was
  approved; pending requests exist only of those held back.
* `SerialInv`.  Without overlap the thread of a remote actor is the only one,
  so what its position says of followers and requests stays true until it moves.
* `StoringInv`.  Of each row: it is what its activity makes, eligible, and
  deleted if its key is in `gone` or `retracted`.  Of each activity in hand: it
  passed the checks of its position, and what it would bring back is in neither
  of the two sets, which is what makes a store harmless to them.  For the
  refinement of `StoreSpec` each storage call is matched with a `Put` or a
  `MarkDeleted` of the trait, a failed upsert included (`MayMention`); that rows
  are one to a key makes a replaced row an earlier one of the same author.
* `ServerInv`.  A copy that is older than the key of its actor was stored by
  a GET that began before the last change of the key, so at most `FetchTime`
  after it (`CopiesLag`); `Reading` says the same of the key a thread has read.
  `SecondDocument` bounds the second GET of a delegated signature.  That the
  shared inbox finds the *first* addressee needs a least element of a set of positions
  (`LeastExists`), which is well-foundedness of `<` on the naturals.
* `DocumentsInv`.  Each change leaves every route either with the same document
  or with an invalidation due of its kind (`ChangeKeepsCurrent`); routes that
  share a key render the same (`SameKeySameDocument`).  The latter is where
  `SpellingsAgree` is needed: routes of WebFinger that share a key resolve to
  one account.  It holds of a server of one actor whose resolver ignores case,
  and fails of a server of many when a bare `user@domain` is asked for, which
  `server_webfinger` shows.  `OneActor` is the condition for the former: every
  setup is of `dispatch`, which rejects a malformed resource before the cache,
  and names that differ in case only are one actor's.
* `CheckedInv`.  What was found of the signer holds while the second document is
  fetched: a thread that reads the document of the actor has verified the
  signature, at most one GET ago (`Checked`).
* `ListedInv`.  The list in a copy, in the hands of a thread, or behind an
  admission was that of the document at most so long ago: a GET before the time
  of the copy (`CopiesList`), a day and a GET before now (`Heard`).  What was on
  a list at a time is on it now or was withdrawn since (`Spoke`).
* `HealthyInv`.  On a server of one actor no entry of WebFinger is ever a miss
  (`NoMiss`), because what does not resolve is rejected before it is cached.
* `TypeInv`.  `TypeOK` with the types of the documents and of what each route
  renders (`ContentsTyped`, `HandlersTyped`).
* `StorageInv`.  Before the last migration the files are those of the older
  server, each at its old or its new place, with distinct new places, and what
  is not yet moved is in the snapshot (`Placed`, `Migrating`); hence a rewrite
  only ever renames (`RekeyedRenames`), and a migration that is begun again
  after a crash finds the same contents.  After it every file is at the place
  its entry names.  A thread that is about to write holds something of that
  place (`Consistent`), and two interactions of one place have one identity
  (`Identified`), which is what `OneAuthor` is for: then overwriting loses
  nothing.  What a backfill or a delete writes back is out of date, but marks
  the row that is there: rows of one place are one row but for the status
  (`Row`), a second mention over the first included.
* `IndexInv`.  A confirmed file that no call was cut short at has each mention
  in the index, or a call stands at it that will add the mention or is removing
  it (`Listed`); the same of its object (`ObjectsListed`), with the migration
  that builds the index as a third case.  Before the last migration no call was
  ever cut short (`Unbroken`), because none runs.  A delete by object reads
  the place of an interaction of that object and of its author (`Aimed`); what
  it finds there is of the author, and of the object where the name of the file
  has the object in it, which is in replies and quotes.

**Only model-checked**: liveness (`CallsReturn`, `FanOutEnds`), which is out of
the prover's reach under fairness; `NoCircularWait` and `NoCircularWaitAsync` are
the safety they rest on in the cache, and are proved.

**Proved and in no run**: to keep the runs to one question each, some
properties that are proved for every value of the constants are in no `.cfg`:
`StaleOnlyWhileDue`, `InflightOwned`, `TasksShareRender`, `NoCircularWaitAsync`,
`BlockedNeverServed`, `KeysOnce`, `RowsRemain`, `StoreSpec` of the inbox,
`MigrationsKeep`, `FiledUnderPath`, `DeletesByAuthor`, `BlockedNotFetched`, and
the `TypeOK` of every module but `RateLimiter`.  TLC finds no violation when they are added to
the run of their module (`StaleOnlyWhileDue` with `StoreFaults = FALSE`, as it
says nothing otherwise).

## 7. Abstractions, and what is not modelled

* Documents, activities, actors and addresses are model values, versions or
  records of what decides; rendering, JSON and formatting are left out.
* Each storage call is atomic outside `FileStorage`: the SQL backend holds one
  mutex per call.  `FileStorage` goes below that for interactions; the other
  records are one file each, read and replaced in one step.
* `u64` counters (generation, tick) are naturals: they do not wrap in the
  lifetime of a process.
* Poisoned mutexes are not modelled: the code recovers the guard and goes on.
* The store inside `DocumentCache` drops and expires entries at any moment,
  which covers what `LruStore` does; the two are not composed state by state.
* In `Server` an admitted activity changes the documents in one step; what the
  inbox does on the way is `Follows` and `Interactions`.  The storage of
  `Documents` holds no more activities than a page.

**Not modelled.**  The Redis store: one command per call on an external
service; several processes each with its own generation keep no promise a
model could check.  `handle_follow_response`, which removes the record of a
Follow this actor sent itself and nothing else.  The default paging of the
outbox: see 5.2; it has no state.  HTTP, TLS, redirects, cryptography and JSON:
a request is a step with a nondeterministic outcome, a signature is the version
of its key.  The `build_*` functions, the Mastodon API, discovery and collection
documents, content and rendering, the data model, the client, errors: they
format or parse what they are given.  The Python implementation: a second
implementation with the same structure.
