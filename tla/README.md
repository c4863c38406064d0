# godest in TLA+

godest is a Go library for server-rendered web applications: a pub-sub layer, a server side of the
Rails Action Cable protocol that carries Turbo Streams over it, sessions kept in SQLite, and adapters for
templates, policies, caches and configuration. This directory holds TLA+ models of the parts that have
state shared by goroutines or requests and of the router of events, the TLC configurations that check them on small instances, and TLAPS proofs
of what holds on every instance.

## Inventory

| Component | State | Operations | Hard behaviour |
|---|---|---|---|
| Hub (`pubsub/hub.go`) | map topic → subscriptions, one `sync.RWMutex`, an unbuffered channel of topic changes | `Subscribe` (leaves a watcher goroutine), `unsubscribe`, `Cancel`, `Close`, `Broadcast` | sends on the channel with the lock held; callbacks run with the read lock held; watchers act some time after a context ended; calls that waited for the lock go on after `Close` |
| Broker (`pubsub/broker.go`, `broker-context.go`) | map topic → canceler of the PUB handler, the hub | `Serve`, `TriggerPub`, `CancelPub`, `Subscribe` (SUB and UNSUB handlers), `Publish`, `Broadcast` | topics come and go faster than handlers return; a context ends between two steps; shutdown through the hub's lock |
| Router (`pubsub/broker-router.go`) | prefix tree of routes | `Add`, `insert`, `Find` | backtracking over static, parameter and wildcard children |
| Action Cable connection (`actioncable/connections.go`) | map identifier → unsubscriber, the unbuffered channel `toClient`, an errgroup | `Upgrade`, `Serve` = `receiveAll` + `sendAll`, `Close` | four kinds of goroutines meet on `toClient`; either side may leave first |
| Channel dispatcher (`actioncable/channels.go`) | map identifier → channel | `HandleSubscription`, `HandleAction` | a failed re-subscription forgets the channel |
| Subscriptions (`actioncable/subscriptions.go`) | none of its own, shares `toClient` | `SendText`, `SendBytes` | select between a context and a channel that may be closed |
| Turbo Streams (`turbostreams/`) | none of its own | `Channel.Subscribe`, `Broker.Subscribe`, MSG handlers | glues the two halves: callbacks of the hub send on `toClient` |
| Cancellers (`actioncable/cancellation.go`) | map session → cancel functions | `Add`, `Cancel` | grows until `Cancel` |
| Sessions (`session/`, `session/sqlitestore/`) | rows with creation, modification and expiration time | `New`, `Save`, `Cleanup`, `Regenerate`, `Invalidate` | requests race a logout and the cleanup |
| Database (`database/`) | a read pool, a write pool of one connection, the set of prepared connections | `acquire`, `prepare`, `Release*`, `Execute*` | connections return in goroutines of their own |
| Workers (`handling/`) | none | `Consume`, `Repeat` | a select races the end of the context |
| Renderer (`template-rendering.go`, `embeds.go`, `template-fingerprints.go`, `etags.go`) | fingerprints and parsed templates, or none if lazy; the clients' copies of pages | `NewTemplateRenderer`, `NewLazyTemplateRenderer`, `CacheablePage`, `Page` | files change between two reads of a request; a copy is revalidated by an ETag computed at another time than its body |
| Rest | configuration read at start | environment, OPA, cache wrapper, authentication, headers, errors | stateless adapters |

How they interact: the hub tells the broker's `Serve` of topics over the channel; `Serve` starts PUB handlers,
which call the hub's `Broadcast`; `Broadcast` runs, under the hub's read lock, the callback that
`Broker.Subscribe` wraps around a broadcast handler; with Turbo Streams that handler renders the message and
calls `SendText`, which blocks on the connection's `toClient` until `sendAll` takes it or a context ends. A
slow connection therefore holds up a hub, and the hub's lock holds up every subscriber and `Serve`.

What makes each of them correct is what the properties below say; the hazards they aim at are listed, each at
its line, in `PROJECT.json`.

## Modules

| Module | Models | Checked by | Proved in |
|---|---|---|---|
| `Registry` | what a hub promises: subscriptions come and go once each, and a feed that is at most one change behind | as `ImplementsRegistry` | `HubProofs` |
| `Hub` | `pubsub/hub.go` | `MCHub` | `HubProofs` |
| `Broker` | `pubsub/broker.go` on top of `Hub` (`EXTENDS Hub`) | `MCBroker` | `BrokerProofs` |
| `Conn` | `actioncable/connections.go`, `channels.go`, `subscriptions.go`, and the Turbo Streams channel | `MCConn` | `ConnProofs` |
| `Pool` | the pools of `database/db.go` | `MCSessionStore` | `SessionStoreProofs` |
| `SessionStore` | `session/sqlitestore/store.go` and `session/sessions.go` on top of `Pool` (`EXTENDS Pool`) | `MCSessionStore` | `SessionStoreProofs` |
| `Router` | `pubsub/broker-router.go`, and the routes that `Broker.Add` records | `MCRouter` | `RouterProofs`, `RouterFindProofs`, `RouterFoundProofs` |
| `Renderer` | pages, fingerprints and ETags of the template renderer, and clients that revalidate | `MCRenderer` | `RendererProofs` |

### Hub

`topics` and `members` are the keys and values of `broadcastings`; `closed` says that the map is nil. A
subscription record stands for the goroutine that calls `Subscribe` and then for the watcher it leaves behind;
publishers call `Broadcast`; callers call `Cancel` and `Close`. Every method is two or three actions: the request for
the write lock (`Subscribe`, `Watch`, `Cancel`, `Close`, `BroadcastUnsubscribes`), the body under the lock
(`Subscribed`, `Unsubscribed`, `Canceled`, `Closed`), which runs up to the channel send or the return, and the
rendezvous `Deliver`, after which the method unlocks and returns. `sync.RWMutex` is two variables: `writer`
is the goroutine that called `Lock` first, which already keeps new readers out, and the lock is granted when
`readers` is empty. A reader that asks for the write lock therefore waits for itself, as in Go.
`Broadcast` takes the read lock and starts one callback per member; `Received` is the return of one of
them. `done` is the context that `Subscribe` makes, which ends with its parent at any time. `seen` is history:
the topics as a reader reconstructs them from the changes it got.

Details kept from the code: `Cancel` reports all the topics it was given, present or not, so that only what `Subscribe` and
`unsubscribe` report is always news to the reader (`ChangesAreNews`); `unsubscribe` skips a
subscription whose topic is gone, its `cancel` included; a `Subscribe` that gets the lock after `Close`
writes to a nil map and panics, with its deferred unlock; `Close` sends nothing. A `Broadcast` on a topic without
subscriptions changes nothing and is left out.

### Broker

The broker adds the handlers of each subscription (`handler`), its context `cctx` (the hub's context is its
child), the broadcast handlers that are running (`passing`), `Serve` with the change it works off (`serve`,
`got`), and the PUB handler goroutines: `pubCancelers[t]` is the goroutine that the stored canceler cancels. The
hub's publishers are those goroutines, so messages come from handlers that `Serve` started, and its `Closer` is the
goroutine in `Serve` that waits for the context. Callbacks are split where the code is: `ReceivePasses`
is the check of `cctx` that lets the broadcast handler be called, `ReceiveReturns` its return. Handlers are user code:
they may fail, broadcast to any topic, and return at any time. `TriggerPub` is also callable from outside
`Serve`; only `Serve` calls it here, as in the repository, so its error return for an existing canceler is subsumed by
the check `SkipPub` that `Serve` makes first.

### Conn

`rx` is `receiveAll` (its select, the wait for the read goroutine after the context ended, a command, a bare
send of a reply), `reader` the goroutine in `readAsMarshaled`, `tx` is `sendAll`, `main` the goroutine that calls `Serve`
and then `Close`. Each subscription (`Insts`) has a callback goroutine `send`, between the check of its context in the
broker's wrapper and the end of `SendText`. `toClient` is unbuffered, so a send and its receive are one step
(`TakeReply`, `SendTextSends`), possible only while `sendAll` is in its select. A subscription is "live" in the hub,
"refused" by the SUB handler (not in the hub, though `Channel.Subscribe` returned nil), or "canceled". Parsing and checking identifiers is the
constant `Acceptable`; pings and the welcome matter only by their failure (`WriteFails`).

### Pool

A user is a goroutine that runs a statement. `Acquire` is the call of `AcquireReader` or `AcquireWriter`, `Take` and
`TakeFails` the two ways out of `pool.Take`, `Prepare` and `PrepareFails` those of `prepare`, and `Release` the deferred call
that starts a goroutine, whose `pool.Put` is `PutBack`. `idle` is what the pools hold, `prepared` the keys of `connPools`,
and `ready` is history: the connections on which every preparation query ran. A database without preparation queries is
the case in which `prepare` always succeeds.

### SessionStore

The table is `rows` with `created` and `expires`; `issued` are the ids that `Save` put in cookies, which is all a client can
present later; `session` is what a request has in memory (`ID`, `IsNew`, a negative `MaxAge`). `New` and `Save` are split where
they wait for the database: `New`, `SaveDeletes`, `SaveInserts`, `SaveUpdates` and `CleanupStarts` go up to the acquisition and
take `time.Now()` there, as the code does; `GotSession`, `AddedSession`, `UpdatedSession`, `DeletedSession` and the two
statements of `Cleanup` run when the connection is there. Each may fail instead, in `Take` (`AcquireFails`), in `prepare` or as a
statement (`Fails`), and `Returns` is what the caller makes of it: `New` goes on with a new session, `Save` returns the error to the handler,
which still has the Session, with the id that `Save` assigned, and may call `Save` again; `Repeat` stops the cleaner. `SaveFailsToEncode` is the error between the assignment and
the insertion. A statement is atomic (SQLite's promise, external). `gone`, `lost` (the ids of insertions that failed) and `limit` are history.

Details kept from the code: an update or a delete that matches no row succeeds, and the cookie is set after the update all the same;
`New` keeps the id of a session it does not accept; `Save` does not reset `IsNew`, so a second `Save` in the request
inserts again; the clock of a row starts before its insertion waits for the writer. A crash between a statement and its cookie
is a client that never presents the id.

So a cookie may have an id without a row: `Save` assigns the id before it inserts, and for a regenerated session (`IsNew` false) a `Save` after a failed one updates a row that does
not exist and sends its id. `CookieIsStored` finds this (`session_retry`); `CookieHasRow` says that it is the only way: every id in a cookie is that of a row, present or deleted, or
of an insertion that failed, and no id is both.

### Router

A path is a sequence of one-character strings from `Characters`, since prefixes, labels and indices of characters are what the tree is made of.
`tree` is the sequence of nodes, linked by index. One caller at a time uses the router and `pc` is where it is: `Add`
scans its path (`ScanEscape`, `ScanParam`, `ScanAny`, `ScanEnd`) and leaves calls of `insert`, each branch of whose loop is an action
(`InsertAtRoot`, `InsertSplit`, `InsertFork`, `InsertDeeper`, `InsertChild`, `InsertExists`); `Find` is a loop (`Loop*`), its
parameter and wildcard blocks (`Param*`, `Any*`) and its end (`Out`). `Registered` is `Broker.Add` recording the route.
A Go panic of `Find` is a place of its own (`"panic"`): a value beyond the room that the context has (in the parameter and the wildcard block and in
`backtrackToNextNodeKind`), a slice of the topic from a negative index when backtracking gives back more than was taken, and a best match that is nil.

The reference is `Resolve`: it is computed from the set of registered routes without a tree, so that the answer may depend neither on the order
of registration nor on how nodes were split. It spells out what the code does where that is not obvious:

* a parameter at the end of a route takes all the rest of the topic, slashes included, if no other route goes on after it;
* a route of another method does not end the search, but a wildcard does, with its not-found handler or with `MethodNotAllowed` although a shorter wildcard may
  have the method; the best node is the first one with any handler;
* a node with only a not-found handler ends the search; a not-found handler of the best node gets the values that backtracking has
  emptied.

`url.ParseRequestURI` of topics is outside. Wildcards end the routes of the instance (`WildcardsLast`): `Add` goes on after a wildcard and registers
the handler at the end of the route, too, but the wildcard's node has it already, so that what follows a wildcard does not have to be in the topic. In no two routes of the instance does an escaped colon
follow a character that a parameter follows in the other, which is `ColonsApart`. The code relies on that: with `/b\:c` and `/b:x`, both colons
become a child labelled with a colon, and `Find` of `/b:` slices from a negative index. No test or document of the repository has such a
pair of routes, so there is no run about it; `ColonsApart` is the hypothesis of the theorem that `Find` never panics, and both are that of the theorem
about `FoundFitsTopic`; `MCRouter` assumes them, so TLC checks that its routes have them.

### Renderer

The content of a file is the number of its edits, which picks a text from its `History`: an edit that is undone gives the file a text it had before, and an empty text
stands for a partial, layout or asset that is not there, so creating, removing and renaming files are edits too (a page that is missing fails). Fingerprints are injective on the bytes that are hashed, the
texts of several files one after the other in the order of `Walk` with nothing between them (`Concatenated`, `AppText`, `PageText`); an ETag is compared by these, not by the numbers, which are
carried along to say which edit was when. A page in `shared/`, whose template is read for the app's fingerprint and for its own, is read once.
`AppFiles`, `Modules`, `PageFiles` are the code's rules for what goes into a fingerprint, `Uses` what executing a page really needs, and the two
are not the same for every page: `Confined` says for which they should be. `CacheablePage` reads files for the fingerprints, one by one (`Read`), and
either answers 304 (`NotModified`), fails, or sets the ETag (`Modified`) and goes on to `Page`, which reads the templates again. A
preloaded renderer has read them when it was made. `CacheablePage` without the name of a page, whose ETag would be that of the app alone, never gets to render one and is left out. Clients keep pages that have an ETag; answers may get lost; the process may be restarted.

A wrong 304 is possible in two ways, and the files of the run can go both: an edit between the fingerprints and the rendering is undone later, so that the ETag of the copy is current again and its body is not
(`Undone`); or text moves between files whose texts are hashed next to each other (`RunTogether`). `NotModifiedIsTrue` says that there is no third way for a confined page; without the one or the
other exception TLC finds it violated in the same instance.

## Runs

| Run | Instance | Shows |
|---|---|---|
| `hub` | 3 subscriptions on 2 topics, 1 publisher, 2 callers, failing callbacks | `ChangesReplay`, `ChangesAreNews`, `InactiveIsDone`, `ReceiversAreActive`, `ClosedIsQuiet`, `ClosedIsFinal`, that the hub implements `Registry`, and, unless it is wedged, `DoneIsRemoved`, `CallsReturn`, `BroadcastCompletes` |
| `hub_failed_receiver` | 2 subscriptions, 1 publisher | counterexample to `FailedIsDeactivated` |
| `broker` | 2 subscriptions on 1 topic, 2 PUB goroutines, 1 caller of `Cancel`, failing callbacks | `PubsFollowTopics`, `LivePubHasCanceler`, `NoDeliveryAfterUnsub`, that the broker's hub is a `Hub`, and, unless that is wedged, `ServeEnds`, `TopicIsServed`, `UnusedPubEnds`, `UnsubRuns` |
| `conn_safety` | 3 identifiers, 2 of them acceptable, 2 subscriptions | `UnsubscriberReachesSub`, `CloseLeavesNothing`, `ServeEnds`, `SendTextReturns` |
| `conn_closed_send`, `conn_stuck_reply` | 1 identifier, 2 subscriptions | counterexamples to `NoSendOnClosed`, `CancelationEndsServe` |
| `session_store` | 2 requests and the cleaner, 2 ids, 1 writer, 1 reader, a timeout of 1 in a time of 2, symmetric in the requests | `ConnInOnePlace`, `PreparedBeforeUse`, `NoResurrection`, `CookieHasRow` |
| `session_cleanup` | 1 request and the cleaner, 1 id, timeouts 0 and 1, a restart | `CleanupReaches`, and `AbsoluteTimeout` over restarts with another timeout |
| `session_retry` | 1 request and the cleaner, 2 ids, no time | counterexample to `CookieIsStored` |
| `router` | up to 3 of 15 routes in any order, 11 topics, 2 methods and not-found handlers; look-ups between registrations; deadlock checked | `LinksAgree`, `NoPanic`, `FoundFitsTopic`, `FindIsResolve`, `FindReturns` |
| `router_nil` | up to 2 of the same routes | counterexample to `HandlerIsCallable` |
| `renderer` | a page with a partial in a submodule and a shared layout, an asset, 1 client, 2 data, a page that is edited and edited back and whose end may move to the partial, 1 edit of the others, both modes, restarts; deadlock checked | `NotModifiedIsTrue`, `EtagNeverNewer` |

Deadlock is not checked where the system may really stop: after every subscription and handler is used up, after
`Close`, and where a failed callback has wedged the hub, which is one of the findings.

### Findings

* `hub_failed_receiver`: `Broadcast` calls `unsubscribe` with the read lock held, and waits for itself. The hub is
  unusable from then on. In the broker it takes no failing handler, only an unsubscription that ends `cctx`
  after `Broadcast` has found the subscription in the map.
* `conn_closed_send`: `Close` closes `toClient` under a callback in `SendText`, whose select may choose the send.
* `conn_stuck_reply`: `subscribe` sends its reply without looking at the context; when `sendAll` has left,
  `Serve` never returns and `Close` is never called.
* `session_retry`: after a failed insertion of a regenerated session, the next `Save` sets a cookie for a session that is not stored.
* `router_nil`: a path that ends inside a node's prefix is registered without looking whether it has a handler, as the other branches of
  `insert` do. `Add` inserts the static part before a parameter or wildcard with none, so that part becomes a route with a nil handler for PUB,
  SUB and UNSUB (the map of other methods does not keep it). `FindIsResolve` is stated for topics that meet no such node.

The liveness properties of the broker and the connection are stated "unless" the first and the third of these
happened (`Wedged`, `ReplyIsStuck`), so they still say what holds otherwise; likewise those of the hub.

Seen while modelling, and kept in the models without a run of their own:

* `Cancel` reports every topic it was given as removed (`hub.go:135-136`), also those that were never added or whose removal was reported before, although
  `hub.go:28-29` speaks of "all topics which were removed";
* a subscription that the SUB handler refuses is stored and confirmed (`turbostreams/actioncable-channel.go:79` does not look at the nil channel), although
  `actioncable/channels.go:83` says that `Subscribe` "checks whether the subscription is possible";
* a page that is edited between the ETag and the rendering (`template-rendering.go:160-166`) is confirmed with 304 once the edit is undone;
* files are hashed as one text without separators (`fsutil.go:74-84`, `embeds.go:68, 97-102`), so text that moves from the end of a page to its first partial changes no
  ETag, and a copy from before is confirmed with 304;
* a PUB handler that was canceled and has not returned yet runs beside its successor, although `broker.go:233-234` speaks of one instance;
* a preloaded renderer sets `fingerprints` to an empty value (`template-rendering.go:96`), which `getFingerprints` then takes for computed ones (`:110`), so
  every `CacheablePage` of it fails; the model has this (`NewFingerprints`), and `ModeInv` proves that no ETag is ever sent;
* partials in the root directory of the templates are filed under the empty name and looked up under `.` (`embeds.go:96`), so they are in
  no ETag of a root page; `Confined` leaves root pages out;
* inlines are not in the ETag either; an error while rendering leaves the `Etag` header on the response, though not on a page a client keeps;
* `Save` keeps a session with `MaxAge` 0 although its comment says it is deleted for `<= 0`.

### Bounds

* Two subscriptions on one topic are what it takes for a topic to lose one and keep one, and to be left and joined
  again; the third, on another topic, lets changes of two topics meet. Each subscription record is used once; a longer
  history of a topic repeats the same states of the map.
* Two callers let `Cancel` and `Close` queue for the lock. Two publishers hold the read lock at once in the broker's run, where a second topic would
  only multiply the states of the first; the hub's run has the two topics.
* Every Added change comes from a `Subscribe`, so as many PUB goroutines as subscriptions never run out.
* `Insts` bounds the successful subscribe commands of a connection (`ReadCommand` reads no more of them): two let a client
  subscribe again while the callback of the first subscription still sends.
* `MaxID` bounds the sessions inserted: two let a request regenerate its session or hold one that another request
  deletes. `MaxTime` exceeds the timeout, so that sessions expire while they are in use. `MaxRestarts` is one change of the timeout, up or
  down. One writer is the tightest pool; requests and cleaner compete for it.
* Three routes are what it takes for a split of a split, and for a static, a parameter and a wildcard child of one node; the 15 routes share
  prefixes in every way the branches of `insert` tell apart, and the topics are those that tell the routes apart.
* An edit of a file may fall before, between and after the reads of every step; a page in one module sees every
  kind of file that goes into a fingerprint. Requests share only what a restart resets, so one client with successive requests meets
  every edit.

The proofs have none of these bounds, except that `MaxID`, `MaxTime` and `MaxRestarts` are numbers.

### Fairness

Goroutines that can run do run, callbacks return, and the reader of the hub's channel keeps reading (in `Hub` that is
assumed of `Deliver`; in `Broker` it is `Serve`, which is modelled). Requests for the write lock are strongly fair:
`sync.Mutex` hands itself over to a waiter that has waited for a millisecond. A sender on `toClient` is strongly fair
against `sendAll`'s select, since waiting senders queue. A read that is pending when the context ends fails by
its deadline (`wsPongWait`), as `sendAll` sends no more pings. PUB handlers return once their context is done.
A goroutine that has a database connection
finishes its statement one way or the other, the ticker of `Repeat` fires, and a waiter in `pool.Take`, a receive on a channel, is
served in turn (strong fairness of the cleaner's `Take`; its failing is never forced).
A call of the router runs to its end, since nothing in it waits.
Nothing forces a call, a broadcast, the end of a context, or a failure.

## Proofs

`HubProofs` proves `[](TypeOK /\ LockInv /\ MapInv)` by induction over the steps of `Hub`, for any sets of topics,
subscriptions and goroutines that satisfy the assumptions in `Hub` (disjoint kinds of goroutines, a topic for each
subscription).
The properties are not inductive alone:

* `LockInv` ties the lock to the program counters: the writer is the one goroutine between request and unlock, the readers
  are the Broadcasts between `RLock` and `RUnlock`, a send happens with the lock granted and the channel open, and there is a
  change on its way only then. `ClosedIsQuiet` and `ChangesReplay` need it to know that no second sender
  exists when a method changes the map or closes the channel, `ReceiversAreActive` to know that no reader is inside
  when a subscription is removed.
* `MemberInv` (in `MapInv`) says that a subscription is in the map only under its own topic and between the end of its
  `Subscribe` and its watcher's `unsubscribe`, and that a watcher acts only once the context is done: `InactiveIsDone`
  needs it where `unsubscribe` skips the cancel.

`ChangesAreNews` needs both: what an `unsubscribe` reports as removed, and no topic of an Added change, is among what the reader has seen (`NewsStep`).

`ClosedHubIsFinal` follows from the invariant step by step, and `RegistryImplemented` maps every step of the hub to a step of
`Registry` or to a stutter.

`BrokerProofs` shows first that every step of the broker is a step of its hub (`HubImplemented`), which carries the theorems
over, then adds three inductive parts: `FeedInv` (the cancelers, after the rest of the change in hand, are
what the reader of the channel has seen) gives `PubsFollow` with `ChangesReplay`; `CancelerInv` (a canceler belongs to a
started handler of its topic) gives `LivePubsHaveCancelers`; `ContextInv` (the context of a subscription that is in the hub, or
not yet in it, is done only because `cctx` is) gives `NothingDeliveredAfterUnsub`: the UNSUB handler runs after the
hub's context is done, and a callback runs only for a subscription in the hub, so `cctx` is done and the callback returns.

`ConnProofs` proves `ConnInv`: types, `CommandInv` (unsubscribers belong to subscriptions that were made; a reply is there
when it is sent) and the safety properties, which are inductive together with `CloseInv`: `Serve` returns after both its goroutines, the
read goroutine ends before `receiveAll` handles a command or returns, and once `Close` has gone through the unsubscribers no subscription is left, because a subscription that is
live has its unsubscriber (`UnsubscriberReachesSub`). Together they give `CloseLeavesNothing`.

`SessionStoreProofs` shows first that every step of the store is a step of the pools (`StoreUsesPool`), so that `PoolInv`, proved of
`Pool` alone, carries over: the pool, the connections on their way back and those held are disjoint and cover all, a user holds one
exactly in the phases after `Take`, and `connPools` names only connections that are ready. `StoreInv` is the invariant of the
table. `NoResurrection` and `CookieHasRow` are not inductive alone: an insertion might bring back a deleted id, and an update
might send an id that nobody ever tried to store. `CarriedInv` closes both: an id that a request carries is that of a row, present or deleted, or of an insertion that failed,
except while the request inserts it, when it is newer than all of those; `InsertInv` keeps two insertions apart. `RowInv` (the
expiration of a row is the one it was created with) gives `TimeoutIsAbsolute`.

`RendererProofs` proves `NotModifiedIsTrue` for every set of templates and directories, every history of the files, any number of clients and restarts. The argument is
an order that spans steps of different requests: the ETag of a copy was computed before its body, and both before the files were read that it is compared
with. The numbers of edits only grow, so for every file that a page executes and its ETag covers, etag <= body <= what is read now. When the ETags match and the texts did not run together, the ends
have the same text; then so has the body, unless it lies strictly between them, which is an undone edit. `FreshWhereTextsDiffer` draws the conclusion: where texts never come back and never run together, every
304 is fresh. `CopyInv`, `ReadInv` and `TagInv` carry these bounds from step to step, `StepInv` says which of them apply when, and `ModeInv` deals with the
preloaded renderer. `ConfinedIsCovered` shows from the code's rules that the ETag of a confined page covers all that the page executes.

`RouterProofs` proves the types and `LinksAgree` for any set of routes over any characters, in any order of registration.
`LinksAgree` is not inductive: that children start with different characters, and that `insert` finds the child it has to go to, depends on
where in the tree the remaining path is, which neither the nodes nor `insert`'s variables say. The invariant `Inv(w)` therefore speaks of a
ghost `w`, the word of each node, which is the path from the root to it:

* `WordInv`: a node's word is its parent's followed by its prefix.
* `TreeTrie` says of words alone what makes them a trie: they are different (`Distinct`); a word that enters
  a node's prefix goes through all of it (`Through`); a word that goes on from a node does so through a child with that label (`Onward`). Splitting a
  node and growing a leaf are then operations on sets of words, independent of links (`Splits` and `Grows`).
* `WalkInv`: `insert` is at a node whose word without its prefix, followed by what is left to search, is the path of the call; and a call for a
  parameter or a wildcard comes after the call for the path before it has left a node there (`NodeAt`). This is why a node for a parameter is
  always a new child, never the result of a fork.
* `FindOK` keeps the variables of `Find` in their types and its node in the tree.

`Lcp`, `Min` and `Max` are `CHOOSE` over sets of numbers; the least-number principle comes from the well-foundedness theorem of the library, which needs no
operator as a parameter. One lemma per action (`RootStep`, `SplitStep`, `ForkStep`, `ChildStep`, `ExistsStep`, `DeeperStep`, `LoopStep`, `ParamStep`,
`AnyStep`, `BacktrackStep`, ...) preserves the invariant, and `NextInv` combines them.

`RouterFindProofs` proves `NoPanic` for all routes with `ColonsApart`, whether or not their parameters are whole segments and wildcards end them.
`Find` would panic if it stored a value beyond `maxParam`, if backtracking gave back more than was taken, or if it ended without a node and without a best match. The
invariant `RoomInv` adds to `Inv(w)`:

* `KindsOf`: a character of a node's word stands for a parameter or a wildcard (`Special`) exactly if it ends the word of a node of that kind, and the
  `paramsCount` of a wildcard's node is the number of them in its word (`Params`). Here `ColonsApart` is needed: it makes a colon in a word tell by the
  character before it whether it was escaped.
* `ScanInv`: `Add` has as many names as there are such characters in what it has scanned, and has called `insert` for each of them, so that a
  later call of `insert` never swallows one in a static node.
* `CountInv`: no node has more of them than `maxParam`, except the nodes of the route that is being added; look-ups come after it has returned.
* `FindAt`: `Find`'s `paramIndex` is the number for its node, and there are offsets, one for each node on the way from the root
  (`Taking`), which say how much of the topic was taken when `Find` was there; each is its parent's plus what the node took, the length of the prefix or of the
  value stored at the node's number. Going to a child extends them (`TakeStep`), giving a node up needs no more than the parent's (`GiveStep`).

No recursion is needed to speak of the nodes on the way: they are those whose word is a prefix of the node's word (`OnWay`, `KidWay`).

`RouterFoundProofs` proves `FoundIsRegistered` for all routes (`FoundHandlersAreRegistered`). Its invariant `OwnInv` says of every node that a handler in its
`methods` is there under the method it was registered for, and with the path of a route that is recorded or being added (`Known`); of a handler for what is not
found likewise; and of `Find`'s match that it is one of those. It rests on `RouterInv`: `Find` reads handlers only from nodes of the tree.

The same module proves all of `FoundFitsTopic` (`FoundHandlersFitTheTopic`), for routes with `ColonsApart` and `WildcardsLast`. That needs the way of a route into the tree
and the way of a topic through it, which meet in the word of a node:

* `FitInv` says that a handler at a node is of a route that has the node's word (`Fitting`, `Reads`): the word of the registered path, computed by `Word` from
  the path alone, is the node's word with its parameters and wildcards marked (`Says`), and there is a name for each of them. The handlers of a node that is split
  go to its lower half, which has its word; `InsertOwns` shows this once for any family of sets of handlers, one for each word, so the same lemma serves
  `OwnInv`, where all the sets are `Known`.
* `ReadInv` is about `Add`, which rewrites the path it scans: it drops the backslash of an escaped colon and the name of a parameter. `Aligned(p, m, r, d)` says that the
  first m characters of the rewritten path are the word of the first d characters of the registered one, and that what is left is the same. Every step of the scan goes from one
  such pair to another (`AlignStretch`, `AlignEscape`, `AlignParam`, `AlignAny`), and a call of `insert` that has a handler comes when all is read. Here `WildcardsLast`
  is needed.
* `FindFits` is about `Find`: there are positions, one for each character of its node's word, such that the piece of the topic between two of them is the character, or
  the value stored at its number if it stands for a parameter or a wildcard (`Reading`). Going to a child extends them (`ReadingStatic`, `KidTakes`), giving a node up takes the value
  away with its piece (`KidGives`, `ReadingValues`). At a match the word is read to its end and the topic to its own.

From `Reading` at the end of the topic, `FlattenPath` gives that the values filled into the word are the topic. `Word` and `FlattenSeq` are recursive functions over the length of a
sequence. What they compute is proved by an induction (`Induct`) that is stated with a set of numbers instead of an operator: the provers can use it after the property has
been made a set; that the recursive function exists is proved in the same way (`WordToSteps`, `FlattenPath`).

`NoEmptyBroadcastings` and `BrokerTypeCorrect` are proved and not in a run: the first follows from what the hub's run checks, the second is
checked by `ImplementsHub` for the hub's part.

Only model-checked: `FindIsResolve`, which says more than `FoundFitsTopic`, namely that what `Find` did not try first would not have been an answer either. It needs an invariant
about everything that backtracking has given up, in the order of `Before`, and a comparison of the tree with `Fits` for words that are in no node; this has not been done.
Further all liveness properties (TLAPS has no support for fairness that would carry them), and the counterexamples.

## Not modelled

The inventory's last rows, for the reasons given in `PROJECT.json`: policies, hashes, form values, Turbo Streams templates and configuration are
computations without shared state; the SQL engine, the cache and the WebSocket library are external and
appear only through how the code uses them.

## Plan

1. Done: `Hub`, `Registry`, `Broker`, `Conn`, `Pool`, `SessionStore`, `Renderer` and `Router` with their runs and proofs.
2. `FindIsResolve` as a theorem: an invariant for the words that `Find` has given up, in the order of `Before`.
3. The rest of the database (`Close`, `ExecuteInsertionForID` with its savepoint, `Migrate`), as users of `Pool`.
4. `Workers` (`handling/`) and `Cancellers`, small and composed with the sessions.
5. A composition of `Conn` and `Broker`: a connection's subscriptions are the broker's, so that `Hub.Cancel` and the hub's
   removal of a subscription meet the unsubscribers of the connection.
6. An abstract session table as a specification that `SessionStore` implements; the invariants of 3 to 5.
