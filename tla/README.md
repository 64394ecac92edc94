# restlink.js in TLA+

restlink.js carries REST-like requests between a client and a server that may live in the
same JavaScript process.  A server is a core with sessions, a chain of middlewares that
answers the requests, an index of routes, and adapters through which requests come in
(directly, or over HTTP).  This directory holds TLA+ models of those parts, configurations
that check them with TLC, and theorems about them that TLAPS checks.  Paths are relative to
the root of the repository's sources.

## The system

| component | code | state it keeps | operations |
|---|---|---|---|
| middleware engine | `server/middleware/base.js`, `request_enrichments.js`, `response_enrichments.js` | in the request: the back processing chain; in the response: the depth (`processing_chain_index`), the back index, the middlewares traversed, the deferred that the client waits for | `initiate_processing()`, `next()`, `send()`, the catches around user functions |
| server core | `server/core.js` | head of the chain, the started flag, list of sessions, adapters | `use()`, `startup()`, `shutdown()`, `create_session()`, `terminate_session()`, `process_request()` |
| session | `server/session.js` | validity, requests in flight, reference to the server | `register_request()`, `terminate_request()`, `invalidate()`, and `done()` that it adds to requests |
| direct adapter and client | `server.js`, `server/adapters/direct.js`, `client/base.js`, `client/direct.js` | the client's session | `open_direct_connection()`, `process_request()`, `disconnect()` |
| HTTP adapter | `server/adapters/http.js`, `base.js` | the node http server, the core it is attached to | the server callback (request, body, end), startup, shutdown and its late `'close'` event |
| route index | `utils/route_indexed_container.js`, `server/rest_target_indexed_shared_container.js` | a tree of segments, `:id` among them, with one payload per node and action | `ensure()`, `at()`, `detailed_at()`, `list_matched_methods()` |
| default chain | `server/middleware/logger.js`, `callback.js`, `meta.js`, `catch_all.js` | the handlers, kept in the index | `on()`, and what each answers |
| request, response | `core/` | method, uri, content; return code (500 at first) | `set_to_error()` ... |
| content serialisation | `utils/serialization_utils.js`, called by the direct client, the core and the HTTP adapter | none: it rewrites the content of requests and responses in place | to and from JSON text, by content type |
| express adapter | `server/adapters/express.js` | the core it is attached to | startup, shutdown; its request callback is not implemented |
| Backbone service | `utils/serve_backbone_model.js` | none of its own: a model per request, in a store | the handlers it registers: create, read, update, delete, read all |
| Backbone sync | `utils/backbone_sync_to_restlink_mixin.js` | what the client's model keeps: attributes, which of them changed, id | `sync()`: create, read, update, delete |
| unfinished or unused | `server/middleware/auto_crud.js`, `sample.js`, `tosort/` | | stubs, templates and drafts |

### How they interact

A client registers its request with its session and gives it to the core.  The core checks
that it is started and that the session is still valid, then puts the request in the chain
and returns the promise of the response.  Each middleware answers (`send()`), or passes on
(`next()`), at once or from a callback.  `next()` may leave a back function behind; `send()`
runs the back functions last in first out and then resolves the promise.  The client's
callbacks mark the request done.  Sessions are shared between client, core and requests: a
`disconnect()` or a `shutdown()` closes all that is in flight, wherever it is.

The Backbone service is a set of handlers in the index.  Each makes a model and asks the store
behind it, which answers in a later turn.  `sync()` is its counterpart: it turns the `save()`,
`fetch()` and `destroy()` of a client's model into requests to those handlers.

### What is hard

JavaScript runs one turn at a time, but a turn is a deep stack of user functions and engine
code, any of which may throw, and what was asked in one turn is answered in another one.

* **In the engine**: a user function answers late, twice, after its `next()`, or throws
  after having answered; a back function throws half-way; nobody listens to the promise of a
  long-living request.  The response is one object, that the client may hold already.
* **In the core**: sessions disappear behind its back, and with them what requests in flight
  refer to; restarts; adapters are started and stopped one by one, and one that throws ends
  the loop half-way.
* **In the HTTP adapter**: the body of a request comes in many turns during which the server
  may be stopped and started again; the end of a shutdown is an event.
* **In the service**: an update takes two operations of the store, with other requests in
  between; each operation may fail, and three callbacks of each handler may answer.
* **In sync**: the application changes its model while an answer is on its way.
* **In the index**: two traversals with different priorities; registrations that fail
  half-way; a later route takes urls from an earlier one; what a request was matched with is
  kept, while the index and its session change.
* **In the contents**: three places decode a content, each by what it looks like at that time,
  in the objects that application and handlers hold.

`PROJECT.json` lists each hazard at its line with the properties that watch it.

### What makes each part correct

* engine: the client is answered, once, with what the chain made; the back functions run
  last in first out, each once; the duty to answer is with one function, until a function
  answers twice; the chain is not re-entered after `send()`; no error is lost;
* core: closing a session, or the server, reaches every session and every request that is
  open; a stopped server has none;
* several adapters: when the core is stopped none of them lets anything in, when a startup has
  returned all of them serve;
* adapters: every call and every exchange is answered, what is in flight is closed with its
  owner, and the core refuses nothing that its session took;
* index and default chain: a url leads to the handler that was registered for it, and a
  request that has none is refused for the right reason;
* contents: the handler sees what was meant and the client gets what was written, and finds its
  own request as it was;
* service and sync: what is answered is true of the resource, once; what the model takes to be
  on the server is there.

## The modules

| module | models | extends |
|---|---|---|
| `OnionReply` | abstract: what an exchange with the engine looks like from outside | |
| `MiddlewareChain` | the engine, one exchange | |
| `ServerCore` | core and sessions; its actions are used by the three modules below | |
| `DirectServer` | direct adapter and clients | `ServerCore` |
| `HttpAdapter` | HTTP adapter | `ServerCore` |
| `Adapters` | several adapters of all kinds on one core | `ServerCore` |
| `RouteIndex` | the index, its registration and lookups | |
| `Dispatch` | the default chain and `on()` | `RouteIndex` |
| `Content` | the content of one request and its response, direct or over HTTP | |
| `BackboneService` | the handlers of a served Backbone model, and its store | |
| `BackboneSync` | a client's model, synchronised with that service | `BackboneService` |
| `MC...` | the constants of the instances that TLC checks | the module of that name |
| `..._proofs` | theorems and their lemmas | the module of that name |

`Dispatch_proofs` holds the theorems about `RouteIndex` and `Dispatch`, `BackboneSync_proofs` those
about `BackboneService` and `BackboneSync`.

Definitions named `...` with a comment "Mutant of ..." are plausible bugs: each property has
one that breaks it.  They are part of no specification.

### MiddlewareChain

All state of the engine lives in the request and the response, so one exchange is the whole
machine.  The stack of user functions is explicit (`stack`, a `Frame` each); the code of the
engine between two user functions is one step.  A function that returns without an answer
moves to `suspended` and `Resume` calls its callback when the stack is empty.  `raised` is an
exception on its way down the stack to a `catch`.  User functions are arbitrary: they call
`next()` (with a back function, without, or with something that is none) and `send()` up to
`MaxCalls` times, in any order and context, write the response or not, suspend, and throw at any
time, before, between and after their calls.

A throw is an answer as well: the `catch` around a processing function writes an error and
sends it (`base.js:245-248`).  A function that throws after `send()` or `next()` has therefore
answered twice.  `repeats` is a history that counts such answers, those of a second `next()` or
`send()` included (`AnswerForTop`); with it the properties say what remains true until the first
of them, and what is due to them afterwards.

| action | code |
|---|---|
| `InitiateProcessing` | `initiate_processing()` |
| `CallNext`, `CallNextInVain` | `next()`, and the one that is refused, whose own catch answers with an error |
| `CallSend` | `send()`: `SendBack` enters a back function, `SendFinal` delivers |
| `CatchInProcessing`, `CatchInSend` | the `catch` around a processing, or a back, function |
| `Suspend`, `Resume`, `Return`, `Throw`, `Escape` | what the JavaScript runtime does |
| `Unlink` | the session of the request is closed, by `ServerCore` |

`OnionReply` has neither stack nor callbacks: obligations are hung up on the way in,
discharged last in first out on the way out, and then the exchange is settled, once; only a
failure on the way out settles it early.  The refinement mapping reads its phase off the back
index, what is left to do off the back chain up to that index, and its outcome off the deferred.

Assumptions: a function returns without an answer at most once, and its late callback throws
only once it has answered.  Nothing of the engine is left on the stack then, so that nobody
answers for a callback that throws before (`Escape`), and the request hangs; asking callbacks
not to do that is what `Settles` and `NoLostRequest` rest on.  A back function is not pushed on a chain that is frozen, which the code would refuse
and the refusal of `next()` makes unreachable.

### ServerCore, DirectServer, HttpAdapter

`ServerCore` has one action per operation of the core and of a session, callable in any
order.  The chain is seen from outside: a request that enters it leaves it "replied" or
"failed" (`MiddlewareChain` says why it does).  The order of the list of sessions never
matters, so it is a set.

`startup()` and `shutdown()` do not ask whether the core is started, so neither do `Startup` and
`Shutdown`: repeated, they change nothing in the core itself, but the adapters are called again.

`DirectServer` and `HttpAdapter` restrict the order to that of the adapters and add their
state; their steps are steps of the core, or leave it alone, which the proofs use to take over
what is proved of `ServerCore`.  A direct client has one session for life and an HTTP request one of its
own, so they share their names.  `DirectServer` splits a call at the registration
(`Call`, `CallCore`) so that the properties see the state in between; `turn` keeps
everything else out of the call, which is synchronous.

`HttpAdapter` follows an exchange from the server callback (`Accept` or `Refuse`,
`Register`), through its body (`Abort`, `BodyEnd`), to the answer (`Reply`).  The node http
server is external and modelled from how the adapter uses it: `close()` stops listening at
once; `'close'` fires in a later turn, when the last connection has ended; a connection that
is kept alive may stay idle or bring more requests in the meantime.  Two calls depend on the
version of node (`package.json` asks for 0.10 or later) and are left open: `listen()` on a server
that listens already, and `close()` on one that does not, may throw or not.  The flag of
startable objects is external too: starting sets it, whether or not it was set.

### Adapters

An adapter is what its `startup()` and `shutdown()` do to the core: a direct one is attached
and detached at once, an HTTP one listens in between and stays attached until its `'close'`
event, which releases its http server for good, and an express one throws whenever it is
stopped.  The core calls them in the order they were added (`Called(T)` are those that are
reached when those of `T` throw).

| action | code |
|---|---|
| `AddAdapter` | `core.add_adapter()`, which starts it if the core is started |
| `StartAll` | `core.startup()`; the core is started before its adapters, and stays so if one throws; it may have been started before, and some of its adapters with it |
| `StopAll`, `StopThrows` | `core.shutdown()`, which does nothing to sessions and core if an adapter throws |
| `CloseEvent` | the callback of `http_server.close()` |
| `Connect` | a session is had through an adapter |
| `Work` | any other operation of `ServerCore` |

Whether an http server throws that is closed when it does not listen, or made to listen when it
does, depends on the version of node: `Throwing` and `StartThrowing` leave it open, per adapter
and call.  Nothing asks whether the core is started, so a startup or a shutdown may be tried
again after one that failed half-way, and finds some adapters running and others not; `AllServe`
is about what the first one that returns then leaves.  The invariants of `ServerCore` are checked
on this instance, and proved of it.

`StoppedIsQuiet` allows the adapters that wait for `'close'`: `server/adapters/spec/http_spec.js:51-52`
expects an HTTP adapter not to be started once `shutdown()` has returned, and the code, which
ends the shutdown in that event (`http.js:240-246`), does not keep to it.  A core with an express
adapter never stops, so that the property says nothing of one.

### RouteIndex, Dispatch

A node is its path from the root and the tree a set of paths.  Segments are values: ordinary
names, names that the validation refuses, `:id`, the empty segment, one that is too long.
Registration is `Ensure`, or `EnsureFails`, which keeps the nodes made before the segment that
is refused.  `DetailedAt` and `NodeAt` are the two traversals, one turn per segment; the first collects the ids of the url on its way, as the code does.  `LookupIsGreedy` and
`IdsAreKept` compare it with definitions that do not traverse.

`Dispatch` adds `on()` (`On`, `OnFails`), data that other middlewares share in the index
(`Share`), and what the logger, callback, meta and catch-all middlewares answer to a url and
an action (`Serve`).  The logger always passes on.  The life of a request is `Arrive`, `Serve`,
`Receive`; in between a middleware of the application may hold it, and look its match infos up
(`Peek`), registrations go on and its session may be closed (`Close`).  The match infos are
looked up once (`MatchInfos`) but their payload is the index's own object, so handlers and
listed actions are read when the request is served.  `views` is a history: what the url of the
request led to since it came, by the rule and not by the traversal.  `Close` is only modelled
before the match infos are known, since nobody looks at the session afterwards.  The url `"*"`
is the route of that one segment.

### Content

A content is what it was before any `JSON.stringify()` (an object, a word, a number, an
`Error`, nothing ...) and how often it went through, its `coats`; an object that comes out of
`JSON.parse()` is a `copy`, so that sharing an object is told apart from sending it.  `Serialized`
and `Deserialized` rewrite a message as `serialization_utils.js` does, `Serializable` and
`Deserializable` say when they throw instead.  An exchange is `SendDirect` (or `SendFails`) or
`SendHttp`, which end in the core's own decoding (`Enter`), then `Handle`, then `ReceiveDirect`
or `ReplyHttp`.  A handler writes anything: a content of its own, nothing, or what it has seen.

### BackboneService, BackboneSync

| action | code |
|---|---|
| `Ask`, `Refuse` | a handler up to its first operation of the store, or its early answer |
| `Answer`, `Reject` | the two callbacks of `promise.then()` |
| `SaveFetched`, `RejectSave` | what an update does with what it fetched, and the failure of its `save()` |
| `CallbackThrows` | the callback of an update, or of a creation, throws instead |
| `CatchAll` | `safety_promise.otherwise()` |
| `Store...` | the store, external: it does what it was asked, misses it, or fails, in some later turn |
| `Sync`, `SyncRejected` | `sync()` up to the request, or an exception on the way there |
| `Fail`, `OnRead`, `OnCreate`, `OnUpdate`, `OnDelete` | the callback of the request in `sync()` |
| `Set` | the application changes an attribute |

The store never gives an id twice, deletes what is not there without complaint, and may take
or refuse a save of what is gone.  `seen` is a history: the versions of a resource since a
request for it came.  The base model of the client is external too: it takes those attributes
for changed that were set since it was declared in sync, and a new one can only be created.
`BackboneSync` connects the two directly; the client, the engine and the index in between are
the subject of the other modules, and the client stays connected.  No other client uses the
resource, and an update has something to send.

## What the runs show

Every property of a run that passes has a mutant: a change of the code that breaks it.

| run | instance | properties |
|---|---|---|
| `chain_once` | 4 middlewares, two with a default back function; each function calls `next()` or `send()` once, and may throw before or after that | `TypeOK`, `DepthTracksDuty`, `ResponseStable`, `Settles` |
| `chain_twice` | 2 middlewares, the head with a default back function; functions that call up to twice in any context and throw at any time | `NoLostRequest`, `DutyIsConserved`, `ErrorNeverSwallowed`, `OutwardOnly`, `ImplementsOnionReply` |
| `adapters` | a direct, an express and 2 HTTP adapters, added in any order at any time, started and stopped in any state, 2 sessions, 2 requests | `StoppedIsQuiet`, `AllServe`; of the core `ValidIsTracked`, `StoppedHasNoSession`, `OpenRequestIsReachable`, `OverIsReleased` |
| `direct` | 2 clients, 3 requests | `GoneClientOwnsNothing`, `ChecksAgree`, `CallsSettle` |
| `http` | 3 exchanges, shutdowns, restarts, aborts | `RefusalMeansShutdown`, `ExchangesSettle` |
| `index` | 17 routes, 20 urls, of up to 5 segments, where 4 are allowed | `TreeIsWellFormed`, `LookupIsGreedy`, `IdsAreKept`, `AtAgrees`, `OnlyShadowingDisturbs` |
| `dispatch` | 5 routes, 2 handlers, 2 entries, 9 urls, a request that is held | `HandlerServes`, `GoneIsNotServed`, `RefusalIsApt`, `AllowIsComplete` |
| `content` | contents of all kinds, encoded up to 3 times | `SeenAsMeant`, `PlainArrives`, `RequestIsRestored` |
| `service` | 3 requests of any kind, one resource of two attributes, any or none at first | `AnswersAreTrue`, `AnsweredOnce` |
| `sync` | a client that makes two calls, one after the other | `NoChangeIsLost`, `SyncSettles` |

The type invariants of `MiddlewareChain` and `Dispatch` are checked by these runs; those of all
modules are proved.
Two more runs show where the code is not what it says; see the observations.

What some of them say:

* `DutyIsConserved`, `DepthTracksDuty`, `ResponseStable`: as long as each function answers once,
  one of them owes the answer, the depth index is its own, and what was delivered is not touched.
  A function that throws after `next()` leaves its successor with a duty that the engine has met
  already; one that throws after `send()` makes it overwrite the client's response.  The
  properties say that nothing else does.
* `OverIsReleased`: the lists of the core and of its sessions only grow, so what is over must
  let go of what it holds.
* `StoppedIsQuiet`, `AllServe`: whatever startups and shutdowns failed half-way before.
* `HandlerServes`, `RefusalIsApt`: what is answered fits the index as it was at some time
  since the request came; if nothing changed for its url, as it is.
* `GoneIsNotServed`: a request whose session was closed before anybody looked its match infos
  up gets to no handler.  When they were looked up before, it does: the code only asks once.
* `PlainArrives`: objects and nothing as JSON and texts as another type never fail and arrive
  unchanged; `SeenAsMeant` and `RequestIsRestored` hold for more than those.

**Bounds.**  Four middlewares are a head, a tail and two neighbours in between with and
without back functions, so a back function can be followed by two; with two calls two middlewares are
enough for a function to answer, or throw, both before and after its successor did, on both ends,
with back functions of both kinds.  `MaxCalls`
bounds the exchange: at most `MaxCalls^(k-1)` functions run at depth `k`.  One adapter of each
kind, and a second HTTP one, in every order, lets one throw before, between and after others.
Two clients and three requests let a client that goes
leave one request in the chain, one answered and one rejected, while the other one works.
Restarts and shutdowns are not bounded anywhere.  The routes are the short ones over
two names and `:id`, so that names, ids and intermediate segments meet in every order, and
longer ones for each check of registration and for a name that occurs twice; with `MaxEntries` two, one registration intervenes between that of a
route and the request that it would have served, or takes the url over while it is held.
`MaxCoats` three is one encoding more than an exchange undoes, so a third decoding would show.
Three requests to the service let one write between the two operations of an update while
another one deletes; two attributes tell a patch from a replacement, and one content is enough
for that.  Two calls of `sync()` are one whose answer leaves the model in some state and one
that starts there, with any changes at any time; `sync_overlap` lets them overlap.
Sessions, requests and handlers are interchangeable; the runs that check no liveness use that
symmetry where it is large enough to matter.

**Fairness.**  `MiddlewareChain`: a turn of the event loop runs to its end (`WF(Turn)`),
and a function that returned without an answer answers later (`WF(Callback)`); that is what
the API asks of user functions, and a request hangs when one of them does not.  The adapters:
a synchronous call runs to its end; the chain settles what it was given, which is the
liveness property of the engine; callbacks of settled promises are called, which the promise
library guarantees; the body of an HTTP request ends, or is aborted.  `BackboneSync`: the store
answers what it was asked, with a failure if need be, and callbacks are called.  Nothing is assumed about
clients, owners of servers, closed sessions or the draining of connections.

## What is proved

The eight `..._proofs` modules, from the named assumptions of each module: a chain of any
positive length, any set of middlewares with a back function, any bound on calls; any sessions
and requests, with an `undefined` that is not a session; any adapters, of one kind each;
segments of distinct kinds, in routes and urls of any length; contents encoded any number of
times; any attributes and ids, with an `undefined` that is neither an id nor a set of attributes,
and, for the client, among the contents whatever a model may send.

* **MiddlewareChain.**  `TypeInv` adds `Bounds` to the type invariant: the back index is
  within the back chain, and every function on the stack or suspended is at a position that
  exists.  Without it the indices that the engine computes could leave the chain.
  `OutwardOnly` needs `DepthsOrdered`: the back chain records growing depths, none
  beyond the current one, so that entering back functions from the last one never raises the
  depth, although it is read in one function and stored in another.  `NoLostRequest` needs
  that an exception on its way has a `catch` below it or, if it is that of a callback, that
  somebody who is suspended still owes the answer (`RaisedIsCaught`).  `ErrorNeverSwallowed`
  becomes inductive as `ErrorIsKept`: the error was told, or is raised, or a function has still
  to answer, which will raise it.
  `DutyIsConserved` counts functions, so it needs that no two calls of user functions are alike
  (`CallsInv`): a processing function is told by its place in `traversed`, a back function by its
  entry, which is entered once since the back index only goes down.  `DutyInv` then follows the
  duty through each step: handed on with `next()`, back with `send()`, or out with the delivery,
  it is one less for the function that answers and one more for the one that is called, and
  `AnswerForTop` has counted a repeat when the first was not there to give.  `ResponseStable`
  follows: who writes a delivered response owes nothing unless the sum was more than one.
  `DepthTracksDuty` needs in addition that back functions are recorded at the depth of their own
  middleware (`DepthInv`).
  `EngineImplementsOnionReply` needs `CallsInv` and that no back function runs before the first
  `send()`, which is part of it; each action is shown to be an abstract step or a stutter.
* **ServerCore.**  The three safety invariants and the type are inductive together
  (`CoreInv`): a shutdown reaches all sessions because valid ones are in the list, and closes
  all requests because an open one is known to its valid session.  `OverIsReleased` rests on
  that: a session that becomes invalid, by whichever operation, drops its requests.
* **Adapters.**  `StoppedIsQuiet` and `AllServe` are inductive together with the type and the
  invariant of the core: a startup that throws leaves `thrown`, a shutdown that throws does so
  too and leaves the core as it was, so that neither claims more than was done; a startup that
  returns has called every adapter, whichever ran before (`AllCalled`).  Every step is a step of
  the core or leaves it alone (`StepOfCore`), so that the invariant of the core holds.
* **Content.**  An invariant for each stage of an exchange, in terms of `given` and `written`,
  from lemmas on what encoding and decoding do to a message of each kind.
* **RouteIndex.**  `TreeIsWellFormed` and the type are inductive together: the segments that
  registration accepted, on nodes that existed or not, may stand in the tree.  What the two
  traversals compute is proved turn by turn.  `DetailedAt` and `NodeAt` are recursive functions;
  that such a function is what its definition says (`TurnsExist`, `StepsExist`) and that its
  invariant holds at every turn (`TurnsHold`) take inductions, which are done on a set of
  numbers: `InductionUpTo` looks at the least number that is not in it, and there is one because
  `<` is well-founded on the naturals.  The invariant of the first traversal says that
  the url leads to the node so far and that the ids so far are right (`TurnInv`, `IdsMatch`);
  that it finds a node whenever one matches needs that the tree has every prefix of its nodes.
  `OnlyShadowingDisturbs` follows from `LookupIsGreedy` before and after the step, since nodes are
  only added, and `AtAgrees` from a comparison of the two traversals turn by turn.
* **Dispatch.**  `DispatchInv` says how a request in flight and its response relate to the history
  in `views`: the match infos that are kept agree with one of those views (`RequestInv`), and the
  response is what the chain of middlewares makes of match infos that agree with one
  (`ReplyInv`, `Chain`).  From `Cases`, the list of what the chain can answer with the
  reason for each, follow `HandlerServes`, `RefusalIsApt`, `GoneIsNotServed` and
  `AllowIsComplete`; that a view is what the traversal finds is `LookupIsGreedy`.
* **BackboneService.**  `ServiceInv` adds three facts about each request: its variables agree
  on where its handler is (`Lifecycle`, from which `AnsweredOnce`), the store works on what was
  asked for (`Fits`), and what the handler has learnt was so while it waited (`Knows`): a read
  under way has seen the current version of its resource, because every write is seen.
* **BackboneSync.**  Every step of it is a step of the service or leaves it alone, which gives
  the invariant of the service; with it the type, and that a finite number of calls is pending
  (`ClientInv`).  `NoChangeIsLost` is about one call at a time: `CallsInv` says what is so of the
  call that is pending, by its method, from what was sent to the response (`Creates`, `Reads`,
  `Updates`, `Deletes`), and that attributes which did not change since are as they were sent.
  An update is the delicate one: what it does not send must be on the server already, and still
  be there after its two operations.

**Model-checked only.**  Liveness (`Settles`, `CallsSettle`, `ExchangesSettle`, `SyncSettles`, and
the fair half of `ImplementsOnionReply`), which is beyond the proof system.  Every invariant and
every other action property of a run that passes is a theorem.

## Observations

Where the code departs from what it, its comments or its tests say; the runs give the steps.

| run | what happens |
|---|---|
| `http_restarted` | the `'close'` event of a shutdown (`server/adapters/http.js:240-246`) detaches the adapter of a server that was started again in the meantime |
| `sync_overlap` | a fetch that is answered while a save is on its way declares the model "all in sync" (`utils/backbone_sync_to_restlink_mixin.js:71-72`) with attributes that its resource no longer has once the save is done |

`http_restarted` shows the shortest such sequence, which stops a server that does not listen yet;
in versions of node where that throws, a server that was started first gets there as well.

Others were met while modelling and are visible in the models, without a run of their own:

* A processing function that throws after `send()` makes the engine overwrite the response that
  was delivered, which the client holds, with an internal error, and send it again
  (`server/middleware/base.js:245-248`); after `next()`, it sends while the middleware that was
  passed the request is still at work.  What should happen "when both send and next are called"
  is a test that is announced and not written (`server/middleware/spec/base_spec.js:201`).
* `shutdown()` of the express adapter names a variable that does not exist
  (`server/adapters/express.js:229`; its test at `server/adapters/spec/express_spec.js:41-53` expects it to work), so
  a server that has one cannot be stopped: `core.shutdown()` throws half-way, every time, with
  the sessions and the core as they were.  The same goes for an HTTP adapter whose http server
  was released (`http.js:240-242`).
* `at()` prefers the `:id` child (`utils/route_indexed_container.js:124`) where `ensure()` and
  `detailed_at()` prefer the name: with both registered, `at()` gives the payload of the other
  route (`server/spec/rest_target_indexed_container_spec.js:56` asks that they are not mixed,
  where no name stands beside the `:id`).
* A name that occurs twice before an `:id` in a route keeps the later id only
  (`route_indexed_container.js:245`).
* A request that looked its match infos up is served after its session was closed, and by a
  route that the index no longer matches (`request_enrichments.js:20`).
* A text that is itself JSON is decoded once by the core and once more by the client: what the
  handler saw is right, but the call is rejected, or the client's request ends as another value
  (`core.js:135`, `client/base.js:78`).
* A word as JSON is refused only when the core, or the client for the response, decodes it;
  in the second case a call is rejected that was processed (`client/base.js:79`, against
  `client/base.js:53-62`).
* An `Error` as content hits an undefined name in the encoder (`serialization_utils.js:42`),
  although `core/response.js:72-73` says that it is handled.
* The HTTP adapter looks for a `Content-Type` header (`http.js:145,179`) that node gives in
  lower case: the type is always guessed from the body.
* `disconnect()` (`client/direct.js:69`) invalidates the session without the core, which keeps
  it in its list, although "keep only the valid sessions" (`server/core.js:118`).
* When a session is closed while a body is read, the check of `server/core.js:130` fails on
  `undefined` with a TypeError instead of its own message.
* TRACE answers with the status of a new response, 500 (`server/middleware/meta.js:57`,
  `core/response.js:32`).
* An update writes over what another client wrote between its two operations, the attributes
  that it does not name included (`utils/serve_backbone_model.js:191-199`); `AnswersAreTrue`
  says what remains true.
* The hint of an update whose `save()` fails is not read: a resource that was deleted meanwhile
  gives 500 instead of 404 (`utils/serve_backbone_model.js:196-214`).
* "Read all" answers with the attributes of a blank model, or 501 if the model has no `find()`
  (`utils/serve_backbone_model.js:306-323`).
* An `id` among the attributes of an update changes the id of the fetched model, which is then
  saved as another resource than that of the url (`utils/serve_backbone_model.js:195`); in those
  of a creation it makes an update of it.  Attributes in the model do not include the id.
* `options = {} || options` discards the options (`utils/serve_backbone_model.js:351`).
* `request.done()` never takes the request off its session's list, which grows as long as the
  client lives (`client/direct.js:59`, against `server/session.js:162,175`).
* A request whose promise is rejected is never marked done (`client/direct.js:57-61`), so that
  it stays in use and cannot be sent again (`server/session.js:96`).
* An HTTP request that was answered is not done and its session is never closed while the
  server runs (`server/adapters/http.js:141,203-205`).
* The HTTP adapter is still started when `shutdown()` returns (`http.js:240-246`, against
  `server/adapters/spec/http_spec.js:51-52`); a restart
  after `'close'` finds no http server to listen with and throws when the core is started.
* OPTIONS on a mere segment of longer routes answers 200 with an empty Allow
  (`meta.js:84-87`), where every other action gets 404 (`catch_all.js:54-57`).
* Data shared under a route and an action without a handler makes requests end in the error
  "all cases should have been filtered" (`catch_all.js:73-76`).

## What is not modelled

* The request callback of `server/adapters/express.js` throws first and the rest of it, a copy
  of that of the HTTP adapter, is dead code.  `auto_crud.js` and `sample.js` are skeletons (the
  branch of `auto_crud.js` that would answer is a TODO); `tosort/` is not loaded; `doc/` is
  diagrams; the test runner, test helpers and clocks have no state of the system.
* Headers, timestamps, log messages and the values inside a content are data; outside
  `Content` a content is one that can be (de)serialised or not.  Of the segments in the match
  infos only the last node and the ids are kept.
* An id among the attributes of a Backbone model, and a callback of the service other than that
  of an update or a creation that throws: they only write a status or attributes and send.
* Session timeouts are stored (the setter then throws) and nothing enforces them: there is no
  behaviour to model.
* What the plan below has left.

## Plan

Done, in this order: `OnionReply` and `MiddlewareChain` (the heart of the program), `ServerCore`,
`DirectServer`, `HttpAdapter`, `RouteIndex`, `Dispatch`, `BackboneService`, `BackboneSync`, then
`Adapters`, the ids in `RouteIndex`, the request that is held in `Dispatch`, and `Content`; then
the safety properties of all of them proved.

Next, in this order:

1. An abstract resource with atomic operations, and `BackboneService` against it: which
   methods implement it, and what an update does instead.
2. What a call promises its client in terms of the engine: `ServerCore` sees a request leave the
   chain "replied" or "failed", `OnionReply` says how; a composition of the two that shows the
   one to be what the other allows.
