# Verification of the ARAS ASGI server

TLA+ models, TLC runs and TLAPS proofs of `aras`, the Rust ASGI server of this
repository, and of its Python bridge: the link between the server and one call of
an application, the three protocols that run over it, the life of the server, the
middleware a request passes, the fragmentation of WebSocket messages, and what
crosses the border to Python. `PROJECT.json` lists the runs, the mutants that
show each property can fail, the source lines of every definition, the findings,
the hazards and the theorems.

    tlc -workers 2 -config Http.cfg Http     # one run
    tlapm HttpProofs.tla                     # one module of proofs

## The system

One tokio process. `ArasServer::run` starts the application (lifespan
protocol), binds a socket and accepts connections until its cancellation token
is cancelled, then shuts the application down. A connection is a spawned task
in which hyper serves requests, one at a time, through a stack of tower
middleware down to `ArasASGIService`, which hands a request to `HTTPHandler` or,
for an upgrade, to `WebsocketHandler`. Every scope (the lifespan, an HTTP
request, a WebSocket) is one call of the application in a task of its own,
connected to the server by a link made in `CommunicationFactory::build`. A Python
application is called through `PyASGIAppWrapper`, with a dictionary for the scope
and with `PyReceive` and `PySend` for the link.

| part | source | state it keeps | operations |
|---|---|---|---|
| link | `aras/src/communication.rs` | two bounded channels, a oneshot for the application's result, the shared slot and cache of `ApplicationHandle` | server: `send`, `receive`, `wait_for_completion`, cancelling either, dropping a handle; application: send, receive, end, drop its halves |
| HTTP handler | `aras/src/protocols/http.rs` | `try_join!` of the body reader and the response builder, then the body stream hyper polls while there is room to write | read a part, end, fail, time out; wait for the head; stream the body; send `http.disconnect` |
| WebSocket handler | `aras/src/protocols/websocket.rs` | handshake, then the `select!` loop of a task of its own | connect, accept, refuse, upgrade; forward a frame, write an event, close |
| fragmentation | `websocket.rs`, `FrameBuilder` | none between calls | `build`, `split_bytes` |
| lifespan handler | `aras/src/protocols/lifespan.rs` | whether the application implements lifespan | `startup`, `shutdown` |
| server | `aras/src/server.rs` | listener, token, spawned connections | `run`, accept loop, cancel |
| middleware | `server.rs` 281-310 | permits, the buffer's channel and worker, the rate window: one set per connection | answer itself, shed, queue, delay, call, time out |
| error layer | `aras/src/layers/error_handler.rs` | none | error to 500, 503, 504 |
| dispatch | `aras/src/service.rs` | none | HTTP or upgrade |
| scopes | `aras/src/scope.rs`, `asgispec/src/scope` | none; a reference to the shared state | build the scope of a call |
| events | `asgispec/src/spec.rs`, `asgispec/src/events` | none | the variants, their types and fields |
| Python bridge | `aras_py/src/wrappers.rs`, `convert.rs` | the halves of the link behind Python objects; the state dictionary behind a mutex | call the application, `receive`, `send`, extract a message, make a dictionary, the methods of `PyState` |
| Python package | `aras_py/python`, `lib.rs` | the token | options, signal handlers |

How they interact: the handlers call `send` and `receive` of the link and may be
dropped in the middle of either (by `try_join!`, by `select!`, by a tokio
timeout, by tower's request timeout, by hyper when the client leaves). The
application runs on another worker thread and takes any step between any two
of theirs. In Python it is a set of asyncio tasks, each of which may be cancelled
while it waits, on threads that share the GIL. All calls share the state
dictionary. Nothing is persisted, so there is no crash recovery.

What is hard, and what makes each part correct:

- **link**: a call is several await points long, may be cancelled at each, and
  shares the oneshot with a call on the other handle. Correct: no event is lost
  or overtaken by the end of the channel; a reported result is the real one; the
  oneshot has one awaiter; every call returns once the application has ended.
- **HTTP**: two halves of one request run concurrently and the first error drops
  the other; the body stream outlives both, and runs only while the client leaves
  room to write. Correct: the application sees a well-formed request and is
  refused only when its response is over, the client never sees a truncated
  response as a complete one, the request is answered and its channels are let
  go of.
- **WebSocket**: frames race events and the end of the application, and a client
  may hold up what is written to it. Correct: only an accepted connection is
  served, the application is told of the close once and last, a normal close
  loses nothing, and the task ends.
- **lifespan and server**: an application may answer, fail, end or be silent at
  each step, and the token may be cancelled at any time. Correct: only a started
  application serves, the events come in order, `Ok` means it has shut down, a
  cancelled server stops.
- **middleware**: the limits hold up, shed or time out requests, and handlers
  may hang, fail, panic or be dropped. Correct: every request is answered or its
  connection goes, and no connection holds up another.
- **fragmentation**: boundaries. Correct: the frames are the message.
- **Python bridge**: messages are mappings with missing and ill-typed fields, tasks
  are cancelled, objects are kept or collected after the call, two locks (the GIL
  and the mutex) are taken. Correct: what a returned `send` was given reaches the
  server, once, in order and with its fields; events reach the application in
  order; no call hangs on a closed channel or on the other lock; every call sees
  the one state.

The hazards list of `PROJECT.json` has these at the line where they bite.

## The modules

`Link` is what a call of an application is promised, without how: two bounded
queues, each closed by either side, and one ending. `Communication` is how. A
handle is named by its channel, `toApp` or `fromApp`. `buf` is what a channel
holds; `sent` and `got` are histories, for the properties. `app`, `oneshot`,
`slot` and `cached` are how the call ended, the result channel, the slot of the
receiver and the cache. `at` says where the call in progress on a handle is: a
stretch of code between two await points is one action (`ChannelFailed`,
`ReadCached`, `TakeReceiver`, `Recheck`, `AwaitResult`, `StoreResult`), and
`Abandon` drops futures and handles wherever they are. The last call on a handle
returned `answer`. The application is arbitrary: it sends any event, receives,
drops its halves and ends normally, with an error or by a panic. `KeepsEndpoints`
says whether it may have stored `send` and `receive` somewhere that outlives its
call (a Python application can). `User` is the most general user of the two
handles. `AbstractLink` is the refinement mapping: a channel is open while both
sides hold it, and a result is reported when a call has returned it.

`Http`, `Lifespan` and `WebSocket` EXTEND `Communication` and replace `User` by
the real handler: they change the link only through its own operations. A local
computation between two calls is one action, which starts the next call
(`BeginSend`, `BeginReceive`) or reads the `answer` of the last. Bodies are
abstracted to their `more_body` flag, frames and events to their kind. In
`WebSocket` writing to the client is a step of its own (`step = "write"`), for it
may wait. In `Http` it is hyper that writes: `client` is `"stalled"` while its
buffer of the connection is full (`ClientStalls`, `ClientReads`), and then nothing
of the body stream is polled, neither the receive in it nor its timeout
(`Polled`). `ErrorHandler` maps an error to a status. `ArasServer` extends
`Lifespan` with `run()`; a connection is a spawned task that may outlive `run()`,
and is counted only (`inflight`).

`Middleware` is the stack, outermost layer first, around a handler that answers,
fails, panics, upgrades or goes on for ever. `stage` is where the request in
progress on a connection is; `queue`, `left` and `passed` are the buffer's channel
and the rate window of an instance of the stack, and the permits are those not
held by a request that is `running`. `Instance(c)` is the instance that serves a
connection: `stack.layer` is called per connection, so it is one of its own.

`PyEvents` has the events and their fields, the extraction of an event from a
mapping (`extract`: what is required and missing or ill-typed raises, what is
optional falls back alone) and the dictionary made of one (`into_pyobject`).
`PyBridge` puts Python tasks on a `Link`: `PySend` extracts and waits, `PyReceive`
waits, `Cancel` drops the future of either, `AppEnds` and `Collect` let go of the
objects, and the server takes any step the link allows. It uses the abstract
`Link`, which `Communication` is proved to implement, and not `Communication`
itself. `Scopes` has the fields of the three scopes, each by what it is copied
from, and the dictionaries made of them. `PyState` has the state dictionary, its
mutex and the GIL, and threads whose uses of the state may nest.

`FrameBuilder` models `build` and the loop of `split_bytes` over lengths and
offsets.

An operator whose comment begins "Mutant:" is the definition after it with a
plausible bug. No specification uses it: the mutants of `PROJECT.json` put it in
place of the original, and the property named there must then fail.

The `...Proofs` modules hold the proofs of the module they are named after;
`ServerProofs` those of `ArasServer` and `Lifespan`, `CommunicationProofs` also that
`Communication` implements `Link`.

## The runs

| run | what it checks | distinct states |
|---|---|---|
| `link` | safety and liveness of the link under its most general user, and that it implements `Link` | 50 000 |
| `http` | one request, arbitrary application and timers, a client that may stop reading or leave | 2.2 million |
| `server` | startup to shutdown, token cancelled at any time | 75 000 |
| `websocket` | handshake, protocol, close, with a client that may not read | 200 000 |
| `fragmentation` | messages of 0 to 9 bytes, limits 1 to 4 and 10 | 500 |
| `middleware` | three connections, the smallest limits | 205 000 |
| `bridge` | two Python tasks, every WebSocket message with any of its fields present, missing or ill-typed | 396 000 |
| `state` | two threads, the lifespan and two requests | 195 000 |

The other four runs, `http_whole_response`, `server_shutdown_blocks`,
`ws_lost_result` and `middleware_limits`, end in a violation: they are the
findings, below.

Bounds. Each channel holds `BackpressureSize` events, 1 in `link`, `http`,
`websocket` and `bridge`: the smallest capacity is the one that blocks most, and
every blocked send and empty receive occurs. `server` uses 2, because with 1 the
server can hang (finding `server_shutdown_blocks`). `MaxMessages` bounds what
enters a channel: 2 in `link` and `bridge`, so that an event can be buffered
behind one already taken; 3 in `http` and `websocket`, enough for a request of two
parts and a disconnect, a response of a head and two parts, and a connect, a frame
and a disconnect. It is a guard on sends of the application, on parts and on
frames, and always leaves room for the events the server still has to send; an
application that has reached it behaves like one that sends no more.
`MaxConnections` is 1: connections do not touch one another's state in that model,
so one in flight is what `ServingMeansStarted` can tell from none. In `middleware` a
buffer of one and one permit are the limits that bind first, a rate of two tells
the first call of a window from the last, and three connections are one more than
it takes to fill a shared buffer behind a running request. In `bridge` two tasks
are enough for one to take what the other waits for; `SentVariants` keeps the one
event whose fields are optional, and the theorems hold for all. `MaxCalls`
bounds the history of dictionaries received. In `state` two threads are enough for
one to have the GIL and the other the mutex; `MaxDepth` is 2, one use within
another; `MaxUses` bounds the uses in all. The runs do not check for deadlock
(except `link`, whose user goes on for ever): all the others may end.

`KeepsEndpoints` is TRUE in the passing runs, where it allows more, and FALSE in
two of the findings, which therefore do not rest on it.

Fairness. Woken tasks are polled and timers fire, so every server action is
weakly fair, with the exceptions below; the application is assumed to do nothing,
except that one which has ended delivers its result and lets go of its halves
(`AppWindsUp`). Of clients the specifications assume nothing: none needs to send,
to read or to leave. In `WebSocket` a lost connection shows in the next read, and
`select!`, which polls its branches in random order, does not for ever prefer
frames to an event that is ready; a write to a client that is there may wait for
ever, only one to a client that is gone is fair, because it fails. In `Http` the
steps of the body stream, its timeout included, are possible only while the
connection has room to write. They are strongly fair: hyper stops polling the body
when its own writes have filled the buffer and polls it again as soon as there is
room, so a client that reads from time to time lets the body move each time. What
three liveness properties need beyond that is written in them as an assumption:
`AppReleased` and `AppEndsConnection` a client that does not stop reading for good,
`ClientLossEnds` an application that receives (`Attentive`). Without it
`AppReleased` is false: `backpressure_timeout` does not run while a client stalls,
and the request timeout is over once `handle` has returned. `StartupEnded`, `CancelledStops` and
`ClientLossEnds` except an application that goes on running after it has dropped
its receive (`Deaf`): a send to it waits for it to end, with no timeout. In
`Middleware` the worker of the buffer, the end of a rate window, the call and the
request timeout are fair, the handlers and the clients are not. In `PyBridge` a
future that has been woken is polled. In `PyState` the interpreter hands the GIL
to every thread that waits for it again and again (strong fairness), and a thread
that has it gets on; the mutex is fair to nobody.

## What is proved

Everything here holds for every value of the constants the named assumptions
allow (a capacity, a limit or a size above zero), under no other assumption.

**The link.** `CommunicationProofs` proves `CommSpec => []CommInv`. The safety
properties are not inductive by themselves: that an error means the channel was
drained needs that a channel seen closed and empty stays so (`SeenDrained`: a
closed channel takes no more events, and no end ever comes back), and that nothing
is lost in between (`Lossless`: what was sent is what was taken followed by what
is buffered). That results are true needs that nothing but the oneshot is a source
of them (`OneshotTruth`), and that the oneshot has one awaiter (`SingleAwaiter`)
that the slot is emptied by whoever takes from it and that a cached result implies
an empty slot. With these, `ErrorMeansDrained`, `DisconnectMeansDrained`,
`TruthfulResults` and `SingleAwaiter` follow, and the action property
`CacheWriteOnce` from the invariant and one step. `CommSpec` implements `LinkSpec`
(`LinkImplemented`): each step of the link is an operation of `Link` or a stutter,
which needs `CommInv` and one more invariant, that a call past its channel has seen
it closed and drained.

**The handlers use the link.** `HttpSpec`, `WsSpec` and `ServerSpec` each imply
`CommSpec` (`HandlerUsesLink`, `ConnectionUsesLink`, `ServerUsesLink`), so every
theorem about the link holds of every request, connection and server, and each
implements `LinkSpec` (`RequestImplementsLink`, `ConnectionImplementsLink`,
`LifespanImplementsLink`). The lemmas they share (`HandlerStep`, `HandlerUses`) say
that a step which starts, goes on with, reads or abandons calls is one `User` may
take.

**HTTP.** `RequestWellFormed` from `RequestInv`, which ties what has been sent to
where the body reader is: a part may be in flight, and whether the last one has
gone is known to the reader alone. `CompleteMeansWhole` from `ResponseInv`: what
has been taken from the application is what has been passed on, so the stream
can end as complete only after the event that says so. `RefusedMeansOver` from
`RefusalInv`: the server keeps its receiving half until the response is over, and
what is over stays so.

**WebSocket.** `SentInv` (what the application has been sent, by step) gives
`WsEventOrder`; `AcceptInv` gives `ServedMeansAccepted`; `ToldInv` gives
`CloseIsTold`; `DeliverInv` (what has been written is what has been taken, but for
the event in hand) gives `NormalCloseDeliversAll` together with the link's
`ErrorMeansDrained`: a receive that reports the end has drained the channel,
however many receives `select!` has dropped before it.

**Server.** `RunInv` ties the stage of `run()` to the step of the lifespan handler,
`HistoryInv` both to what has been sent and taken; from them `LifespanOrder` and
`OkMeansShutDown`, and with `FlightInv` (what allowed a connection stays true, even
past the end of `run()`) `ServingMeansStarted`. The same invariants say how full the
queue to the application can be when the server sends: `SendsDoNotWait`, that
startup never waits for room and shutdown does not with a queue for two or more,
delimits the finding `server_shutdown_blocks`. `LifespanResultsAreExact` needs one
more, `ResultInv`: the handler makes one call at a time and none after one it has
given up, so the receiver of the result is in the slot or with the call, or its
result in the cache. An unexpected end is therefore reported of an application that
panicked, and of no other; the finding `ws_lost_result` shows that a WebSocket has
no such guarantee.

**Middleware.** `Isolated` from `MwInv`: a request that waits, runs or is queued on
an instance is the only one, because the instance is its connection's and hyper
serves one request at a time. `ServedAlone` says what that means for a client: the
part of a behaviour of the stack that is about one connection is a behaviour of a
stack with that connection and no other (`Alone(c)!MwSpec`, an instance of the same
module with one connection), so whatever the others do, and however many there
are, it is served as if they were not there.

**Bridge.** `SentAsAsked` and `ReceivedInOrder` from `BridgeInv`: a message that
waits has been extracted, so that it can be sent; a disconnect is given only for a
queue that is closed and drained, and such a queue gives no more events. The
lemmas `Extraction` and `DictShows` say that no event loses or gains a field at the
border, for all variants; `RefusedOnlyForAWant` is the converse, that a message is
turned away for a required field (`status`, `body`) and for nothing else.
`BridgeUsesLink`: a step of the tasks, of Python's collector or of the server is one
`Link` allows or leaves it alone, so `BridgeSpec` implements `LinkSpec`.

**State.** `StateInv` of `PyStateProofs` has four parts. `UsesInv`: the uses of a
thread are a stack no deeper than `MaxDepth`. `LockInv`: the mutex is held only
between taking it and cloning the reference, by the thread that has the GIL, which
is not given away there. `ScopesInv`: the dictionary of a call is the one made of
its own scope. `SharedInv`: every scope in use leads to the one dictionary, and that
is as the last writer left it. From it `PyStateTypeOK`, and with one step the action
property `ReadsLatest`; and `MutexNeverAwaited`, that a thread which has the GIL
finds the mutex free, so that it cannot wait for one lock while it holds the other.

**Fragmentation.** `Reassembles`, `WellFramed` and `FramesFit` from `SplitInv`, which
says that the slices cut off so far chain up from the beginning of the message to
`start` and fit. `NoMoreFramesThanNeeded`, that every frame but the last is full,
from `FullInv`: a slice that is cut short ends at the end of the message, where the
loop does.

Type correctness of all of these is proved too: every safety property and every
action property of a passing run is a theorem.

Only model-checked: the liveness properties (what must happen at last, under the
fairness above), which are beyond this prover; and the mutants and the findings,
which are about behaviours that exist.

## Findings

Each is a run that must end in a violation; `PROJECT.json` quotes the text the
code disagrees with.

- `ws_lost_result`: a frame that arrives while `receive` waits for the result
  cancels the wait, and the oneshot receiver is lost with the future. The next
  `receive` reports `Unexpected`; a WebSocket whose application returned normally
  is closed with code 1011 instead of 1000.
- `http_whole_response`: an application that answers and returns without taking
  the whole request body has its complete response replaced by 500.
- `server_shutdown_blocks`: with `backpressure_size` 1, cancelling may not stop
  the server.
- `middleware_limits`: the concurrency limit is built anew for every connection,
  which has one request in flight at a time, so it limits nothing. Nor does the
  buffer ever shed a request (`Isolated`).

Three more texts are contradicted by what the passing runs show, and have no run
of their own. The rate limit "rejects excess requests with 429" (server.rs:48,
and again at :168): tower's `RateLimit` makes an excess request wait for the next
window, per connection, and no layer answers 429; `Isolated` and `Answered` hold of
exactly that. `backpressure_timeout` is the "Maximum duration to wait when ...
receiving ASGI messages from the application" (server.rs:182-183): it is not while
the client stalls (`AppReleased` needs its assumption). `src/aras/README.md:3` gives
the spec version as 2.4; every scope says 2.5 (asgispec/src/spec.rs:14), and
`Scopes` follows the code.

The models also have these behaviours, which no text of the repository rules out
clearly enough to call them errors: a body of unknown length over the limit is
answered with 500, one with a `Content-Length` with 413; startup fails with the
application's error although the application never received `lifespan.startup`;
`run` returns with connections in flight; an application whose socket cannot be
bound, or whose WebSocket cannot be upgraded after it was accepted, is not told;
the task of a WebSocket whose client is gone waits for ever to send to an
application that does not receive, and the task of one whose client does not read
waits for ever to write.

## What is not modelled

- hyper, tower, async-channel, tokio and fastwebsockets: external, modelled by what
  they do to the code in `src/`. That fastwebsockets loses nothing when a read of a
  frame is dropped by `select!` is taken for granted.
- `serve_python`, `lib.rs`, the setters of the builder: they pass options on. The
  CLI, its configuration and the signal handlers: they cancel the token, which
  `ArasServer` lets happen at any time.
- Tracing, request ids, sensitive headers and compression: they change no decision.
- Conversions between error types: the handlers use the class of an error only.
- Serialisation of events and scopes; the test doubles.
- Zero for a capacity, a limit or the frame limit: a panic when the server or a
  connection is built, or a loop that does not end. The assumptions exclude it.
- The content of state a Python application keeps itself.

## Plan

Done: all modules above, and a theorem for every safety property the runs check.
Left, in this order:

1. A composition of dispatch, `Http` and `Middleware` for two requests on one
   kept-alive connection: what the first leaves behind (a permit, a task of the
   application that goes on) and what the second finds.
2. `PyBridge` over `Communication` itself. The two meet in `Link` today: one
   implements it, the other uses it, for the same capacity and events; a module
   that has both would let the end-to-end property, from a Python `send` to what
   `ReceiveFromApp::receive` returns, be stated and proved.
