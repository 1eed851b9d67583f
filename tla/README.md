# Kruda: TLA+ models, model checks and proofs

Kruda is a Go web framework. Its own core logic is in the root package: the
**Wing** transport (an epoll event loop with several ways of running handlers),
the request path (`App`, `Ctx`, router, hooks), and the dependency injection
container with the application's lifecycle. `contrib/` holds optional
middleware with stores of their own. This directory models the worker of Wing
and what happens to a request on its way through the framework, together with
the parts beside it that keep state, checks the models with TLC, and proves the
safety of the worker (admission, connection, wakeup, shutdown), of the
container, of the session and cache stores and of the end of a hijacked
connection with TLAPS.

Line numbers below are those of the commit in `src/`.

## 1. Inventory

| Part | State | Operations | What is hard | What makes it correct |
|---|---|---|---|---|
| Accept limits (`wing_accept_limits.go`, `wing_transport.go` 687-768, 1895-1936, 1940-2024) | one atomic `connCnt` for all workers; per worker `connsPerIP` and a token bucket; three reject counters | `handleAccept`, `removeConnBookkeeping`, `closeConn`, completion of a Takeover, `cleanup` | workers race on the counter; five ways to give a reservation back; the kernel recycles fd numbers | the caps hold, the counters are exact, every arrival is accounted for, a worker never closes a stranger's fd |
| Connection handling (`wing_transport.go` 645-1500, 1861-1893) | `conn`: read and send buffers, file to send, body being accumulated, `pending`, `closePending`, what is known about the socket | `handleRecv`, `tryParse`, `directSend`, `handleSend`, `handleDone`, `sweepTimeouts`, ... | edge-triggered events, pipelining, partial writes, goroutines that write to the fd themselves, closes while they do | whole responses in request order, no input byte lost, one writer at a time, no close under a handler, no request forgotten |
| Engine and wakeup (`wing_engine_linux.go`, `wing_eventfd_linux.go`) | `wakeup` flag, eventfd, `idle` | `PostWake`, `Wait` | wakeups are coalesced; the loop first spins, then blocks without a timeout | no lost wakeup |
| Pool and shutdown (`wing_transport.go` 193-219, 375-440, 1940-2024) | `pool.jobs`, `pool.wg`, `dispatchWG`, `doneCh`, the drain of `cleanup` | dispatch, completion, `Shutdown`, `cleanup` | bounded channels between goroutines that wait for each other | shutdown ends; no write after close, no fd leaked or closed twice |
| Container (`container.go`), `startContainer`, `shutdown` (`kruda.go`) | maps of services, entry mutexes, `done`, `initOrder`, a stack for each goroutine | `Give*`, `Use`, `resolve`, `Warmup`, `Start`, `Shutdown` | resolution is recursive, concurrent and may fail in the middle | one instance, no false circle, reverse shutdown, every resolution ends (but for the knots of section 5) |
| Router, groups (`router.go`, `group.go`, `kruda.go`) | one radix tree for each method, static map, allowed-methods cache, middleware of each group | `addRoute`, `Group`, `Use`, `Compile`, `cleanPath`, `find` | prefix splits, backtracking over params, caches filled at Compile | the route and params a reference matcher picks, 404 and 405 where it has none |
| Request serving (`app_serve.go`, `serve_fast.go`, `ctx_*.go`, `context.go`) | pooled `Ctx`, hooks, handler chain, lazily flushed errors | `ServeHTTP`, `ServeKruda`, `ServeFast`, single-handler lane, every `Send...` | four serve functions that must agree; reuse; panics and errors after a response went out | one right response, nothing carried over, hooks in order |
| HTTP reader (`wing_http.go`, `tryParse`, `takeoverLoop`) | read buffer, body being read, strings that alias the buffer | `parseHTTPRequest`, `classifyIncomplete`, `accumBody` | two scanners of the same bytes, on two loops, over any cut of the stream | the same requests however the stream is cut, none that is malformed, no string overwritten |
| Response (`wing_http.go`, `ctx_response.go`, `static.go`) | pooled `wingResponse`: status, header slots and overflow, body, file | the lanes bytes, string, JSON, static, file | a lane sees what the last request left | the wire says what the handler asked for |
| Typed handlers (`handler.go`, `bind*.go`, `validation.go`, `cmd/bindgen`) | parse plan, compiled and generated validators of a route | registration, bind, hook, validate | four implementations of a rule, plans generated for an older struct, number edges | the handler sees the input the request describes, and a refusal lists the rules that fail |
| Streams, SSE (`wing_stream.go`, `sse.go`) | `headersSent`, context, the watcher | `flushHeaders`, `Write`, `Event`, `Data`, ... | the client leaves in the middle; line breaks in texts | whole events arrive as sent; a half one spoils at most the next |
| Hijacked connections, WebSocket (`wing_ws.go`, `contrib/ws`) | `closed`, `done`, the fd; `Conn.mu`, fragments, ping count | upgrade, `ReadMessage`, `WriteMessage`, `Close`, `hijackTakeover` | application, reader, shutdown and loop close at once; fd numbers are recycled | no call on a stranger's fd, nothing after a close frame, exact messages |
| Health (`health.go`) | result channel | fan-out with timeout | results race with the timeout | a result that is in counts |
| Sessions (`contrib/session`) | store with expiry and cleanup | load, `Set`, `Save`, `Destroy`, cleanup | read, unlock, check, delete; requests of one session overlap | a saved session stays, a destroyed one does not come back by itself |
| Response cache (`contrib/cache`) | store with TTL and capacity | lookup, store, evict, cleanup | expiry and eviction between lookup and replay; the key | a hit is an answer to this very request |
| Rate limiter (`contrib/ratelimit`) | one entry for a client | `Allow` (two algorithms), cleanup | the entry is dropped while a request holds it | the rate of the algorithm holds for each entry, and for a client whose entries are not dropped in use |
| Advisor, `Parallel`/`Race`/`Each`, OpenAPI, CRUD, views, dev mode, middleware, other contrib, CLI, transports of libraries | none shared, or diagnostic | | sequential or library code | covered by the repository's tests |

How they interact: a Wing worker is one goroutine with an epoll instance. It
calls the `App` handler inline, or hands the request to a goroutine (pool,
spawn, takeover), which writes the response itself or returns it through
`doneCh` and wakes the loop with `PostWake`. `App.Listen` starts the
container, then the transport; `App.shutdown` stops the transport, then the
container, then runs the hooks. Handlers resolve services from the container
while other handlers do.

`PROJECT.json` lists under "hazards" the places where this can go wrong and the
properties that would notice.

## 2. Modules

`WingAdmission` and `WingConn` are two views of the same worker. The first has
all the workers and what they share and treats what happens on a connection as
"it is closed some time"; the second has one connection in detail and treats
the others as the environment. `WingShutdown` takes the worker at its end, and
`WingWake` the few instructions that connect `doneCh` to `epoll_wait`.

**ConnCap** is the abstract specification of the limits: a set of admitted
connections that never outgrows the cap.

**WingAdmission** has one step for each access to shared state. `Accept` is the
part of `handleAccept` up to the cap (rate bucket, per-IP check), then come one
step for the load and one for the compare-and-swap, so that two workers
interleave between them; closing, takeover, the completion of a takeover, and
the stages of `cleanup` follow. `removeConnBookkeeping` and the close that
follows it are separate steps where another worker could see the difference
(the fd is free for the kernel to hand out only after the second). Tokens are
integers: one token is `Unit` units and a tick refills `perWorkerRate` of them.
`bucket.passed` and `bucket.from` are history: an observer may mark any call of
`allow` and count from there.

**WingConn** models the socket as the kernel does: bytes not yet read, room in
the send buffer, the epoll mask, and the ready list, on which an event puts the
socket and from which `epoll_wait` takes it (edge-triggered). A byte of a
request is its position in the client's stream and a byte of a response is
`<<request, part>>`, so that order, loss and duplication are visible. The loop
takes one step for each system call. `pc` names where in the handlers the loop
stands: `recv`, `parse`, `refill`, `body`, `pipelined`, `finish`, `send`,
`speculate`, `writable`, `drain` (of `doneCh`) and `wait`. The handler
goroutine of a Pool, Spawn, Takeover or Hijack request is `job`. A takeover
serves the requests behind its first one in a loop of its own; `charged` is what
it has taken from the worker's body budget for the body it is reading, and
`ReadDeadline` and `WriteDeadline` are the two ways its timers end it. A scenario
fixes what the client sends and what it may do (pipeline, read slowly, half
close, reset), the buffer sizes and which limits are configured. Its field
`start` has the position of each request's first byte (`LaidOut` says how it
follows from the lengths); `Positions` of the MC module computes it.

**WingShutdown** has the stages of a request off the loop (`queued`, `running`,
`sending`, `sent`), the goroutines of the pool, the bounded channels, and
`cleanup` with its concurrent drain, one step for each blocking point.

**WingWake** has the posters (`Send`, the CAS of `PostWake`, the eventfd write)
and the loop (`DrainDoneCh`, `EpollWait`, the eventfd read, the clearing of the
flag, the batch with the sweep behind it). It models a server with asynchronous
routes, where the loop waits in `Syscall6`; without them the loop uses
`RawSyscall6`, there are no completions, and signals of the runtime interrupt
the wait (`Interrupted` allows such interrupts, unfairly). Its definitions are
named `WakeInit`, `WakeNext`, `WakeSpec` and so on, because `MCWingWorker` extends
it together with `WingShutdown`: two halves of one worker, of which a behaviour
moves one (`part`) while the other is at rest.

**Container** keeps for each goroutine the stack of calls it is in. `Use`
becomes `LookupEnds`, `PushResolving`, `Lock`, `FactoryReturns` or
`FactoryFails`, `Store`, `Publish`, `Unlock`, `AppendInitOrder` and
`UseReturns` or `UseFails`, one step for each access to something shared.
A factory is application code: it resolves its dependencies in order, may go on
or give up when one fails and may fail by itself; a panic unwinds through the
same deferred calls as an error. A graph fixes the kinds and dependencies of the
services, which of them are registered before the first call (`given`, a
sequence, since the order of `Give` is that of `initOrder`, and `lazily`), who
resolves them, and the bounds.

**Router** builds the trees from registrations on the `App` and on nested groups
(`AppRoute`, `GroupRoute`, `AppUse`, `GroupUse`), compiles them, and looks
requests up. A path is a sequence of characters, a node a nested record, a
regular expression the set of values it accepts; hit counters are the order of
sibling nodes at Compile. The reference is `Candidates`: all registered patterns
that match the cleaned path, of which the most specific wins.

**Serve** is the life of one pooled `Ctx` through the four serve functions. A
field of the `Ctx` holds the number of the request that wrote it (`bare` has the
requests that left a pattern without params); hooks,
middleware and handlers fail, panic, set headers and cookies and send in every
way the `Ctx` offers; the transport keeps what it was given.

**WingHTTP** is the reader: bytes are grouped to tokens, one for each line and
one for each body byte, and the read buffer is memory with positions, so that a
string of a request is a position and may be overwritten. Both loops are there:
`tryParse` with body accumulation and the keep-alive loop of a takeover. A last
answer may wait for the socket, and the event loop then goes on parsing.

**WingResponse** is the pooled response with its lanes. What a handler sets on
the `Ctx` (`asked.held`, `asked.cookies`) is applied at the send, on the lanes
that do so, and overrides what it set on the response directly (`asked.direct`).
A body is a slice of an array, so that two owners of one array are visible.

**Typed** registers a typed route with or without a generated plan and a
replaced rule, and serves requests to it. Integers have four bits and floats
three bits of precision, so that the edges of the 64-bit types occur.

**Session**, **RespCache** and **RateLimit** are the stores of `contrib`
with concurrent requests: one step for each stretch under a lock and one for
each look at the clock outside it. **WebSocket**
has the goroutine of the handler, a goroutine of the application (with the
`Conn` of `contrib/ws`, or with the bare adapter of `Hijack`), the server's
shutdown and the event loop around one descriptor. **WingStream** is the stream
takeover with SSE, **Health** the fan-out of checkers, whose results are kept
under their names.

**MCContrib** and **MCWeb**, which extends it, put parts side by side that share
no state: the variable `part` says which one a behaviour is about, the variables
of the others keep the value 0. Each property is that of the part, under
`part = ...`.
The other **MC...** modules define scenarios. The proofs are in
**WingAdmissionProofs**, **WingConnProofs**, **WingWakeProofs**,
**WingShutdownProofs**, **ContainerProofs**, **SessionProofs**,
**RespCacheProofs** and **WebSocketProofs**, each of which extends the module it
is about. `Router` declares recursive operators (its trees are nested); no
theorem reaches it.

Definitions named `Mut...`, or marked as a mutant, are changed forms of the
definition next to them, as a bug would change it. They are used by no
specification; each shows, put in the place of the original, that a property
notices.

## 3. Runs

| Run | Module | Question | Result |
|---|---|---|---|
| `admission` | MCWingAdmission | three workers, three fds, two peers, cap 2, per-IP cap 1, five arrivals: exact counter, balanced books, fd ownership, refinement of ConnCap | holds |
| `admission_rate` | MCWingAdmission | one worker with the bucket on, five ticks: rate in every window, everything released at shutdown | holds |
| `conn` | MCWingConn | every pair of request kinds, pipelined with all failures, and one by one with a socket that blocks after every byte; triples under backpressure, with last requests and takeovers among them; a header that does not fit; a body between two pool requests | holds |
| `conn_live` | MCWingConn | the same pairs and plain triples without failures: every request is answered or the connection closed | holds |
| `conn_sendfile` | MCWingConn | a pipelined request behind a blocked file response | `ResponsesInOrder` violated |
| `conn_last` | MCWingConn | a pipelined request behind a blocked error response | `NothingAfterLast` violated |
| `worker` | MCWingWorker | shutdown: all dispatches with room in `doneCh`, Spawn and Takeover with a full one; wakeups: three posters, two reports each | holds |
| `shutdown_full` | MCWingShutdown | Pool with a full `doneCh` | `ShutdownCompletes` violated |
| `container` | MCContainer | two goroutines with failures, Warmup, registration and the lifecycle; circles met by one goroutine and by two | holds |
| `container_circle` | MCContainer | the circles again, without the exception | `FailsFast` violated |
| `web` | MCWeb | router, serving, reader, response, typed handlers; sessions, cache, rate limiter, WebSocket, event stream, health | holds |
| `cache_query` | RespCache | the cache on a transport that cannot enumerate the query | `HitFaithful` violated |

A property that passes says what the code does, in full: where the code departs
from what one would wish, the property names the departure as an exception and
holds everywhere else, and section 5 says which words of the repository it
contradicts.

The properties of the connection that have exceptions:

* `EndsProperly`: the server closes a connection only if the client ended or
  broke it, the last request asked for it or could not be served, a timeout
  struck, or a stale `readSuppressed` made it read an empty socket (`Stale`); it
  reads into a full buffer (an index out of range) only while a response waits
  for the socket; and nothing follows a last response, if the client waits for
  its responses or the socket takes them at once.
* `BudgetExact`: the reservation is that of the body being read, on the loop and
  in a takeover, whichever way the reading ends.
* `ResolutionEnds` (container): every call of `Use` and `Warmup` returns, unless
  its goroutine is in a knot: some goroutines that all wait for mutexes which
  they themselves hold, of entries on a circle.

The properties of `web`, request path:

* `FindsBest`: whatever was registered, in whatever order, a lookup returns the
  most specific route that matches and binds the params of that route only. Short
  forms of an optional param that are cut off (`CutForm`) are left out.
* `StatusExact`: static map, cache of allowed methods and flattened tree give
  200, 405 or 404 as the patterns say, with the same short forms left out; the
  methods of a 405 are exactly those that match; a path is refused only when it
  climbs above the root or cannot be decoded, and one that climbs always is. A
  percent sign of the text itself (`/100%25`) cannot be decoded, because the
  rounds of `PathUnescape` go on.
* `CtxFresh`: user code sees nothing an earlier request stored in the `Ctx`,
  except for `Unreset`: the pattern of a request that bound no param, the start
  time, the pattern on fasthttp, params where `ServeHTTP` refuses the path.
* `OneRightResponse`: one response for each request, with the status of the
  first failure and the headers and cookies set before it was sent; the message
  of a 5xx error made for users goes out, its detail and the text of any other
  error do not. Two lanes of fasthttp drop added headers and cookies; lazy error
  handlers and the security headers of a refused path are not claimed.
* `HooksInOrder`: each hook at most once, in the order of the code: `OnRequest`,
  `BeforeHandle`, middleware, handler, `AfterHandle`, `OnResponse`. `OnResponse`
  is the last, unless user code panicked, after which no hook runs, or
  `ServeFast` refused the path.
* `SegmentationFree`: up to the answer that should be the last one, the requests
  given to handlers are those of a reference reader that has the whole stream;
  behind one that waits for the socket, the event loop still hands out requests
  of the stream in order, each once, and behind a refusal only refusals.
  `HandledWellFormed`: a strict reader accepts each of them. `AliasStable`: on
  the event loop, where pipelined bytes are moved while a handler runs, the Host
  it reads is the one it was sent with.
* `ResponseExact`: what is written is what this request asked for, with the four
  deviations listed at the property: a status without a prepared line goes out
  as 200 on two lanes, headers set directly are dropped on two, `Set` replaces
  the first of several values only, and the slice given to `SendStaticJSON` is
  taken over.
* `InputExact`: of replies 200 and 422, the handler ran on the values that tags
  and sources ask for and all rules hold, or the reply lists exactly the rules
  that fail. Replies 400 are not constrained.

The properties of `web`, beside the request path:

* `SavedSurvives`, `DestroyedStaysGone`: a saved session stays readable until
  its time is over or a later save or destroy, unless a `Get` that had read the
  entry before the save finds that older entry expired; a destroyed one comes
  back only by a request that held it then.
* `HitFaithful`: a hit replays an answer to the same path, query and user, not
  older than the TTL, and the store keeps within its capacity.
* `RateBound`: an entry of the limiter passes at most `Max` and what is refilled
  in any stretch of time (token bucket), or less than twice `Max` in a window
  (sliding window), and so do the entries of a client together, apart from those
  a request used after the sweep had found them idle; these are bounded each on
  its own. A request may wait up to `MaxStall` for its lock.
* `NoForeignShutdown`: `Shutdown` and `Close` of the adapter never hit a number
  the kernel has given away. `WireEndsOnce`: nothing follows a close frame or a
  frame cut short. `MessagesExact`: messages are what the frames say.
* `EventsArrive`: no body before the preamble and no second preamble behind a
  whole one; on a stream whose preamble was written whole, an event that is
  written whole behind a whole one is the one event the client dispatches. A
  write that is cut short dispatches nothing, and the next whole one at most one
  event, which need not be one that was sent; after that the client is between
  two events again.
* `HealthExact`: a checker that answered before the deadline is not reported as
  timed out; with a name of its own it is reported with its own answer; 503
  means that some checker failed or was late, and 200 that for every name some
  checker of that name did well. Where two share a name that is all.

### Bounds, and why they are enough

* Admission: three workers is one more than a race needs, so that a third can
  interfere; a cap of 2 over 3 fds makes refusals and re-use happen; five
  arrivals let every fd be used again after a close. The proofs of section 4
  remove the bounds for the central properties. `acceptCapCeiling` and
  `acceptCapReserve` (262144 and 256 in the code) only enter `deriveMaxConns`.
* Connection: two requests show each interaction of a request with the one
  behind it, three plain ones show a queue of more than one under backpressure.
  Headers have two bytes so that one can be split, bodies two so that a read
  can end inside; the read buffer has four, so that it fills; responses have
  two parts, so that one can be cut. A send buffer of one blocks every write.
  The scenario of a body between two pool requests has a buffer of five, in
  which `readSuppressed` becomes stale.
* Shutdown: three connections on two pool goroutines with a queue of one make
  the pool saturate; a `doneCh` of one stands for a full one (4096).
* Wake: `SpinLimit` 1 (64 in the code) keeps both the polling and the blocking
  branch; a third poster finds the flag set by another while a first one is
  between its CAS and its write.
* Container: three services give chains and diamonds through a transient; two
  calls for each goroutine give a retry after a failure; two starts give a
  restart after a failed one. Circles are of a lazy through a transient, of
  transients (one goroutine, with `Warmup` and a retry), and of two lazies (two
  goroutines).
* Router: three calls of `Use` and the route methods, from fifteen routes that
  share prefixes and differ in kind (static, param, optional, regex, wildcard)
  on two methods and two nested groups; fifteen request paths with dots,
  escapes and percent signs. Two routes make a split or a choice, the third one the backtracking.
* Serving: two requests in a row on one `Ctx`, two calls of a handler in each
  (a header or cookie and a response, or two responses), ten configurations.
* Reader: header blocks of two and three lines from seventeen kinds and whole
  pipelines of three requests, read in every cut, with a buffer that each of
  them can fill (six tokens), three header fields and bodies up to three.
* Response: three requests, so that a slice taken over by the second shows in
  the third, two slots (8 in the code) and four header calls, so that the slots
  overflow and the overflow is reused.
* Typed: structs that differ in one respect each, so that each is a stale
  version of another for the generated plan.
* Sessions, cache, limiter: two or three requests, times of three or four
  timeouts, a capacity of one; `MaxEntries`, `MaxAllowed` and `MaxStall` bound
  the limiter.
* WebSocket: one and two frames of each kind a client may send and a fragmented
  message with a ping inside; two calls of the application's goroutine.
* Event stream: two events of texts with each kind of line break at each place,
  every write whole or cut, in the preamble too.
* Health: three checkers, of which one is found under several names, one has the
  name of another's type, and one is a lazy.

Symmetry (of workers, fds and peers) is used in `admission` only, which checks
no liveness property. `conn` and its variants do not check for deadlock, since a
connection may stay idle or closed; nor does `container`, whose knots are deadlocks
and which ends when the bounded calls are made; nor do `web` and `cache_query`, whose
parts end when the bounded requests are served. `RequestsAnswered`,
`ReportsHandled` and `ResolutionEnds` say what must not be forgotten. `worker`
and the admission runs check for it.

### Fairness

Weak fairness of the event loop, of each goroutine that can run, and of
handlers and factories (they return) is what the Go scheduler and the kernel
give. Beyond that: `WingShutdown` assumes strong fairness of `CloseJobs`, since
the loop reads the flag once in every turn and each turn ends; and that a takeover ends
once its socket was shut down and its context cancelled. `WingConn` assumes for
liveness a client that reads and, in `EagerSpec`, sends all of its stream.
Nothing is assumed about timeouts, signals (`Interrupted`), failures, resets or
new connections. `Container` needs only weak fairness, because the calls are
bounded and so contention for a mutex ends.

## 4. Proofs

| Module | Theorem | States |
|---|---|---|
| `WingAdmissionProofs` | `TypeCorrect` | `Spec => []TypeOK` |
| | `FdsStayOwned` | `Spec => []FdNotRecycled` |
| | `CounterIsExact` | `Spec => []CountExact` |
| | `CapIsKept` | `Spec => []CapHolds` |
| | `Implementation` | `Spec => ImplementsCap` (refinement of `ConnCap`) |
| | `BooksAreBalanced` | `Spec => []BooksBalance` |
| | `RateIsKept` | `Spec => []RateHolds` |
| | `DefaultCapFits` | bounds of `deriveMaxConns` |
| `WingConnProofs` | `TypeCorrect` | `Spec => []TypeOK` |
| | `BudgetIsExact` | `Spec => []BudgetExact` |
| | `HandlersOwnTheirFd` | `Spec => []HandlerOwnsFd` |
| | `StreamStaysIntact` | `Spec => []StreamIntact` |
| | `ResponsesStayInOrder` | `Spec => [](WellServed(env) => ResponsesInOrder)` |
| `WingWakeProofs` | `TypeCorrect` | `WakeSpec => []WakeTypeOK` |
| | `FlagIsHonest` | `WakeSpec => []FlagMeansSignal` |
| | `WakeupsArrive` | `WakeSpec => []NoLostWakeup` |
| `WingShutdownProofs` | `TypeCorrect` | `Spec => []TypeOK` |
| | `WritesComeFirst` | `Spec => []NoWriteAfterClose` |
| | `FdsClosedExactlyOnce` | `Spec => []FdsExact` |
| `ContainerProofs` | `TypeCorrect` | `Spec => []TypeOK` |
| | `LazyBuiltOnce` | `Spec => []OneInstance` |
| | `CyclesAreReal` | `Spec => []VerdictSound` |
| | `LifecycleIsExact` | `Spec => []LifecycleExact` |
| `SessionProofs` | `SavesSurvive` | `SessSpec => []SavedSurvives` |
| | `DestroyedOnesStayGone` | `SessSpec => []DestroyedStaysGone` |
| `RespCacheProofs` | `HitsAreFaithful` | `CacheSpec => []HitFaithful` |
| `WebSocketProofs` | `NeverForeign` | `WSSpec => []NoForeignShutdown` |
| | `WireEnds` | `WSSpec => []WireEndsOnce` |

They hold for every value of the constants that the named assumptions of the
modules admit. TLC evaluates these assumptions in the runs on the module. They
say of what kind the constants are: finite sets of workers, fds, services and
goroutines, natural limits and capacities, a pool with a goroutine in it.
Some say more. `ConstantsAssumption` of `Container` has the singletons in
`given` without repetition, since `Give` refuses a second registration.
`Scenario` of `WingConn` has the requests laid out without gaps (`LaidOut`); its
second conjunct, that later requests start later, follows from the first by
induction over the script, which the prover does not offer.

`ResponsesStayInOrder` has the hypothesis `WellServed` on the scenario, for any
buffers, failures, pipelining and speed of the client: no request is answered
with a file, and none with an error response of the transport (a malformed one,
a header longer than the read buffer, a body over the budget, a hijack that
comes with a body). Without the first part the property is false, as the run
`conn_sendfile` shows; without the second an error response that blocks may be
sent twice, as the run `conn_last` shows. A handler's own error is an
ordinary response and is not excluded.

The theorems of `WebSocketProofs` need no assumption: any frames, handshakes and
limits, any number of calls, and no fairness. The theorems of `SessionProofs` and `RespCacheProofs` have a hypothesis `Configured`: an idle
timeout that is a natural number, and a cache with a capacity (0, which the code
takes for none, is not modelled) on a transport that can enumerate the query.
Without the latter `HitFaithful` is false, as the run `cache_query` shows.

Each inductive invariant was checked by TLC on the instance of its run before it
was proved.

*Admission.* `CapHolds` alone is not inductive. A compare-and-swap that succeeds
knows only that the counter equals what was loaded and is below the cap, so the
counter has to be exact (`CountExact`). That it stays exact needs that a step
that raises it adds a connection that was not there and one that lowers it
removes one that was. The first is a fact about fds: a worker in the middle of
an accept holds an fd of its own which is not in its map (`InHandOwned`); and
this holds only if fds that are in a map are held (`FdNotRecycled`), which in
turn needs that a takeover is of an admitted connection and that the worker
holds its fd until the file is closed (`TakeoversOwned`), and that the last
loop of `cleanup` runs when no takeover is left (`SweptAlone`). Their conjunction
is `Ownership`, and `CapInv == TypeOK /\ Ownership /\ CountExact /\ CapHolds` is
inductive. Lemma `StepShape` says that each step admits one connection, releases
one, or leaves set and counter alone; `CountStep`, `CapInductive` and
`Implementation` all follow from it, with the theorems on cardinality of
`FiniteSetTheorems`. The per-IP check comes before the compare-and-swap loop and
the count is raised after it, so `BooksBalance` needs `RoomKept`: the room that
the check found is still there. `RateHolds` counts what was passed together with
what is left in the bucket; it is inductive with `BucketSane`, which says that a
bucket is never fuller than its burst and that no clock runs backwards, since a
window may open at any call of `allow`.

*Connection.* `IInv` adds three things to the types. `Fits`: the reservation is
that of the body being read. `At`: what the place in the handlers says of the
conn, for instance that nothing is parsed while a completion is outstanding or a
body is being read. `Owes`: `pending` counts the one completion that is on its
way, in a goroutine or in `doneCh`, and a goroutine that writes itself was
started when all was flushed. `HandlerOwnsFd` follows, and the half of
`BudgetExact` that is about the loop. The other half is `Charged`: what a
takeover has charged is the length of the body it is reading, and only a
goroutine in its loop reads one. It is inductive on top of `IInv`, because a step
of the event loop or of the client charges nothing, and a goroutine starts
without a body (`Lends`, `DispatchLends`); the steps of the takeover itself are
`HandlerCharges`.
`StreamIntact` needs `SInv`: the bytes that have left the read buffer end where
a request ends, or in the body that is being read (`Flow`). Each action that
cuts the read buffer is shown to cut it there, for every script.
`ResponsesInOrder` speaks of the wire alone and says nothing of what is still to
be written. Its invariant `OInv` adds `Ordered` to `SInv`. While the loop serves
the connection, the wire followed by the send buffer is the responses to all
requests that have left the read buffer; while one of them is with a handler or
in `doneCh`, to all but that one, and the completion that arrives continues the
sequence (`Owed`). While a body is read, it ends before that request, but for
its `100 Continue` (`Before`). A takeover starts with an empty send buffer and
then counts the parts it has written of the request it is at (`Serving`). All
this is claimed while the connection can still carry a response (`Live`); a
reset or closed one is shown to be written to no more. That the bytes which have
left the buffer end at a request is `SInv`, so the theorem rests on that of
`StreamIntact`: a response out of place would begin with a request cut wrongly.

*Wakeup.* A poster that finds the flag set skips the write; that a wakeup is on
its way nevertheless is exactly `FlagMeansSignal`, so the inductive invariant is
`WakeTypeOK /\ FlagMeansSignal /\ NoLostWakeup`. It would fail if the loop cleared
the flag before it read the eventfd.

*Shutdown.* A request is in one place and its stage says in which (`Queued`,
`Served`, `Reported`, `Kinds`): this is what `OneInFlight` and the two waits
rest on. `Phases` says what is over at each stage of `cleanup`: the pool has
exited behind the first wait, the dispatches are done behind the second, and
`doneCh` is empty before the last loop. `Closed` says who closes what; the fd of
a takeover is open exactly as long as its completion is pending.

*Container.* The calls of a goroutine are a stack of factories that wait
(`StackShape`), of which `resolving` is a copy but for `Warmup`'s call
(`StackMatches`); a type found on it again closes a circle of dependencies, so
`VerdictSound` follows. `Exclusive` says that at most one call has the mutex of
an entry and at most one is building it, `CallsKnow` what a call between two
steps knows of its entry (with the mutex held and `done` unset, no build has
succeeded), and from both `BuiltOnce` follows. `OrderKept` is `InitOrderExact`
with the services in transit named; `LifeKept` describes how far the walk over
the copy of `initOrder` has come.

*Sessions.* `Get` reads the entry under the read lock, looks at the clock without
one, and deletes by key under the write lock. `Doomed` says that an entry it is
about to delete is expired as it was read. So what is in the store at that moment
is either this entry, which is lost to nobody, or a later save, and then the
session is in `raced`. `Held` says that a request that can still save a destroyed
session held it at that moment, or that another one which did has saved since.

*Cache.* A hit is decided by key and expiry alone. So `Stored` says that an entry
holds an answer to a request of its key and expires the TTL after `cachedAt`,
and `Asked` that a request which stores long after its lookup still carries the
answer to itself. With the whole query in it the key tells requests apart
(`KeyIsInjective`). `Bounded` follows for each way of `Set` (`PutKeeps`).

*WebSocket.* `NoForeignShutdown`: the winner of the `Swap` is one goroutine, and
until it has closed `done` nobody else is between the two (`Closers`); the
handler's goroutine gives the descriptor back only behind `done`, or where it
never gave the adapter to anyone (`HandedBack`). `WireEndsOnce` cannot follow
from the `closed` flag alone, since a pong is written without a look at it.
`Sealed` has the reason it holds: whoever set `closed` keeps the mutex until the
socket is shut down, so a writer that gets the mutex later meets a dead socket.
`LastItem` says what a last item on the wire has left behind (`werr`, `closed`,
or a handshake that ended), `Fresh` and `Upgraded` that the answer to the
handshake is on the wire before there is a `Conn`.

*Only model-checked*, and why:

* All liveness properties (`RequestsAnswered`, `ReportsHandled`,
  `ShutdownCompletes`, `ShutdownReleasesAll`, `ResolutionEnds`): they rest on
  fairness, which is out of the prover's reach.
* `EndsProperly` of `WingConn`. Its exceptions are of the kind "while a response
  waits" and "for a stale mark", and where they begin depends on how the requests
  fall into the read buffer; an inductive form would have to follow the mark
  through every read. `ResponsesInOrder` for requests outside `WellServed`.
* The properties of the request path in `MCWeb`. `Router`, `WingHTTP` and `Typed`
  compare an algorithm with a reference over sequences; what a recursive
  definition computes for every input needs induction over data, which the prover
  does not offer. `CtxFresh`, `OneRightResponse`, `HooksInOrder` and
  `ResponseExact` are not proved yet.
* The remaining properties of `MCContrib`. `MessagesExact` and `EventsArrive`
  are of the same kind as those of `WingHTTP`; `RateBound` and `HealthExact`
  are in section 6.

## 5. Where code and documentation disagree

The five violation runs are described under "findings" in `PROJECT.json`. The
other disagreements met while modelling are in the passing properties, as the
exceptions these name, or outside what the runs ask:

*Worker.*

* A pool request that fills the read buffer to the last byte leaves
  `readSuppressed` unset, and `handleDone` re-arms without reading
  (`wing_transport.go` 1385): what is already in the socket is never reported
  again. The comment at 838 knows the case for partial headers only.
  `conn_live` therefore uses a buffer no request boundary fills.
* `Wait` blocks without a timeout after 64 empty polls
  (`wing_engine_linux.go` 107) and the sweep runs only when it returns, so on a
  worker without events an expired connection stays open;
  `docs/guide/security.md` 107 says that timeouts "are enforced at the transport
  level". `ExpiredIsSwept` of `WingWake` states it.
* `directSend` returns early while a body is accumulated (1443-1446); an event
  that was readable and writable is then taken as writable only, and the rest
  of the body waits for the next edge. `conn_live` therefore keeps bodies and
  blocked sends apart.
* A response queued before a body is complete may be withheld until that body is.
* `readSuppressed` may be stale when a completion arrives. A readable event
  during a pool request sets it (781); when the next request has a body, the
  reads of `drainBodyAccum` and `drainPipelined` take all there is and leave it
  set. The completion of a later pool request then calls `handleRecv` (1385),
  the read returns EAGAIN, and 792 closes an idle keep-alive connection. `conn`
  reaches it without any failure (scenario `Between`), and `EndsProperly` names
  it (`Stale`).
* A half-close right after a short read is noticed only by a later event
  (1287-1290, 1462-1477); a partial request left by a completed one has no read
  deadline (808, 920-922).
* A last response (`writeAndClose`, 1156) that blocks leaves the connection
  registered for reading with whatever is in its read buffer, and `pending` is
  0. If the buffer is full, the next readable event makes `handleRecv` take the
  address of `c.readBuf[c.readN]` with `readN == len(c.readBuf)` (791): an index
  out of range on the worker's own goroutine. `conn` reaches it with a header
  longer than the read buffer (431) behind a blocked response, and with a
  takeover that waits for one; `EndsProperly` says that it takes a response that
  waits.
* `writeAndClose` also leaves the refused request at the head of the read buffer.
  A readable event while its response is blocked parses the same bytes again and
  queues the error response a second time: the run `conn_last`. The attempt to
  prove `ResponsesInOrder` found it. Malformed requests of `conn` either do not
  meet a socket that blocks or are not pipelined.
* A pipelined request behind `Connection: close` is served when the send of the
  first response blocks; `conn` has such triples, `EndsProperly` claims silence
  only of clients that wait or sockets that do not block, and `SegmentationFree`
  says what is handed to handlers then.
* With a saturated pool the loop sends on `doneCh`, of which it is the only
  reader (1012-1027).
* The `default:` case of the dispatch (1105-1140) is unreachable.

*Container.*

* Two goroutines that enter a circle of lazy services from opposite ends each
  hold the mutex the other waits for (`container.go` 391), and `Warmup` resolves
  entries without `pushResolving`, so that a circle of lazies blocks on the mutex
  its own goroutine holds, although the comment at 23 promises "a chained error
  rather than deadlocking": the run `container_circle`. `ResolutionEnds` names the
  knot as its exception.
* `done` is published before the append to `initOrder`, so with two goroutines a
  dependent can precede its dependency there.
* An instance registered with both `Give` and `GiveAs` is in `initOrder` twice.

*Router.* The short form of an optional param is not found when another route
extends its static text (`Cut` names the case); two params of one name on one
path lose the outer value on backtracking; params of one name with different
regular expressions share the first node; a split or flattened node loses
`routePattern`; keys of the static map lack the slash for routes below `/`.
`cleanPath` decodes up to three times and refuses a path when a round fails
(`router.go` 30-34), so a path with a percent sign of its own (`/100%25`) is
refused although it does not climb.

*Serving.* `startTime` is not reset by `ServeHTTP` and `ServeFast`, nor
`params.pattern` by `ServeFast`; the other resets clear the pattern only if there
were params (`ctx_lifecycle.go` 145), so after a request that bound none
`Ctx.Route` may answer with its pattern on a static route, where `ctx_request.go`
15 says "Returns the raw path if no pattern was matched (static routes)". A
refused path is answered before params and security headers in `ServeHTTP`, and
without `OnResponse` in `ServeFast`. On fasthttp `SendStaticJSON` and
`SendBytesWithType` drop cookies and added headers; `ctx_response.go` 422 says of
the former that it "keeps middleware, lifecycle hooks, cookies, CORS, and
security headers in force". A lazy error handler is not flushed where the serve
function jumps to its end. `OnResponse` does not run after a panic, though
`app_serve.go` 259 speaks of an "always runs" guarantee. `BeforeHandle` is
documented to run after middleware (`kruda.go` 435, 493) and runs before it.
`handleError` changes the shared error value. `Listen` may return before the
hooks of `Shutdown` have ended. The table of interned header names can outgrow
its limit by the number of goroutines that miss together (`ctx_lifecycle.go` 32).

*Reader and response.* Two blank lines before a request with a body that is
split over reads close the connection (`wing_transport.go` 1191). A full buffer
is 431 on the loop and 501 or a silent close on a takeover; too many fields
close silently. The pool-saturated path uses `req.keepAlive` after the request
was released. The JSON and file lanes answer 200 for a status without a
prepared line (`wing_http.go` 1523). The JSON and string lanes drop headers that
were set on the response directly, which is how `contrib/ratelimit` sets its own
(`ratelimit.go` 68-70, because these lanes "bypass writeHeaders()"). What is set
on the `Ctx` is applied at the send and so overrides a later direct call. `Set`
on a header that has several values replaces the first and leaves the others. The
slice given to `SendStaticJSON` can be overwritten by the pooled response
(`ctx_response.go` 424). `ResponseExact` names these cases.

*Typed.* JSON fields are ignored when the struct also has a form field.

*contrib.* A `Save` between the read of the entry in `Get` (`memory_store.go` 51)
and the deletion (60) is lost if the older entry is expired when `Get` looks at
the clock (57); the cookie of a destroyed session is set after the response may
be out; a panic skips the save. The limiter passes more than `config.go` 11 says
("the maximum number of requests allowed per Window"): `Max` and a refill, or
twice `Max` less one in the window that `doc.go` 28 calls a "strict windowed
count"; and its sweep drops an entry after unlocking it, one that was never used
included (`store.go` 79-81), so that a request which holds it has an allowance of
its own. A continuation frame that exceeds the message limit is not answered with
1009. `flushHeaders` of a stream repeats the preamble behind a half one, against
"exactly once. Subsequent calls are no-ops" (`wing_stream.go` 69-70), and an
event behind a half event is taken for one with it. Results of health checks are
keyed by a short type name or a registered name (`health.go` 79-88, 127-148): of
two checkers with one name the last result collected decides, and a failed one
may be hidden behind 200.

## 6. Not modelled, and the plan

What is left of modelling:

* `App.Listen` with its signal and error channels and the `OnShutdown` hooks,
  composed with container and transport.
* The advisor (a diagnostic nothing depends on), `Parallel`, `Race`, `Each`
  (state local to a call), and the middleware of `middleware/` (no shared state;
  its effect on a request is part of `Serve`).
* Rules on strings, `dive`, the syntax of cookies and of route patterns:
  functions of one value, which the repository's tests reach.
* OpenAPI, auto CRUD, views, dev mode, the adapters of `contrib`, scaffolding
  and the MCP server of the command-line tool: generated documents and I/O.
* The Darwin engine, whose kqueue differs from the epoll modelled here, and the
  connection handling of net/http and fasthttp, which is that of the libraries.

What is left to prove: `RateBound` of the limiter and `HealthExact`, whose
modules have no recursive operator, and the invariants of `Serve` and
`WingResponse`. The MC modules instantiate these modules, so such a
theorem is about the module itself and its constants, as those of
`SessionProofs` are.
