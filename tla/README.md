# TLA+ models of iohttp

iohttp is an embedded HTTP server in C23 on io_uring: one thread submits
requests to the kernel and handles their completions. These modules model the
server's core (connection pool, completion handlers, event loop, timers,
shutdown) and the components around it (routing, middleware, context, TLS
buffers, HTTP/2, QUIC and HTTP/3, forms, files, event streams), and state what
makes each correct. TLC checks the properties on small instances; TLAPS proves
some of them for every value of the constants.

## The system and its parts

| part | source | state it keeps | operations and interactions | module |
|---|---|---|---|---|
| connection pool | `core/ioh_conn.c` | slots, `active_count`, `next_id` | alloc, free, find, transition; called by the server only | `Conn`, `ConnPool` |
| server | `core/ioh_server.c` | flags `listening`, `accepting`, `stopped`; per connection the receive and send buffers, `send_active`, `keep_alive`, timeout phase | listen, run, `run_once` with a handler per completion, stop, shutdown (immediate, drain), signals | `Handlers`, `Server`, `SignalDrain` |
| loop | `core/ioh_loop.c` | the ring, 64 timer slots, stop flag | run_once, add and cancel timers; callbacks call the loop again | `Loop`, `TimerService` |
| buffer pool | `core/ioh_buffer.c` | provided-buffer ring, registered buffers and file slots | register, return, place and remove descriptors | `Bufpool` |
| request context | `core/ioh_ctx.c` | keyed values with destructors, arena | created for each request by the server and HTTP/2 | `Ctx` |
| router, radix tree, groups, introspection | `router/` | one tree per method, groups, metadata | register, dispatch, walk | `Radix`, `Router` |
| middleware | `middleware/` | thread-local chain, rate-limit buckets | chain, auth, CORS, security headers, token buckets | `Chain`, `RateLimit` |
| TLS | `tls/ioh_tls.c` | cipher buffers over wolfSSL | feed, handshake, read, write, output | `Tls`, `ByteChannel`; an input of `Handlers` |
| HTTP/2 | `http/ioh_http2.c` | streams, reset counter, GOAWAY flag | nghttp2 callbacks, submit, goaway, flush | `Http2` |
| QUIC, HTTP/3 | `http/ioh_quic.c`, `http/ioh_http3.c` | output buffer, closed flags, streams, control streams | datagrams in, flush, timeouts, close; bind, requests, shutdown | `Quic`, `Http3` |
| PROXY protocol | `http/ioh_proxy_proto.c` | none | decode a growing prefix | `ProxyProto`; an input of `Handlers` |
| multipart forms | `http/ioh_multipart.c` | none | parse one body | `Multipart` |
| static files, SPA | `static/ioh_static.c`, `static/ioh_spa.c` | a config | stat and read a file, validators, ranges | `Static` |
| server-sent events | `ws/ioh_sse.c` | event buffer, last identifier | format, flush | `Sse` |
| HTTP/1.1, request, response | `http/` | none beyond a call, header lists | parse and serialize; called by `dispatch_request` | inputs of `Handlers`; setting headers in `Chain` |
| vhosts, cookies, Alt-Svc, compression, WebSocket, logging, health | several | see *Not modelled* | | none |

What makes this code hard to test: completions of a receive, its linked
timeout, sends, closes and accepts arrive in any order and in batches; a
completion names a connection, or a timer slot, that may have gone to another
owner; the submission queue, the pool, descriptors and memory run out;
callbacks of libraries come between any two calls; input is cut anywhere; and
shutdown begins while all of this is under way. `PROJECT.json` lists these
hazards at their lines.

## Modules

### The server

`Conn` has the pool as a value: slots, the transition table, allocation
(`ConnAlloc`, and `ConnAllocNoMem` when the receive buffer cannot be had),
release and transition. `ConnPool` puts it under an arbitrary client.

`Handlers` translates the functions of `ioh_server.c` that the handlers call,
one operator a function or branch of `run_once`. An operator takes the
*machine* (pool, submission queue, descriptor table) and returns the machine
it leaves, or the set of machines when the outcome depends on bytes: what the
parser, the PROXY decoder, TLS and the application answer is chosen freely.
Early returns, ignored results and running out of queue entries or memory are
kept. Of a response only the number of unsent pieces is kept. When a handler
would go on with a connection it has just released, the machine is `crashed`
and handles nothing more.

`Server` adds control. `mode` says where the thread is: `idle` between two
calls of `run_once`, `submit`, `wait`, or `loop` (handling completions).
`RunOnce`, `WaitTimesOut`, `Reap` and `BatchDone` are the turns; `OnAccept`,
`OnRecv`, `OnSend`, `OnClose`, `OnTimeout`, `OnSignal` and `OnCancel` are the branches
of `run_once`, each the whole handler; `AppStop`, `ShutdownImmediate`,
`ShutdownDrain`, `DrainTurn` and `DrainEnds` are the API. The kernel is external:
`Issue` takes queue entries in order, and `Kernel*` complete requests, while
the thread waits (the ring is set up with DEFER_TASKRUN) or, for the request
just issued, at once. A receive and its linked timeout end as the pair
`docs/en/03-production-hardening.md` describes, in either order. A request
holds its socket, so that closing a descriptor does not end it and the number
may be given to another client. Auxiliary: `peer` (whose socket it is),
`answered`, `wrapped`.

`SignalDrain` is SIGTERM: the drain is called from inside the completion loop
and turns the loop again. It models the call stack of `run_once` and
`ioh_server_shutdown`, the head of the completion queue, and of a connection
only what the drain depends on (keep-alive connections serving requests).

### The loop and its timers

`TimerService` is the abstract specification: a timer is pending, expires, and
then fires once or is cancelled. `Loop` is the code: timer slots, TIMEOUT and
cancel requests tagged with a slot, the submission queue, and turns of
`ioh_loop_run_once` whose callbacks add, cancel, stop and submit again.
`LoopRunOnce`, `SubmitOne`, `Submitted`, `LoopWaitEnds`, `HandleExpiry`,
`HandleOther`, `CallbackReturns` and `LoopEnds` are a turn; `AddTimer`,
`AddTimerNoSqe`, `CancelTimer`, `SubmitNop`, `LoopStop` and `LoopDestroy` the API; `Expire`
is the kernel. `Service == INSTANCE TimerService WITH ...` maps a timer's history
to its status and `TimerContract` is that specification. The refinement needs a
client that adds a timer only when the free slots have no completion to come
(`Hasty = FALSE`); without it the run `timer_reuse` shows what happens.

### The components

Each is a module with its own variables under an arbitrary client; libraries
(nghttp2, ngtcp2, nghttp3, wolfSSL), file systems and the kernel are external
and do whatever their interface allows.

- `Radix`: insertion with node splitting and conflicts, lookup with priorities
  and backtracking, the walks, as functions on trees. `Router`: one tree a
  method; registering on the router and on groups, refusals, metadata;
  normalization and dispatch as operators. The reference for a lookup is a
  definition of matching over the list of registered patterns.
- `Chain`: the C stack of one request: an activation for each
  `ioh_chain_execute`, middleware and handler, with the thread-local `tl_chain`
  saved and restored; the built-in middlewares with their early returns.
- `RateLimit`: token buckets in an open-addressed table, truncated keys,
  collisions, a full table. Tokens are whole units, so refills lose nothing.
- `Ctx`: set, reset, destroy, and allocation in an arena that moves.
- `Tls`: `FeedInput`, `RecvCb`, `SendCb`, `DrainOutput` on two buffers, around calls
  of wolfSSL that use the callbacks as they like. `ByteChannel` is what each
  direction must implement.
- `Http2`: the callbacks by stream, memory followed by owner (`live`, `freed`,
  `twice`), resets counted by the second, and
  which kinds of GOAWAY were submitted (the notice and the final one of
  `ioh_http2_goaway`, the one against resets, and one that failed).
  `Quic` and `Http3` are composed: the session binds its streams, and requests arrive, on the connection of `Quic`;
  trailers reach no callback.
- `Bufpool`: the ring's wrapping tail against the kernel's head, file slots
  against the kernel's table, updates that fail.
- `ProxyProto`: both header versions, every prefix, ports of 32 bits.
  `Multipart`: bodies of tokens, cut anywhere. `Sse`: appends that fail one by
  one, against a client that decodes. `Static`: stat and read as two steps
  between which files are replaced, and a client that revalidates its copy.

`MCServer` gives values to `Responses`; `MCComponents` puts the components side by
side for TLC: they share no state, so a behaviour is one of a single `unit`.
Operators named `X_fault`, or `X_` and what is wrong, are faulty variants of `X`
that the properties are shown to catch.

## Runs

| run | instance | result |
|---|---|---|
| `server` | 2 clients, 2 slots, PROXY header, 2 receives with data, responses in 2 pieces, accepts that end, a drain of 2 turns | passes, 565,265 states |
| `server_reuse` | 3 clients through 1 slot, that may send for ever or never read, under fairness | passes, 139,930 states |
| `server_stress` | TLS, queue of 2 entries, 1 descriptor, failing allocation, oversize responses, late timers, SIGQUIT, identifiers that wrap at 3 | passes, 992,950 states |
| `loop` | 3 timers in 2 slots, queue of 2, callbacks that call the loop, under fairness | passes, 150,073 states |
| `components` | 13 components, bounds below | passes, 477,330 states |
| `server_fd_limit` | 2 clients, 1 descriptor | `DescriptorOwned` fails |
| `server_oversize` | 1 client, responses over 8192 bytes | `NeverStranded` fails |
| `server_tls` | 1 client, TLS | `HandshakeSendKept` fails |
| `signal_drain` | 2 connections, SIGTERM | `HandledOnce` fails |
| `timer_reuse` | as `loop`, with a client that reuses slots at once | `FiresOnTime` fails |
| `radix_prefix` | as `components` | `LookupSound` fails |
| `multipart_type` | as `components` | `ContentTypeWhole` fails |

`server` shows, with resources to spare: no connection without a next event
(`NeverStranded`); every receive timed (`EveryRecvTimed`); no buffer released
under the kernel (`BuffersOutliveRequests`); the accept always armed
(`AcceptArmed`); nothing left after shutdown (`ShutdownLeavesNothing`); responses
cut short only by errors and shutdown limits (`ResponsesComplete`); no slot given
out after shutdown (`NoAcceptAfterShutdown`). `server_reuse` shows that requests
stay with their own socket (`DescriptorOwned`, `TransfersReachPeer`), that drains
end (`DrainCompletes`), and that connections do (`ConnectionsEnd`) but for two
kinds of clients, which the code leaves their slot: one that sends for ever,
since every receive arms a timeout of its own and there is no deadline for a
request, and one that never reads what it is sent, since a send has no timeout.
`server_stress` shows what survives scarcity: one
transfer outstanding for each connection (`OneTransfer`), `send_active` exact
(`SendFlagExact`), no lost descriptor (`NoDescriptorLeak`), count and names right
(`PoolConsistent`). The properties of `server` do not all survive it: with no
queue entry left an accept or a timeout is dropped, or a connection is left
with nothing outstanding.

`loop` shows that the loop implements its timers (`TimerContract`) and forgets
none (`TimersEnd`).

`components`, by part:

| part (states) | properties |
|---|---|
| pool (6,364) | `ActiveCountExact`, `IdsUniqueUntilWrap`: count and identifiers |
| router (10,755) | `LookupIsBestMatch`: lookup is the reference; `DispatchAnswers`: HEAD, 405, redirects; `InspectionAgrees`: walk, count and metadata |
| chain (51,189) | `HandlerGuarded`: no handler without its middlewares below it; `AnsweredAsConfigured`: headers of refusals as well |
| rate (32,229) | `RateBounded`: admissions of a key in every window |
| ctx (29,798) | `ValuesReleased`: a destructor runs once, when its value is given up; `BlocksFit`: blocks disjoint, inside and aligned over moves |
| tls (42,619) | `CipherInOrder`: two byte channels |
| h2 (132,104) | `ResponseMemory`: freed once, alive while read; `DispatchedWhole`: requests once and whole; `RapidResetStopped`: too many resets are answered with the GOAWAY for them |
| h3 (88,817) | `ControlStreamsBound`: three streams of one attempt; `H3DispatchedWhole`; `ClosedForGood`: nothing after a close |
| bufpool (1,654) | `PoolAgreesWithKernel`: each buffer in one place, descriptors where the pool says |
| proxy (2,238) | `SplitDelivery`: the answer does not depend on how input is cut |
| multipart (39,205) | `PartsRecovered`: complete forms within the limits are accepted and told as sent, cut ones refused |
| static (30,511) | `RevalidationSound`: a 304 is true |
| sse (9,847) | `StreamDecodes`: the client reads the events that were formatted |

A property excepts a case where the code does not do what is claimed, or
cannot; its comment says which. These are all:

- `LookupIsBestMatch`, `DispatchAnswers`, `InspectionAgrees`: segments of routes
  that overlap. After /ab and /ac the tree holds /a/b, which a lookup finds,
  the walk tells, and alone may be given metadata (`ioh_route_inspect.h:48`
  speaks of the original pattern). `LookupSound` has no exception, and fails.
- `ValuesReleased`: a value whose key is set again is dropped without a call of
  its destructor (`ioh_ctx.c:89`), where `ioh_ctx.h:96` has it called.
- `BlocksFit`: alignments above malloc's. A call that moves the arena computes
  the padding anew and not the size, so that the block may end past the arena
  (`ioh_ctx.c:367-377`), and a later move may leave it unaligned.
- `RapidResetStopped`: a session that was told by `ioh_http2_goaway` to end before.
  `goaway_sent` is set, and a flood of resets is not answered any more
  (`ioh_http2.c:458`), while `docs/en/01-architecture.md:413` has the connection
  terminated. Also a GOAWAY that nghttp2 had no memory for, which is not retried.
- `PartsRecovered`: a body that ends behind a delimiter line is accepted without
  its closing delimiter, while `test_ioh_multipart.c:270` has unclosed bodies
  refused; a value without quotes at the end of the headers is a character
  short; and the name of a part whose file is named first is that of the file,
  since "name=" is found in "filename=" (`ioh_multipart.c:144`).
- `SplitDelivery`: a binary PROXY signature cut after 6 to 11 bytes is refused.
- `RateBounded`: keys of 128 characters and more never find their bucket again.
- `RevalidationSound`: files written twice in a second look the same.
- `StreamDecodes`: nothing is claimed of what follows a failed append.
- `ConnectionsEnd`: the two kinds of clients above.

**Bounds of the server.** `MaxConns`, `MaxFd`, `Peers`: two of each let two
connections interleave and slots and descriptors be reused; three clients in
one slot give reuse twice. `MaxData` bounds the receives with data, unless
`Endless` lifts the bound (`server_reuse`), `MaxPieces`
the partial sends, `DrainPolls` the turns of the drain, `SQDepth` 8 is room for all
requests of two connections, 2 is the smallest queue in which a receive and its
timeout fit. `IdSpace` stands for 2^32: above the number of allocations it never
wraps, at 3 it does. In `SignalDrain`, `MaxPosts` and `MaxDepth` bound completions
and nesting.

**Bounds of the loop and the components.** Three timers in two slots: one slot
is reused while the other is in use. The pool has 2 slots and 6 identifiers: it
fills, allocations fail and `next_id` wraps. `MaxSetup` 3 routes or groups of nine
patterns, of which some share letters, parameters and wildcards. Chains of up
to three middlewares in every order, of four with authentication last, and one
nested chain; requests vary in what the stack looks at. Three buckets for two
keys of one hash and a truncated one: collisions and a full table; `MaxNow` 3
ticks refill a bucket past its burst. `MaxValues` 2, an arena of 8 bytes: a third
key and a move. `CipherCap` 3 with `MaxCipher` 4 bytes: a buffer fills, is
compacted and refuses. Two HTTP/2 streams, resets up to 1 in a second, so that
the second reset must stop the session, over three seconds. `UniCredit` 4: two
attempts to bind three streams may run out of credit. `RingSize` 2 with counters
modulo 8 (`TailMod`): they wrap. Forms of up to two parts against `MaxParts` 2,
`MaxPart` 4, `MaxTotal` 44 and arrays of 1 or 2 parts: each limit is met and passed.
`MaxWrites` 2 versions of files at up to 2 times. `SseBuf` 8 symbols and `MaxFormats`
3: the buffer grows or fails to.

Deadlock is not checked: a server or a loop that was stopped, a session that
was destroyed and a request that was answered really stop.

**Fairness.** In `server_reuse`, the thread keeps turning and the kernel keeps
submitting (weak fairness), and an armed timer expires if nothing takes it
away: a connection's timeout stays armed for ever only if the thread never
waits again (`<>[]Armed(id) => <>[](mode # "wait")`). It is not strong fairness,
which would have a timer expire that every receive arms anew. Nothing is
assumed of clients: they need not connect, send or read. In `loop`, the
thread runs (weak fairness), an armed timer expires (weak fairness, a timer a
condition), and the application comes back: it calls `ioh_loop_run_once` again
and returns from callbacks (strong fairness, since its own calls may come
between). `ioh_loop_run` does the first by its `while`.

**Disagreements found.** The failing runs are behaviours of the code that
contradict its documentation or comments; `PROJECT.json` quotes both sides.
(1) A fired timeout queues two closes of one descriptor number, and an accept
re-armed between them loses its new client's socket. (2) A response larger
than the serialization buffer leaves its connection with nothing armed. (3) The
send completion of the last handshake flight closes the connection. (4) SIGTERM
with a connection open handles completions twice and nests drains. (5) A timer
in the slot of one just cancelled is fired by that one's completion. (6) With
the routes /ab and /ac, a lookup of /a/b finds /ab, and introspection knows the
route by that name. (7) The content type of a
part loses its last character if it is the last header line.

## Proofs

`ConnProofs` and `HandlersProofs` hold lemmas, the other `*Proofs` modules
theorems, for every value of the constants that satisfies the named assumptions
of the modules they are about.

| theorem | statement | module |
|---|---|---|
| `PoolTypeCorrect`, `PoolCountExact`, `PoolIdsUnique` | `PoolSpec` implies that the pool keeps its type, `[]ActiveCountExact`, `[]IdsUniqueUntilWrap` | `ConnPoolProofs` |
| `ServerTypeCorrect`, `ServerPoolConsistent` | `Spec => []TypeOK`, `Spec => []PoolConsistent` | `ServerProofs` |
| `TimersFireOnTime` | `LoopSpec => []FiresOnTime`, if `Hasty = FALSE` | `LoopProofs` |
| `LoopImplementsTimers` | `LoopSpec => TimerContract`, if `Hasty = FALSE`: the refinement | `LoopProofs` |
| `RateIsBounded` | `RateSpec => []RateBounded` | `RateLimitProofs` |
| `TlsImplementsChannels` | `TlsSpec => CipherInOrder`: both refinements | `TlsProofs` |
| `ResponseMemorySafe`, `RequestsWhole`, `RapidResetCaught` | `H2Spec` implies `[]ResponseMemory`, `[]DispatchedWhole`, `[]RapidResetStopped` | `SessionProofs` |
| `CloseIsFinal`, `ControlStreamsSafe`, `H3RequestsWhole` | `H3Spec` implies `ClosedForGood`, `[]ControlStreamsBound`, `[]H3DispatchedWhole` | `SessionProofs` |

*Pool and server.* The inductive invariant is `PoolInv(p)`: `p` is a pool,
`active_count` is the number of slots in use, and until the wrap identifiers in
use are distinct *and below `next_id`* (the strengthening: distinctness alone
does not survive an allocation). `ServerInv` is `TypeOK /\ PoolInv(m.pool)`. The
argument goes function by function: `ConnProofs` shows that each pool operation
keeps `PoolInv`, given that a release is of a slot in use; `HandlersProofs` that
each operator of `Handlers` maps good machines to good machines and releases
only slots in use, which is what excludes a double release; `ServerProofs` that
each action of `Server` keeps `ServerInv`, the kernel's included.

*Loop.* `FiresOnTime` is about history; what makes it inductive is who owns a
slot. `LoopInv` says that a request or completion outstanding for a slot belongs
to the timer the slot holds, if it is in use (`Owned`), that a timer has one such
request at most (`Single`), what a slot in use holds (`Holds`), and that a
completion with -ETIME tells the truth (`Truthful`). `Owned` is where `Hasty = FALSE`
is needed: adding a timer to a slot with a completion to come breaks it. The
refinement then shows that each action maps to one step of `TimerService` or to
none.

*Rate limiter.* The bound on admissions follows from a budget: for the bucket a
key finds, what was admitted in the window plus the tokens left is at most the
burst plus the refill (`Budget`), and a key that was admitted has a bucket
(`Backed`). That a probe finds the same bucket again, since buckets are never
given back and all before it stay taken, is the bulk of the proof; the hash and
the table size are arbitrary.

*TLS.* `TlsInv` says what the buffers hold: the bytes accepted and not yet
delivered, in order, at their offsets; compaction and partial reads keep it,
and with it each callback is a step of `ByteChannel`.

*Sessions.* For HTTP/2, `Sound(s)` says of a stream which pieces are alive in each
of its states in nghttp2: stream data while nghttp2 has the stream, the body
exactly while its provider is; `StreamsInv` adds that the session's list holds
just the streams with memory, which is why destruction leaves none. `ResetsInv`
says that `rst_count` is the number of resets of the current second or belongs
to an earlier one, and that a session past the limit has submitted its GOAWAY
if none was there before. For HTTP/3, `QuicInv` says that streams opened were
allowed, `BoundInv` and `RequestsInv` what binding and the callbacks keep; `CloseIsFinal` is
an action property that follows from `QuicInv`.

Only model-checked: the other invariants and action properties of `Server`
(inductive versions need the pending requests of each connection in the
invariant) and those of the other components; liveness, which the prover does
not handle, like `ENABLED`; and everything about `Radix`, `Router`, `Multipart` and
`Sse`, whose recursive operators would need induction over data.

## Not modelled

- The contents of messages: the HTTP/1.1 parser and serializer, cookies,
  Alt-Svc, query strings, JSON and HTML helpers, health answers and logging
  turn one input into one output and keep no state; their outcomes are inputs
  of `Handlers`. The repository's unit tests cover them, and a model would
  repeat them character by character.
- Virtual hosts: a list compared with a host name, fixed after set-up.
- Compression: zlib and brotli do the work on one response.
- WebSocket: a thin layer over the callbacks of wslay, which keeps the framing
  state; the server never enters the WEBSOCKET state.
- Configuration, and the set-up of sockets, TLS contexts, certificates and the
  ring; errors of `io_uring_submit`; the trusted-source check of the PROXY path;
  read-only queries; handlers for custom error pages; `ioh_group_use`, which
  stores middlewares in a group that nothing runs.
- The buffer ring of the loop, which is that of `Bufpool` without its slots.
- Compositions that the code does not make: the server dispatches neither to
  HTTP/2 nor to HTTP/3, and does not use the loop's timers. The server with the
  byte-level TLS buffers is not composed either: `Handlers` lets TLS answer
  anything, which includes what `Tls` can answer.
- A response body over HTTP/3: `resp_data_read_cb` is a placeholder.
