# TLA+ models of GoGRPCBridge

GoGRPCBridge carries gRPC (HTTP/2) over WebSocket. A server upgrades an HTTP
request, wraps the websocket as a `net.Conn` and serves HTTP/2 on it; a client,
native or in a browser (GOOS=js), dials a websocket and hands the same kind of
`net.Conn` to gRPC. This directory holds TLA+ models of its stateful parts, TLC
configurations that check them on small instances, and proofs, checked by
TLAPS, that hold for every value of the parameters: all safety properties of
the passing runs, the refinements of the byte stream and of the pool of slots, and
the safety half of most liveness properties.

## Inventory

| Component | State | Operations | Interacts with | What is hard |
|---|---|---|---|---|
| Abuse guard (`grpctunnel/abuse_control.go`, `retry_after.go`; a copy in `pkg/bridge`) | active count, connections per client, one fixed rate window per client, time of the last sweep | reserve, sweep, clear, client key, Retry-After | every upgrade handler, under one mutex | instants are read before the mutex; window boundaries; leaks; map growth |
| Bridge handler and session (`server.go`, `server_native.go`) | the handler's position and stack of deferred calls, metric gauge, socket, hooks, lifetime timer, listener, `done` | upgrade handler, `deliver`/`Accept`/`Close`, close notification, lifetime timer | guard, keepalive goroutine, `grpc.Server` | who closes what first; Stop racing an upgrade; panicking hooks; slots held to the true end |
| Server keepalive (`applyBridgeConnectionSettings`; `applyHandlerConnectionSettings` in `pkg/bridge`) | read deadline, last pong, ticker, idle timer, stop channel | ping, idle check, pong handler, stop | socket, HTTP/2 transport, handler | deadline taken away by the transport; ping stuck behind a write; simultaneous timers |
| Websocket adapter (`conn.go` in both packages) | locks, gorilla's deadline field, the net.Conn's deadline, closed flag, frame reader | Read, Write, Close, deadlines | gRPC transports, several goroutines | gorilla allows one goroutine in its write path; interrupting a stuck write |
| Browser connection (`wasm/dialer/websocket_conn.go`) | message queue with head, byte count, wake-up token, error channel, read buffer | JS callbacks, Read, Write, Close | browser events, the gRPC transport | lost wake-ups, limits, compaction, close during Read |
| Browser dialer (`wasm/dialer/dialer.go`) | a socket, two handlers and a context per attempt | open, error, cancel, return | browser, gRPC, browser connection | cancellation racing open; handlers released while events are still to come |
| Reverse-proxy handler (`bridge/bridge.go`) | configuration error, proxy, a handler's deferred calls | NewHandler, ServeHTTP | guard, adapter, backend | as the bridge session, with deferred calls of its own |
| Forwarded metadata (`server.go:370-506`) | one forward set per session | build, inject | every RPC of the session | precedence of headers; slices shared between concurrent RPCs |
| Tunnel client (`client.go`, `client_wasm.go`, `bridge/client.go`) | configuration, header map, subprotocols | options, checks, target normalisation, dial | the caller's maps, gRPC's reconnects, dialer | who owns a map that every reconnect reads; the many target forms |
| Typed configuration (`api.go`, `server.go:216-275`, `bridge/bridge.go`) | the process-wide cache of write-buffer pools | checks, defaults, pools, policies, origin allowlist | everything above | zero values and combinations; concurrent constructors |
| Tooling (`tooling.go`) | services of the `grpc.Server` | refuse wildcard addresses, register | handlers being built, a server that starts | registering twice or too late ends the process |
| Todo service of the examples (`direct-bridge/main.go`, `grpc-server/main.go`) | list and index, one-place signal, worker, file | create, update, delete, debounce, save, load | RPC handlers, the persist worker, the file system | lost signals, a snapshot used after its lock, kills in the middle of a write |
| Observability, logging | counters, output | record, report | handler | output only |

What makes each correct: the guard's counters equal what is really held and its
rate limit cannot be reset early; a session's slot, gauge and hooks end with the
session and nothing outlives it; a dead peer is reclaimed and a live one kept; the
write path is exclusive and can be interrupted; the browser connection is a
bounded, gapless byte stream that wakes its reader; a dial leaves no socket and no
handler behind; every reconnect repeats the handshake that was configured, and a
secure target stays secure; handlers that serve have sound settings; an RPC sees the metadata of
its own session; every change of the todo list reaches the file unless the
save fails, and a file that can be read is never a mixture of two lists (a kill in the middle of a save may leave it
empty or unreadable).

## Modules

| Module | Models | Notes |
|---|---|---|
| `AbuseGuard` | the guard of both packages | `SweepsWindows` FALSE is the guard of `pkg/bridge` |
| `AbuseGuardProofs` | theorems about `AbuseGuard` | see Proofs |
| `SlotPool` | what the guard promises the handlers | abstract specification; `AbuseGuard` and `BridgeSession` implement it (proved) |
| `MCAbuseGuard` | who the requests of a run come from | |
| `BridgeSession`, `MCBridgeSession` | handlers of both packages, deferred calls, native listener, timers | `serveLoop`: `"none"` is the default http2 mode, `"proxy"` the handler of `pkg/bridge` |
| `Keepalive` | keepalive of one session on an explicit clock | `idleDue = Never` is the keepalive of `pkg/bridge` |
| `WebSocketConn` | write side of the adapter | variable `pkg` says whose adapter |
| `FrameReader` | read side of the adapter | variable `pkg`, as above; implements `ByteStream` |
| `ByteStream` | what a `net.Conn` promises its reader | abstract specification |
| `BrowserConn` | the browser connection | implements `ByteStream` |
| `BrowserClient` | the browser dialer, composed with `BrowserConn` | extends it; the connection's steps need an attempt that opened |
| `TunnelClient` | options, targets, configuration, dial, reconnects | `build` is the Go build, native or wasm |
| `BridgeSetup` | building handlers and tooling, concurrently | |
| `ForwardMetadata` | headers from the upgrade request to the RPCs | |
| `MCTunnelSetup` | the three above in one instance | `about` says which of them a behaviour is about |
| `TodoStore`, `MCTodoStore` | the todo service with its file | |
| `TodoStoreProofs` | theorems about `TodoStore` | see Proofs |
| `BridgeSessionProofs`, `KeepaliveProofs`, `WebSocketConnProofs`, `FrameReaderProofs` | theorems about the module of that name | |
| `BrowserClientProofs` | theorems about `BrowserClient` and the `BrowserConn` in it | |
| `TunnelSetupProofs` | theorems about `TunnelClient`, `BridgeSetup` and `ForwardMetadata` | each from its own specification (`TunnelSpec`, `SetupSpec`, `ForwardSpec`) |

Every module lists, above its definitions, operators with names such as
`WindowAtUnsigned` or `SignalLost`: mutated forms of the definition that follows them,
which the runs must reject. They are not used otherwise.

### AbuseGuard

A request is `new`, `stamped` (the handler has evaluated `time.Now()` and waits
for the mutex), then `held`, `refused` or `released`. `Arrive` reads the clock;
`RefuseRate`, `RefuseCap` and `Admit` are the three ways out of
`reserveBridgeConnection`, each one step under the mutex with the sweep and the
charge that precede it; `Clear` is `clearBridgeConnection`. Go maps are functions
whose domain is the set of keys present. Time is in ticks; `Second` ticks make
a second, and `LockDelay` bounds the time from `time.Now()` to the mutex. The
address is a host (empty when it cannot be used) and a port.

### BridgeSession

One handler goroutine per session walks through `BuildBridgeHandler`, or `ServeHTTP` of `pkg/bridge`. `depth`
counts the deferred calls that are registered; `DeferOrder` is the order of the
defer statements, and every return or panic runs the first `depth` of them in
reverse, one step each. The lifetime timer's callback and the keepalive goroutine
run beside it. In native mode `Deliver` is the rendezvous of `deliver` and `Accept`
on the unbuffered channel, and `SessionClose`/`SessionNotify` are the two halves of
`notifyCloseConn.Close`. External: the peer, `grpc.Server` (`Serve`, its
per-connection goroutine, `Stop`) and `http2.Server.ServeConn`, which may end at any
time and must end on a dead socket. Authorize, Upgrade, the settings and OnConnect
may fail; failing covers returning an error and panicking. In proxy mode a bad configuration is
met first (`CheckInitErr`), and there is no Authorize, gauge,
lifetime or native listener. `Reserve` may refuse below the cap, because the client's own
limits (`AbuseGuard`) may.

### Keepalive

`Tick` advances the clock only when nothing is due, so what happens at one
instant happens in every order. The peer answers pings within `RoundTrip`; the
send path may be stuck behind a data write, for `Stall` at most while the peer
lives and for ever when it does not. `WriteControl` waits for the send path until
its own deadline (`PingBlocks`, then `PingProceeds` or `PingFails`). gorilla's
write lock is a one-place channel that serves its waiters in turn. The model has
both `PingInterval` and `IdleTimeout` set, which is the default and what every
configuration with an idle timeout must have.

### WebSocketConn

Writers call `Write`, setters call `SetWriteDeadline`, anyone calls `Close`.
gorilla is external: a message goes out in one or more frames, each `Flush` copies
the deadline field to the `net.Conn` and then writes; a failed write is remembered.
A deadline is "none" or "past", the two a transport uses to interrupt.

### FrameReader

`Read` under `readMu`, one step up to each point where another goroutine can be
noticed: the closed check (`ReadRefused`, `ReadEnters`), `NextReader` and the
message's own reader (`Chunk`, `ChunkEnd`, `ChunkFails`). Close is its two steps, the
flag and the socket. External: gorilla's `NextReader` blocks until a message or an
error comes, a message's reader gives its bytes in pieces with `io.EOF` beside the last
one or after it, and a failed read stays failed. The packages differ in one thing,
the error for a text message. The refinement maps `closed` to `told`: until a Read
has met Close, the stream is whole, even if Close is already under way.

### BrowserConn

GOOS=js runs goroutines on one thread, so a callback or a call is one step up to
the point where it blocks; `Read` blocks in its select only. Bytes are numbered in
the order of arrival, messages are sequences of them, and a consumed slot of the
queue holds the empty message. Whether `append` left spare capacity, which decides
on compaction, is left open. The refinement to `ByteStream` is the identity on
`arrived`, `got` and `closed`.

### BrowserClient

A dial (`DialStarts`) makes a socket with two handlers and waits for open, error or
cancellation; `Return*` are the three ways out, each releasing the handlers and, but for
success, closing the socket. The browser's events go on after the dial has returned, for
abandoned sockets too. A goroutine that has been woken runs before the next event, because the
event loop gets control only when all goroutines are blocked.

### TunnelClient

Go maps and slices are references: `heap` holds the contents per owner (caller, options,
dialer) and a configuration names an owner. `DialContext` applies options in order
(`ApplyOptions`, the loop's state after each option as a function of its position),
`DialConfig` takes a TunnelConfig, `DialOption` is the one of `pkg/bridge`; each runs the
checks of its build, normalises the target and makes the dialer, and `Attempt` is a connection
attempt of gRPC, which calls that dialer again and again. `CallerWrites` is the caller using its maps
for something else. A target is a scheme, a host and a path. The checks of reconnect and
keepalive policies are a valid and an invalid policy.

### BridgeSetup

Builders call the two constructors or `ListenAndServeTooling` at the same time. Options are applied
in order, so of those that set a field the last one decides (`BuildBridgeConfig`). Checks and
defaults are operators; the cache of write-buffer pools is taken in the steps of
`sync.Map` (`PoolLoad`, `PoolStore` for `LoadOrStore`), one cache per package. Tooling reads
which services there are (`ListenAndServeTooling`) and then registers what is missing, one `RegisterService` per
step (`ToolingRegisters`), so that another builder may read the list, or register, between any two of them. `pc` names the
service that comes next. `GetServiceInfo`, `RegisterService` and `reflection.Register`, which registers v1alpha and then
v1, are grpc-go's and external; a service that is already there, or a server that serves, ends the
process (`fatal`).

### ForwardMetadata

`ServeSession` fixes the forward set from the headers and span of the upgrade request,
`ServeRPC` fills in what a tunneled request lacks, `HandlerWrites` is a handler that writes into the values
it was given. `shared` names slices that belong to the session; the code copies, so it stays
empty but in a mutant.

### TodoStore

The two programs differ in `loadTodos` only (`StartDirectBridge`, `StartGrpcServer`). Handlers hold the
write lock to their end and are one step; the worker's steps are the places where handlers
come between: token, debounce, snapshot under the read lock, truncation, write. `Crash` may
come at every one of them, and `SaveFails` before or after the truncation. Starting is one step.

## Runs

| Run | Result | Checks |
|---|---|---|
| `guard` | passes | five requests of two client keys, a global cap of three and a per-client cap of two, a budget of one, instants late by up to a tick, into a third window: `SlotAccounting`, `CapsRespected`, `SlidingRateBound`, `RetryAfterHonest`, `WindowMapSwept`, `BudgetNeverReset` |
| `session` | passes | two sessions at a time, in all three modes: `AccountsCoverSessions`, `DisconnectAtTrueEnd`, `NothingLeftBehind`, and the liveness of `DeadSessionEnds` (a dead socket or an expired lifetime ends the session) and `StopEndsSessions` |
| `keepalive` | passes | `SilentPeerReclaimed`, `LivePeerKept`, `GoroutineEnds` |
| `keepalive_reclaim` | violated | `ReclaimedWithinIdleTimeout`: a dead peer outlives `IdleTimeout` when the goroutine is blocked in a ping behind a stuck write |
| `keepalive_activity` | violated | `IdleMeansSilent`: data does not count as activity, only pongs do |
| `browser_client` | passes | two dials and the connection of the one that opens: `NoOrphanSocket`, `NoReleasedHandler`, `QueueBounded`, the refinement `IsByteStream`, and the liveness of `DialReturns`, `EverythingIsRead`, `CloseReachesReader` |
| `wsconn` | passes | two writers, two setters, both packages: `WritePathExclusive` (grpctunnel), `TornFrameIsLast`, `SetterReturns`, `BlockedWriteInterrupted`, `CloseFreesWriters` |
| `frame_reader` | passes | three messages, empty, text or broken off, both packages: the refinement `IsByteStream`, `EndMeansClosed`, and the liveness of `EverythingIsRead`, `LossEndsRead` |
| `wsconn_kick` | violated | `InFlightWriteInterrupted`: a past deadline set while the writer is before its flush, or between two frames, is overwritten by that flush |
| `wsconn_bridge_race` | violated | `EveryAdapterExclusive`: in `pkg/bridge`, SetWriteDeadline enters gorilla beside a write |
| `todo_store` | passes | `DirtyIsScheduled`, `FileIsOneInstant`, and the liveness of `StoreReachesFile`, with failed saves, a kill and a restart |
| `tunnel_setup` | passes | client: `HandshakeAsDialed`, `CallerMapsUntouched`, `TargetsNormalised`; servers: `HandlerSettingsSound`, `OnePoolPerSize`, `ToolingRegistersOnce`; metadata: `RPCSeesItsSession` |

The violated properties state what the repository's comments and docs say; the
findings in `PROJECT.json` quote the lines.

### Bounds

- Guard: three requests of one host and two whose address cannot be read and who share
  the key "unknown". With a global cap of three and a per-client cap of two each cap refuses where the
  other would not: the third of one host with two slots taken, and the fourth of all while its client
  holds one. A client's count goes to two and back. Three requests of a client fill a budget of
  one in three windows, and the other client's make the sweeps that meet its windows. `MaxTime = 6`
  reaches the third window. A window of three ticks has an inside and both of its edges, and
  `Second = 2` does not divide 3, so Retry-After really rounds. Every connection comes from a port
  of its own, so requests of one client are interchangeable, hence the symmetry set. The run is the guard of grpctunnel
  (`SweepsWindows = TRUE`); that of `pkg/bridge`, without the sweep, is covered by the proofs.
- Session: both sessions may run at once; a refusal at the cap and one by the client's
  own limits have the same effect and `Reserve` allows it in any state.
- Keepalive: a ping every 2 ticks and an idle timeout of 6, stalls of 1 and round
  trips of 2 leave exactly one spare tick; 14 ticks hold two idle windows.
- Browser: four queued messages and four bytes, messages of 0, 1, 2 and 5 bytes (5
  can never fit), reads of 1 and 2 bytes, five messages: both limits overflow, and tails are kept. A consumed
  slot is kept while it is less than half of the queue, which takes four slots: the queue is met full with such a
  head, and is compacted both in Read and on arrival. With two dials, one may be abandoned with
  events still to come while the other connects.
- Websocket: messages of up to two frames, which gives the gap between frames.
- Frames: three messages of 0, 1 or 3 bytes and reads of 1 and 2 give short reads,
  an empty message between two others, and a message that ends exactly with a read.
- Todo: three mutations let one come during each phase of a save that another caused; three ids,
  one of them only in a seed file that holds it twice beside an entry without id; one kill.
- Setup: up to two options of a client, which gives every pair in both orders, two attempts and one
  change of the caller's map between them; two builders, one with any option or any two of the
  coupled ones, so that one registers reflection and health while the other registers either; two RPCs of a session with every set of headers and spans. The three parts share no
  state, so a behaviour takes steps of one of them only.

`CHECK_DEADLOCK FALSE` stands where the system may stop: requests all answered,
sessions all ended, dials used up, mutations or attempts at their bound, everything built, or
the clock at its bound. In `wsconn` and `frame_reader` deadlock is checked.

### Fairness

- Session: goroutines are scheduled, timers and tickers fire, hooks return
  (`WF` on the handler's own steps, the keepalive and lifetime actions and the
  listener). `ServeConn` and a transport are obliged to end only on a dead socket, or
  after Stop; a healthy session may last for ever, Stop may never come, and a peer
  need not go away. The keepalive goroutine is obliged to close only when the
  peer is not there; `Keepalive` shows when it does so.
- Browser and frames: the transport keeps calling Read. Messages, errors and close are not fair. A dial that
  has been woken returns, and the browser reports how a handshake ends; nobody has to cancel.
- Todo: the worker is scheduled and its timer fires. Programs need not be started, nor RPCs come. Under
  `WF` on the worker as a whole, saves may still fail for ever.
- Websocket: goroutines run, Close finishes, a `sync.Mutex` starves no waiter (`SF`
  on taking `deadlineMu`). Nothing makes the peer drain a write.
- The guard and keepalive need none: their properties are safety, with time
  explicit. Neither does the setup, whose steps end.

## Proofs

Every theorem below is from the specification of its component and holds for every value
of the constants that the module's assumptions allow. Each rests on an inductive invariant,
because the property alone speaks of too little state to be kept by a step.

| Module | Theorem | Statement |
|---|---|---|
| `AbuseGuardProofs` | `TypeCorrect` | `Spec => []TypeOK` |
| | `SlotAccountingCorrect` | `Spec => []SlotAccounting` |
| | `CapsHold` | `Spec => []CapsRespected` |
| | `RetryAfterIsHonest` | `Spec => []RetryAfterHonest` |
| | `BudgetIsNeverReset` | `Spec => BudgetNeverReset` |
| | `WindowMapIsSwept` | `Spec => []WindowMapSwept` |
| | `RateIsBounded` | `Spec => []SlidingRateBound` |
| | `GuardIsSlotPool` | `Spec => Pool!Spec` |
| `BridgeSessionProofs` | `AccountsAlwaysCover` | `Spec => []AccountsCoverSessions` |
| | `DisconnectOnlyAtTrueEnd` | `Spec => []DisconnectAtTrueEnd` |
| | `NothingIsLeftBehind` | `Spec => []NothingLeftBehind` |
| | `SessionsUseSlotPool` | `Spec => Pool!Spec` |
| | `NoHandlerIsStranded` | `Spec => []NobodyStranded` |
| | `HandlersOnlyAdvance` | `Spec => [][HandlerAdvances]_vars` |
| `KeepaliveProofs` | `LivePeerIsKept` | `Spec => []LivePeerKept` |
| | `SilentPeerIsReclaimed` | `Spec => []SilentPeerReclaimed` |
| | `GoroutineDoesNotLeak` | `Spec => []GoroutineEnds` |
| `WebSocketConnProofs` | `OneInTheWritePath` | `Spec => []WritePathExclusive` |
| | `TornFrameStaysLast` | `Spec => []TornFrameIsLast` |
| | `InterruptionIsFinal` | `Spec => []InterruptedMustFail` |
| | `SettersNeverHoldUp` | `Spec => []SettersHoldBriefly` |
| `FrameReaderProofs` | `EndOnlyAfterClose` | `Spec => []EndMeansClosed` |
| | `ReaderIsByteStream` | `Spec => IsByteStream` |
| | `FailuresComeLast` | `Spec => []FailureComesLast` |
| `BrowserClientProofs` | `NoSocketIsLeftBehind` | `ClientSpec => []NoOrphanSocket` |
| | `NoHandlerIsLeftBehind` | `ClientSpec => []NoReleasedHandler` |
| | `QueueStaysBounded` | `ClientSpec => []QueueBounded` |
| | `ConnIsByteStream` | `ClientSpec => IsByteStream` |
| | `WaitingDialIsHeard` | `ClientSpec => [](WaitsForHandshake /\ WokenByTheEvent)` |
| | `NoWakeUpIsLost` | `ClientSpec => []BlockedReadHasNothing` |
| `TunnelSetupProofs` | `ReconnectsRepeatTheDial` | `TunnelSpec => []HandshakeAsDialed` |
| | `CallersMapsAreUntouched` | `TunnelSpec => []CallerMapsUntouched` |
| | `TargetsAreNormalised` | `TunnelSpec => []TargetsNormalised` |
| | `HandlersAreSound` | `SetupSpec => []HandlerSettingsSound` |
| | `PoolsAreShared` | `SetupSpec => []OnePoolPerSize` |
| | `ToolingIsRepeatable` | `SetupSpec => []ToolingRegistersOnce` |
| | `RPCsSeeTheirSession` | `ForwardSpec => []RPCSeesItsSession` |
| `TodoStoreProofs` | `DirtyStaysScheduled` | `Spec => []DirtyIsScheduled` |
| | `FileIsAlwaysOneInstant` | `Spec => []FileIsOneInstant` |

### The guard

The assumptions are those of `AbuseGuard`: a finite set of requests, addresses
with a host and a port, limits that pass `GetBridgeConfigError`, a positive window and
second. Both packages are covered.

- Slots: `SlotInv` is `TypeOK`, `SlotAccounting` and the caps on the counters.
  `SlotAccounting` alone is inductive given types; the caps on the counters need it
  to turn counters into cardinalities of holders, and `CapsRespected` follows because
  two addresses with one host have one key.
- Pool: `GuardIsSlotPool` maps the pool's `held` to the requests that hold a slot. `SlotInv` makes the counter their number, so
  the guard's test against the cap is the pool's.
- Retry-After: `RetryAfterHonest` says nothing of windows that are still stored, so it is not
  inductive. `RefusalFacts` adds that a client's stored window never starts before a window that
  once refused it, and that every refusal was made inside the window it names.
- Budget: `Stamped` and `Prompt` say that a waiting request's instant is not in the future and how old it may be; with the
  window starts bounded by the clock, "old by the request's instant" implies "old by the clock".
- Sweep: `SweepFacts` relates `lastSweep` to the instants already checked and to the
  starts of the windows that survive.
- Sliding rate: the code forgets to which window a request was charged, so `RateInv` says that
  there is a function `of` from requests to window starts such that a request is charged while its window runs or
  a lock delay later, the request that opened a window is charged to it, two windows of a client
  are a window (less a lock delay) apart, no window exceeds its budget, and the stored window
  is the client's latest with an exact count (`RateFacts`). A charge extends `of` by one request; a
  sweep takes away only windows that are over. The bound is then a count (`RateFactsBound`): an interval as long as
  a window meets at most three windows, two without a lock delay, and if it meets that many it
  misses the opener of the first. A lock delay of a third of a window is what rules out a fourth.

### Sessions

`SessionInv` ties the handler's place to the number of pending deferred calls (`StackMatches`), each thing that is
open, connected, armed or running to the call that ends it (`CallsOwed`), and gRPC's use of a session to the handler
that waits for it (`HandedOver`); `Counted` makes slots and gauge the cardinalities of the
handlers at a certain depth. It needs a finite set of sessions; the three modes differ in the order of the
deferred calls only, so levels of the stack are named once for both orders.

The same invariant shows that the handlers use the guard as a `SlotPool`: whoever has the release pending holds a slot, and only
`Reserve` and the deferred clear cross that level of the stack (`SessionsUseSlotPool`). With `GuardIsSlotPool`
the two models meet in one interface: a session asks for a slot as the guard gives it, and gives it back as the guard
takes it.

What `StopEndsSessions` and `DeadSessionEnds` rest on is proved in two parts. `NoHandlerIsStranded`: a handler that waits for the listener has a
Serve loop that will accept or a closed listener, and one that waits for `session.done` has gRPC at work on its session or the
channel closed; `WakersInv` adds that a Serve loop that has left closed its listener and a closed transport its
channel. `HandlersOnlyAdvance`: `StepsLeft` counts down, from 17, with every step that moves a handler.

### Keepalive

`KeepaliveInv` bounds every timer by the last pong (`Timers`), says that a blocked ping was due
before the idle timer and ends with the next tick (`PingsInTurn`, `WatchdogInTime`), and that in
every idle window a pong is on its way or its ping still comes in time (`PongExpected`). The proof of
`SilentPeerReclaimed` failed at first, for a good reason: when a data write may stall longer than a ping waits, the
tick after a blocked ping is due together with the idle timer, the select may take the tick, and
the socket lives on for another ping. TLC confirms it with longer stalls; the property now says "stalls
shorter than a ping".

### Connections

- `WebSocketConn`: `LockInv` says who holds `writeMu` at which step, and that gorilla remembers
  a write that was cut. The set of threads is arbitrary; the deadline setters of `pkg/bridge`, which take no lock, are the
  violated run's. `InterruptionIsFinal` and `SettersNeverHoldUp` rest on it too: while a writer is blocked
  in the socket it has `writeMu`, so no other flush copies a field over the deadline that is to interrupt it.
- `FrameReader` and `BrowserConn` implement `ByteStream`. In both, what Read returned, what it keeps of a
  message, and what is still queued are consecutive runs of the numbered bytes that end with the last one that came
  (`InOrder`, with `Lined` for a queue of messages). Every step cuts one run and lengthens
  the one before it, which maps to a step of the stream or a stutter. `Lined` is stated through the boundaries between messages,
  so that no induction over the queue is needed. Nothing is assumed about sizes and limits but that limits and
  reads are positive. In `FrameReader` `closed` maps to `told`; `ToldIsIdle` says that no Read gets past the closed
  check again after it. `FailuresComeLast` adds that only the last message can be cut (`LossInv`), so gorilla's
  sticky error is behind every byte that came.
- `BrowserClient`: `DialInv` adds that the attempt under way has a socket that is connecting, with both
  handlers, unless an event has already woken it; `WaitingDialIsHeard` states that part by itself. The connection is proved inside the
  composed specification. `NoWakeUpIsLost` needs that a reader past its first check has no tail, and that the flag and the
  browser's socket agree (`WakeInv`).

### Setup

- `ReconnectsRepeatTheDial`: `HandshakeFixed` says that the map and slice a connection presents are the dialer's own copy
  or another that the caller cannot reach, and that the attempts so far repeat what was dialed. It holds for whatever
  configuration a list of options yields, so the list itself is never opened.
- `CallersMapsAreUntouched` does open it: an option writes to the options' own entry of the heap only, so after any number of
  them the caller's entry is as it was (`OptionKeeps`, `OptionsKeep`). The induction over the list goes by a least counterexample: positions
  are well-founded, so if some option wrote to the caller's map a first one did (`SmallestIndex`), and that one started from a
  good state. `OptionsApply` shows that the recursive function in `ApplyOptions` exists.
- `HandlersAreSound`: an arbitrary list of options (`OptionListsAssumption` gives their type only). The
  value of a field is that of the last option that sets it, which exists because the
  positions of a sequence are well-founded (`LastIndex`). `SettingsChecked` follows the configuration through the checks and
  defaults of each package, in their order.
- `PoolsAreShared`: `PoolsApart` says that a cached pool is in one place of one cache and any other
  pool is its handler's alone. `ToolingIsRepeatable`: `ServicesAccounted` says that what a goroutine
  found or registered is still there, and that every service that is there it has found, or some goroutine has
  registered it. A goroutine that meets the service it is about to register did not find it, unless it is v1
  beside a missing v1alpha; so another goroutine registered it, and both had set out for it (`FatalExplained`).
- `RPCsSeeTheirSession`: the forward set of a session is a function of its upgrade request and what each
  RPC saw is that set under its own headers. `BlankAssumption` says that no header value is the
  empty one.
- In the run `tunnel_setup` a behaviour takes the steps of one of the three parts and leaves the others alone, hence is
  a behaviour of that part's specification.

### Todo service

- `DirtyIsScheduled` is inductive as it stands: it accounts for each place of the worker. `HandlersMutate` and
  `StartLoads` say what the handlers, and a start, do to the worker's state; no types are needed,
  and of the assumptions none.
- `FileIsOneInstant` is about the file; `InstantInv` adds that the list of a running process and the
  snapshot of a save under way are lists that existed, which is what updating a todo in place
  would break.

### Only model-checked

Liveness under fairness is outside the prover, so these are TLC's: `DeadSessionEnds`, `StopEndsSessions`,
`EverythingIsRead`, `CloseReachesReader`, `DialReturns`, `SetterReturns`, `BlockedWriteInterrupted`,
`CloseFreesWriters`, `LossEndsRead`, `StoreReachesFile`. Of most the safety half is proved, that is, that whoever waits
is owed a step by somebody who can take it, and that nothing undoes the progress made:

| Liveness | Proved for every instance |
|---|---|
| `DeadSessionEnds`, `StopEndsSessions` | `NoHandlerIsStranded`, `HandlersOnlyAdvance` |
| `DialReturns` | `WaitingDialIsHeard` |
| `EverythingIsRead`, `CloseReachesReader` (browser) | `NoWakeUpIsLost` |
| `EverythingIsRead` (frames) | `FailuresComeLast` |
| `SetterReturns`, `BlockedWriteInterrupted` | `SettersNeverHoldUp`, `InterruptionIsFinal` |
| `StoreReachesFile` | `DirtyStaysScheduled` |

What remains to TLC there is the scheduling: that the step that is owed is taken.

## Not modelled

- Observability and logging are output; the gauge of active connections is in
  `BridgeSession`, the request id in `ForwardMetadata`.
- The origin allowlist (`api.go:149-200`) compares strings. The reconnect and keepalive policies
  (`api.go:247-303`) are numbers handed to gRPC, whose backoff is not part of the repository.
- The pool of copy buffers and `httputil.ReverseProxy` in `pkg/bridge`; the wrappers
  that put a handler into a mux or an `http.Server`; the pprof routes of the tooling: no state of their own.
- `SetReadDeadline` of the adapters and `Write` of the browser connection are calls into
  gorilla and the browser.
- The other examples call the library; `_shared/helpers` holds earlier forms of the two
  handlers. Generated protocol code, repository tools (sequential scripts around the go tool), tests and benchmarks.

## Observations

Met while modelling, without a run of their own:

- `api.go:133` says of MinConnectTimeout "Zero uses gRPC defaults". With a reconnect policy
  the zero is passed on in `ConnectParams`, where gRPC applies no default of its own.
- The wasm build keeps the caller's subprotocols slice (`client_wasm.go:289`), where the native build copies it;
  `HandshakeAsDialed` leaves that case out.
- `ensureToolingServices` looks for the v1alpha reflection service only (`tooling.go:101`). On a server that has v1
  reflection alone it registers v1 again and grpc-go ends the process, against "when absent" in `api.go:139` and
  `tooling.go:98`. Nor is it atomic: of two goroutines that set out for the same service the second ends the process,
  even if their lists differ (one has registered reflection when the other reads, and both add health). `ToolingRegistersOnce`
  names these two situations and the third, a server that serves already. The model takes a call to
  `GetServiceInfo` or `RegisterService` as one step; it says nothing of data races inside grpc-go.
- A reconnect Multiplier between 0 and 1 passes the checks, and makes the backoff shrink.
- In the todo service, mutations that keep coming faster than the debounce postpone the save
  for ever, and a failed save is repeated only by the next mutation.

## Plan

Written so far, in this order: `AbuseGuard` and its proofs, `BridgeSession`,
`Keepalive`, `BrowserConn` over `ByteStream`, `WebSocketConn`, `FrameReader`, then `BrowserClient`, `TodoStore`
and its proofs, `TunnelClient`, `BridgeSetup`, `ForwardMetadata`, the proxy mode of
`BridgeSession`, and then the proofs of `WebSocketConn`, `BridgeSession`, `BrowserClient`,
`FrameReader`, `Keepalive`, the three modules of the setup, the sliding rate of the guard, the caller's maps
under any list of options, `SlotPool` with its two refinements, and the safety halves of liveness. What could follow:

1. The keepalive of `Keepalive` as an abstract watchdog that `BridgeSession` instantiates, as `SlotPool` now is
   for the guard.
2. Shorter proofs: the facts on runs of bytes that `FrameReaderProofs` and `BrowserClientProofs` both need
   could be stated once.
