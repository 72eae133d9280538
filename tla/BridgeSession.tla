---------------------------- MODULE BridgeSession ----------------------------
(***************************************************************************)
(* The life of one tunneled session on the server: the upgrade handler of  *)
(* BuildBridgeHandler with its stack of deferred calls, the keepalive      *)
(* goroutine, the session lifetime timer, and, in native mode, the         *)
(* listener that hands the session to grpc.Server.Serve and the            *)
(* close-notifying connection on which the handler waits                   *)
(* (pkg/grpctunnel/server.go, server_native.go); and the handler of the    *)
(* reverse proxy, ServeHTTP of pkg/bridge/bridge.go, which has no          *)
(* authorization, gauge, lifetime or native mode.                          *)
(*                                                                         *)
(* What runs outside the package is modelled from how the package uses it: *)
(* the websocket, which anyone may close and whose peer may go away with   *)
(* or without the host noticing; golang.org/x/net/http2's ServeConn; and   *)
(* grpc.Server: its Serve loop, its transports and Stop.                   *)
(***************************************************************************)
EXTENDS Integers, Sequences, FiniteSets

CONSTANTS
    Sessions,           \* upgrade requests, one handler goroutine each
    MaxActive,          \* MaxActiveConnections
    KeepaliveOn,        \* PingInterval > 0 or IdleTimeout > 0
    LifetimeOn          \* SessionMaxLifetime > 0

ASSUME SessionsFinite == IsFiniteSet(Sessions)
ASSUME ConfigAssumption ==
    /\ MaxActive \in Nat \ {0}
    /\ KeepaliveOn \in BOOLEAN
    /\ LifetimeOn \in BOOLEAN

VARIABLES
    pc,         \* where the handler of each session is
    depth,      \* how many deferred calls it has pending
    slots,      \* slots reserved in the abuse guard
    gauge,      \* the active-connections metric
    sock,       \* the websocket
    hook,       \* which lifecycle hooks have run
    keepalive,  \* the keepalive goroutine
    stop,       \* its stopChannel is closed
    timer,      \* the lifetime timer and its callback
    xport,      \* what gRPC does with the session (native mode)
    done,       \* session.done is closed
    listener,   \* the bridgeConnListener: "open", "closed"
    serveLoop,  \* grpcServer.Serve(nativeListener); "none" without native mode,
                \* "proxy" for the handler of pkg/bridge
    quit        \* grpcServer.Stop has been called

handlerVars == <<pc, depth>>
countVars   == <<slots, gauge>>
kaVars      == <<keepalive, stop>>
xportVars   == <<xport, done>>
serverVars  == <<listener, serveLoop, quit>>
vars == <<handlerVars, countVars, sock, hook, kaVars, timer, xportVars, serverVars>>

Proxy == serveLoop = "proxy"
Native == serveLoop \notin {"none", "proxy"}      \* ShouldUseNativeGRPCTransport

\* The deferred calls in the order of the handler's defer statements; a
\* handler's stack is always the first depth[s] of them.
DeferOrderSlotLate ==
    IF Proxy THEN <<"wsClose", "clear", "stopKeepalive", "onDisconnect", "connClose">>
    ELSE <<"gauge", "wsClose", "stopKeepalive", "onDisconnect", "connClose", "clear", "stopTimer">>
DeferOrderHookLate ==
    IF Proxy THEN <<"clear", "wsClose", "stopKeepalive", "connClose", "onDisconnect">>
    ELSE <<"clear", "gauge", "wsClose", "stopKeepalive", "connClose", "onDisconnect", "stopTimer">>
DeferOrder ==
    IF Proxy THEN <<"clear", "wsClose", "stopKeepalive", "onDisconnect", "connClose">>
    ELSE <<"clear", "gauge", "wsClose", "stopKeepalive", "onDisconnect", "connClose", "stopTimer">>

Alive == {"open", "silent", "reset"}    \* not closed on this side

Init ==
    /\ serveLoop \in {"starting", "none", "proxy"}
    /\ pc = [s \in Sessions |-> IF Proxy THEN "initErr" ELSE "authorize"]
    /\ depth = [s \in Sessions |-> 0]
    /\ slots = 0
    /\ gauge = 0
    /\ sock = [s \in Sessions |-> "none"]
    /\ hook = [s \in Sessions |-> "none"]
    /\ keepalive = [s \in Sessions |-> "off"]
    /\ stop = [s \in Sessions |-> FALSE]
    /\ timer = [s \in Sessions |-> "off"]
    /\ xport = [s \in Sessions |-> "none"]
    /\ done = [s \in Sessions |-> FALSE]
    /\ listener = "open"
    /\ quit = FALSE

-----------------------------------------------------------------------------
(***************************************************************************)
(* The upgrade handler.  A return, or a panic, starts the unwinding.       *)
(***************************************************************************)
At(s, here) == pc[s] = here
Goto(s, there) == pc' = [pc EXCEPT ![s] = there]
Defer(s, n) == depth' = [depth EXCEPT ![s] = @ + n]
Return(s) == Goto(s, "unwind") /\ UNCHANGED depth

\* cfg.Authorize lets the request in, or refuses it (403) or panics.
Authorize(s) ==
    /\ At(s, "authorize")
    /\ \/ Goto(s, "reserve") /\ UNCHANGED depth
       \/ Return(s)
    /\ UNCHANGED <<countVars, sock, hook, kaVars, timer, xportVars, serverVars>>

\* The same place in pkg/bridge: a handler made from a bad configuration
\* answers 500.
CheckInitErr(s) ==
    /\ At(s, "initErr")
    /\ \/ Goto(s, "reserve") /\ UNCHANGED depth
       \/ Return(s)
    /\ UNCHANGED <<countVars, sock, hook, kaVars, timer, xportVars, serverVars>>

\* reserveBridgeConnection, reserveHandlerConnection: a slot and its deferred
\* release; or 429, which the client's own limits may demand below the cap.
Reserve(s) ==
    /\ At(s, "reserve")
    /\ \/ /\ slots < MaxActive
          /\ slots' = slots + 1
          /\ Goto(s, "upgrade") /\ Defer(s, 1)
       \/ Return(s) /\ UNCHANGED slots
    /\ UNCHANGED <<gauge, sock, hook, kaVars, timer, xportVars, serverVars>>

\* upgrader.Upgrade; on success the gauge is raised and lowering it deferred,
\* and ws.Close is deferred.
Upgrade(s) ==
    /\ At(s, "upgrade")
    /\ \/ /\ sock' = [sock EXCEPT ![s] = "open"]
          /\ gauge' = IF Proxy THEN gauge ELSE gauge + 1
          /\ Goto(s, "settings") /\ Defer(s, IF Proxy THEN 1 ELSE 2)
       \/ Return(s) /\ UNCHANGED <<sock, gauge>>
    /\ UNCHANGED <<slots, hook, kaVars, timer, xportVars, serverVars>>

\* applyBridgeConnectionSettings: starts the keepalive goroutine, or fails
\* to set the read deadline.
ApplySettings(s) ==
    /\ At(s, "settings")
    /\ \/ /\ keepalive' = [keepalive EXCEPT ![s] = IF KeepaliveOn THEN "running" ELSE "off"]
          /\ Goto(s, "onConnect") /\ Defer(s, 1)
       \/ /\ KeepaliveOn
          /\ Return(s) /\ UNCHANGED keepalive
    /\ UNCHANGED <<countVars, sock, hook, stop, timer, xportVars, serverVars>>

\* cfg.OnConnect returns and OnDisconnect is deferred, or it panics.
OnConnect(s) ==
    /\ At(s, "onConnect")
    /\ \/ /\ hook' = [hook EXCEPT ![s] = "connected"]
          /\ Goto(s, "wrap") /\ Defer(s, 1)
       \/ Return(s) /\ UNCHANGED hook
    /\ UNCHANGED <<countVars, sock, kaVars, timer, xportVars, serverVars>>

\* newWebSocketConn with its deferred Close, and the lifetime timer with its Stop.
HasLifetime == LifetimeOn /\ ~Proxy
WrapConn(s) ==
    /\ At(s, "wrap")
    /\ timer' = [timer EXCEPT ![s] = IF HasLifetime THEN "armed" ELSE "off"]
    /\ Goto(s, IF Native THEN "deliver" ELSE "serve")
    /\ Defer(s, IF HasLifetime THEN 2 ELSE 1)
    /\ UNCHANGED <<countVars, sock, hook, kaVars, xportVars, serverVars>>

\* deliver meets Accept on the unbuffered channel; Serve hands the connection
\* to a goroutine of its own.  Both selects may still choose this after Close.
Deliver(s) ==
    /\ At(s, "deliver")
    /\ serveLoop = "accepting"
    /\ xport' = [xport EXCEPT ![s] = "accepted"]
    /\ Goto(s, "waitDone")
    /\ UNCHANGED <<depth, countVars, sock, hook, kaVars, timer, done, serverVars>>

\* deliver's other case: the listener is closed and the session is rejected.
DeliverRejected(s) ==
    /\ At(s, "deliver")
    /\ listener = "closed"
    /\ Return(s)
    /\ UNCHANGED <<countVars, sock, hook, kaVars, timer, xportVars, serverVars>>

\* <-session.done
AwaitDone(s) ==
    /\ At(s, "waitDone")
    /\ done[s]
    /\ Return(s)
    /\ UNCHANGED <<countVars, sock, hook, kaVars, timer, xportVars, serverVars>>

\* http2Server.ServeConn ends, because the socket is dead or because HTTP/2
\* is over, and closes the connection.
ServeConn(s) ==
    /\ At(s, "serve")
    /\ sock' = [sock EXCEPT ![s] = "closed"]
    /\ Return(s)
    /\ UNCHANGED <<countVars, hook, kaVars, timer, xportVars, serverVars>>

-----------------------------------------------------------------------------
(***************************************************************************)
(* The deferred calls, last one first.                                     *)
(***************************************************************************)
Pop(s, call) ==
    /\ At(s, "unwind")
    /\ depth[s] > 0
    /\ DeferOrder[depth[s]] = call
    /\ depth' = [depth EXCEPT ![s] = @ - 1]
    /\ UNCHANGED pc

\* lifetimeTimer.Stop does not wait for a callback that has already started.
DeferStopTimer(s) ==
    /\ Pop(s, "stopTimer")
    /\ timer' = [timer EXCEPT ![s] = IF @ = "armed" THEN "stopped" ELSE @]
    /\ UNCHANGED <<countVars, sock, hook, kaVars, xportVars, serverVars>>

DeferConnClose(s) ==
    /\ Pop(s, "connClose")
    /\ sock' = [sock EXCEPT ![s] = "closed"]
    /\ UNCHANGED <<countVars, hook, kaVars, timer, xportVars, serverVars>>

DeferOnDisconnect(s) ==
    /\ Pop(s, "onDisconnect")
    /\ hook' = [hook EXCEPT ![s] = "disconnected"]
    /\ UNCHANGED <<countVars, sock, kaVars, timer, xportVars, serverVars>>

DeferStopKeepaliveMissing(s) ==
    /\ Pop(s, "stopKeepalive")
    /\ UNCHANGED <<countVars, sock, hook, kaVars, timer, xportVars, serverVars>>
DeferStopKeepalive(s) ==
    /\ Pop(s, "stopKeepalive")
    /\ stop' = [stop EXCEPT ![s] = TRUE]
    /\ UNCHANGED <<countVars, sock, hook, keepalive, timer, xportVars, serverVars>>

DeferWsClose(s) ==
    /\ Pop(s, "wsClose")
    /\ sock' = [sock EXCEPT ![s] = "closed"]
    /\ UNCHANGED <<countVars, hook, kaVars, timer, xportVars, serverVars>>

DeferGauge(s) ==
    /\ Pop(s, "gauge")
    /\ gauge' = gauge - 1
    /\ UNCHANGED <<slots, sock, hook, kaVars, timer, xportVars, serverVars>>

DeferClear(s) ==
    /\ Pop(s, "clear")
    /\ slots' = slots - 1
    /\ UNCHANGED <<gauge, sock, hook, kaVars, timer, xportVars, serverVars>>

\* The stack is empty: the handler goroutine is gone.
HandlerExits(s) ==
    /\ At(s, "unwind") /\ depth[s] = 0
    /\ Goto(s, "gone")
    /\ UNCHANGED <<depth, countVars, sock, hook, kaVars, timer, xportVars, serverVars>>

-----------------------------------------------------------------------------
(***************************************************************************)
(* Keepalive goroutine and lifetime timer.                                 *)
(***************************************************************************)

\* A ping cannot be written in time, or no pong came within IdleTimeout: ws.Close.
\* It may hit a peer that is only slow; it has to hit one that is not there.
KeepaliveCloses(s) ==
    /\ keepalive[s] = "running"
    /\ sock' = [sock EXCEPT ![s] = "closed"]
    /\ keepalive' = [keepalive EXCEPT ![s] = "exited"]
    /\ UNCHANGED <<handlerVars, countVars, hook, stop, timer, xportVars, serverVars>>

KeepaliveStops(s) ==
    /\ keepalive[s] = "running"
    /\ stop[s]
    /\ keepalive' = [keepalive EXCEPT ![s] = "exited"]
    /\ UNCHANGED <<handlerVars, countVars, sock, hook, stop, timer, xportVars, serverVars>>

\* The timer starts its callback in a goroutine, which closes the inner
\* connection: the handler and gRPC hold the outer one.
LifetimeFires(s) ==
    /\ timer[s] = "armed"
    /\ timer' = [timer EXCEPT ![s] = "fired"]
    /\ UNCHANGED <<handlerVars, countVars, sock, hook, kaVars, xportVars, serverVars>>

LifetimeNoClose(s) ==
    /\ timer[s] = "fired"
    /\ timer' = [timer EXCEPT ![s] = "closed"]
    /\ UNCHANGED <<handlerVars, countVars, sock, hook, kaVars, xportVars, serverVars>>
LifetimeCloses(s) ==
    /\ timer[s] = "fired"
    /\ timer' = [timer EXCEPT ![s] = "closed"]
    /\ sock' = [sock EXCEPT ![s] = "closed"]
    /\ UNCHANGED <<handlerVars, countVars, hook, kaVars, xportVars, serverVars>>

-----------------------------------------------------------------------------
(***************************************************************************)
(* The peer and gRPC (external).                                           *)
(***************************************************************************)

\* The peer closes or resets, or vanishes without a packet.
PeerGone(s) ==
    /\ sock[s] = "open"
    /\ \E how \in {"reset", "silent"} : sock' = [sock EXCEPT ![s] = how]
    /\ UNCHANGED <<handlerVars, countVars, hook, kaVars, timer, xportVars, serverVars>>

\* grpcServer.Serve registers the listener, or closes it when already stopped.
ServeStarts ==
    /\ serveLoop = "starting"
    /\ IF quit
       THEN serveLoop' = "exited" /\ listener' = "closed"
       ELSE serveLoop' = "accepting" /\ UNCHANGED listener
    /\ UNCHANGED <<handlerVars, countVars, sock, hook, kaVars, timer, xportVars, quit>>

\* Accept returns net.ErrClosed: the loop ends.
AcceptClosed ==
    /\ serveLoop = "accepting"
    /\ listener = "closed"
    /\ serveLoop' = "exited"
    /\ UNCHANGED <<handlerVars, countVars, sock, hook, kaVars, timer, xportVars, listener, quit>>

\* Stop fires quit and then closes the registered listener.
GrpcStop ==
    /\ Native /\ ~quit
    /\ quit' = TRUE
    /\ UNCHANGED <<handlerVars, countVars, sock, hook, kaVars, timer, xportVars, listener, serveLoop>>

CloseListener ==
    /\ quit /\ serveLoop = "accepting" /\ listener = "open"
    /\ listener' = "closed"
    /\ UNCHANGED <<handlerVars, countVars, sock, hook, kaVars, timer, xportVars, serveLoop, quit>>

\* The goroutine of an accepted connection sets up the transport, unless the
\* server has stopped or the handshake fails: then it closes the session.
TransportStarts(s) ==
    /\ xport[s] = "accepted"
    /\ ~quit
    /\ sock[s] # "closed"
    /\ xport' = [xport EXCEPT ![s] = "serving"]
    /\ UNCHANGED <<handlerVars, countVars, sock, hook, kaVars, timer, done, serverVars>>

\* notifyCloseConn.Close, first half: the inner connection.  A transport may
\* end at any time; on a dead socket or after Stop it has to.
SessionClose(s) ==
    /\ xport[s] \in {"accepted", "serving"}
    /\ xport' = [xport EXCEPT ![s] = "closing"]
    /\ sock' = [sock EXCEPT ![s] = "closed"]
    /\ UNCHANGED <<handlerVars, countVars, hook, kaVars, timer, done, serverVars>>

\* Second half: close(done), once.
SessionNotifyLost(s) ==
    /\ xport[s] = "closing"
    /\ xport' = [xport EXCEPT ![s] = "closed"]
    /\ UNCHANGED <<handlerVars, countVars, sock, hook, kaVars, timer, done, serverVars>>
SessionNotify(s) ==
    /\ xport[s] = "closing"
    /\ xport' = [xport EXCEPT ![s] = "closed"]
    /\ done' = [done EXCEPT ![s] = TRUE]
    /\ UNCHANGED <<handlerVars, countVars, sock, hook, kaVars, timer, serverVars>>

-----------------------------------------------------------------------------
Unwinding(s) ==
    \/ DeferStopTimer(s) \/ DeferConnClose(s) \/ DeferOnDisconnect(s)
    \/ DeferStopKeepalive(s) \/ DeferWsClose(s) \/ DeferGauge(s)
    \/ DeferClear(s) \/ HandlerExits(s)

Handler(s) ==
    \/ Authorize(s) \/ CheckInitErr(s) \/ Reserve(s) \/ Upgrade(s) \/ ApplySettings(s)
    \/ OnConnect(s) \/ WrapConn(s) \/ Deliver(s) \/ DeliverRejected(s)
    \/ AwaitDone(s) \/ ServeConn(s) \/ Unwinding(s)

Background(s) ==
    \/ KeepaliveCloses(s) \/ KeepaliveStops(s)
    \/ LifetimeFires(s) \/ LifetimeCloses(s)

Grpc(s) == TransportStarts(s) \/ SessionClose(s) \/ SessionNotify(s)

Next ==
    \/ \E s \in Sessions : Handler(s) \/ Background(s) \/ Grpc(s) \/ PeerGone(s)
    \/ ServeStarts \/ AcceptClosed \/ GrpcStop \/ CloseListener

Dead(s) == sock[s] \in {"reset", "closed"}

(***************************************************************************)
(* Goroutines are scheduled, tickers and timers fire, hooks return.  A     *)
(* session ends only when the program or the peer ends it: nothing forces  *)
(* ServeConn or a transport off a healthy socket, Stop is never forced,    *)
(* and neither is the peer's going away.                                   *)
(***************************************************************************)
Fairness ==
    /\ \A s \in Sessions :
        /\ WF_vars(Handler(s) /\ ~ServeConn(s))
        /\ WF_vars(ServeConn(s) /\ Dead(s))
        /\ WF_vars(KeepaliveCloses(s) /\ sock[s] # "open")
        /\ WF_vars(KeepaliveStops(s))
        /\ WF_vars(LifetimeFires(s))
        /\ WF_vars(LifetimeCloses(s))
        /\ WF_vars(TransportStarts(s))
        /\ WF_vars(SessionClose(s) /\ (Dead(s) \/ quit))
        /\ WF_vars(SessionNotify(s))
    /\ WF_vars(ServeStarts)
    /\ WF_vars(AcceptClosed)
    /\ WF_vars(CloseListener)

Spec == Init /\ [][Next]_vars /\ Fairness

-----------------------------------------------------------------------------
(***************************************************************************)
(* Properties.                                                             *)
(***************************************************************************)
Locations ==
    {"authorize", "initErr", "reserve", "upgrade", "settings", "onConnect", "wrap",
     "deliver", "waitDone", "serve", "unwind", "gone"}

\* Every variable has its type.
TypeOK ==
    /\ pc \in [Sessions -> Locations]
    /\ depth \in [Sessions -> 0 .. Len(DeferOrder)]
    /\ slots \in Nat
    /\ gauge \in Nat
    /\ sock \in [Sessions -> Alive \cup {"none", "closed"}]
    /\ hook \in [Sessions -> {"none", "connected", "disconnected"}]
    /\ keepalive \in [Sessions -> {"off", "running", "exited"}]
    /\ stop \in [Sessions -> BOOLEAN]
    /\ timer \in [Sessions -> {"off", "armed", "stopped", "fired", "closed"}]
    /\ xport \in [Sessions -> {"none", "accepted", "serving", "closing", "closed"}]
    /\ done \in [Sessions -> BOOLEAN]
    /\ listener \in {"open", "closed"}
    /\ serveLoop \in {"none", "proxy", "starting", "accepting", "exited"}
    /\ quit \in BOOLEAN

Pending(s, call) == \E i \in 1 .. depth[s] : DeferOrder[i] = call

InUse(s) == sock[s] \in Alive \/ xport[s] \in {"accepted", "serving", "closing"}

\* Slot and gauge belong to the session until its true end (the comment at
\* server.go:626-628): while the socket is open on this side or gRPC still
\* works on the session, its release is still to come.  So the open sockets
\* never outnumber the cap, not even while sessions are torn down.
AccountsCoverSessions ==
    /\ slots = Cardinality({s \in Sessions : Pending(s, "clear")})
    /\ slots <= MaxActive
    /\ gauge = Cardinality({s \in Sessions : Pending(s, "gauge")})
    /\ \A s \in Sessions : InUse(s) => Pending(s, "clear") /\ (Proxy \/ Pending(s, "gauge"))

\* OnDisconnect runs for every OnConnect that returned, whichever way the
\* handler ends, and only when the socket is closed and gRPC has let go.
DisconnectAtTrueEnd ==
    \A s \in Sessions :
        /\ pc[s] = "gone" => hook[s] # "connected"
        /\ hook[s] = "disconnected" => ~InUse(s)

\* A handler that is gone leaves nothing running on its own account: the
\* lifetime timer is disarmed and a keepalive goroutine has been told to stop.
NothingLeftBehind ==
    \A s \in Sessions : pc[s] = "gone" =>
        /\ timer[s] # "armed"
        /\ keepalive[s] = "running" => stop[s]
        /\ ~InUse(s)

\* A dead socket, a session beyond its lifetime or, with keepalive, a vanished
\* peer ends the handler, although the lifetime timer and the keepalive close
\* the inner connection only: nobody waits for session.done for ever.
DeadSessionEnds ==
    \A s \in Sessions :
        \/ Dead(s) \/ timer[s] = "fired"
        \/ sock[s] = "silent" /\ keepalive[s] # "off"
        ~> pc[s] = "gone"

\* Stop strands nobody: handlers on their way into the listener, in it, or
\* handed over in the same moment, all return.
StopEndsSessions ==
    \A s \in Sessions :
        quit /\ pc[s] \in {"deliver", "waitDone"} ~> pc[s] = "gone"
=============================================================================
