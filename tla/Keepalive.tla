------------------------------ MODULE Keepalive ------------------------------
(***************************************************************************)
(* Server keepalive of one session, on an explicit clock: the read         *)
(* deadline and pong handler that applyBridgeConnectionSettings installs,  *)
(* and the goroutine it starts, which pings and watches for pongs          *)
(* (pkg/grpctunnel/server.go:277-368).  Without the watchdog it is         *)
(* applyHandlerConnectionSettings of pkg/bridge, which pings but leaves    *)
(* the idle timeout to the read deadline alone.                            *)
(*                                                                         *)
(* A tick is long against scheduling: whatever is due at an instant        *)
(* happens in that instant, in any order.  The socket, the peer and the    *)
(* HTTP/2 transport are outside the package.                               *)
(***************************************************************************)
EXTENDS Integers

CONSTANTS
    PingInterval,
    IdleTimeout,
    RoundTrip,      \* bound: a live, answering peer's pong is back this soon
    Stall,          \* bound: a live peer leaves the send path stuck no longer
    PeerAnswers,    \* the peer's websocket answers pings
    MaxTime         \* bound: the last instant of the clock

ASSUME ConfigAssumption ==           \* what GetBridgeConfigError lets through
    /\ PingInterval \in Nat \ {0}
    /\ IdleTimeout \in Nat
    /\ PingInterval < IdleTimeout
ASSUME EnvironmentAssumption ==
    /\ RoundTrip \in Nat /\ Stall \in Nat
    /\ PeerAnswers \in BOOLEAN
    /\ MaxTime \in Nat

VARIABLES
    clock,
    sock,           \* "open", "closed"
    closedBy,       \* history: who closed it
    closedAt,       \* history: and when
    goroutine,      \* "select", "ping" (inside WriteControl), "exited"
    stopped,        \* stopChannel is closed
    pingDue,        \* the ticker's next tick, or one waiting in its channel
    pingUntil,      \* the deadline of the WriteControl under way
    idleDue,        \* when the idle timer fires; Never in pkg/bridge, which has none
    lastPong,
    readDeadline,   \* on the net.Conn; Never when there is none
    pongs,          \* pongs on their way: the instants they are due
    peer,           \* "live", "vanished"
    sendPath,       \* "free", or "stuck" in a write the peer does not drain
    stuckSince,     \* when it last got stuck
    lastHeard       \* history: the last data or pong frame of the client

sockVars      == <<sock, closedBy, closedAt>>
goroutineVars == <<goroutine, pingDue, pingUntil, idleDue>>
pathVars      == <<sendPath, stuckSince>>
peerVars      == <<pongs, peer, pathVars, lastHeard>>
vars == <<clock, sockVars, goroutineVars, stopped, lastPong, readDeadline, peerVars>>

Never == MaxTime + IdleTimeout + 1

HasWatchdog == idleDue # Never

\* buildBridgePingWriteTimeout for a valid configuration: the smaller one.
PingWriteTimeout == IF PingInterval > IdleTimeout THEN IdleTimeout ELSE PingInterval

\* applyBridgeConnectionSettings.
Init ==
    /\ clock = 0
    /\ sock = "open"
    /\ closedBy = "nobody"
    /\ closedAt = 0
    /\ goroutine = "select"
    /\ stopped = FALSE
    /\ pingDue = PingInterval
    /\ pingUntil = Never
    /\ idleDue \in {IdleTimeout, Never}
    /\ lastPong = 0
    /\ readDeadline = IdleTimeout
    /\ pongs = {}
    /\ peer = "live"
    /\ sendPath = "free"
    /\ stuckSince = 0
    /\ lastHeard = 0

CloseSocket(who) ==
    /\ sock' = "closed"
    /\ closedBy' = IF sock = "open" THEN who ELSE closedBy
    /\ closedAt' = IF sock = "open" THEN clock ELSE closedAt

-----------------------------------------------------------------------------
(***************************************************************************)
(* The goroutine: select on the ticker, the idle timer and stopChannel.    *)
(***************************************************************************)
NextTick == ((clock \div PingInterval) + 1) * PingInterval

\* A tick, and nothing in the way of the ping frame.
Ping ==
    /\ goroutine = "select" /\ pingDue <= clock
    /\ sock = "open" /\ sendPath = "free"
    /\ pingDue' = NextTick
    /\ pongs' = IF peer = "live" /\ PeerAnswers THEN pongs \cup {clock + RoundTrip} ELSE pongs
    /\ UNCHANGED <<clock, sockVars, goroutine, pingUntil, idleDue, stopped,
                   lastPong, readDeadline, peer, pathVars, lastHeard>>

\* A tick, but a data write holds the connection or the send buffer is full:
\* WriteControl waits, and the goroutine with it.
PingBlocks ==
    /\ goroutine = "select" /\ pingDue <= clock
    /\ sock = "open" /\ sendPath = "stuck"
    /\ goroutine' = "ping"
    /\ pingDue' = NextTick
    /\ pingUntil' = clock + PingWriteTimeout
    /\ UNCHANGED <<clock, sockVars, idleDue, stopped, lastPong, readDeadline, peerVars>>

\* The send path came free in time.
PingProceeds ==
    /\ goroutine = "ping"
    /\ sock = "open" /\ sendPath = "free"
    /\ goroutine' = "select"
    /\ pingUntil' = Never
    /\ pongs' = IF peer = "live" /\ PeerAnswers THEN pongs \cup {clock + RoundTrip} ELSE pongs
    /\ UNCHANGED <<clock, sockVars, pingDue, idleDue, stopped, lastPong,
                   readDeadline, peer, pathVars, lastHeard>>

\* WriteControl fails, by its deadline or on a closed socket: ws.Close, return.
PingFailsQuietly ==
    /\ \/ goroutine = "ping" /\ (pingUntil <= clock \/ sock = "closed")
       \/ goroutine = "select" /\ pingDue <= clock /\ sock = "closed"
    /\ goroutine' = "select"
    /\ pingDue' = NextTick
    /\ UNCHANGED <<clock, sockVars, pingUntil, idleDue, stopped, lastPong,
                   readDeadline, peerVars>>
PingFails ==
    /\ \/ goroutine = "ping" /\ (pingUntil <= clock \/ sock = "closed")
       \/ goroutine = "select" /\ pingDue <= clock /\ sock = "closed"
    /\ CloseSocket("ping")
    /\ goroutine' = "exited"
    /\ UNCHANGED <<clock, pingDue, pingUntil, idleDue, stopped, lastPong,
                   readDeadline, peerVars>>

\* The idle timer fires: close when no pong came for IdleTimeout, otherwise
\* set the timer for what remains.
IdleFiresFullReset ==
    /\ goroutine = "select" /\ idleDue <= clock
    /\ IF clock - lastPong >= IdleTimeout
       THEN CloseSocket("watchdog") /\ goroutine' = "exited" /\ UNCHANGED idleDue
       ELSE /\ idleDue' = clock + IdleTimeout
            /\ UNCHANGED <<sockVars, goroutine>>
    /\ UNCHANGED <<clock, pingDue, pingUntil, stopped, lastPong, readDeadline, peerVars>>
IdleFiresOnAnyTimer ==
    /\ goroutine = "select" /\ idleDue <= clock
    /\ CloseSocket("watchdog")
    /\ goroutine' = "exited"
    /\ UNCHANGED <<clock, pingDue, pingUntil, idleDue, stopped, lastPong, readDeadline, peerVars>>
IdleFires ==
    LET remaining == IdleTimeout - (clock - lastPong)
    IN  /\ goroutine = "select" /\ idleDue <= clock
        /\ IF remaining <= 0
           THEN CloseSocket("watchdog") /\ goroutine' = "exited" /\ UNCHANGED idleDue
           ELSE /\ idleDue' = clock + remaining
                /\ UNCHANGED <<sockVars, goroutine>>
        /\ UNCHANGED <<clock, pingDue, pingUntil, stopped, lastPong, readDeadline, peerVars>>

StopReceived ==
    /\ goroutine = "select" /\ stopped
    /\ goroutine' = "exited"
    /\ UNCHANGED <<clock, sockVars, pingDue, pingUntil, idleDue, stopped,
                   lastPong, readDeadline, peerVars>>

-----------------------------------------------------------------------------
(***************************************************************************)
(* The reader.                                                             *)
(***************************************************************************)

\* The pong handler: lastPong and a new read deadline.
PongArrives ==
    /\ sock = "open"
    /\ \E due \in pongs :
        /\ clock <= due
        /\ pongs' = pongs \ {due}
    /\ lastPong' = clock
    /\ readDeadline' = clock + IdleTimeout
    /\ lastHeard' = clock
    /\ UNCHANGED <<clock, sockVars, goroutineVars, stopped, peer, pathVars>>

\* A data frame: neither the deadline nor the watchdog hears of it.
DataArrives ==
    /\ sock = "open" /\ peer = "live"
    /\ lastHeard' = clock
    /\ UNCHANGED <<clock, sockVars, goroutineVars, stopped, lastPong,
                   readDeadline, pongs, peer, pathVars>>

\* The read deadline passes: the reading transport fails and closes.
ReadDeadlineExpires ==
    /\ sock = "open" /\ readDeadline <= clock
    /\ CloseSocket("deadline")
    /\ UNCHANGED <<clock, goroutineVars, stopped, lastPong, readDeadline, peerVars>>

\* The HTTP/2 transport takes the deadline off the connection (external).
TransportClearsDeadline ==
    /\ sock = "open"
    /\ readDeadline' = Never
    /\ UNCHANGED <<clock, sockVars, goroutineVars, stopped, lastPong, peerVars>>

-----------------------------------------------------------------------------
(***************************************************************************)
(* The world: time, the peer, and the end of the session (external).       *)
(***************************************************************************)
PeerVanishes ==
    /\ peer = "live"
    /\ peer' = "vanished"
    /\ pongs' = {}
    /\ UNCHANGED <<clock, sockVars, goroutineVars, stopped, lastPong,
                   readDeadline, pathVars, lastHeard>>

\* The peer does not drain what the server sends: a data write stays in the
\* socket and keeps gorilla's write lock, with no deadline of its own.  The
\* lock goes to waiters in turn, so a ping that waits is served next.
SendPathSticks ==
    /\ sock = "open" /\ sendPath = "free" /\ goroutine # "ping"
    /\ sendPath' = "stuck"
    /\ stuckSince' = clock
    /\ UNCHANGED <<clock, sockVars, goroutineVars, stopped, lastPong,
                   readDeadline, pongs, peer, lastHeard>>

SendPathClears ==
    /\ sendPath = "stuck" /\ (peer = "live" \/ sock = "closed")
    /\ sendPath' = "free"
    /\ UNCHANGED <<clock, sockVars, goroutineVars, stopped, lastPong,
                   readDeadline, pongs, peer, stuckSince, lastHeard>>

\* The session ends for another reason: the transport or a deferred Close.
SessionEnds ==
    /\ sock = "open"
    /\ CloseSocket("session")
    /\ UNCHANGED <<clock, goroutineVars, stopped, lastPong, readDeadline, peerVars>>

\* The stop function, deferred by the handler.  A disconnect hook may keep the
\* handler from it after the socket is closed; a panic in the connect hook
\* brings it on before, and then ws.Close is the next deferred call.
StopKeepalive ==
    /\ ~stopped
    /\ stopped' = TRUE
    /\ UNCHANGED <<clock, sockVars, goroutineVars, lastPong, readDeadline, peerVars>>

Due ==
    \/ goroutine = "select" /\ (pingDue <= clock \/ idleDue <= clock \/ stopped)
    \/ goroutine = "ping" /\ (pingUntil <= clock \/ sock = "closed" \/ sendPath = "free")
    \/ sendPath = "stuck" /\ peer = "live" /\ clock - stuckSince >= Stall
    \/ sock = "open" /\ (stopped \/ readDeadline <= clock \/ \E due \in pongs : due <= clock)

Tick ==
    /\ clock < MaxTime
    /\ ~Due
    /\ clock' = clock + 1
    /\ UNCHANGED <<sockVars, goroutineVars, stopped, lastPong, readDeadline, peerVars>>

Next ==
    \/ Ping \/ PingBlocks \/ PingProceeds \/ PingFails \/ IdleFires \/ StopReceived
    \/ PongArrives \/ DataArrives \/ ReadDeadlineExpires \/ TransportClearsDeadline
    \/ PeerVanishes \/ SendPathSticks \/ SendPathClears \/ SessionEnds
    \/ StopKeepalive
    \/ Tick

Spec == Init /\ [][Next]_vars

-----------------------------------------------------------------------------
(***************************************************************************)
(* Properties.                                                             *)
(***************************************************************************)
Instants == 0 .. Never

\* Every variable has its type.
TypeOK ==
    /\ clock \in 0 .. MaxTime
    /\ sock \in {"open", "closed"}
    /\ closedBy \in {"nobody", "ping", "watchdog", "deadline", "session"}
    /\ goroutine \in {"select", "ping", "exited"}
    /\ stopped \in BOOLEAN
    /\ pingDue \in Nat /\ pingUntil \in Nat /\ idleDue \in Instants
    /\ lastPong \in 0 .. MaxTime /\ lastHeard \in 0 .. MaxTime
    /\ readDeadline \in Instants
    /\ pongs \subseteq Nat
    /\ peer \in {"live", "vanished"}
    /\ closedAt \in 0 .. MaxTime /\ stuckSince \in 0 .. MaxTime
    /\ sendPath \in {"free", "stuck"}

\* A silent peer is reclaimed even when the transport has taken the read
\* deadline away and a stuck write holds the connection: the socket outlives
\* the last pong by IdleTimeout at most, plus the one ping that the goroutine
\* may be blocked in when its idle timer fires.  It takes stalls shorter than a
\* ping: after a longer one the next tick is due together with the idle timer,
\* and a select that takes the tick may block the goroutine in a ping again.
SilentPeerReclaimed ==
    HasWatchdog /\ sock = "open" /\ Stall < PingWriteTimeout
    => clock <= lastPong + IdleTimeout + PingWriteTimeout

\* Keepalive never closes on a live peer whose stalls and round trips leave
\* room for a ping in every idle window ("any live peer answers pongs, so the
\* idle timeout never fires mid-stream", CONNECTION_LIFECYCLE.md:111): no race
\* between ticker, idle timer, pongs and read deadline cuts it off.
LivePeerKept ==
    /\ PeerAnswers
    /\ PingInterval + Stall + RoundTrip < IdleTimeout
    /\ Stall < PingWriteTimeout
    /\ peer = "live"
    => closedBy \notin {"ping", "watchdog", "deadline"}

\* The goroutine does not leak: it outlives the socket, whoever closed it and
\* whether or not the handler got round to stopping it, by a ping interval.
GoroutineEnds ==
    sock = "closed" /\ goroutine # "exited" => clock <= closedAt + PingInterval

\* "a dead peer is reclaimed within 120s" (server.go:262), the default
\* IdleTimeout: no socket outlives its last pong by more than IdleTimeout.
ReclaimedWithinIdleTimeout ==
    HasWatchdog /\ sock = "open" => clock <= lastPong + IdleTimeout

\* "IdleTimeout configures how long the bridge waits for client activity or
\* pong frames before closing the connection" (api.go:85-86): when the idle
\* timeout closes, the client has been silent that long.
IdleMeansSilent ==
    closedBy \in {"watchdog", "deadline"} => closedAt - lastHeard >= IdleTimeout
=============================================================================
