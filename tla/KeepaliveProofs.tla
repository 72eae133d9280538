-------------------------- MODULE KeepaliveProofs --------------------------
(***************************************************************************)
(* Theorems about the keepalive of one session, for all intervals, idle    *)
(* timeouts, stalls and round trips, with and without the watchdog.        *)
(***************************************************************************)
EXTENDS Keepalive, TLAPS

\* Ticks come at multiples of the interval.
Multiple(n) == \E k \in Nat : n = k * PingInterval

\* The stalls of a live peer are shorter than a ping may take.
ShortStalls == Stall < PingInterval
\* A ping, its stall and its pong fit into the idle window.
Roomy == PeerAnswers /\ PingInterval + Stall + RoundTrip < IdleTimeout /\ ShortStalls

Alive == sock = "open" /\ peer = "live"

(***************************************************************************)
(* The inductive invariant.                                                *)
(***************************************************************************)
Types ==
    /\ clock \in 0 .. MaxTime
    /\ sock \in {"open", "closed"}
    /\ goroutine \in {"select", "ping", "exited"}
    /\ pingDue \in Nat /\ pingUntil \in Nat /\ idleDue \in Nat /\ readDeadline \in Nat
    /\ lastPong \in 0 .. clock /\ stuckSince \in 0 .. clock /\ closedAt \in 0 .. clock
    /\ pongs \subseteq Nat
    /\ peer \in {"live", "vanished"}
    /\ sendPath \in {"free", "stuck"}

\* The next tick is at most an interval away, and the timers follow the pongs.
Timers ==
    /\ pingDue <= clock + PingInterval
    /\ Multiple(pingDue)
    /\ idleDue = Never \/ idleDue <= lastPong + IdleTimeout
    /\ readDeadline >= lastPong + IdleTimeout
    /\ sendPath = "stuck" /\ peer = "live" => clock <= stuckSince + Stall

\* Once the socket is closed the goroutine meets it at its next tick, or at
\* once if a ping is under way.
EndsAfterClose ==
    sock = "closed" =>
        /\ goroutine = "select" =>
              pingDue <= closedAt + PingInterval /\ clock <= closedAt + PingInterval
        /\ goroutine = "ping" => clock = closedAt

\* With short stalls a ping that is blocked, but not for good, comes free before
\* the next tick.  It was due an interval before that tick and ends with it.
PingsInTurn ==
    ShortStalls =>
        /\ goroutine = "select" => clock <= pingDue
        /\ goroutine = "ping" =>
              /\ pingUntil = pingDue
              /\ stuckSince + PingInterval <= pingDue
              /\ pingDue <= clock + PingInterval
        /\ goroutine = "ping" /\ sock = "open" =>
              /\ clock <= pingDue
              /\ sendPath = "free" \/ peer = "live" => clock + PingInterval <= pingDue + Stall

\* The goroutine is in a ping that was due before the idle timer, or comes
\* back from it before another is due.
WatchdogInTime ==
    ShortStalls /\ HasWatchdog /\ sock = "open" =>
        /\ goroutine = "select" =>
              clock <= idleDue \/ (clock < pingDue /\ clock <= idleDue + PingInterval)
        /\ goroutine = "ping" => pingDue <= idleDue + PingInterval
        /\ clock <= lastPong + IdleTimeout + PingInterval

\* The goroutine leaves an open socket only when it was stopped.
ExitsOnStop == goroutine = "exited" /\ sock = "open" => stopped

\* In every idle window of a peer that answers, a pong is on its way or the
\* ping that brings it is still to be sent in time.
PongExpected ==
    Roomy /\ Alive =>
        /\ clock <= lastPong + PingInterval + Stall + RoundTrip
        /\ \/ \E due \in pongs : due <= lastPong + PingInterval + Stall + RoundTrip
           \/ goroutine = "select" /\ pingDue <= lastPong + PingInterval
           \/ goroutine = "ping" /\ pingDue <= lastPong + 2 * PingInterval
           \/ goroutine = "exited"

KeepaliveInv ==
    /\ Types /\ Timers
    /\ EndsAfterClose
    /\ PingsInTurn /\ WatchdogInTime /\ ExitsOnStop
    /\ PongExpected /\ LivePeerKept

-----------------------------------------------------------------------------
LEMMA Constants ==
    /\ PingInterval \in Nat /\ PingInterval >= 1
    /\ IdleTimeout \in Nat /\ PingInterval < IdleTimeout
    /\ RoundTrip \in Nat /\ Stall \in Nat /\ MaxTime \in Nat
    /\ PingWriteTimeout = PingInterval
    /\ Never \in Nat /\ Never = MaxTime + IdleTimeout + 1
  BY ConfigAssumption, EnvironmentAssumption DEF PingWriteTimeout, Never

\* The ticker's next tick: the first multiple of the interval after now.
LEMMA NextTickProperties ==
    ASSUME clock \in Nat
    PROVE  /\ NextTick \in Nat
           /\ clock < NextTick /\ NextTick <= clock + PingInterval
           /\ Multiple(NextTick)
           /\ Multiple(clock) => NextTick = clock + PingInterval
  <1> DEFINE q == clock \div PingInterval
  <1>1. PingInterval \in Nat \ {0}
    BY ConfigAssumption
  <1>2. q \in Nat /\ q * PingInterval <= clock /\ clock < q * PingInterval + PingInterval
    BY <1>1
  <1> HIDE DEF q
  <1>3. NextTick = (q + 1) * PingInterval
    BY DEF NextTick, q
  <1>4. (q + 1) * PingInterval = q * PingInterval + PingInterval
    BY <1>1, <1>2
  <1>5. q + 1 \in Nat /\ q * PingInterval \in Nat
    BY <1>1, <1>2
  <1>6. NextTick \in Nat /\ clock < NextTick /\ NextTick <= clock + PingInterval
    BY <1>1, <1>2, <1>3, <1>4, <1>5
  <1>7. Multiple(NextTick)
    BY <1>3, <1>5 DEF Multiple
  <1>8. ASSUME Multiple(clock)
        PROVE  NextTick = clock + PingInterval
    <2>1. PICK k \in Nat : clock = k * PingInterval
      BY <1>8 DEF Multiple
    <2>2. ASSUME NEW x \in Nat, NEW y \in Nat, x < y
          PROVE  x * PingInterval + PingInterval <= y * PingInterval
      <3>1. PICK d \in Nat : y = x + 1 + d
        <4>1. y - x - 1 \in Nat /\ y = x + 1 + (y - x - 1)
          BY <2>2
        <4>. QED
          BY <4>1
      <3>2. y * PingInterval = x * PingInterval + PingInterval + d * PingInterval
        BY <1>1, <3>1
      <3>3. d * PingInterval \in Nat /\ x * PingInterval \in Nat
        BY <1>1
      <3>. QED
        BY <1>1, <3>2, <3>3
    <2>3. ~(q < k) /\ ~(k < q)
      <3>1. q < k => q * PingInterval + PingInterval <= k * PingInterval
        BY <1>2, <2>2
      <3>2. k < q => k * PingInterval + PingInterval <= q * PingInterval
        BY <1>2, <2>2
      <3>3. k * PingInterval \in Nat
        BY <1>1
      <3>. QED
        BY <1>1, <1>2, <1>5, <2>1, <3>1, <3>2, <3>3
    <2>4. q = k
      BY <1>2, <2>3
    <2>. QED
      BY <1>3, <1>4, <2>1, <2>4
  <1>. QED
    BY <1>6, <1>7, <1>8

LEMMA KeepaliveInit == Init => KeepaliveInv
  <1> SUFFICES ASSUME Init PROVE KeepaliveInv
    OBVIOUS
  <1> USE Constants
  <1>1. Types
    BY DEF Init, Types
  <1>2. Multiple(PingInterval)
    <2>1. PingInterval = 1 * PingInterval
      OBVIOUS
    <2>. QED
      BY <2>1 DEF Multiple
  <1>3. Timers /\ EndsAfterClose /\ PingsInTurn /\ WatchdogInTime /\ ExitsOnStop
    BY <1>2 DEF Init, Timers, EndsAfterClose, PingsInTurn, WatchdogInTime, ExitsOnStop
  <1>4. PongExpected /\ LivePeerKept
    BY DEF Init, PongExpected, LivePeerKept
  <1>. QED
    BY <1>1, <1>3, <1>4 DEF KeepaliveInv

-----------------------------------------------------------------------------
(***************************************************************************)
(* The steps.                                                              *)
(***************************************************************************)
\* Times stay in their ranges: histories lie in the past, due times in the
\* future or now.
LEMMA TypesStep ==
    ASSUME KeepaliveInv, [Next]_vars
    PROVE  Types'
  <1> USE Constants DEF KeepaliveInv, sockVars, goroutineVars, pathVars, peerVars
  <1>1. CASE Ping
    BY <1>1, NextTickProperties DEF Ping, Types
  <1>2. CASE PingBlocks
    BY <1>2, NextTickProperties DEF PingBlocks, Types
  <1>3. CASE PingProceeds
    BY <1>3 DEF PingProceeds, Types
  <1>4. CASE PingFails
    BY <1>4 DEF PingFails, CloseSocket, Types
  <1>5. CASE IdleFires
    BY <1>5 DEF IdleFires, CloseSocket, Types
  <1>6. CASE PongArrives
    BY <1>6 DEF PongArrives, Types
  <1>7. CASE ReadDeadlineExpires
    BY <1>7 DEF ReadDeadlineExpires, CloseSocket, Types
  <1>8. CASE SendPathSticks
    BY <1>8 DEF SendPathSticks, Types
  <1>9. CASE SessionEnds
    BY <1>9 DEF SessionEnds, CloseSocket, Types
  <1>10. CASE Tick
    BY <1>10 DEF Tick, Due, Types
  <1>11. CASE StopReceived \/ DataArrives \/ PeerVanishes
              \/ TransportClearsDeadline \/ SendPathClears \/ StopKeepalive
              \/ UNCHANGED vars
    BY <1>11 DEF StopReceived, DataArrives, PeerVanishes,
       TransportClearsDeadline, SendPathClears, StopKeepalive, vars, Types
  <1>. QED
    BY <1>1, <1>2, <1>3, <1>4, <1>5, <1>6, <1>7, <1>8, <1>9, <1>10, <1>11 DEF Next

\* Every timer that is set anew is set from now or from the last pong.
LEMMA TimersStep ==
    ASSUME KeepaliveInv, [Next]_vars
    PROVE  Timers'
  <1> USE Constants DEF KeepaliveInv, sockVars, goroutineVars, pathVars, peerVars
  <1>1. CASE Ping
    BY <1>1, NextTickProperties DEF Ping, Types, Timers
  <1>2. CASE PingBlocks
    BY <1>2, NextTickProperties DEF PingBlocks, Types, Timers
  <1>3. CASE IdleFires
    BY <1>3 DEF IdleFires, CloseSocket, Types, Timers
  <1>4. CASE PongArrives
    BY <1>4 DEF PongArrives, Types, Timers
  <1>5. CASE TransportClearsDeadline
    BY <1>5 DEF TransportClearsDeadline, Types, Timers
  <1>6. CASE SendPathSticks
    BY <1>6 DEF SendPathSticks, Types, Timers
  <1>7. CASE Tick
    BY <1>7 DEF Tick, Due, Types, Timers
  <1>8. CASE PingProceeds \/ PingFails \/ StopReceived \/ DataArrives
             \/ ReadDeadlineExpires \/ PeerVanishes \/ SendPathClears
             \/ SessionEnds \/ StopKeepalive \/ UNCHANGED vars
    BY <1>8 DEF PingProceeds, PingFails, CloseSocket, StopReceived,
       DataArrives, ReadDeadlineExpires, PeerVanishes, SendPathClears,
       SessionEnds, StopKeepalive, vars, Timers
  <1>. QED
    BY <1>1, <1>2, <1>3, <1>4, <1>5, <1>6, <1>7, <1>8 DEF Next

\* The tick after a close is at most an interval away and ends the goroutine.
LEMMA EndsAfterCloseStep ==
    ASSUME KeepaliveInv, [Next]_vars
    PROVE  EndsAfterClose'
  <1> USE Constants DEF KeepaliveInv, sockVars, goroutineVars, pathVars, peerVars
  <1>1. CASE Ping
    BY <1>1 DEF Ping, EndsAfterClose
  <1>2. CASE PingBlocks
    BY <1>2 DEF PingBlocks, EndsAfterClose
  <1>3. CASE PingProceeds
    BY <1>3 DEF PingProceeds, EndsAfterClose
  <1>4. CASE PingFails
    BY <1>4 DEF PingFails, CloseSocket, EndsAfterClose
  <1>5. CASE IdleFires
    BY <1>5 DEF IdleFires, CloseSocket, EndsAfterClose
  <1>6. CASE ReadDeadlineExpires
    BY <1>6 DEF ReadDeadlineExpires, CloseSocket, Types, Timers,
       EndsAfterClose
  <1>7. CASE SessionEnds
    BY <1>7 DEF SessionEnds, CloseSocket, Types, Timers, EndsAfterClose
  <1>8. CASE Tick
    BY <1>8 DEF Tick, Due, Types, EndsAfterClose
  <1>9. CASE StopReceived \/ PongArrives \/ DataArrives
             \/ TransportClearsDeadline \/ PeerVanishes \/ SendPathSticks
             \/ SendPathClears \/ StopKeepalive \/ UNCHANGED vars
    BY <1>9 DEF StopReceived, PongArrives, DataArrives,
       TransportClearsDeadline, PeerVanishes, SendPathSticks,
       SendPathClears, StopKeepalive, vars, EndsAfterClose
  <1>. QED
    BY <1>1, <1>2, <1>3, <1>4, <1>5, <1>6, <1>7, <1>8, <1>9 DEF Next

\* The clock cannot pass a ping that is due, nor the end of a stall.
LEMMA PingsInTurnStep ==
    ASSUME KeepaliveInv, [Next]_vars
    PROVE  PingsInTurn'
  <1> USE Constants DEF KeepaliveInv, sockVars, goroutineVars, pathVars, peerVars
  <1>1. CASE Ping
    BY <1>1, NextTickProperties DEF Ping, Types, PingsInTurn
  <1>2. CASE PingBlocks
    BY <1>2, NextTickProperties DEF PingBlocks, Types, Timers, PingsInTurn
  <1>3. CASE PeerVanishes
    BY <1>3 DEF PeerVanishes, PingsInTurn
  <1>4. CASE SendPathSticks
    BY <1>4 DEF SendPathSticks, PingsInTurn
  <1>5. CASE SendPathClears
    BY <1>5 DEF SendPathClears, PingsInTurn
  <1>6. CASE Tick
    BY <1>6 DEF Tick, Due, Types, PingsInTurn
  <1>7. CASE PingProceeds \/ PingFails \/ IdleFires \/ StopReceived
             \/ PongArrives \/ DataArrives \/ ReadDeadlineExpires
             \/ TransportClearsDeadline \/ SessionEnds \/ StopKeepalive
             \/ UNCHANGED vars
    BY <1>7 DEF PingProceeds, PingFails, CloseSocket, IdleFires,
       StopReceived, PongArrives, DataArrives, ReadDeadlineExpires,
       TransportClearsDeadline, SessionEnds, StopKeepalive, vars,
       PingsInTurn
  <1>. QED
    BY <1>1, <1>2, <1>3, <1>4, <1>5, <1>6, <1>7 DEF Next

\* The clock passes the idle timer only while a ping holds the goroutine, and
\* the next tick is still ahead when that ping is over.
LEMMA WatchdogInTimeStep ==
    ASSUME KeepaliveInv, [Next]_vars
    PROVE  WatchdogInTime'
  <1> USE Constants DEF KeepaliveInv, sockVars, goroutineVars, pathVars, peerVars
  <1>1. CASE Ping
    BY <1>1 DEF Ping, Types, WatchdogInTime, HasWatchdog
  <1>2. CASE PingBlocks
    BY <1>2, NextTickProperties DEF PingBlocks, Types, WatchdogInTime,
       HasWatchdog
  <1>3. CASE PingProceeds
    BY <1>3 DEF PingProceeds, Types, PingsInTurn, ShortStalls,
       WatchdogInTime, HasWatchdog
  <1>4. CASE IdleFires
    BY <1>4 DEF IdleFires, CloseSocket, Types, WatchdogInTime
  <1>5. CASE PongArrives
    BY <1>5 DEF PongArrives, Types, WatchdogInTime, HasWatchdog
  <1>6. CASE Tick
    BY <1>6 DEF Tick, Due, Types, Timers, PingsInTurn, WatchdogInTime,
       ExitsOnStop, HasWatchdog
  <1>7. CASE StopReceived \/ PingFails \/ DataArrives \/ ReadDeadlineExpires
             \/ TransportClearsDeadline \/ PeerVanishes \/ SendPathSticks
             \/ SendPathClears \/ SessionEnds \/ StopKeepalive
             \/ UNCHANGED vars
    BY <1>7 DEF StopReceived, PingFails, CloseSocket, DataArrives,
       ReadDeadlineExpires, TransportClearsDeadline, PeerVanishes,
       SendPathSticks, SendPathClears, SessionEnds, StopKeepalive, vars,
       WatchdogInTime, HasWatchdog
  <1>. QED
    BY <1>1, <1>2, <1>3, <1>4, <1>5, <1>6, <1>7 DEF Next

\* A goroutine that was not stopped closes the socket as it returns.
LEMMA ExitsOnStopStep ==
    ASSUME KeepaliveInv, [Next]_vars
    PROVE  ExitsOnStop'
  <1> USE Constants DEF KeepaliveInv, sockVars, goroutineVars, pathVars, peerVars
  <1>1. CASE PingFails
    BY <1>1 DEF PingFails, CloseSocket, ExitsOnStop
  <1>2. CASE IdleFires
    BY <1>2 DEF IdleFires, CloseSocket, ExitsOnStop
  <1>3. CASE StopReceived
    BY <1>3 DEF StopReceived, ExitsOnStop
  <1>4. CASE StopKeepalive
    BY <1>4 DEF StopKeepalive, ExitsOnStop
  <1>5. CASE Ping \/ PingBlocks \/ PingProceeds \/ PongArrives \/ DataArrives
             \/ ReadDeadlineExpires \/ TransportClearsDeadline \/ PeerVanishes
             \/ SendPathSticks \/ SendPathClears \/ SessionEnds \/ Tick
             \/ UNCHANGED vars
    BY <1>5 DEF Ping, PingBlocks, PingProceeds, PongArrives, DataArrives,
       ReadDeadlineExpires, CloseSocket, TransportClearsDeadline,
       PeerVanishes, SendPathSticks, SendPathClears, SessionEnds, Tick, Due,
       vars, ExitsOnStop
  <1>. QED
    BY <1>1, <1>2, <1>3, <1>4, <1>5 DEF Next

\* A pong that arrives starts a new idle window, in which the next tick falls;
\* the clock does not pass the pong of an earlier one.
LEMMA PongExpectedStep ==
    ASSUME KeepaliveInv, [Next]_vars
    PROVE  PongExpected'
  <1> USE Constants DEF KeepaliveInv, sockVars, goroutineVars, pathVars, peerVars
  <1>1. CASE Ping
    BY <1>1 DEF Ping, Types, PingsInTurn, PongExpected, Roomy, Alive
  <1>2. CASE PingBlocks
    BY <1>2, NextTickProperties DEF PingBlocks, Types, PingsInTurn,
       PongExpected, Roomy, Alive
  <1>3. CASE PingProceeds
    BY <1>3 DEF PingProceeds, Types, PingsInTurn, PongExpected, Roomy, Alive
  <1>4. CASE PongArrives
    BY <1>4 DEF PongArrives, Types, Timers, PongExpected
  <1>5. CASE Tick
    BY <1>5 DEF Tick, Due, Types, PingsInTurn, ExitsOnStop, PongExpected,
       Roomy, Alive
  <1>6. CASE PingFails \/ IdleFires \/ StopReceived \/ DataArrives
             \/ ReadDeadlineExpires \/ TransportClearsDeadline \/ PeerVanishes
             \/ SendPathSticks \/ SendPathClears \/ SessionEnds
             \/ StopKeepalive \/ UNCHANGED vars
    BY <1>6 DEF PingFails, CloseSocket, IdleFires, StopReceived,
       DataArrives, ReadDeadlineExpires, TransportClearsDeadline,
       PeerVanishes, SendPathSticks, SendPathClears, SessionEnds,
       StopKeepalive, vars, PongExpected, Alive
  <1>. QED
    BY <1>1, <1>2, <1>3, <1>4, <1>5, <1>6 DEF Next

\* While a pong is expected in time, neither the watchdog nor the read deadline
\* is due, and no blocked ping has run out of time.
LEMMA LivePeerKeptStep ==
    ASSUME KeepaliveInv, [Next]_vars
    PROVE  LivePeerKept'
  <1> USE Constants DEF KeepaliveInv, sockVars, goroutineVars, pathVars, peerVars
  <1>1. CASE PingFails
    BY <1>1 DEF PingFails, CloseSocket, Types, PingsInTurn, ShortStalls,
       LivePeerKept
  <1>2. CASE IdleFires
    BY <1>2 DEF IdleFires, CloseSocket, Types, ShortStalls, PongExpected,
       Roomy, Alive, LivePeerKept
  <1>3. CASE ReadDeadlineExpires
    BY <1>3 DEF ReadDeadlineExpires, CloseSocket, Types, Timers,
       ShortStalls, PongExpected, Roomy, Alive, LivePeerKept
  <1>4. CASE SessionEnds
    BY <1>4 DEF SessionEnds, CloseSocket, LivePeerKept
  <1>5. CASE Ping \/ PingBlocks \/ PingProceeds \/ StopReceived \/ PongArrives
             \/ DataArrives \/ TransportClearsDeadline \/ PeerVanishes
             \/ SendPathSticks \/ SendPathClears \/ StopKeepalive \/ Tick
             \/ UNCHANGED vars
    BY <1>5 DEF Ping, PingBlocks, PingProceeds, StopReceived, PongArrives,
       DataArrives, TransportClearsDeadline, PeerVanishes, SendPathSticks,
       SendPathClears, StopKeepalive, Tick, Due, vars, LivePeerKept
  <1>. QED
    BY <1>1, <1>2, <1>3, <1>4, <1>5 DEF Next

LEMMA KeepaliveInductive == KeepaliveInv /\ [Next]_vars => KeepaliveInv'
  <1> SUFFICES ASSUME KeepaliveInv, [Next]_vars
               PROVE  KeepaliveInv'
    OBVIOUS
  <1>1. Types' /\ Timers' /\ EndsAfterClose'
    BY TypesStep, TimersStep, EndsAfterCloseStep
  <1>2. PingsInTurn' /\ WatchdogInTime' /\ ExitsOnStop'
    BY PingsInTurnStep, WatchdogInTimeStep, ExitsOnStopStep
  <1>3. PongExpected' /\ LivePeerKept'
    BY PongExpectedStep, LivePeerKeptStep
  <1>. QED
    BY <1>1, <1>2, <1>3 DEF KeepaliveInv

-----------------------------------------------------------------------------
(***************************************************************************)
(* The theorems.                                                           *)
(***************************************************************************)

\* Keepalive never cuts off a live peer whose stalls and round trips leave room
\* for one ping in every idle window (the goroutine and the pong handler of
\* applyBridgeConnectionSettings, server.go:277-368), for every such interval
\* and timeout and with or without the watchdog.
THEOREM LivePeerIsKept == Spec => []LivePeerKept
  <1>1. KeepaliveInv => LivePeerKept
    BY DEF KeepaliveInv
  <1>. QED
    BY <1>1, KeepaliveInit, KeepaliveInductive, PTL DEF Spec

\* The watchdog reclaims a silent peer within the idle timeout and one ping,
\* although the ticker and the idle timer share one goroutine that a ping may
\* block, and whatever the transport does to the read deadline.
THEOREM SilentPeerIsReclaimed == Spec => []SilentPeerReclaimed
  <1>1. KeepaliveInv => SilentPeerReclaimed
    BY Constants DEF KeepaliveInv, WatchdogInTime, ShortStalls, SilentPeerReclaimed
  <1>. QED
    BY <1>1, KeepaliveInit, KeepaliveInductive, PTL DEF Spec

\* The keepalive goroutine does not leak: the failing ping of its next tick ends
\* it within an interval of the socket's close, even if the handler never gets
\* to call the stop function.
THEOREM GoroutineDoesNotLeak == Spec => []GoroutineEnds
  <1>1. KeepaliveInv => GoroutineEnds
    BY Constants DEF KeepaliveInv, Types, EndsAfterClose, GoroutineEnds
  <1>. QED
    BY <1>1, KeepaliveInit, KeepaliveInductive, PTL DEF Spec
=============================================================================
