------------------------ MODULE BridgeSessionProofs ------------------------
(***************************************************************************)
(* Theorems about BridgeSession, for any finite set of sessions and any    *)
(* settings, in all three modes.                                           *)
(***************************************************************************)
EXTENDS BridgeSession, FiniteSetTheorems, TLAPS

\* Where a call stands in DeferOrder.
WsLevel == IF Proxy THEN 2 ELSE 3
KeepaliveLevel == WsLevel + 1
HookLevel == WsLevel + 2
ConnLevel == WsLevel + 3
TimerLevel == WsLevel + 4

Serving == {"deliver", "waitDone", "serve"}
Ending == {"unwind", "gone"}

(***************************************************************************)
(* The inductive invariant.  AccountsCoverSessions speaks of what is       *)
(* pending; what makes it inductive is how many calls are pending at each  *)
(* place of the handler, and what each of them stands for.                 *)
(***************************************************************************)
\* The handler's place determines its stack, until it unwinds.
StackMatches ==
    \A s \in Sessions :
        /\ pc[s] \in {"authorize", "initErr", "reserve", "gone"} => depth[s] = 0
        /\ pc[s] = "upgrade" => depth[s] = 1
        /\ pc[s] = "settings" => depth[s] = WsLevel
        /\ pc[s] = "onConnect" => depth[s] = KeepaliveLevel
        /\ pc[s] = "wrap" => depth[s] = HookLevel
        /\ pc[s] \in Serving => depth[s] >= ConnLevel

\* What is open, connected, armed or running has its call still pending.
CallsOwed ==
    \A s \in Sessions :
        /\ sock[s] \in Alive => depth[s] >= WsLevel
        /\ sock[s] \in Alive /\ depth[s] < ConnLevel => hook[s] = "none" \/ pc[s] = "wrap"
        /\ hook[s] = "connected" => depth[s] >= HookLevel
        /\ hook[s] = "disconnected" => depth[s] < HookLevel /\ pc[s] \in Ending
        /\ depth[s] >= HookLevel => hook[s] = "connected"
        /\ timer[s] = "armed" => depth[s] = TimerLevel /\ ~Proxy
        /\ keepalive[s] = "running" => stop[s] \/ depth[s] >= KeepaliveLevel

\* The handler waits as long as gRPC works on the session.
HandedOver ==
    \A s \in Sessions :
        /\ xport[s] # "none" => pc[s] \in {"waitDone"} \cup Ending
        /\ xport[s] \in {"accepted", "serving", "closing"} => pc[s] = "waitDone"
        /\ done[s] => xport[s] = "closed"

AtLeast(f, n) == {s \in Sessions : f[s] >= n}

Counted ==
    /\ slots = Cardinality(AtLeast(depth, 1))
    /\ slots <= MaxActive
    /\ gauge = IF Proxy THEN 0 ELSE Cardinality(AtLeast(depth, 2))

\* The types of what belongs to the sessions; the counters are in Counted.
LocalType ==
    /\ pc \in [Sessions -> Locations]
    /\ depth \in [Sessions -> 0 .. (IF Proxy THEN 5 ELSE 7)]
    /\ sock \in [Sessions -> Alive \cup {"none", "closed"}]
    /\ hook \in [Sessions -> {"none", "connected", "disconnected"}]
    /\ keepalive \in [Sessions -> {"off", "running", "exited"}]
    /\ stop \in [Sessions -> BOOLEAN]
    /\ timer \in [Sessions -> {"off", "armed", "stopped", "fired", "closed"}]
    /\ xport \in [Sessions -> {"none", "accepted", "serving", "closing", "closed"}]
    /\ done \in [Sessions -> BOOLEAN]
    /\ listener \in {"open", "closed"}
    /\ serveLoop \in {"none", "proxy", "starting", "accepting", "exited"}
    /\ quit \in BOOLEAN

LocalInv == LocalType /\ StackMatches /\ CallsOwed /\ HandedOver

SessionInv == LocalInv /\ Counted

-----------------------------------------------------------------------------
\* The mode never changes, and with it the order of the deferred calls.
LEMMA ModeConstant ==
    ASSUME [Next]_vars
    PROVE  /\ Proxy' = Proxy
           /\ DeferOrder' = DeferOrder
  <1>1. Proxy' = Proxy
    <2>1. ASSUME NEW s \in Sessions, Handler(s) \/ Background(s) \/ Grpc(s) \/ PeerGone(s)
          PROVE  serveLoop' = serveLoop
      BY <2>1 DEF Handler, Background, Grpc, Authorize, CheckInitErr, Reserve, Upgrade, ApplySettings,
                  OnConnect, WrapConn, Deliver, DeliverRejected, AwaitDone, ServeConn, Unwinding,
                  DeferStopTimer, DeferConnClose, DeferOnDisconnect, DeferStopKeepalive, DeferWsClose,
                  DeferGauge, DeferClear, HandlerExits, KeepaliveCloses, KeepaliveStops, LifetimeFires,
                  LifetimeCloses, TransportStarts, SessionClose, SessionNotify, PeerGone, serverVars
    <2>2. CASE ServeStarts \/ AcceptClosed \/ GrpcStop \/ CloseListener
      BY <2>2 DEF ServeStarts, AcceptClosed, GrpcStop, CloseListener, Proxy
    <2>3. CASE UNCHANGED vars
      BY <2>3 DEF vars, serverVars, Proxy
    <2>. QED
      BY <2>1, <2>2, <2>3 DEF Next, Proxy
  <1>. QED
    BY <1>1 DEF DeferOrder

\* Which call is popped at which depth.
LEMMA PopLevel ==
    ASSUME LocalType, NEW s \in Sessions, NEW call, Pop(s, call)
    PROVE  /\ pc[s] = "unwind" /\ depth[s] \in Nat \ {0}
           /\ call = "clear" <=> depth[s] = 1
           /\ call = "gauge" <=> ~Proxy /\ depth[s] = 2
           /\ call = "wsClose" <=> depth[s] = WsLevel
           /\ call = "stopKeepalive" <=> depth[s] = KeepaliveLevel
           /\ call = "onDisconnect" <=> depth[s] = HookLevel
           /\ call = "connClose" <=> depth[s] = ConnLevel
           /\ call = "stopTimer" <=> ~Proxy /\ depth[s] = TimerLevel
  <1>1. depth[s] \in 1 .. (IF Proxy THEN 5 ELSE 7) /\ DeferOrder[depth[s]] = call /\ pc[s] = "unwind"
    BY DEF LocalType, Pop, At
  <1>2. CASE Proxy
    BY <1>1, <1>2 DEF DeferOrder, WsLevel, KeepaliveLevel, HookLevel, ConnLevel, TimerLevel
  <1>3. CASE ~Proxy
    BY <1>1, <1>3 DEF DeferOrder, WsLevel, KeepaliveLevel, HookLevel, ConnLevel, TimerLevel
  <1>. QED
    BY <1>2, <1>3


LEMMA LocalInductive == LocalInv /\ [Next]_vars => LocalInv'
  <1> SUFFICES ASSUME LocalInv, [Next]_vars
               PROVE  LocalInv'
    OBVIOUS
  <1> USE ModeConstant DEF LocalInv, LocalType, StackMatches, CallsOwed, HandedOver, Locations, Alive, Serving, Ending,
          WsLevel, KeepaliveLevel, HookLevel, ConnLevel, TimerLevel,
          countVars, kaVars, xportVars, serverVars, handlerVars
  <1>1. ASSUME NEW s \in Sessions, Authorize(s)
        PROVE  LocalInv'
    BY <1>1 DEF Authorize, At, Goto, Return
  <1>2. ASSUME NEW s \in Sessions, CheckInitErr(s)
        PROVE  LocalInv'
    BY <1>2 DEF CheckInitErr, At, Goto, Return
  <1>3. ASSUME NEW s \in Sessions, Reserve(s)
        PROVE  LocalInv'
    BY <1>3 DEF Reserve, At, Goto, Return, Defer
  <1>4. ASSUME NEW s \in Sessions, Upgrade(s)
        PROVE  LocalInv'
    BY <1>4 DEF Upgrade, At, Goto, Return, Defer
  <1>5. ASSUME NEW s \in Sessions, ApplySettings(s)
        PROVE  LocalInv'
    BY <1>5 DEF ApplySettings, At, Goto, Return, Defer
  <1>6. ASSUME NEW s \in Sessions, OnConnect(s)
        PROVE  LocalInv'
    BY <1>6 DEF OnConnect, At, Goto, Return, Defer
  <1>7. ASSUME NEW s \in Sessions, WrapConn(s)
        PROVE  LocalInv'
    BY <1>7 DEF WrapConn, At, Goto, Defer, HasLifetime, Native
  <1>8. ASSUME NEW s \in Sessions, Deliver(s)
        PROVE  LocalInv'
    BY <1>8 DEF Deliver, At, Goto, Native
  <1>9. ASSUME NEW s \in Sessions, DeliverRejected(s)
        PROVE  LocalInv'
    BY <1>9 DEF DeliverRejected, At, Goto, Return
  <1>10. ASSUME NEW s \in Sessions, AwaitDone(s)
        PROVE  LocalInv'
    BY <1>10 DEF AwaitDone, At, Goto, Return
  <1>11. ASSUME NEW s \in Sessions, ServeConn(s)
        PROVE  LocalInv'
    BY <1>11 DEF ServeConn, At, Goto, Return
  <1>12. ASSUME NEW s \in Sessions, DeferStopTimer(s)
        PROVE  LocalInv'
    <2>1. Pop(s, "stopTimer")
      BY <1>12 DEF DeferStopTimer
    <2>2. pc[s] = "unwind" /\ depth[s] = TimerLevel /\ ~Proxy
      BY <2>1, PopLevel
    <2>3. pc' = pc /\ depth' = [depth EXCEPT ![s] = @ - 1]
      BY <2>1 DEF Pop
    <2>. QED
      BY <1>12, <2>2, <2>3 DEF DeferStopTimer
  <1>13. ASSUME NEW s \in Sessions, DeferConnClose(s)
        PROVE  LocalInv'
    <2>1. Pop(s, "connClose")
      BY <1>13 DEF DeferConnClose
    <2>2. pc[s] = "unwind" /\ depth[s] = ConnLevel
      BY <2>1, PopLevel
    <2>3. pc' = pc /\ depth' = [depth EXCEPT ![s] = @ - 1]
      BY <2>1 DEF Pop
    <2>. QED
      BY <1>13, <2>2, <2>3 DEF DeferConnClose
  <1>14. ASSUME NEW s \in Sessions, DeferOnDisconnect(s)
        PROVE  LocalInv'
    <2>1. Pop(s, "onDisconnect")
      BY <1>14 DEF DeferOnDisconnect
    <2>2. pc[s] = "unwind" /\ depth[s] = HookLevel
      BY <2>1, PopLevel
    <2>3. pc' = pc /\ depth' = [depth EXCEPT ![s] = @ - 1]
      BY <2>1 DEF Pop
    <2>. QED
      BY <1>14, <2>2, <2>3 DEF DeferOnDisconnect
  <1>15. ASSUME NEW s \in Sessions, DeferStopKeepalive(s)
        PROVE  LocalInv'
    <2>1. Pop(s, "stopKeepalive")
      BY <1>15 DEF DeferStopKeepalive
    <2>2. pc[s] = "unwind" /\ depth[s] = KeepaliveLevel
      BY <2>1, PopLevel
    <2>3. pc' = pc /\ depth' = [depth EXCEPT ![s] = @ - 1]
      BY <2>1 DEF Pop
    <2>. QED
      BY <1>15, <2>2, <2>3 DEF DeferStopKeepalive
  <1>16. ASSUME NEW s \in Sessions, DeferWsClose(s)
        PROVE  LocalInv'
    <2>1. Pop(s, "wsClose")
      BY <1>16 DEF DeferWsClose
    <2>2. pc[s] = "unwind" /\ depth[s] = WsLevel
      BY <2>1, PopLevel
    <2>3. pc' = pc /\ depth' = [depth EXCEPT ![s] = @ - 1]
      BY <2>1 DEF Pop
    <2>. QED
      BY <1>16, <2>2, <2>3 DEF DeferWsClose
  <1>17. ASSUME NEW s \in Sessions, DeferGauge(s)
        PROVE  LocalInv'
    <2>1. Pop(s, "gauge")
      BY <1>17 DEF DeferGauge
    <2>2. pc[s] = "unwind" /\ depth[s] = 2 /\ ~Proxy
      BY <2>1, PopLevel
    <2>3. pc' = pc /\ depth' = [depth EXCEPT ![s] = @ - 1]
      BY <2>1 DEF Pop
    <2>. QED
      BY <1>17, <2>2, <2>3 DEF DeferGauge
  <1>18. ASSUME NEW s \in Sessions, DeferClear(s)
        PROVE  LocalInv'
    <2>1. Pop(s, "clear")
      BY <1>18 DEF DeferClear
    <2>2. pc[s] = "unwind" /\ depth[s] = 1
      BY <2>1, PopLevel
    <2>3. pc' = pc /\ depth' = [depth EXCEPT ![s] = @ - 1]
      BY <2>1 DEF Pop
    <2>. QED
      BY <1>18, <2>2, <2>3 DEF DeferClear
  <1>19. ASSUME NEW s \in Sessions, HandlerExits(s)
        PROVE  LocalInv'
    BY <1>19 DEF HandlerExits, At, Goto
  <1>20. ASSUME NEW s \in Sessions, KeepaliveCloses(s)
        PROVE  LocalInv'
    BY <1>20 DEF KeepaliveCloses
  <1>21. ASSUME NEW s \in Sessions, KeepaliveStops(s)
        PROVE  LocalInv'
    BY <1>21 DEF KeepaliveStops
  <1>22. ASSUME NEW s \in Sessions, LifetimeFires(s)
        PROVE  LocalInv'
    BY <1>22 DEF LifetimeFires
  <1>23. ASSUME NEW s \in Sessions, LifetimeCloses(s)
        PROVE  LocalInv'
    BY <1>23 DEF LifetimeCloses
  <1>24. ASSUME NEW s \in Sessions, TransportStarts(s)
        PROVE  LocalInv'
    BY <1>24 DEF TransportStarts
  <1>25. ASSUME NEW s \in Sessions, SessionClose(s)
        PROVE  LocalInv'
    BY <1>25 DEF SessionClose
  <1>26. ASSUME NEW s \in Sessions, SessionNotify(s)
        PROVE  LocalInv'
    BY <1>26 DEF SessionNotify
  <1>27. ASSUME NEW s \in Sessions, PeerGone(s)
        PROVE  LocalInv'
    BY <1>27 DEF PeerGone
  <1>28. CASE ServeStarts \/ AcceptClosed \/ GrpcStop \/ CloseListener
    <2>1. quit' \in BOOLEAN
      BY <1>28 DEF ServeStarts, AcceptClosed, GrpcStop, CloseListener
    <2>. QED
      BY <1>28, <2>1 DEF ServeStarts, AcceptClosed, GrpcStop, CloseListener
  <1>29. CASE UNCHANGED vars
    BY <1>29 DEF vars
  <1>. QED
    BY <1>1, <1>2, <1>3, <1>4, <1>5, <1>6, <1>7, <1>8, <1>9, <1>10, <1>11, <1>12, <1>13, <1>14, <1>15, <1>16, <1>17, <1>18, <1>19, <1>20, <1>21, <1>22, <1>23, <1>24, <1>25, <1>26, <1>27, <1>28, <1>29
       DEF Next, Handler, Unwinding, Background, Grpc

-----------------------------------------------------------------------------
(***************************************************************************)
(* Counting.  A step changes the depth of one handler; it changes a count  *)
(* only when that depth crosses the level counted.                         *)
(***************************************************************************)
LEMMA AtLeastFinite ==
    ASSUME NEW f, NEW n
    PROVE  IsFiniteSet(AtLeast(f, n)) /\ Cardinality(AtLeast(f, n)) \in Nat
  BY SessionsFinite, FS_Subset, FS_CardinalityType DEF AtLeast

LEMMA CountedInductive == SessionInv /\ [Next]_vars => Counted'
  <1> SUFFICES ASSUME SessionInv, [Next]_vars
               PROVE  Counted'
    OBVIOUS
  <1> USE ModeConstant DEF SessionInv, LocalInv
  <1>1. MaxActive \in Nat /\ slots \in Nat /\ gauge \in Nat
    BY AtLeastFinite, ConfigAssumption DEF Counted
  <1>. depth \in [Sessions -> Nat]
    BY DEF LocalType
  <1>2. ASSUME UNCHANGED <<depth, slots, gauge>>
        PROVE  Counted'
    BY <1>2 DEF Counted
  <1>3. ASSUME NEW s \in Sessions, Reserve(s)
        PROVE  Counted'
    <2>1. CASE slots < MaxActive /\ slots' = slots + 1 /\ Defer(s, 1)
      <3>1. depth[s] = 0 /\ depth' = [depth EXCEPT ![s] = 1] /\ gauge' = gauge
        <4>1. depth[s] = 0
          BY <1>3 DEF Reserve, At, StackMatches
        <4>. QED
          BY <1>3, <2>1, <4>1 DEF Reserve, Defer
      <3>2. Cardinality(AtLeast(depth', 1)) = Cardinality(AtLeast(depth, 1)) + 1
        <4>1. AtLeast(depth', 1) = AtLeast(depth, 1) \cup {s} /\ s \notin AtLeast(depth, 1)
          BY <3>1 DEF AtLeast
        <4>. QED
          BY <4>1, AtLeastFinite, FS_AddElement
      <3>3. AtLeast(depth', 2) = AtLeast(depth, 2)
        BY <3>1 DEF AtLeast
      <3>. QED
        BY <1>1, <2>1, <3>1, <3>2, <3>3 DEF Counted
    <2>2. CASE UNCHANGED <<depth, slots>>
      BY <1>2, <1>3, <2>2 DEF Reserve
    <2>. QED
      BY <1>3, <2>1, <2>2 DEF Reserve, Return
  <1>4. ASSUME NEW s \in Sessions, Upgrade(s)
        PROVE  Counted'
    <2>1. CASE gauge' = (IF Proxy THEN gauge ELSE gauge + 1) /\ Defer(s, IF Proxy THEN 1 ELSE 2)
      <3>1. depth[s] = 1 /\ depth' = [depth EXCEPT ![s] = WsLevel] /\ slots' = slots
        <4>1. depth[s] = 1
          BY <1>4 DEF Upgrade, At, StackMatches
        <4>. QED
          BY <1>4, <2>1, <4>1 DEF Upgrade, Defer, WsLevel
      <3>2. AtLeast(depth', 1) = AtLeast(depth, 1)
        BY <3>1 DEF AtLeast, WsLevel
      <3>3. Cardinality(AtLeast(depth', 2)) = Cardinality(AtLeast(depth, 2)) + 1
        <4>1. AtLeast(depth', 2) = AtLeast(depth, 2) \cup {s} /\ s \notin AtLeast(depth, 2)
          BY <3>1 DEF AtLeast, WsLevel
        <4>. QED
          BY <4>1, AtLeastFinite, FS_AddElement
      <3>. QED
        BY <2>1, <3>1, <3>2, <3>3 DEF Counted
    <2>2. CASE UNCHANGED <<depth, gauge>>
      BY <1>2, <1>4, <2>2 DEF Upgrade
    <2>. QED
      BY <1>4, <2>1, <2>2 DEF Upgrade, Return
  <1>5. ASSUME NEW s \in Sessions, ApplySettings(s) \/ OnConnect(s) \/ WrapConn(s)
        PROVE  Counted'
    <2>1. UNCHANGED <<slots, gauge>>
      BY <1>5 DEF ApplySettings, OnConnect, WrapConn, countVars
    <2>2. CASE UNCHANGED depth
      BY <1>2, <2>1, <2>2
    <2>3. ASSUME NEW n \in {1, 2}, Defer(s, n)
          PROVE  Counted'
      <3>1. depth[s] \in Nat /\ depth[s] >= 2 /\ depth' = [depth EXCEPT ![s] = depth[s] + n]
        BY <1>5, <2>3 DEF ApplySettings, OnConnect, WrapConn, At, Defer, StackMatches, LocalType,
                          WsLevel, KeepaliveLevel, HookLevel
      <3>2. AtLeast(depth', 1) = AtLeast(depth, 1) /\ AtLeast(depth', 2) = AtLeast(depth, 2)
        BY <3>1 DEF AtLeast
      <3>. QED
        BY <2>1, <3>2 DEF Counted
    <2>. QED
      BY <1>5, <2>2, <2>3 DEF ApplySettings, OnConnect, WrapConn, Return
  <1>6. ASSUME NEW s \in Sessions, NEW call, Pop(s, call), call \notin {"clear", "gauge"},
               UNCHANGED <<slots, gauge>>
        PROVE  Counted'
    <2>1. depth[s] \in Nat /\ depth[s] >= 2 /\ (depth[s] = 2 => Proxy)
      BY <1>6, PopLevel
    <2>2. depth' = [depth EXCEPT ![s] = depth[s] - 1]
      BY <1>6 DEF Pop
    <2>3. AtLeast(depth', 1) = AtLeast(depth, 1)
      BY <2>1, <2>2 DEF AtLeast
    <2>4. ~Proxy => AtLeast(depth', 2) = AtLeast(depth, 2)
      BY <2>1, <2>2 DEF AtLeast
    <2>. QED
      BY <1>6, <2>3, <2>4 DEF Counted
  <1>7. ASSUME NEW s \in Sessions, DeferGauge(s)
        PROVE  Counted'
    <2>1. Pop(s, "gauge")
      BY <1>7 DEF DeferGauge
    <2>2. depth[s] = 2 /\ ~Proxy
      BY <2>1, PopLevel
    <2>3. depth' = [depth EXCEPT ![s] = 1]
      BY <2>1, <2>2 DEF Pop
    <2>4. AtLeast(depth', 1) = AtLeast(depth, 1)
      BY <2>2, <2>3 DEF AtLeast
    <2>5. Cardinality(AtLeast(depth', 2)) = Cardinality(AtLeast(depth, 2)) - 1
      <3>1. AtLeast(depth', 2) = AtLeast(depth, 2) \ {s} /\ s \in AtLeast(depth, 2)
        BY <2>2, <2>3 DEF AtLeast
      <3>. QED
        BY <3>1, AtLeastFinite, FS_RemoveElement
    <2>. QED
      BY <1>7, <2>2, <2>4, <2>5 DEF DeferGauge, Counted
  <1>8. ASSUME NEW s \in Sessions, DeferClear(s)
        PROVE  Counted'
    <2>1. Pop(s, "clear")
      BY <1>8 DEF DeferClear
    <2>2. depth[s] = 1
      BY <2>1, PopLevel
    <2>3. depth' = [depth EXCEPT ![s] = 0]
      BY <2>1, <2>2 DEF Pop
    <2>4. Cardinality(AtLeast(depth', 1)) = Cardinality(AtLeast(depth, 1)) - 1
      <3>1. AtLeast(depth', 1) = AtLeast(depth, 1) \ {s} /\ s \in AtLeast(depth, 1)
        BY <2>2, <2>3 DEF AtLeast
      <3>. QED
        BY <3>1, AtLeastFinite, FS_RemoveElement
    <2>5. AtLeast(depth', 2) = AtLeast(depth, 2)
      BY <2>2, <2>3 DEF AtLeast
    <2>. QED
      BY <1>1, <1>8, <2>4, <2>5 DEF DeferClear, Counted
  <1>9. ASSUME NEW s \in Sessions,
               DeferStopTimer(s) \/ DeferConnClose(s) \/ DeferOnDisconnect(s)
                 \/ DeferStopKeepalive(s) \/ DeferWsClose(s)
        PROVE  Counted'
    BY <1>6, <1>9 DEF DeferStopTimer, DeferConnClose, DeferOnDisconnect, DeferStopKeepalive, DeferWsClose,
                      countVars
  <1>10. ASSUME NEW s \in Sessions,
                \/ Authorize(s) \/ CheckInitErr(s) \/ Deliver(s) \/ DeliverRejected(s) \/ AwaitDone(s)
                \/ ServeConn(s) \/ HandlerExits(s) \/ Background(s) \/ Grpc(s) \/ PeerGone(s)
         PROVE  Counted'
    BY <1>2, <1>10 DEF Authorize, CheckInitErr, Deliver, DeliverRejected, AwaitDone, ServeConn, Return,
                       HandlerExits, Background, KeepaliveCloses, KeepaliveStops, LifetimeFires, LifetimeCloses,
                       Grpc, TransportStarts, SessionClose, SessionNotify, PeerGone, countVars, handlerVars
  <1>11. CASE ServeStarts \/ AcceptClosed \/ GrpcStop \/ CloseListener \/ UNCHANGED vars
    BY <1>2, <1>11 DEF ServeStarts, AcceptClosed, GrpcStop, CloseListener, vars, countVars, handlerVars
  <1>. QED
    BY <1>3, <1>4, <1>5, <1>7, <1>8, <1>9, <1>10, <1>11 DEF Next, Handler, Unwinding

LEMMA SessionInit == Init => SessionInv
  <1> SUFFICES ASSUME Init PROVE SessionInv
    OBVIOUS
  <1>1. LocalType
    <2>1. quit \in BOOLEAN /\ FALSE \in BOOLEAN
      BY DEF Init
    <2>. QED
      BY <2>1 DEF Init, LocalType, Locations
  <1>2. StackMatches /\ CallsOwed /\ HandedOver
    BY DEF Init, StackMatches, CallsOwed, HandedOver, Serving, Ending, Alive,
           WsLevel, KeepaliveLevel, HookLevel, ConnLevel, TimerLevel
  <1>3. AtLeast(depth, 1) = {} /\ AtLeast(depth, 2) = {}
    BY DEF Init, AtLeast
  <1>4. Counted
    BY <1>3, FS_EmptySet, ConfigAssumption DEF Init, Counted
  <1>. QED
    BY <1>1, <1>2, <1>4 DEF SessionInv, LocalInv

LEMMA SessionAlways == Spec => []SessionInv
  <1>1. SessionInv /\ [Next]_vars => SessionInv'
    BY LocalInductive, CountedInductive DEF SessionInv
  <1>. QED
    BY <1>1, SessionInit, PTL DEF Spec

-----------------------------------------------------------------------------
\* A call is pending when the stack reaches its level.
LEMMA PendingLevel ==
    ASSUME LocalType, NEW s \in Sessions
    PROVE  /\ Pending(s, "clear") <=> depth[s] >= 1
           /\ Pending(s, "gauge") <=> ~Proxy /\ depth[s] >= 2
  <1>1. depth[s] \in 0 .. (IF Proxy THEN 5 ELSE 7)
    BY DEF LocalType
  <1>2. CASE Proxy
    BY <1>1, <1>2 DEF Pending, DeferOrder
  <1>3. CASE ~Proxy
    BY <1>1, <1>3 DEF Pending, DeferOrder
  <1>. QED
    BY <1>2, <1>3

\* A session in use has more than its slot and its gauge pending.
LEMMA InUseLevel ==
    ASSUME LocalInv, NEW s \in Sessions, InUse(s)
    PROVE  depth[s] >= WsLevel
  BY DEF LocalInv, LocalType, StackMatches, CallsOwed, HandedOver, InUse, Serving, WsLevel, ConnLevel

\* Slot and gauge are released only when the session is over, for every
\* interleaving of handlers, timers, gRPC and peers: the open sessions never
\* outnumber MaxActiveConnections (server.go:626-628).
THEOREM AccountsAlwaysCover == Spec => []AccountsCoverSessions
  <1>1. SessionInv => AccountsCoverSessions
    <2> SUFFICES ASSUME SessionInv PROVE AccountsCoverSessions
      OBVIOUS
    <2> USE DEF SessionInv, LocalInv
    <2>1. {s \in Sessions : Pending(s, "clear")} = AtLeast(depth, 1)
      BY PendingLevel DEF AtLeast
    <2>2. gauge = Cardinality({s \in Sessions : Pending(s, "gauge")})
      <3>1. CASE Proxy
        <4>1. {s \in Sessions : Pending(s, "gauge")} = {}
          BY <3>1, PendingLevel
        <4>. QED
          BY <3>1, <4>1, FS_EmptySet DEF Counted
      <3>2. CASE ~Proxy
        <4>1. {s \in Sessions : Pending(s, "gauge")} = AtLeast(depth, 2)
          BY <3>2, PendingLevel DEF AtLeast
        <4>. QED
          BY <3>2, <4>1 DEF Counted
      <3>. QED
        BY <3>1, <3>2
    <2>3. \A s \in Sessions : InUse(s) => Pending(s, "clear") /\ (Proxy \/ Pending(s, "gauge"))
      BY PendingLevel, InUseLevel DEF WsLevel, LocalType
    <2>. QED
      BY <2>1, <2>2, <2>3 DEF Counted, AccountsCoverSessions
  <1>. QED
    BY <1>1, SessionAlways, PTL

\* OnDisconnect is called for every OnConnect that returned, and not before
\* the socket is closed and gRPC has let go of the session.
THEOREM DisconnectOnlyAtTrueEnd == Spec => []DisconnectAtTrueEnd
  <1>1. SessionInv => DisconnectAtTrueEnd
    BY DEF SessionInv, LocalInv, LocalType, StackMatches, CallsOwed, HandedOver, DisconnectAtTrueEnd, InUse,
           Ending, WsLevel, HookLevel, ConnLevel
  <1>. QED
    BY <1>1, SessionAlways, PTL

\* A handler that has returned leaves no armed timer, no keepalive goroutine
\* without its stop and no session in use.
THEOREM NothingIsLeftBehind == Spec => []NothingLeftBehind
  <1>1. SessionInv => NothingLeftBehind
    BY DEF SessionInv, LocalInv, LocalType, StackMatches, CallsOwed, HandedOver, NothingLeftBehind, InUse,
           WsLevel, KeepaliveLevel, TimerLevel
  <1>. QED
    BY <1>1, SessionAlways, PTL

\* The pool of slots as the handlers use it: whoever has the release pending.
Pool == INSTANCE SlotPool WITH Users <- Sessions, Cap <- MaxActive, held <- AtLeast(depth, 1)

\* The instance counts with the same operator.
LEMMA SameCardinality == Pool!Cardinality(AtLeast(depth, 1)) = Cardinality(AtLeast(depth, 1))
  BY Zenon DEF Pool!Cardinality, Cardinality

\* Only Reserve and the deferred clear move a handler across the first level of
\* its stack.
LEMMA PoolStep ==
    ASSUME SessionInv, [Next]_vars
    PROVE  [Pool!Next]_(AtLeast(depth, 1))
  <1> USE DEF SessionInv, LocalInv
  <1>. depth \in [Sessions -> Nat]
    BY DEF LocalType
  <1>1. ASSUME AtLeast(depth', 1) = AtLeast(depth, 1)
        PROVE  [Pool!Next]_(AtLeast(depth, 1))
    <2>1. AtLeast(depth, 1)' = AtLeast(depth', 1)
      BY DEF AtLeast
    <2>. QED
      BY <1>1, <2>1
  <1>2. ASSUME NEW s \in Sessions, Reserve(s)
        PROVE  [Pool!Next]_(AtLeast(depth, 1))
    <2>1. depth[s] = 0
      BY <1>2 DEF Reserve, At, StackMatches
    <2>2. CASE slots < MaxActive /\ Defer(s, 1)
      <3>1. depth' = [depth EXCEPT ![s] = 1]
        BY <2>1, <2>2 DEF Defer
      <3>2. s \notin AtLeast(depth, 1) /\ AtLeast(depth, 1)' = AtLeast(depth, 1) \cup {s}
        BY <2>1, <3>1 DEF AtLeast
      <3>3. Cardinality(AtLeast(depth, 1)) < MaxActive
        BY <2>2 DEF Counted
      <3>. QED
        BY <3>2, <3>3, SameCardinality DEF Pool!Next, Pool!Take
    <2>3. CASE UNCHANGED depth
      BY <1>1, <2>3
    <2>. QED
      BY <1>2, <2>2, <2>3 DEF Reserve, Return
  <1>3. ASSUME NEW s \in Sessions, DeferClear(s)
        PROVE  [Pool!Next]_(AtLeast(depth, 1))
    <2>1. Pop(s, "clear")
      BY <1>3 DEF DeferClear
    <2>2. depth[s] = 1
      BY <2>1, PopLevel
    <2>3. depth' = [depth EXCEPT ![s] = 0]
      BY <2>1, <2>2 DEF Pop
    <2>4. s \in AtLeast(depth, 1) /\ AtLeast(depth, 1)' = AtLeast(depth, 1) \ {s}
      BY <2>2, <2>3 DEF AtLeast
    <2>. QED
      BY <2>4 DEF Pool!Next, Pool!Give
  <1>4. ASSUME NEW s \in Sessions, NEW n \in {1, 2}, Defer(s, n), depth[s] >= 1
        PROVE  [Pool!Next]_(AtLeast(depth, 1))
    BY <1>1, <1>4 DEF Defer, AtLeast
  <1>5. ASSUME NEW s \in Sessions, Upgrade(s) \/ ApplySettings(s) \/ OnConnect(s) \/ WrapConn(s)
        PROVE  [Pool!Next]_(AtLeast(depth, 1))
    <2>1. depth[s] >= 1
      BY <1>5 DEF Upgrade, ApplySettings, OnConnect, WrapConn, At, StackMatches, WsLevel,
                  KeepaliveLevel, HookLevel
    <2>. QED
      BY <1>1, <1>4, <1>5, <2>1 DEF Upgrade, ApplySettings, OnConnect, WrapConn, Return
  <1>6. ASSUME NEW s \in Sessions, NEW call, Pop(s, call), call # "clear"
        PROVE  [Pool!Next]_(AtLeast(depth, 1))
    <2>1. depth[s] \in Nat /\ depth[s] >= 2
      BY <1>6, PopLevel
    <2>2. depth' = [depth EXCEPT ![s] = depth[s] - 1]
      BY <1>6 DEF Pop
    <2>3. AtLeast(depth', 1) = AtLeast(depth, 1)
      BY <2>1, <2>2 DEF AtLeast
    <2>. QED
      BY <1>1, <2>3
  <1>7. ASSUME UNCHANGED depth
        PROVE  [Pool!Next]_(AtLeast(depth, 1))
    BY <1>1, <1>7
  <1>8. ASSUME NEW s \in Sessions,
               DeferStopTimer(s) \/ DeferConnClose(s) \/ DeferOnDisconnect(s)
                 \/ DeferStopKeepalive(s) \/ DeferWsClose(s) \/ DeferGauge(s)
        PROVE  [Pool!Next]_(AtLeast(depth, 1))
    BY <1>6, <1>8 DEF DeferStopTimer, DeferConnClose, DeferOnDisconnect, DeferStopKeepalive, DeferWsClose,
                      DeferGauge
  <1>9. ASSUME NEW s \in Sessions,
               \/ Authorize(s) \/ CheckInitErr(s) \/ Deliver(s) \/ DeliverRejected(s) \/ AwaitDone(s)
               \/ ServeConn(s) \/ HandlerExits(s) \/ Background(s) \/ Grpc(s) \/ PeerGone(s)
        PROVE  [Pool!Next]_(AtLeast(depth, 1))
    BY <1>7, <1>9 DEF Authorize, CheckInitErr, Deliver, DeliverRejected, AwaitDone, ServeConn, Return,
                      HandlerExits, Background, KeepaliveCloses, KeepaliveStops, LifetimeFires, LifetimeCloses,
                      Grpc, TransportStarts, SessionClose, SessionNotify, PeerGone, handlerVars
  <1>10. CASE ServeStarts \/ AcceptClosed \/ GrpcStop \/ CloseListener \/ UNCHANGED vars
    BY <1>7, <1>10 DEF ServeStarts, AcceptClosed, GrpcStop, CloseListener, vars, handlerVars
  <1>. QED
    BY <1>2, <1>3, <1>5, <1>8, <1>9, <1>10 DEF Next, Handler, Unwinding

\* The handlers use the guard as the pool of slots that AbuseGuard implements:
\* nobody takes a second slot, and a handler gives back its own, once, whichever
\* way it ends (server.go:566-582, bridge.go).
THEOREM SessionsUseSlotPool == Spec => Pool!Spec
  <1>1. Init => Pool!Init
    BY DEF Init, Pool!Init, AtLeast
  <1>2. SessionInv /\ [Next]_vars => [Pool!Next]_(AtLeast(depth, 1))
    BY PoolStep
  <1>. QED
    BY <1>1, <1>2, SessionAlways, PTL DEF Spec, Pool!Spec

-----------------------------------------------------------------------------
(***************************************************************************)
(* What the liveness of a session rests on: whoever waits is owed a step   *)
(* by somebody who can take it, and a handler takes only so many steps.    *)
(***************************************************************************)
\* A handler that waits for the listener has a Serve loop that will accept or a
\* listener that is closed; one that waits for session.done has gRPC still at
\* work on the session, or the channel is closed.
NobodyStranded ==
    \A s \in Sessions :
        /\ pc[s] = "deliver" => serveLoop \in {"starting", "accepting"} \/ listener = "closed"
        /\ pc[s] = "waitDone" => xport[s] \in {"accepted", "serving", "closing"} \/ done[s]

\* The listener is closed when nobody accepts any more, and done with its
\* transport.
WakersInv ==
    /\ \A s \in Sessions :
        /\ pc[s] = "deliver" => Native
        /\ pc[s] = "waitDone" => xport[s] # "none"
        /\ xport[s] = "closed" => done[s]
    /\ serveLoop = "exited" => listener = "closed"

LEMMA WakersInductive == LocalType /\ WakersInv /\ [Next]_vars => WakersInv'
  <1> SUFFICES ASSUME LocalType, WakersInv, [Next]_vars
               PROVE  WakersInv'
    OBVIOUS
  <1> USE DEF LocalType, WakersInv, Native
  <1>1. ASSUME NEW s \in Sessions,
               \/ Authorize(s) \/ CheckInitErr(s) \/ Reserve(s) \/ Upgrade(s) \/ ApplySettings(s)
               \/ OnConnect(s) \/ WrapConn(s) \/ DeliverRejected(s) \/ AwaitDone(s) \/ ServeConn(s)
               \/ HandlerExits(s)
        PROVE  WakersInv'
    BY <1>1 DEF Authorize, CheckInitErr, Reserve, Upgrade, ApplySettings, OnConnect, WrapConn,
                DeliverRejected, AwaitDone, ServeConn, HandlerExits, Return, Goto, xportVars, serverVars
  <1>2. ASSUME NEW s \in Sessions, Deliver(s)
        PROVE  WakersInv'
    BY <1>2 DEF Deliver, Goto, serverVars
  <1>3. ASSUME NEW s \in Sessions, Unwinding(s) \/ Background(s) \/ PeerGone(s), ~HandlerExits(s)
        PROVE  WakersInv'
    BY <1>3 DEF Unwinding, Background, PeerGone, DeferStopTimer, DeferConnClose, DeferOnDisconnect,
                DeferStopKeepalive, DeferWsClose, DeferGauge, DeferClear, Pop, KeepaliveCloses,
                KeepaliveStops, LifetimeFires, LifetimeCloses, handlerVars, xportVars, serverVars
  <1>4. ASSUME NEW s \in Sessions, Grpc(s)
        PROVE  WakersInv'
    BY <1>4 DEF Grpc, TransportStarts, SessionClose, SessionNotify, handlerVars, serverVars
  <1>5. CASE ServeStarts \/ AcceptClosed \/ GrpcStop \/ CloseListener
    BY <1>5 DEF ServeStarts, AcceptClosed, GrpcStop, CloseListener, handlerVars, xportVars
  <1>6. CASE UNCHANGED vars
    BY <1>6 DEF vars, handlerVars, xportVars, serverVars
  <1>. QED
    BY <1>1, <1>2, <1>3, <1>4, <1>5, <1>6 DEF Next, Handler, Unwinding

\* No handler waits on a channel that nobody will ever serve: not in deliver,
\* whenever Serve starts, stops accepting or finds the server stopped, and not
\* on session.done, whoever closed the session (server_native.go).
THEOREM NoHandlerIsStranded == Spec => []NobodyStranded
  <1>1. Init => WakersInv
    BY DEF Init, WakersInv
  <1>2. SessionInv /\ SessionInv' /\ WakersInv /\ [Next]_vars => WakersInv'
    BY WakersInductive DEF SessionInv, LocalInv
  <1>3. SessionInv /\ WakersInv => NobodyStranded
    BY DEF SessionInv, LocalInv, LocalType, WakersInv, NobodyStranded, Native
  <1>. QED
    BY <1>1, <1>2, <1>3, SessionAlways, PTL DEF Spec

\* The steps a handler has left, at most.
StepsLeft(place, calls) ==
    CASE place \in {"authorize", "initErr"} -> 17
      [] place = "reserve" -> 16
      [] place = "upgrade" -> 15
      [] place = "settings" -> 14
      [] place = "onConnect" -> 13
      [] place = "wrap" -> 12
      [] place \in {"deliver", "serve"} -> 11
      [] place = "waitDone" -> 10
      [] place = "unwind" -> calls + 1
      [] OTHER -> 0

\* No handler goes back: a step of it leaves it fewer steps, and a step of
\* anybody else leaves it where it is.
HandlerAdvances ==
    \A s \in Sessions :
        <<pc[s], depth[s]>>' # <<pc[s], depth[s]>> =>
            StepsLeft(pc[s], depth[s])' < StepsLeft(pc[s], depth[s])

LEMMA StackIsShort ==
    ASSUME LocalType, NEW s \in Sessions
    PROVE  depth[s] \in 0 .. 7
  BY DEF LocalType

\* A handler's every step is its own and brings it closer to its end, so it runs
\* each deferred call once and ends after at most 17 steps, whatever gRPC, the
\* timers and the peer do meanwhile (server.go:546-690, bridge.go).
THEOREM HandlersOnlyAdvance == Spec => [][HandlerAdvances]_vars
  <1>1. SessionInv /\ [Next]_vars => [HandlerAdvances]_vars
    <2> SUFFICES ASSUME SessionInv, Next, NEW t \in Sessions,
                        <<pc[t], depth[t]>>' # <<pc[t], depth[t]>>
                 PROVE  StepsLeft(pc[t], depth[t])' < StepsLeft(pc[t], depth[t])
      BY DEF HandlerAdvances
    <2> USE DEF SessionInv, LocalInv, StepsLeft
    <2>0. depth[t] \in 0 .. 7 /\ pc \in [Sessions -> Locations] /\ DOMAIN depth = Sessions
      BY StackIsShort DEF LocalType
    <2>1. ASSUME NEW s \in Sessions,
                 \/ Authorize(s) \/ CheckInitErr(s) \/ Reserve(s) \/ Upgrade(s) \/ ApplySettings(s)
                 \/ OnConnect(s) \/ WrapConn(s) \/ Deliver(s) \/ DeliverRejected(s) \/ AwaitDone(s)
                 \/ ServeConn(s) \/ HandlerExits(s)
          PROVE  StepsLeft(pc[t], depth[t])' < StepsLeft(pc[t], depth[t])
      <3>1. s = t
        BY <2>0, <2>1 DEF Authorize, CheckInitErr, Reserve, Upgrade, ApplySettings, OnConnect, WrapConn,
                          Deliver, DeliverRejected, AwaitDone, ServeConn, HandlerExits, Return, Goto, Defer
      <3>2. \/ pc[t] \in {"authorize", "initErr"} /\ pc'[t] \in {"reserve", "unwind"}
            \/ pc[t] = "reserve" /\ pc'[t] \in {"upgrade", "unwind"}
            \/ pc[t] = "upgrade" /\ pc'[t] \in {"settings", "unwind"}
            \/ pc[t] = "settings" /\ pc'[t] \in {"onConnect", "unwind"}
            \/ pc[t] = "onConnect" /\ pc'[t] \in {"wrap", "unwind"}
            \/ pc[t] = "wrap" /\ pc'[t] \in {"deliver", "serve"}
            \/ pc[t] \in {"deliver", "serve"} /\ pc'[t] \in {"waitDone", "unwind"}
            \/ pc[t] = "waitDone" /\ pc'[t] = "unwind"
            \/ pc[t] = "unwind" /\ pc'[t] = "gone"
        BY <2>0, <2>1, <3>1
           DEF Authorize, CheckInitErr, Reserve, Upgrade, ApplySettings, OnConnect, WrapConn, Deliver,
               DeliverRejected, AwaitDone, ServeConn, HandlerExits, At, Return, Goto
      <3>3. pc'[t] = "unwind" => depth'[t] = depth[t]
        BY <2>0, <2>1, <3>1
           DEF Authorize, CheckInitErr, Reserve, Upgrade, ApplySettings, OnConnect, WrapConn, Deliver,
               DeliverRejected, AwaitDone, ServeConn, HandlerExits, Return, Goto
      <3>. QED
        BY <2>0, <3>2, <3>3
    <2>2. ASSUME NEW s \in Sessions, NEW call, Pop(s, call)
          PROVE  StepsLeft(pc[t], depth[t])' < StepsLeft(pc[t], depth[t])
      <3>1. s = t /\ pc'[t] = "unwind" /\ pc[t] = "unwind" /\ depth'[t] = depth[t] - 1
        BY <2>0, <2>2 DEF Pop, At
      <3>. QED
        BY <2>0, <3>1
    <2>3. ASSUME NEW s \in Sessions, Background(s) \/ Grpc(s) \/ PeerGone(s)
          PROVE  FALSE
      BY <2>3 DEF Background, Grpc, KeepaliveCloses, KeepaliveStops, LifetimeFires, LifetimeCloses,
                  TransportStarts, SessionClose, SessionNotify, PeerGone, handlerVars
    <2>4. CASE ServeStarts \/ AcceptClosed \/ GrpcStop \/ CloseListener
      BY <2>4 DEF ServeStarts, AcceptClosed, GrpcStop, CloseListener, handlerVars
    <2>. QED
      BY <2>1, <2>2, <2>3, <2>4
         DEF Next, Handler, Unwinding, DeferStopTimer, DeferConnClose, DeferOnDisconnect,
             DeferStopKeepalive, DeferWsClose, DeferGauge, DeferClear
  <1>. QED
    BY <1>1, SessionAlways, PTL DEF Spec
=============================================================================
