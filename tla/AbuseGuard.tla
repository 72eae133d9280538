----------------------------- MODULE AbuseGuard -----------------------------
(***************************************************************************)
(* The in-memory abuse guard that every websocket upgrade passes through   *)
(* (pkg/grpctunnel/abuse_control.go, retry_after.go).  With SweepsWindows  *)
(* FALSE it is the guard of the frozen pkg/bridge, which is the same code  *)
(* without the sweep of expired windows.                                   *)
(*                                                                         *)
(* An upgrade handler reads the wall clock and only then takes the guard's *)
(* mutex (the argument time.Now() of server.go:567), so the instants reach *)
(* the guard late and out of order.  Arrive reads the clock; each of the   *)
(* outcomes of reserveBridgeConnection is one step under the mutex.        *)
(***************************************************************************)
EXTENDS Integers, FiniteSets

CONSTANTS
    Requests,                       \* upgrade requests, one per handler goroutine
    RemoteAddr,                     \* r.RemoteAddr, as [host, port]; host "" when unusable
    Ports,                          \* the ports that requests come from
    MaxActiveConnections,           \* global cap; 0 disables it
    MaxConnectionsPerClient,        \* per-client cap; 0 disables it
    MaxUpgradesPerClientPerMinute,  \* upgrade budget of one window; 0 disables it
    Window,                         \* bridgeAbuseWindowDuration, in ticks
    Second,                         \* ticks in a second
    SweepsWindows,                  \* TRUE: grpctunnel, FALSE: bridge
    LockDelay,                      \* bound: ticks from time.Now() to the mutex
    MaxTime                         \* bound: the last instant of the clock

ASSUME RequestsFinite == IsFiniteSet(Requests)
ASSUME AddrAssumption ==
    RemoteAddr \in [Requests -> [host : STRING, port : Ports]]
ASSUME ConfigAssumption ==            \* GetBridgeConfigError, server.go:216-258
    /\ MaxActiveConnections \in Nat
    /\ MaxConnectionsPerClient \in Nat
    /\ MaxUpgradesPerClientPerMinute \in Nat
ASSUME TimeAssumption ==
    /\ Window \in Nat \ {0}
    /\ Second \in Nat \ {0}
    /\ LockDelay \in Nat
    /\ MaxTime \in Nat
ASSUME SweepAssumption == SweepsWindows \in BOOLEAN

VARIABLES
    clock,      \* the wall clock
    pc,         \* where each request is
    stamp,      \* the instant each request read before it asked for the mutex
    active,     \* getActiveConnections
    conns,      \* storeClientConnections, a map: the keys present are its domain
    windows,    \* storeClientUpgradeAttempts, likewise
    lastSweep,  \* lastWindowSweepAt
    retryAfter, \* the Retry-After header of each response, 0 when it has none
    countedAt,  \* history: when the guard charged the request to a window
    refusedBy   \* history: start of the window that refused the request

slotVars    == <<active, conns>>
windowVars  == <<windows, lastSweep>>
historyVars == <<countedAt, refusedBy>>
vars == <<clock, pc, stamp, slotVars, windowVars, retryAfter, historyVars>>

(***************************************************************************)
(* Maps as Go has them: a missing key reads as the zero value.             *)
(***************************************************************************)
Lookup(m, k) == IF k \in DOMAIN m THEN m[k] ELSE 0
Store(m, k, v) == [x \in DOMAIN m \cup {k} |-> IF x = k THEN v ELSE m[x]]
Delete(m, k) == [x \in DOMAIN m \ {k} |-> m[x]]

\* The host without the port; "unknown" when the address has none.
ClientKeyWithPort(r) ==
    RemoteAddr[r]
ClientKey(r) ==
    IF RemoteAddr[r].host = "" THEN "unknown" ELSE RemoteAddr[r].host

Keys == {ClientKey(r) : r \in Requests}

NoTime   == -1          \* an instant that was never recorded
ZeroTime == -Window     \* Go's zero time: a window or more before any instant

Stages == {"new", "stamped", "held", "refused", "released"}

Holders == {r \in Requests : pc[r] = "held"}
HoldersOf(k) == {r \in Holders : ClientKey(r) = k}

-----------------------------------------------------------------------------
(***************************************************************************)
(* The rate window.                                                        *)
(***************************************************************************)
RateLimited == MaxUpgradesPerClientPerMinute > 0

SweepDue(now) == SweepsWindows /\ now - lastSweep >= Window

\* sweepExpiredUpgradeWindows: what is left of the map.
SweptEarly(now) ==
    IF SweepDue(now)
    THEN [k \in {j \in DOMAIN windows : now - windows[j].start < Window - 1} |-> windows[k]]
    ELSE windows
SweptNever(now) == windows
Swept(now) ==
    IF SweepDue(now)
    THEN [k \in {j \in DOMAIN windows : now - windows[j].start < Window} |-> windows[k]]
    ELSE windows

LastSweepAfter(now) == IF SweepDue(now) THEN now ELSE lastSweep

\* The client's window, or a fresh one when it has none or the one it has is over.
WindowAtUnsigned(k, now) ==
    IF k \in DOMAIN Swept(now) /\ now - Swept(now)[k].start \in 0 .. Window - 1
    THEN Swept(now)[k]
    ELSE [start |-> now, count |-> 0]
WindowAt(k, now) ==
    IF k \in DOMAIN Swept(now) /\ now - Swept(now)[k].start < Window
    THEN Swept(now)[k]
    ELSE [start |-> now, count |-> 0]

\* setRetryAfter: whole seconds, rounded up, at least one; no header for wait <= 0.
RetryAfterTruncated(wait) ==
    IF wait <= 0 THEN 0
    ELSE IF wait \div Second < 1 THEN 1 ELSE wait \div Second
RetryAfterSeconds(wait) ==
    IF wait <= 0 THEN 0 ELSE (wait + Second - 1) \div Second

-----------------------------------------------------------------------------
Init ==
    /\ clock = 0
    /\ pc = [r \in Requests |-> "new"]
    /\ stamp = [r \in Requests |-> NoTime]
    /\ active = 0
    /\ conns = [k \in {} |-> 0]
    /\ windows = [k \in {} |-> [start |-> 0, count |-> 0]]
    /\ lastSweep = ZeroTime
    /\ retryAfter = [r \in Requests |-> 0]
    /\ countedAt = [r \in Requests |-> NoTime]
    /\ refusedBy = [r \in Requests |-> NoTime]

\* Time passes, but no request waits for the mutex longer than LockDelay.
Tick ==
    /\ clock < MaxTime
    /\ \A r \in Requests : pc[r] = "stamped" => clock - stamp[r] < LockDelay
    /\ clock' = clock + 1
    /\ UNCHANGED <<pc, stamp, slotVars, windowVars, retryAfter, historyVars>>

\* The handler evaluates time.Now() and goes on to ask for the mutex.
Arrive(r) ==
    /\ pc[r] = "new"
    /\ pc' = [pc EXCEPT ![r] = "stamped"]
    /\ stamp' = [stamp EXCEPT ![r] = clock]
    /\ UNCHANGED <<clock, slotVars, windowVars, retryAfter, historyVars>>

\* The budget of the window is spent: 429 with the wait, nothing charged.
\* The sweep that went before stays.
RefuseRate(r) ==
    LET now == stamp[r]
        win == WindowAt(ClientKey(r), now)
    IN  /\ pc[r] = "stamped"
        /\ RateLimited
        /\ win.count >= MaxUpgradesPerClientPerMinute
        /\ windows' = Swept(now)
        /\ lastSweep' = LastSweepAfter(now)
        /\ pc' = [pc EXCEPT ![r] = "refused"]
        /\ retryAfter' = [retryAfter EXCEPT ![r] = RetryAfterSeconds(win.start + Window - now)]
        /\ refusedBy' = [refusedBy EXCEPT ![r] = win.start]
        /\ UNCHANGED <<clock, stamp, slotVars, countedAt>>

\* The attempt is charged to the client's window, whatever the caps say next.
ChargeAttempt(r) ==
    LET now == stamp[r]
        key == ClientKey(r)
        win == WindowAt(key, now)
    IN  IF RateLimited
        THEN /\ win.count < MaxUpgradesPerClientPerMinute
             /\ windows' = Store(Swept(now), key, [win EXCEPT !.count = @ + 1])
             /\ lastSweep' = LastSweepAfter(now)
             /\ countedAt' = [countedAt EXCEPT ![r] = clock]
        ELSE UNCHANGED <<windowVars, countedAt>>

AtGlobalCapLate ==
    MaxActiveConnections > 0 /\ active > MaxActiveConnections
AtGlobalCap ==
    MaxActiveConnections > 0 /\ active >= MaxActiveConnections
AtClientCap(k) ==
    MaxConnectionsPerClient > 0 /\ Lookup(conns, k) >= MaxConnectionsPerClient

\* A cap refuses: 429 with no Retry-After, no slot taken.
RefuseCap(r) ==
    /\ pc[r] = "stamped"
    /\ ChargeAttempt(r)
    /\ AtGlobalCap \/ AtClientCap(ClientKey(r))
    /\ pc' = [pc EXCEPT ![r] = "refused"]
    /\ UNCHANGED <<clock, stamp, slotVars, retryAfter, refusedBy>>

\* The request gets a slot.
Admit(r) ==
    LET key == ClientKey(r)
    IN  /\ pc[r] = "stamped"
        /\ ChargeAttempt(r)
        /\ ~AtGlobalCap
        /\ ~AtClientCap(key)
        /\ active' = active + 1
        /\ conns' = Store(conns, key, Lookup(conns, key) + 1)
        /\ pc' = [pc EXCEPT ![r] = "held"]
        /\ UNCHANGED <<clock, stamp, retryAfter, refusedBy>>

\* clearBridgeConnection, deferred by the handler that holds the slot.
ClearStoresZero(r) ==
    LET key == ClientKey(r)
    IN  /\ pc[r] = "held"
        /\ active' = IF active > 0 THEN active - 1 ELSE active
        /\ conns' = Store(conns, key, Lookup(conns, key) - 1)
        /\ pc' = [pc EXCEPT ![r] = "released"]
        /\ UNCHANGED <<clock, stamp, windowVars, retryAfter, historyVars>>
Clear(r) ==
    LET key == ClientKey(r)
    IN  /\ pc[r] = "held"
        /\ active' = IF active > 0 THEN active - 1 ELSE active
        /\ conns' = IF Lookup(conns, key) <= 1
                    THEN Delete(conns, key)
                    ELSE Store(conns, key, Lookup(conns, key) - 1)
        /\ pc' = [pc EXCEPT ![r] = "released"]
        /\ UNCHANGED <<clock, stamp, windowVars, retryAfter, historyVars>>

Next ==
    \/ Tick
    \/ \E r \in Requests :
        Arrive(r) \/ RefuseRate(r) \/ RefuseCap(r) \/ Admit(r) \/ Clear(r)

Spec == Init /\ [][Next]_vars

-----------------------------------------------------------------------------
(***************************************************************************)
(* Properties.                                                             *)
(***************************************************************************)
Instants == 0 .. MaxTime

\* Every variable has its type; the maps hold only keys of known clients.
TypeOK ==
    /\ clock \in Instants
    /\ pc \in [Requests -> Stages]
    /\ stamp \in [Requests -> Instants \cup {NoTime}]
    /\ active \in Nat
    /\ DOMAIN conns \subseteq Keys
    /\ conns \in [DOMAIN conns -> Nat]
    /\ DOMAIN windows \subseteq Keys
    /\ windows \in [DOMAIN windows -> [start : Instants, count : Nat]]
    /\ lastSweep \in Instants \cup {ZeroTime}
    /\ retryAfter \in [Requests -> Nat]
    /\ countedAt \in [Requests -> Instants \cup {NoTime}]
    /\ refusedBy \in [Requests -> Instants \cup {NoTime}]

\* The counters are exactly the handlers that hold a slot, in total and per
\* client, over every order of reserve and clear: no slot leaks, none is
\* released twice (the clamps of clearBridgeConnection never hide one), and a
\* client without connections leaves no key behind in the map.
SlotAccounting ==
    /\ active = Cardinality(Holders)
    /\ DOMAIN conns = {ClientKey(r) : r \in Holders}
    /\ \A k \in DOMAIN conns : conns[k] = Cardinality(HoldersOf(k))

\* The handlers holding a slot never outnumber the configured caps, in total
\* and per client host, whatever ports the client's connections come from.
CapsRespected ==
    /\ MaxActiveConnections > 0 => Cardinality(Holders) <= MaxActiveConnections
    /\ MaxConnectionsPerClient > 0 =>
        \A r \in Requests :
            Cardinality({q \in Holders : RemoteAddr[q].host = RemoteAddr[r].host})
                <= MaxConnectionsPerClient

ChargedWithin(k, t) ==
    {r \in Requests : /\ countedAt[r] \in t .. (t + Window - 1)
                      /\ ClientKey(r) = k}

\* What a fixed window promises over a sliding one: an interval as long as the
\* window holds fewer than two budgets of one client's charged attempts, and
\* fewer than three when handlers come to the mutex up to a third of a window
\* after they read the clock (the opener of a window always spends one unit at
\* its start, hence "fewer").  The fullest intervals begin with a charge.
SlidingRateBound ==
    LET budgets == IF LockDelay = 0 THEN 2 ELSE 3
    IN  RateLimited /\ 3 * LockDelay <= Window =>
            \A k \in Keys, t \in {countedAt[r] : r \in Requests} \ {NoTime} :
                Cardinality(ChargedWithin(k, t)) < budgets * MaxUpgradesPerClientPerMinute

\* "A client that obeys it is never early" (retry_after.go:55-58): a rate
\* refusal always carries a Retry-After; when that many seconds have passed
\* the window that refused is over, a client that comes back then is never
\* refused by that window again, and the wait is less than a second too long.
RetryAfterHonest ==
    \A r \in Requests : refusedBy[r] # NoTime =>
        LET ready == stamp[r] + retryAfter[r] * Second
        IN  /\ retryAfter[r] >= 1
            /\ ready >= refusedBy[r] + Window
            /\ ready < refusedBy[r] + Window + Second
            /\ \A q \in Requests :
                  /\ refusedBy[q] # NoTime
                  /\ ClientKey(q) = ClientKey(r)
                  /\ stamp[q] >= ready
                  => refusedBy[q] > refusedBy[r]

\* A client's budget is never given back early: a step drops or replaces a
\* stored window only when a full window of real time has gone by since its
\* start, and otherwise only adds to its count.  Stale instants, sweeps made
\* for other clients, and refusals included.
BudgetNeverReset ==
    [][\A k \in DOMAIN windows :
          \/ clock - windows[k].start >= Window
          \/ /\ k \in DOMAIN windows'
             /\ windows'[k].start = windows[k].start
             /\ windows'[k].count >= windows[k].count]_vars

\* "The per-client map cannot grow without bound" (abuse_control.go:96-98):
\* once a request has been through the rate check, no window that started two
\* windows or more before it is left in the map, so the map holds the clients
\* of the last two minutes however many addresses churn.
WindowMapSwept ==
    SweepsWindows /\ LockDelay < Window =>
        \A r \in Requests, k \in DOMAIN windows :
            countedAt[r] # NoTime \/ refusedBy[r] # NoTime =>
                windows[k].start > stamp[r] - 2 * Window
=============================================================================
