--------------------------- MODULE BrowserClient ---------------------------
(***************************************************************************)
(* Dialing in the browser (pkg/wasm/dialer/dialer.go) in front of the      *)
(* connection it yields (BrowserConn).  gRPC dials again until one attempt *)
(* opens; each attempt has a socket of its own, two handlers on it and a   *)
(* context that may be cancelled at any time.                              *)
(*                                                                         *)
(* GOOS=js returns to the event loop only when every goroutine is blocked, *)
(* so no event comes between waking the dial and its return.  A blocked    *)
(* select is decided by what wakes it.  The browser (external) moves a     *)
(* socket from connecting to open, or to closed with an error event.       *)
(***************************************************************************)
EXTENDS BrowserConn

CONSTANT MaxDials       \* bound: attempts

ASSUME DialAssumption == MaxDials \in Nat \ {0}

Dials == 1 .. MaxDials

VARIABLES
    attempt,    \* the current or last attempt
    dial,       \* "idle", "waiting" in the select, woken by an outcome, "connected"
    cancelled,  \* the context of the current attempt is done
    sockets,    \* the browser's socket of each attempt
    handlers    \* the dial's handlers that are set on each socket

dialVars == <<attempt, dial, cancelled, sockets, handlers>>
clientVars == <<vars, dialVars>>

Outcomes == {"open", "error", "cancel"}     \* the three cases of the select
Woken == dial \in Outcomes
Connected == dial = "connected"

ClientInit ==
    /\ Init
    /\ attempt = 0 /\ dial = "idle" /\ cancelled = FALSE
    /\ sockets = [d \in Dials |-> "none"]
    /\ handlers = [d \in Dials |-> {}]

-----------------------------------------------------------------------------
(***************************************************************************)
(* The dial goroutine.                                                     *)
(***************************************************************************)
\* A socket is made and both handlers are set; a context that is already done
\* decides the select at once.
DialStartsDeaf ==
    /\ dial = "idle" /\ attempt < MaxDials
    /\ attempt' = attempt + 1
    /\ sockets' = [sockets EXCEPT ![attempt + 1] = "connecting"]
    /\ handlers' = [handlers EXCEPT ![attempt + 1] = {"onopen"}]
    /\ cancelled' \in BOOLEAN
    /\ dial' = IF cancelled' THEN "cancel" ELSE "waiting"
    /\ UNCHANGED vars
DialStarts ==
    /\ dial = "idle" /\ attempt < MaxDials
    /\ attempt' = attempt + 1
    /\ sockets' = [sockets EXCEPT ![attempt + 1] = "connecting"]
    /\ handlers' = [handlers EXCEPT ![attempt + 1] = {"onopen", "onerror"}]
    /\ cancelled' \in BOOLEAN
    /\ dial' = IF cancelled' THEN "cancel" ELSE "waiting"
    /\ UNCHANGED vars

\* An environment without WebSocket: the attempt fails before there is a socket.
DialUnavailable ==
    /\ dial = "idle" /\ attempt < MaxDials
    /\ attempt' = attempt + 1
    /\ UNCHANGED <<vars, dial, cancelled, sockets, handlers>>

\* ws.close() on a socket that is not closed yet.
CloseSocket(d) ==
    sockets' = [sockets EXCEPT ![d] = IF @ = "closed" THEN @ ELSE "closing"]
ClearHandlers(d) == handlers' = [handlers EXCEPT ![d] = {}]

\* Open: the dial's handlers make room for those of NewWebSocketConn; from
\* here on jsSocket of BrowserConn is the socket.
ReturnConn ==
    /\ dial = "open" /\ dial' = "connected"
    /\ ClearHandlers(attempt)
    /\ sockets' = [sockets EXCEPT ![attempt] = "taken"]
    /\ UNCHANGED <<vars, attempt, cancelled>>

\* Error and cancellation take the handlers off and close the socket.
ReturnError ==
    /\ dial = "error" /\ dial' = "idle"
    /\ ClearHandlers(attempt)
    /\ CloseSocket(attempt)
    /\ UNCHANGED <<vars, attempt, cancelled>>

ReturnCancelledKeepsHandlers ==
    /\ dial = "cancel" /\ dial' = "idle"
    /\ CloseSocket(attempt)
    /\ UNCHANGED <<vars, attempt, cancelled, handlers>>
ReturnCancelledNoClose ==
    /\ dial = "cancel" /\ dial' = "idle"
    /\ ClearHandlers(attempt)
    /\ UNCHANGED <<vars, attempt, cancelled, sockets>>
ReturnCancelled ==
    /\ dial = "cancel" /\ dial' = "idle"
    /\ ClearHandlers(attempt)
    /\ CloseSocket(attempt)
    /\ UNCHANGED <<vars, attempt, cancelled>>

\* The caller or gRPC's deadline ends the context (external).
Cancel ==
    /\ dial = "waiting" \/ Woken
    /\ ~cancelled /\ cancelled' = TRUE
    /\ dial' = IF dial = "waiting" THEN "cancel" ELSE dial
    /\ UNCHANGED <<vars, attempt, sockets, handlers>>

-----------------------------------------------------------------------------
(***************************************************************************)
(* Events of the sockets, abandoned ones included.  The dial waits in its  *)
(* select while its own handlers are called.                               *)
(***************************************************************************)
Event(d, from, to) ==
    /\ ~Woken
    /\ sockets[d] = from
    /\ sockets' = [sockets EXCEPT ![d] = to]
    /\ UNCHANGED <<vars, attempt, cancelled, handlers>>

Calls(d, handler, outcome) ==
    dial' = IF handler \in handlers[d] /\ d = attempt /\ dial = "waiting" THEN outcome ELSE dial

OpenFires(d) == Event(d, "connecting", "open") /\ Calls(d, "onopen", "open")
ErrorFires(d) == Event(d, "connecting", "closed") /\ Calls(d, "onerror", "error")
CloseFires(d) == Event(d, "closing", "closed") /\ Calls(d, "onerror", "error")

DialStep ==
    \/ DialStarts \/ DialUnavailable \/ Cancel
    \/ ReturnConn \/ ReturnError \/ ReturnCancelled
    \/ \E d \in Dials : OpenFires(d) \/ ErrorFires(d) \/ CloseFires(d)

ClientNext ==
    \/ DialStep
    \/ Connected /\ Next /\ UNCHANGED dialVars

\* The goroutine runs, the transport reads, and the browser reports how the
\* handshake ends.  Nothing is owed by the context.
ClientSpec ==
    /\ ClientInit /\ [][ClientNext]_clientVars
    /\ WF_clientVars(ReturnConn \/ ReturnError \/ ReturnCancelled)
    /\ \A d \in Dials : WF_clientVars(OpenFires(d) \/ ErrorFires(d))
    /\ WF_clientVars(Connected /\ Read /\ UNCHANGED dialVars)

-----------------------------------------------------------------------------
(***************************************************************************)
(* Properties.                                                             *)
(***************************************************************************)
\* No attempt leaves a socket behind: one that may still open, or is open, is
\* that of the dial under way, and one that is open is on its way to its
\* connection, with no event (a first message) in between.
NoOrphanSocket ==
    \A d \in Dials : sockets[d] \in {"connecting", "open"} =>
        /\ d = attempt /\ (dial = "waiting" \/ Woken)
        /\ sockets[d] = "open" => dial = "open"

\* The handlers are released when the dial returns: no socket, connected,
\* failed or abandoned while it still has events to fire, keeps one.
NoReleasedHandler ==
    \A d \in Dials : handlers[d] # {} => d = attempt /\ (dial = "waiting" \/ Woken)

\* A dial comes back even if nobody cancels it.
DialReturns == (dial = "waiting") ~> (dial # "waiting")
=============================================================================
