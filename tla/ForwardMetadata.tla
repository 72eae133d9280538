-------------------------- MODULE ForwardMetadata --------------------------
(***************************************************************************)
(* Metadata of the upgrade request that reaches the RPCs of a session      *)
(* served through net/http (pkg/grpctunnel/server.go): the forward set is  *)
(* made once per session, and every tunneled request gets the entries it   *)
(* lacks.  RPCs run concurrently and a handler may write into the header   *)
(* of its request, whose values are Go slices.                             *)
(*                                                                         *)
(* A header value is who set it; Blank is a header that is missing or      *)
(* holds only white space.                                                 *)
(***************************************************************************)
EXTENDS Integers

CONSTANTS
    Upgrades,       \* sessions
    RPCs,           \* tunneled requests of each session
    Blank

VARIABLES
    forward,    \* forwardEntries of each session, once it serves
    upgrade,    \* the upgrade request's headers and the span of its context
    rpc,        \* each tunneled request's header as it came in
    seen,       \* history: the header its handler was given
    edited,     \* the handler has written into the values it was given
    shared      \* the keys of it whose slice is the session's own

forwardVars == <<forward, upgrade, rpc, seen, edited, shared>>

Keys == {"x-request-id", "x-correlation-id", "traceparent", "tracestate"}
NoHeader == [k \in Keys |-> Blank]
FirstOf(a, b) == IF a # Blank THEN a ELSE b

\* A request may carry any of the headers; its context may have a valid span,
\* and that a trace state.
Headers(who) == [Keys -> {Blank, who}]
Spans == [traceparent : {Blank, "span"}, tracestate : {Blank, "span"}]
ValidSpan(s) == s.traceparent = Blank => s.tracestate = Blank

\* Blank is none of the other values, and no client is called "span".
ASSUME BlankAssumption ==
    /\ "span" \notin Upgrades \cup RPCs
    /\ Blank \notin Upgrades \cup RPCs \cup {"span"}
    /\ \A u \in Upgrades : Blank \notin [header : Headers(u), span : Spans]
    /\ \A i \in RPCs : Blank \notin Headers(i)

\* getGrpctunnelRequestID
RequestID(h) == FirstOf(h["x-request-id"], h["x-correlation-id"])

\* buildBridgeForwardHeaders: the ids stand in for each other, the span for
\* trace headers the client did not send.
BuildBridgeForwardHeaders(h, span) ==
    [k \in Keys |->
        CASE k = "x-request-id"     -> RequestID(h)
          [] k = "x-correlation-id" -> FirstOf(h[k], RequestID(h))
          [] k = "traceparent"      -> FirstOf(h[k], span.traceparent)
          [] k = "tracestate"       -> FirstOf(h[k], span.tracestate)]

ForwardInit ==
    /\ forward = [u \in Upgrades |-> NoHeader]
    /\ upgrade = [u \in Upgrades |-> Blank]
    /\ rpc = [u \in Upgrades |-> [i \in RPCs |-> Blank]]
    /\ seen = [u \in Upgrades |-> [i \in RPCs |-> NoHeader]]
    /\ edited = [u \in Upgrades |-> [i \in RPCs |-> FALSE]]
    /\ shared = [u \in Upgrades |-> [i \in RPCs |-> {}]]

\* The session starts to serve: the set is fixed.
ServeSession(u) ==
    /\ upgrade[u] = Blank
    /\ \E h \in Headers(u), span \in Spans :
        /\ ValidSpan(span)
        /\ upgrade' = [upgrade EXCEPT ![u] = [header |-> h, span |-> span]]
        /\ forward' = [forward EXCEPT ![u] = BuildBridgeForwardHeaders(h, span)]
    /\ UNCHANGED <<rpc, seen, edited, shared>>

\* A tunneled request: what it lacks is filled in, with values of its own.
Missing(u, h) == {k \in Keys : h[k] = Blank /\ forward[u][k] # Blank}
Injected(u, h) == [k \in Keys |-> IF k \in Missing(u, h) THEN forward[u][k] ELSE h[k]]
ServeRPCSharesValues(u, i) ==
    /\ upgrade[u] # Blank /\ rpc[u][i] = Blank
    /\ \E h \in Headers(i) :
        /\ rpc' = [rpc EXCEPT ![u][i] = h]
        /\ seen' = [seen EXCEPT ![u][i] = Injected(u, h)]
        /\ shared' = [shared EXCEPT ![u][i] = Missing(u, h)]
    /\ UNCHANGED <<forward, upgrade, edited>>
ServeRPC(u, i) ==
    /\ upgrade[u] # Blank /\ rpc[u][i] = Blank
    /\ \E h \in Headers(i) :
        /\ rpc' = [rpc EXCEPT ![u][i] = h]
        /\ seen' = [seen EXCEPT ![u][i] = Injected(u, h)]
    /\ UNCHANGED <<forward, upgrade, edited, shared>>

\* A handler or an interceptor writes into the values it was given (external).
HandlerWrites(u, i) ==
    /\ rpc[u][i] # Blank /\ ~edited[u][i]
    /\ edited' = [edited EXCEPT ![u][i] = TRUE]
    /\ forward' = [forward EXCEPT ![u] = [k \in Keys |-> IF k \in shared[u][i] THEN i ELSE @[k]]]
    /\ UNCHANGED <<upgrade, rpc, seen, shared>>

ForwardNext ==
    \E u \in Upgrades :
        \/ ServeSession(u)
        \/ \E i \in RPCs : ServeRPC(u, i) \/ HandlerWrites(u, i)

ForwardSpec == ForwardInit /\ [][ForwardNext]_forwardVars

-----------------------------------------------------------------------------
\* Every RPC sees its own header where it has one, and otherwise what its own
\* session's upgrade request or span said: nothing of another session or of
\* another RPC, however the handlers treat their headers.  A session with
\* either id gives its RPCs both.
RPCSeesItsSession ==
    \A u \in Upgrades, i \in RPCs : rpc[u][i] # Blank =>
        LET own == rpc[u][i]
            up == upgrade[u].header
        IN  \A k \in Keys :
              /\ seen[u][i][k] \in {Blank, i, u, "span"}
              /\ own[k] # Blank => seen[u][i][k] = i
              /\ own[k] = Blank /\ up[k] # Blank => seen[u][i][k] = u
              /\ seen[u][i][k] = "span" => k \in {"traceparent", "tracestate"} /\ up[k] = Blank
              /\ k \in {"x-request-id", "x-correlation-id"}
                   /\ (up["x-request-id"] # Blank \/ up["x-correlation-id"] # Blank)
                   => seen[u][i][k] # Blank
=============================================================================
