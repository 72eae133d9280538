--------------------------- MODULE MCTunnelSetup ---------------------------
(* The client, the servers and the forwarded metadata are set up apart: a  *)
(* behaviour is about one of them, the other two stay as they are.         *)
EXTENDS TunnelClient, BridgeSetup, ForwardMetadata

CONSTANTS b1, b2

VARIABLE about

\* b1 sets any option, or two of those that depend on each other; b2 builds
\* another handler, or tooling, beside it.
Set(fields, values) == [field : fields, value : values]
Counts == Sizes \cup {"lifetime", "dialTimeout"}
Single == Set(Counts, {-1, 1, 3}) \cup Set(DOMAIN ZeroConfig \ Counts, {1})
Coupled == Set({"ping", "idle", "readLimit"}, {-1, 1, 2})
           \cup Set({"disableKeepalive", "disableReadLimit", "requireLoopback", "remoteBackend"}, {1})
           \cup Set({"reflection", "health", "pprof", "wildcardAddr"}, {1})
Lists == [b \in {b1, b2} |->
    IF b = b1
    THEN {<<>>} \cup {<<o>> : o \in Single} \cup {<<o, p>> : o \in Coupled, p \in Coupled}
    ELSE {<<>>} \cup {<<o>> : o \in Set({"writeBuffer"}, {1, 3}) \cup Set({"reflection", "health", "native"}, {1})}]

Init ==
    /\ about \in {"client", "server", "metadata"}
    /\ ClientInit /\ SetupInit /\ ForwardInit
    /\ about # "client" => build = "native"
    /\ about # "server" => services = {}

Next ==
    /\ \/ about = "client" /\ ClientNext /\ UNCHANGED <<setupVars, forwardVars>>
       \/ about = "server" /\ SetupNext /\ UNCHANGED <<clientState, forwardVars>>
       \/ about = "metadata" /\ ForwardNext /\ UNCHANGED <<clientState, setupVars>>
    /\ UNCHANGED about

Spec == Init /\ [][Next]_<<about, clientState, setupVars, forwardVars>>
=============================================================================
