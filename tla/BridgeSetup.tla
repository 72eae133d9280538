---------------------------- MODULE BridgeSetup ----------------------------
(***************************************************************************)
(* Building servers: handlers of pkg/grpctunnel (Wrap, BuildBridgeHandler) *)
(* and pkg/bridge (NewHandler), and the tooling handler beside them.       *)
(* Goroutines build concurrently on one grpc.Server and share, in each     *)
(* package, the process-wide cache of write-buffer pools.                  *)
(*                                                                         *)
(* A configuration maps fields to small integers, flags to 0 and 1; a      *)
(* constructor only knows the fields of its package.  grpc-go is external: *)
(* registering a service twice, or once the server serves, ends the        *)
(* process.                                                                *)
(***************************************************************************)
EXTENDS Integers, Sequences, FiniteSetsExt

CONSTANTS
    Builders,       \* goroutines
    OptionLists     \* the sequences of options each may set

VARIABLES
    pc,         \* where each builder is
    entry,      \* the function it called
    config,     \* the configuration, with defaults once they are applied
    pool,       \* the write-buffer pool it got, 0 for none
    cache,      \* cacheWebSocketWriteBufferPools of each package: size to pool, 0 for none
    made,       \* pools made so far
    services,   \* services registered with the grpc.Server
    listed,     \* GetServiceInfo, as each tooling builder read it
    serving,    \* grpc.Server.Serve has been called
    fatal       \* the process ended in RegisterService

setupVars == <<pc, entry, config, pool, cache, made, services, listed, serving, fatal>>

Sizes == {"readBuffer", "writeBuffer", "readLimit", "ping", "idle", "maxActive", "perClient", "upgrades"}
BridgeFields == Sizes \cup {"lifetime", "disableReadLimit", "disableKeepalive", "native"}
ProxyFields == Sizes \cup {"dialTimeout", "disableReadLimit", "requireLoopback", "remoteBackend", "badTarget"}
ToolingFields == {"reflection", "health", "pprof", "wildcardAddr", "badPrefix"}
Fields == BridgeFields \cup ProxyFields \cup ToolingFields
ZeroConfig == [f \in Fields |-> 0]

ASSUME OptionListsAssumption ==
    OptionLists \in [Builders -> SUBSET Seq([field : Fields, value : Int])]

DefaultBuffer == 2          \* defaultWebSocketBufferSize
DefaultLimit == 4
DefaultPing == 1            \* 30s
DefaultIdle == 4            \* 120s
CacheableSizes == {1, DefaultBuffer}
Constructors == {"BuildBridgeHandler", "NewHandler"}     \* one per package

\* buildServerOptions and buildBridgeConfig: options are applied in order, so
\* the last one that sets a field decides.
BuildBridgeConfig(options) ==
    [f \in Fields |->
        LET setting == {i \in DOMAIN options : options[i].field = f}
        IN  IF setting = {} THEN ZeroConfig[f] ELSE options[Max(setting)].value]
Chosen(b, fields) ==
    {options \in OptionLists[b] : \A i \in DOMAIN options : options[i].field \in fields}

-----------------------------------------------------------------------------
(***************************************************************************)
(* Validation and defaults.                                                *)
(***************************************************************************)
\* What both packages check.
CommonConfigValid(c) ==
    /\ \A f \in Sizes : c[f] >= 0
    /\ ~(c.disableReadLimit = 1 /\ c.readLimit > 0)
    /\ c.idle > 0 => c.ping > 0 /\ c.ping < c.idle

GetBridgeConfigErrorLoose(c) ==
    \/ \E f \in Sizes \cup {"lifetime"} : c[f] < 0
    \/ c.disableReadLimit = 1 /\ c.readLimit > 0
    \/ c.disableKeepalive = 1 /\ (c.ping > 0 \/ c.idle > 0)
GetBridgeConfigError(c) ==
    \/ ~CommonConfigValid(c)
    \/ c.lifetime < 0
    \/ c.disableKeepalive = 1 /\ (c.ping > 0 \/ c.idle > 0)

GetHandlerConfigError(c) == ~CommonConfigValid(c) \/ c.dialTimeout < 0

\* parseBridgeTargetURL; shouldWarnBridgePlaintextBackend is remoteBackend.
ParseBridgeTargetURLFails(c) == c.badTarget = 1
GetBridgeBackendTransportPolicyError(c) == c.requireLoopback = 1 /\ c.remoteBackend = 1

ApplyBridgeKeepaliveDefaults(c) ==
    IF c.disableKeepalive = 1 \/ c.ping > 0 \/ c.idle > 0 THEN c
    ELSE [c EXCEPT !.ping = DefaultPing, !.idle = DefaultIdle]

OrDefault(c, f, value) == [c EXCEPT ![f] = IF @ = 0 THEN value ELSE @]
BufferDefaults(c) == OrDefault(OrDefault(c, "readBuffer", DefaultBuffer), "writeBuffer", DefaultBuffer)

\* getBridgeReadLimitBytes, getHandlerReadLimitBytes: 0 is no limit.
ReadLimitBytes(c) ==
    IF c.disableReadLimit = 1 THEN 0
    ELSE IF c.readLimit > 0 THEN c.readLimit ELSE DefaultLimit

\* buildBridgePingWriteTimeout, buildHandlerPingWriteTimeout.
PingWriteTimeout(c) ==
    LET t == IF c.idle > 0 /\ (c.ping <= 0 \/ c.ping > c.idle) THEN c.idle ELSE c.ping
    IN  IF t <= 0 THEN 1 ELSE t

-----------------------------------------------------------------------------
SetupInit ==
    /\ pc = [b \in Builders |-> "start"]
    /\ entry = [b \in Builders |-> "none"]
    /\ config = [b \in Builders |-> ZeroConfig]
    /\ pool = [b \in Builders |-> 0]
    /\ cache = [p \in Constructors |-> [s \in CacheableSizes |-> 0]] /\ made = 0
    /\ services \in {{}, {"reflection.v1"}, {"reflection.v1", "reflection.v1alpha", "health"}}
    /\ listed = [b \in Builders |-> {}]
    /\ serving = FALSE /\ fatal = FALSE

Goto(b, there) == pc' = [pc EXCEPT ![b] = there]
server == <<services, listed, serving, fatal>>

\* Wrap and BuildBridgeHandler: check, defaults, then the upgrader's pool.  A
\* handler made by Wrap from a bad configuration answers 500.
BuildBridgeHandler(b) ==
    /\ pc[b] = "start"
    /\ \E options \in Chosen(b, BridgeFields) :
        LET c == BuildBridgeConfig(options)
        IN  IF GetBridgeConfigError(c)
            THEN Goto(b, "rejected") /\ UNCHANGED config
            ELSE /\ config' = [config EXCEPT ![b] = BufferDefaults(ApplyBridgeKeepaliveDefaults(c))]
                 /\ Goto(b, "load")
    /\ entry' = [entry EXCEPT ![b] = "BuildBridgeHandler"]
    /\ UNCHANGED <<pool, cache, made, server>>

\* NewHandler: defaults and the pool first; a handler whose configuration,
\* target or backend is refused later answers 500.
NewHandler(b) ==
    /\ pc[b] = "start"
    /\ \E options \in Chosen(b, ProxyFields) :
        config' = [config EXCEPT ![b] =
                      OrDefault(BufferDefaults(BuildBridgeConfig(options)), "dialTimeout", 1)]
    /\ entry' = [entry EXCEPT ![b] = "NewHandler"]
    /\ Goto(b, "load")
    /\ UNCHANGED <<pool, cache, made, server>>

\* What is left of each constructor once it has its pool.
HandlerStarts(b) ==
    LET refused == \/ GetHandlerConfigError(config[b])
                   \/ ParseBridgeTargetURLFails(config[b])
                   \/ GetBridgeBackendTransportPolicyError(config[b])
    IN  IF entry[b] = "NewHandler"
        THEN IF refused THEN "rejected" ELSE "ready"
        ELSE IF config[b].native = 1 THEN "serve" ELSE "ready"

\* buildWebSocketWriteBufferPool: a private pool for an odd size, the cached
\* one, or a new one that LoadOrStore keeps only if none came first.
PoolSize(b) == IF config[b].writeBuffer <= 0 THEN DefaultBuffer ELSE config[b].writeBuffer
Cached(b) == cache[entry[b]][PoolSize(b)]
Gets(b, p) == pool' = [pool EXCEPT ![b] = p] /\ Goto(b, HandlerStarts(b))

PoolPrivate(b) ==
    /\ pc[b] = "load" /\ PoolSize(b) \notin CacheableSizes
    /\ made' = made + 1 /\ Gets(b, made')
    /\ UNCHANGED <<entry, config, cache, server>>

PoolLoad(b) ==
    /\ pc[b] = "load" /\ PoolSize(b) \in CacheableSizes
    /\ IF Cached(b) # 0 THEN Gets(b, Cached(b)) ELSE Goto(b, "store") /\ UNCHANGED pool
    /\ UNCHANGED <<entry, config, cache, made, server>>

PoolStoreOverwrites(b) ==
    /\ pc[b] = "store"
    /\ made' = made + 1
    /\ cache' = [cache EXCEPT ![entry[b]][PoolSize(b)] = made'] /\ Gets(b, made')
    /\ UNCHANGED <<entry, config, server>>
PoolStore(b) ==
    /\ pc[b] = "store"
    /\ made' = made + 1
    /\ IF Cached(b) = 0
       THEN cache' = [cache EXCEPT ![entry[b]][PoolSize(b)] = made'] /\ Gets(b, made')
       ELSE Gets(b, Cached(b)) /\ UNCHANGED cache
    /\ UNCHANGED <<entry, config, server>>

\* The goroutine of a native handler calls grpc.Server.Serve.
NativeServes(b) ==
    /\ pc[b] = "serve" /\ Goto(b, "ready")
    /\ serving' = TRUE
    /\ UNCHANGED <<entry, config, pool, cache, made, services, listed, fatal>>

-----------------------------------------------------------------------------
(***************************************************************************)
(* Tooling.                                                                *)
(***************************************************************************)
\* getToolingListenAddressError: no introspection on a wildcard address;
\* GetToolingConfigError: a prefix that is not a path.
GetToolingListenAddressError(c) == c.wildcardAddr = 1 /\ (c.reflection = 1 \/ c.pprof = 1)
GetToolingConfigError(c) == c.badPrefix = 1

\* ensureToolingServices registers what is asked for and absent from the list it
\* has read; reflection.Register is called for want of v1alpha, and registers that
\* and then v1.  A builder's place is the service it registers next.
ToolingServices == {"reflection.v1alpha", "reflection.v1", "health"}

HasToolingServiceNever(list, service) == FALSE
HasToolingService(list, service) == service \in list
ReflectionDue(c, list) == c.reflection = 1 /\ ~HasToolingService(list, "reflection.v1alpha")
HealthDue(c, list) == c.health = 1 /\ ~HasToolingService(list, "health")
AfterReflection(c, list) == IF HealthDue(c, list) THEN "health" ELSE "ready"
EnsureToolingServices(c, list) ==
    IF ReflectionDue(c, list) THEN "reflection.v1alpha" ELSE AfterReflection(c, list)

\* ListenAndServeTooling: the checks; then BuildToolingHandler reads which
\* services there are (GetServiceInfo).
ListenAndServeTooling(b) ==
    /\ pc[b] = "start"
    /\ \E options \in Chosen(b, ToolingFields) :
        LET c == BuildBridgeConfig(options)
        IN  /\ config' = [config EXCEPT ![b] = c]
            /\ IF GetToolingListenAddressError(c) \/ GetToolingConfigError(c)
               THEN Goto(b, "rejected") /\ UNCHANGED listed
               ELSE /\ listed' = [listed EXCEPT ![b] = services]
                    /\ Goto(b, EnsureToolingServices(c, services))
    /\ entry' = [entry EXCEPT ![b] = "tooling"]
    /\ UNCHANGED <<pool, cache, made, services, serving, fatal>>

\* One RegisterService of grpc-go, which takes the server's mutex for that
\* service only: another builder may come between any two of them.
ToolingRegisters(b) ==
    /\ pc[b] \in ToolingServices
    /\ services' = services \cup {pc[b]}
    /\ fatal' = (serving \/ pc[b] \in services)
    /\ Goto(b, CASE pc[b] = "reflection.v1alpha" -> "reflection.v1"
                 [] pc[b] = "reflection.v1" -> AfterReflection(config[b], listed[b])
                 [] pc[b] = "health" -> "ready")
    /\ UNCHANGED <<entry, config, pool, cache, made, listed, serving>>

SetupNext ==
    /\ ~fatal
    /\ \E b \in Builders :
        \/ BuildBridgeHandler(b) \/ NewHandler(b)
        \/ PoolPrivate(b) \/ PoolLoad(b) \/ PoolStore(b) \/ NativeServes(b)
        \/ ListenAndServeTooling(b) \/ ToolingRegisters(b)

SetupSpec == SetupInit /\ [][SetupNext]_setupVars

-----------------------------------------------------------------------------
(***************************************************************************)
(* Properties.                                                             *)
(***************************************************************************)
Handlers == {b \in Builders : pc[b] \in {"serve", "ready"} /\ entry[b] # "tooling"}

SettingsSound(c, constructor) ==
    /\ \A f \in {"maxActive", "perClient", "upgrades", "lifetime", "dialTimeout"} : c[f] >= 0
    /\ c.readBuffer > 0 /\ c.writeBuffer > 0
    /\ (ReadLimitBytes(c) = 0) <=> (c.disableReadLimit = 1)
    /\ c.idle > 0 => 0 < c.ping /\ c.ping < c.idle /\ PingWriteTimeout(c) < c.idle
    /\ c.ping = 0 => c.idle = 0 /\ (c.disableKeepalive = 1 \/ constructor = "NewHandler")
    /\ PingWriteTimeout(c) > 0

\* A handler that serves has the settings that the sessions, the keepalive and
\* the guard rely on, whatever options were combined: a ping comes before the
\* idle timeout and cannot wait for a write beyond it, caps are not negative,
\* frames are limited and peers pinged unless that was turned off.
HandlerSettingsSound == \A b \in Handlers : SettingsSound(config[b], entry[b])

\* Handlers of a package built at the same time end up with one pool for a
\* cached size, and any others with pools of their own.
OnePoolPerSize ==
    \A a, b \in Handlers : a # b =>
        (pool[a] = pool[b] <=>
            entry[a] = entry[b] /\ PoolSize(a) = PoolSize(b) /\ PoolSize(a) \in CacheableSizes)

\* What a builder of tooling sets out to register, for want of it in its list.
ToolingBuilders == {b \in Builders : entry[b] = "tooling" /\ pc[b] # "rejected"}
LacksReflection(b) == config[b].reflection = 1 /\ "reflection.v1alpha" \notin listed[b]
LacksHealth(b) == config[b].health = 1 /\ "health" \notin listed[b]
SetOutFor(b) == {s \in ToolingServices : IF s = "health" THEN LacksHealth(b) ELSE LacksReflection(b)}

RegisteredTooLate == serving
RegisteredAtOnce ==
    \E a, b \in ToolingBuilders : a # b /\ SetOutFor(a) \cap SetOutFor(b) # {}
RegisteredV1Again ==
    \E b \in ToolingBuilders : LacksReflection(b) /\ "reflection.v1" \in listed[b]

\* Setting up tooling again is safe, and sets up what was asked for: the services
\* are there when it serves, and registering ends the process only on a
\* server that serves already, when two goroutines have set out for the same
\* service because neither was done when the other read its list, or when a
\* builder has found v1 reflection alone and registers it with v1alpha, against
\* the "when absent" of api.go:139 (tooling.go:98-114).
ToolingRegistersOnce ==
    /\ \A b \in ToolingBuilders : pc[b] = "ready" =>
        /\ config[b].reflection = 1 => "reflection.v1alpha" \in services
        /\ config[b].health = 1 => "health" \in services
    /\ fatal => RegisteredTooLate \/ RegisteredAtOnce \/ RegisteredV1Again
=============================================================================
