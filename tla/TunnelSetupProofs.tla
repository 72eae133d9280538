------------------------- MODULE TunnelSetupProofs -------------------------
(***************************************************************************)
(* Theorems about setting up a tunnel: the metadata of an upgrade that     *)
(* reaches the RPCs, the handlers and tooling that any number of           *)
(* goroutines build with any options, and the handshakes of a client.      *)
(***************************************************************************)
EXTENDS TunnelClient, BridgeSetup, ForwardMetadata, WellFoundedInduction,
        SequenceTheorems, TLAPS

-----------------------------------------------------------------------------
(***************************************************************************)
(* Forwarded metadata.  The forward set of a session is a function of its  *)
(* upgrade request for as long as the session lives, because no RPC holds  *)
(* a slice of it.                                                          *)
(***************************************************************************)
ForwardSetKept ==
    /\ forward \in [Upgrades -> [Keys -> {Blank, "span"} \cup Upgrades]]
    /\ shared = [u \in Upgrades |-> [i \in RPCs |-> {}]]
    /\ DOMAIN upgrade = Upgrades
    /\ \A u \in Upgrades : upgrade[u] # Blank =>
          /\ upgrade[u] \in [header : Headers(u), span : Spans]
          /\ forward[u] = BuildBridgeForwardHeaders(upgrade[u].header, upgrade[u].span)

RPCsServed ==
    /\ DOMAIN rpc = Upgrades /\ DOMAIN seen = Upgrades
    /\ \A u \in Upgrades :
        /\ DOMAIN rpc[u] = RPCs /\ DOMAIN seen[u] = RPCs
        /\ \A i \in RPCs : rpc[u][i] # Blank =>
              /\ upgrade[u] # Blank
              /\ rpc[u][i] \in Headers(i)
              /\ seen[u][i] = Injected(u, rpc[u][i])

ForwardInv == ForwardSetKept /\ RPCsServed

LEMMA ForwardHeadersType ==
    ASSUME NEW u \in Upgrades, NEW h \in Headers(u), NEW span \in Spans
    PROVE  BuildBridgeForwardHeaders(h, span) \in [Keys -> {Blank, "span"} \cup Upgrades]
  BY DEF BuildBridgeForwardHeaders, Headers, Spans, RequestID, FirstOf, Keys

LEMMA ForwardInitially == ForwardInit => ForwardInv
  BY DEF ForwardInit, ForwardInv, ForwardSetKept, RPCsServed, NoHeader

LEMMA ForwardInductive == ForwardInv /\ [ForwardNext]_forwardVars => ForwardInv'
  <1> SUFFICES ASSUME ForwardInv, [ForwardNext]_forwardVars
               PROVE  ForwardInv'
    OBVIOUS
  <1> USE DEF ForwardInv
  <1>1. ASSUME NEW u \in Upgrades, ServeSession(u)
        PROVE  ForwardInv'
    <2>1. PICK h \in Headers(u), span \in Spans :
             /\ upgrade' = [upgrade EXCEPT ![u] = [header |-> h, span |-> span]]
             /\ forward' = [forward EXCEPT ![u] = BuildBridgeForwardHeaders(h, span)]
      BY <1>1 DEF ServeSession
    <2>2. upgrade[u] = Blank /\ UNCHANGED <<rpc, seen, edited, shared>>
      BY <1>1 DEF ServeSession
    <2>3. ForwardSetKept'
      BY <2>1, <2>2, ForwardHeadersType DEF ForwardSetKept
    <2>4. RPCsServed'
      <3>1. \A v \in Upgrades, i \in RPCs : rpc[v][i] # Blank => v # u
        BY <2>2 DEF RPCsServed
      <3>2. \A v \in Upgrades : v # u => forward'[v] = forward[v] /\ upgrade'[v] = upgrade[v]
        BY <2>1 DEF ForwardSetKept
      <3>. QED
        BY <2>2, <3>1, <3>2 DEF RPCsServed, Injected, Missing
    <2>. QED
      BY <2>3, <2>4
  <1>2. ASSUME NEW u \in Upgrades, NEW i \in RPCs, ServeRPC(u, i)
        PROVE  ForwardInv'
    <2>1. PICK h \in Headers(i) :
             /\ rpc' = [rpc EXCEPT ![u][i] = h]
             /\ seen' = [seen EXCEPT ![u][i] = Injected(u, h)]
      BY <1>2 DEF ServeRPC
    <2>2. upgrade[u] # Blank /\ UNCHANGED <<forward, upgrade, edited, shared>>
      BY <1>2 DEF ServeRPC
    <2>3. ForwardSetKept'
      BY <2>2 DEF ForwardSetKept
    <2>4. RPCsServed'
      BY <2>1, <2>2 DEF RPCsServed, Injected, Missing
    <2>. QED
      BY <2>3, <2>4
  <1>3. ASSUME NEW u \in Upgrades, NEW i \in RPCs, HandlerWrites(u, i)
        PROVE  ForwardInv'
    <2>1. forward'[u] = forward[u] /\ forward' = forward
      BY <1>3 DEF HandlerWrites, ForwardSetKept
    <2>2. UNCHANGED <<upgrade, rpc, seen, shared>>
      BY <1>3 DEF HandlerWrites
    <2>3. ForwardSetKept'
      BY <2>1, <2>2 DEF ForwardSetKept
    <2>4. RPCsServed'
      BY <2>1, <2>2 DEF RPCsServed, Injected, Missing
    <2>. QED
      BY <2>3, <2>4
  <1>4. ASSUME UNCHANGED forwardVars
        PROVE  ForwardInv'
    <2>1. ForwardSetKept'
      BY <1>4 DEF forwardVars, ForwardSetKept
    <2>2. RPCsServed'
      BY <1>4 DEF forwardVars, RPCsServed, Injected, Missing
    <2>. QED
      BY <2>1, <2>2
  <1>. QED
    BY <1>1, <1>2, <1>3, <1>4 DEF ForwardNext

\* An RPC sees its own headers and its own session's, never another's: the set
\* that buildBridgeForwardHeaders makes at the upgrade outlives every handler
\* that writes into the header of its request (server.go).
THEOREM RPCsSeeTheirSession == ForwardSpec => []RPCSeesItsSession
  <1>1. ForwardInv => RPCSeesItsSession
    <2> SUFFICES ASSUME ForwardInv,
                        NEW u \in Upgrades, NEW i \in RPCs, rpc[u][i] # Blank,
                        NEW k \in Keys
                 PROVE  /\ seen[u][i][k] \in {Blank, i, u, "span"}
                        /\ rpc[u][i][k] # Blank => seen[u][i][k] = i
                        /\ rpc[u][i][k] = Blank /\ upgrade[u].header[k] # Blank
                             => seen[u][i][k] = u
                        /\ seen[u][i][k] = "span"
                             => k \in {"traceparent", "tracestate"} /\ upgrade[u].header[k] = Blank
                        /\ k \in {"x-request-id", "x-correlation-id"}
                             /\ (\/ upgrade[u].header["x-request-id"] # Blank
                                 \/ upgrade[u].header["x-correlation-id"] # Blank)
                             => seen[u][i][k] # Blank
      BY DEF RPCSeesItsSession
    <2> DEFINE own == rpc[u][i]
               up == upgrade[u].header
               span == upgrade[u].span
    <2>1. own \in Headers(i) /\ up \in Headers(u) /\ span \in Spans
      BY DEF ForwardInv, ForwardSetKept, RPCsServed
    <2>2. seen[u][i] = Injected(u, own)
      BY DEF ForwardInv, RPCsServed
    <2>3. forward[u] = BuildBridgeForwardHeaders(up, span)
      BY DEF ForwardInv, ForwardSetKept, RPCsServed
    <2>4. "span" \notin {u, i} /\ Blank \notin {u, i, "span"}
      BY BlankAssumption
    <2> HIDE DEF own, up, span
    <2>5. own[k] \in {Blank, i} /\ \A x \in Keys : up[x] \in {Blank, u}
      BY <2>1 DEF Headers
    <2>6. seen[u][i][k] = IF own[k] = Blank /\ forward[u][k] # Blank THEN forward[u][k] ELSE own[k]
      BY <2>2 DEF Injected, Missing
    <2>7. CASE k = "x-request-id"
      BY <2>3, <2>4, <2>5, <2>6, <2>7
         DEF BuildBridgeForwardHeaders, RequestID, FirstOf, Keys, own, up
    <2>8. CASE k = "x-correlation-id"
      BY <2>3, <2>4, <2>5, <2>6, <2>8
         DEF BuildBridgeForwardHeaders, RequestID, FirstOf, Keys, own, up
    <2>9. CASE k \in {"traceparent", "tracestate"}
      <3>1. /\ forward[u]["traceparent"] = FirstOf(up["traceparent"], span.traceparent)
            /\ forward[u]["tracestate"] = FirstOf(up["tracestate"], span.tracestate)
        BY <2>3 DEF BuildBridgeForwardHeaders, Keys
      <3>2. span.traceparent \in {Blank, "span"} /\ span.tracestate \in {Blank, "span"}
        BY <2>1 DEF Spans
      <3>3. \/ up[k] # Blank /\ up[k] = u /\ forward[u][k] = u
            \/ up[k] = Blank /\ forward[u][k] \in {Blank, "span"}
        BY <2>5, <2>9, <3>1, <3>2 DEF FirstOf, Keys
      <3>. QED
        BY <2>4, <2>5, <2>6, <2>9, <3>3 DEF own, up
    <2>. QED
      BY <2>7, <2>8, <2>9 DEF Keys
  <1>. QED
    BY <1>1, ForwardInitially, ForwardInductive, PTL DEF ForwardSpec

-----------------------------------------------------------------------------
(***************************************************************************)
(* Building configurations.                                                *)
(***************************************************************************)

\* A set of indices has a last one: reflected, it has a smallest.
LEMMA LastIndex ==
    ASSUME NEW n \in Nat, NEW T \in SUBSET (1 .. n), T # {}
    PROVE  Max(T) \in T
  <1> DEFINE R == OpToRel(<, Nat)
             U == {n - i : i \in T}
  <1>1. \A x, y \in Nat : x < y => <<x, y>> \in R
    BY DEF OpToRel
  <1>2. IsWellFoundedOn(R, Nat)
    BY NatLessThanWellFounded
  <1>3. U \subseteq Nat /\ U # {}
    <2>1. \A i \in T : n - i \in Nat
      OBVIOUS
    <2>2. PICK i \in T : TRUE
      OBVIOUS
    <2>3. n - i \in U
      OBVIOUS
    <2>. QED
      BY <2>1, <2>3
  <1> HIDE DEF R
  <1>4. \E x \in U : \A y \in U : ~(<<y, x>> \in R)
    <2> HIDE DEF U
    <2>. QED
      BY <1>2, <1>3, WFMin
  <1>5. PICK m \in T : \A j \in T : ~(<<n - j, n - m>> \in R)
    BY <1>4
  <1>6. \A j \in T : m >= j
    <2> SUFFICES ASSUME NEW j \in T, ~(m >= j)
                 PROVE  FALSE
      OBVIOUS
    <2>1. n - j \in Nat /\ n - m \in Nat /\ n - j < n - m
      OBVIOUS
    <2>. QED
      BY <2>1, <1>1, <1>5
  <1>. QED
    BY <1>6 DEF Max

\* The fields of a configuration are integers, and zero where no option of the
\* constructor's package can set them.
LEMMA ConfigType ==
    ASSUME NEW b \in Builders, NEW fields, NEW options \in Chosen(b, fields)
    PROVE  /\ BuildBridgeConfig(options) \in [Fields -> Int]
           /\ \A f \in Fields \ fields : BuildBridgeConfig(options)[f] = 0
  <1>1. options \in Seq([field : Fields, value : Int])
    BY OptionListsAssumption DEF Chosen
  <1>2. \A i \in DOMAIN options : options[i].field \in fields
    BY DEF Chosen
  <1> DEFINE setting(f) == {i \in DOMAIN options : options[i].field = f}
  <1>3. ASSUME NEW f \in Fields, setting(f) # {}
        PROVE  options[Max(setting(f))].value \in Int
    <2>1. Len(options) \in Nat /\ setting(f) \in SUBSET (1 .. Len(options))
      BY <1>1
    <2>2. Max(setting(f)) \in setting(f)
      BY <2>1, <1>3, LastIndex
    <2>3. options[Max(setting(f))] \in [field : Fields, value : Int]
      BY <2>1, <2>2, <1>1, ElementOfSeq
    <2>. QED
      BY <2>3
  <1>4. BuildBridgeConfig(options) =
            [f \in Fields |-> IF setting(f) = {} THEN 0 ELSE options[Max(setting(f))].value]
    BY DEF BuildBridgeConfig, ZeroConfig
  <1>5. \A f \in Fields \ fields : setting(f) = {}
    BY <1>2
  <1> HIDE DEF setting
  <1>. QED
    BY <1>3, <1>4, <1>5

-----------------------------------------------------------------------------
(***************************************************************************)
(* Building servers: the inductive invariant.                              *)
(***************************************************************************)
Places == {"start", "rejected", "load", "store", "serve", "ready"} \cup ToolingServices

SetupTypes ==
    /\ pc \in [Builders -> Places]
    /\ entry \in [Builders -> {"none", "tooling"} \cup Constructors]
    /\ config \in [Builders -> [Fields -> Int]]
    /\ pool \in [Builders -> Nat] /\ made \in Nat
    /\ cache \in [Constructors -> [CacheableSizes -> Nat]]
    /\ DOMAIN listed = Builders
    /\ \A b \in Builders :
        /\ pc[b] = "start" => entry[b] = "none"
        /\ pc[b] \in {"load", "store", "serve"} => entry[b] \in Constructors
        /\ pc[b] = "store" => PoolSize(b) \in CacheableSizes
        /\ pc[b] = "ready" => entry[b] # "none"
        /\ pc[b] \in ToolingServices => entry[b] = "tooling"

\* Of what a builder set out to register, what is done when it is at its place.
Registered(b) ==
    CASE pc[b] = "reflection.v1alpha" -> {}
      [] pc[b] = "reflection.v1" -> {"reflection.v1alpha"}
      [] pc[b] = "health" -> SetOutFor(b) \ {"health"}
      [] OTHER -> SetOutFor(b)

\* What a builder of tooling has found or registered is there, and what is there
\* it has found, or somebody has registered it.
ServicesAccounted ==
    \A b \in ToolingBuilders :
        /\ pc[b] = "ready" \/ pc[b] \in SetOutFor(b)
        /\ listed[b] \cup Registered(b) \subseteq services
        /\ \A s \in services : s \in listed[b] \/ \E a \in ToolingBuilders : s \in Registered(a)

FatalExplained == fatal => RegisteredTooLate \/ RegisteredAtOnce \/ RegisteredV1Again

\* A cached pool is in one place of one cache and every handler of its size has
\* it; any other pool is its handler's alone.
PoolsApart ==
    /\ \A b \in Builders : pool[b] <= made
    /\ \A p \in Constructors, s \in CacheableSizes : cache[p][s] <= made
    /\ \A p, q \in Constructors, s, r \in CacheableSizes :
          cache[p][s] = cache[q][r] /\ cache[p][s] # 0 => p = q /\ s = r
    /\ \A b \in Handlers :
          IF PoolSize(b) \in CacheableSizes
          THEN pool[b] # 0 /\ pool[b] = cache[entry[b]][PoolSize(b)]
          ELSE /\ pool[b] # 0
               /\ \A p \in Constructors, s \in CacheableSizes : cache[p][s] # pool[b]
               /\ \A a \in Handlers : a # b => pool[a] # pool[b]

\* A bridge handler is checked before it asks for its pool, a proxy handler
\* after it, when only its defaults are known.
SettingsChecked ==
    \A b \in Builders :
        /\ entry[b] = "BuildBridgeHandler" /\ pc[b] \in {"load", "store", "serve", "ready"}
             => SettingsSound(config[b], "BuildBridgeHandler")
        /\ entry[b] = "NewHandler" /\ pc[b] \in {"load", "store"}
             => /\ config[b].readBuffer # 0 /\ config[b].writeBuffer # 0
                /\ config[b].lifetime = 0
        /\ entry[b] = "NewHandler" /\ pc[b] \in {"serve", "ready"}
             => SettingsSound(config[b], "NewHandler")

SetupInv == SetupTypes /\ ServicesAccounted /\ FatalExplained /\ PoolsApart /\ SettingsChecked

LEMMA SetupInitially == SetupInit => SetupInv
  <1> SUFFICES ASSUME SetupInit PROVE SetupInv
    OBVIOUS
  <1> USE DEF SetupInit
  <1>1. SetupTypes
    BY DEF SetupTypes, Places, ZeroConfig, ToolingServices
  <1>2. ServicesAccounted /\ FatalExplained
    BY DEF ServicesAccounted, FatalExplained, ToolingBuilders
  <1>3. PoolsApart
    BY DEF PoolsApart, Handlers
  <1>4. SettingsChecked
    BY DEF SettingsChecked
  <1>. QED
    BY <1>1, <1>2, <1>3, <1>4 DEF SetupInv

-----------------------------------------------------------------------------
\* What the constructors make of a valid configuration.
LEMMA OrDefaultSets ==
    ASSUME NEW c \in [Fields -> Int], NEW f \in Fields, NEW value \in Int
    PROVE  /\ OrDefault(c, f, value) \in [Fields -> Int]
           /\ OrDefault(c, f, value)[f] = IF c[f] = 0 THEN value ELSE c[f]
           /\ \A g \in Fields \ {f} : OrDefault(c, f, value)[g] = c[g]
  BY DEF OrDefault

LEMMA BufferDefaultsSet ==
    ASSUME NEW c \in [Fields -> Int]
    PROVE  /\ BufferDefaults(c) \in [Fields -> Int]
           /\ \A f \in {"readBuffer", "writeBuffer"} :
                 BufferDefaults(c)[f] = IF c[f] = 0 THEN DefaultBuffer ELSE c[f]
           /\ \A g \in Fields \ {"readBuffer", "writeBuffer"} : BufferDefaults(c)[g] = c[g]
  <1> DEFINE d == OrDefault(c, "readBuffer", DefaultBuffer)
  <1>1. {"readBuffer", "writeBuffer"} \subseteq Fields /\ DefaultBuffer \in Int
    BY DEF Fields, BridgeFields, Sizes, DefaultBuffer
  <1>2. /\ d \in [Fields -> Int]
        /\ d["readBuffer"] = IF c["readBuffer"] = 0 THEN DefaultBuffer ELSE c["readBuffer"]
        /\ \A g \in Fields \ {"readBuffer"} : d[g] = c[g]
    BY <1>1, OrDefaultSets
  <1>3. BufferDefaults(c) = OrDefault(d, "writeBuffer", DefaultBuffer)
    BY DEF BufferDefaults
  <1> HIDE DEF d
  <1>4. /\ BufferDefaults(c) \in [Fields -> Int]
        /\ BufferDefaults(c)["writeBuffer"] =
              IF d["writeBuffer"] = 0 THEN DefaultBuffer ELSE d["writeBuffer"]
        /\ \A g \in Fields \ {"writeBuffer"} : BufferDefaults(c)[g] = d[g]
    BY <1>1, <1>2, <1>3 DEF OrDefault
  <1>. QED
    BY <1>1, <1>2, <1>4

LEMMA BridgeDefaultsSound ==
    ASSUME NEW c \in [Fields -> Int], ~GetBridgeConfigError(c), c.dialTimeout = 0
    PROVE  LET d == BufferDefaults(ApplyBridgeKeepaliveDefaults(c))
           IN  d \in [Fields -> Int] /\ SettingsSound(d, "BuildBridgeHandler")
  <1> DEFINE k == ApplyBridgeKeepaliveDefaults(c)
             d == BufferDefaults(k)
  <1>1. /\ k \in [Fields -> Int]
        /\ \A g \in Fields \ {"ping", "idle"} : k[g] = c[g]
        /\ \/ k.ping = c.ping /\ k.idle = c.idle /\ (c.disableKeepalive = 1 \/ c.ping > 0 \/ c.idle > 0)
           \/ k.ping = 1 /\ k.idle = 4
    <2>1. {"ping", "idle"} \subseteq Fields
      BY DEF Fields, BridgeFields, Sizes
    <2>2. CASE c.disableKeepalive = 1 \/ c.ping > 0 \/ c.idle > 0
      BY <2>2 DEF ApplyBridgeKeepaliveDefaults
    <2>3. CASE ~(c.disableKeepalive = 1 \/ c.ping > 0 \/ c.idle > 0)
      <3>1. k = [c EXCEPT !["ping"] = 1, !["idle"] = 4]
        BY <2>3 DEF ApplyBridgeKeepaliveDefaults, DefaultPing, DefaultIdle
      <3> HIDE DEF k
      <3>. QED
        BY <2>1, <3>1
    <2>. QED
      BY <2>2, <2>3
  <1>2. c \in [Fields -> Int] /\ CommonConfigValid(c) /\ c.lifetime >= 0
    BY DEF GetBridgeConfigError, Fields, BridgeFields
  <1> HIDE DEF k
  <1>3. /\ d \in [Fields -> Int]
        /\ d.readBuffer = IF k.readBuffer = 0 THEN DefaultBuffer ELSE k.readBuffer
        /\ d.writeBuffer = IF k.writeBuffer = 0 THEN DefaultBuffer ELSE k.writeBuffer
        /\ \A g \in Fields \ {"readBuffer", "writeBuffer"} : d[g] = k[g]
    BY <1>1, BufferDefaultsSet
  <1> HIDE DEF d
  <1>4. /\ \A f \in Sizes \ {"readBuffer", "writeBuffer", "ping", "idle"} : d[f] >= 0
        /\ d.lifetime >= 0 /\ d.dialTimeout = 0
        /\ d.readBuffer > 0 /\ d.writeBuffer > 0
        /\ ~(d.disableReadLimit = 1 /\ d.readLimit > 0)
    BY <1>1, <1>2, <1>3
       DEF CommonConfigValid, Fields, BridgeFields, ProxyFields, Sizes, DefaultBuffer
  <1>5. /\ d.ping \in Int /\ d.idle \in Int /\ d.ping >= 0 /\ d.idle >= 0
        /\ d.idle > 0 => d.ping > 0 /\ d.ping < d.idle
        /\ d.ping = 0 => d.idle = 0 /\ d.disableKeepalive = 1
    BY <1>1, <1>2, <1>3 DEF CommonConfigValid, Fields, BridgeFields, ProxyFields, Sizes
  <1>6. (ReadLimitBytes(d) = 0) <=> (d.disableReadLimit = 1)
    BY <1>4 DEF ReadLimitBytes, DefaultLimit, Sizes
  <1>7. PingWriteTimeout(d) > 0 /\ (d.idle > 0 => PingWriteTimeout(d) < d.idle)
    BY <1>5 DEF PingWriteTimeout
  <1>8. SettingsSound(d, "BuildBridgeHandler")
    BY <1>4, <1>5, <1>6, <1>7 DEF SettingsSound, Sizes
  <1>. QED
    BY <1>3, <1>8 DEF d, k

LEMMA ProxyDefaults ==
    ASSUME NEW c \in [Fields -> Int], c.lifetime = 0
    PROVE  LET d == OrDefault(BufferDefaults(c), "dialTimeout", 1)
           IN  /\ d \in [Fields -> Int]
               /\ d.readBuffer # 0 /\ d.writeBuffer # 0 /\ d.lifetime = 0
  <1> DEFINE k == BufferDefaults(c)
  <1>1. /\ k \in [Fields -> Int]
        /\ k["readBuffer"] # 0 /\ k["writeBuffer"] # 0 /\ k["lifetime"] = 0
    BY BufferDefaultsSet DEF DefaultBuffer, Fields, BridgeFields, Sizes
  <1>2. "dialTimeout" \in Fields /\ {"readBuffer", "writeBuffer", "lifetime"} \subseteq Fields
    BY DEF Fields, BridgeFields, ProxyFields, Sizes
  <1> HIDE DEF k
  <1>3. /\ OrDefault(k, "dialTimeout", 1) \in [Fields -> Int]
        /\ \A g \in Fields \ {"dialTimeout"} : OrDefault(k, "dialTimeout", 1)[g] = k[g]
    BY <1>1, <1>2 DEF OrDefault
  <1>. QED
    BY <1>1, <1>2, <1>3 DEF k

LEMMA ProxySound ==
    ASSUME NEW c \in [Fields -> Int], ~GetHandlerConfigError(c),
           c.readBuffer # 0, c.writeBuffer # 0, c.lifetime = 0
    PROVE  SettingsSound(c, "NewHandler")
  BY DEF GetHandlerConfigError, CommonConfigValid, SettingsSound, ReadLimitBytes,
         PingWriteTimeout, Fields, BridgeFields, ProxyFields, Sizes, DefaultLimit

-----------------------------------------------------------------------------
(***************************************************************************)
(* Building servers: the steps.                                            *)
(***************************************************************************)
LEMMA HandlerStartsType ==
    ASSUME NEW b \in Builders
    PROVE  HandlerStarts(b) \in {"serve", "ready", "rejected"}
  BY DEF HandlerStarts

LEMMA CachedType ==
    ASSUME SetupTypes, NEW b \in Builders, entry[b] \in Constructors, PoolSize(b) \in CacheableSizes
    PROVE  Cached(b) \in Nat
  BY DEF SetupTypes, Cached

LEMMA SetupTypesStep ==
    ASSUME SetupInv, [SetupNext]_setupVars
    PROVE  SetupTypes'
  <1> USE DEF SetupInv
  <1>1. ASSUME NEW b \in Builders, BuildBridgeHandler(b)
        PROVE  SetupTypes'
    <2>1. PICK options \in Chosen(b, BridgeFields) :
            LET c == BuildBridgeConfig(options)
            IN  IF GetBridgeConfigError(c)
                THEN Goto(b, "rejected") /\ UNCHANGED config
                ELSE /\ config' = [config EXCEPT ![b] = BufferDefaults(ApplyBridgeKeepaliveDefaults(c))]
                     /\ Goto(b, "load")
      BY <1>1 DEF BuildBridgeHandler
    <2>2. BuildBridgeConfig(options) \in [Fields -> Int] /\ BuildBridgeConfig(options).dialTimeout = 0
      <3>1. "dialTimeout" \in Fields \ BridgeFields
        BY DEF Fields, BridgeFields, ProxyFields, Sizes
      <3>. QED
        BY <3>1, ConfigType
    <2>3. config' \in [Builders -> [Fields -> Int]]
      BY <2>1, <2>2, BridgeDefaultsSound DEF SetupTypes
    <2>4. /\ pc' = [pc EXCEPT ![b] = "rejected"] \/ pc' = [pc EXCEPT ![b] = "load"]
          /\ entry' = [entry EXCEPT ![b] = "BuildBridgeHandler"]
          /\ \A a \in Builders \ {b} : config'[a] = config[a]
          /\ UNCHANGED <<pool, made, cache, listed>>
      BY <1>1, <2>1 DEF BuildBridgeHandler, Goto, SetupTypes, server
    <2>5. /\ pc' \in [Builders -> Places]
          /\ entry' \in [Builders -> {"none", "tooling"} \cup Constructors]
      BY <2>4 DEF SetupTypes, Places, Constructors
    <2>6. ASSUME NEW a \in Builders
          PROVE  /\ pc'[a] = "start" => entry'[a] = "none"
                 /\ pc'[a] \in {"load", "store", "serve"} => entry'[a] \in Constructors
                 /\ pc'[a] = "store" => PoolSize(a)' \in CacheableSizes
                 /\ pc'[a] = "ready" => entry'[a] # "none"
                 /\ pc'[a] \in ToolingServices => entry'[a] = "tooling"
      <3>1. CASE a = b
        <4>1. pc'[a] \in {"rejected", "load"} /\ entry'[a] = "BuildBridgeHandler"
          BY <2>4, <3>1 DEF SetupTypes
        <4>. QED
          BY <4>1 DEF Constructors, ToolingServices
      <3>2. CASE a # b
        <4>1. pc'[a] = pc[a] /\ entry'[a] = entry[a] /\ PoolSize(a)' = PoolSize(a)
          BY <2>4, <3>2 DEF SetupTypes, PoolSize
        <4>. QED
          BY <4>1 DEF SetupTypes
      <3>. QED
        BY <3>1, <3>2
    <2>. QED
      BY <2>3, <2>4, <2>5, <2>6 DEF SetupTypes
  <1>2. ASSUME NEW b \in Builders, NewHandler(b)
        PROVE  SetupTypes'
    <2>1. PICK options \in Chosen(b, ProxyFields) :
            config' = [config EXCEPT ![b] =
                          OrDefault(BufferDefaults(BuildBridgeConfig(options)), "dialTimeout", 1)]
      BY <1>2 DEF NewHandler
    <2>2. BuildBridgeConfig(options) \in [Fields -> Int] /\ BuildBridgeConfig(options).lifetime = 0
      BY ConfigType DEF Fields, BridgeFields, ProxyFields, Sizes
    <2>3. config' \in [Builders -> [Fields -> Int]]
      BY <2>1, <2>2, ProxyDefaults DEF SetupTypes
    <2>. QED
      BY <1>2, <2>1, <2>3 DEF NewHandler, Goto, SetupTypes, Places, Constructors, PoolSize, server, ToolingServices
  <1>3. ASSUME NEW b \in Builders, PoolPrivate(b)
        PROVE  SetupTypes'
    <2>1. HandlerStarts(b) \in {"serve", "ready", "rejected"}
      BY HandlerStartsType
    <2>. QED
      BY <1>3, <2>1 DEF PoolPrivate, Gets, Goto, SetupTypes, Places, PoolSize, server, Constructors, ToolingServices
  <1>4. ASSUME NEW b \in Builders, PoolLoad(b)
        PROVE  SetupTypes'
    <2>1. HandlerStarts(b) \in {"serve", "ready", "rejected"}
      BY HandlerStartsType
    <2>2. Cached(b) \in Nat
      BY <1>4, CachedType DEF PoolLoad, SetupTypes
    <2>3. /\ \/ pc' = [pc EXCEPT ![b] = HandlerStarts(b)] /\ pool' = [pool EXCEPT ![b] = Cached(b)]
             \/ pc' = [pc EXCEPT ![b] = "store"] /\ pool' = pool
          /\ pc[b] = "load" /\ PoolSize(b) \in CacheableSizes
          /\ UNCHANGED <<entry, config, made, cache, listed>>
      BY <1>4 DEF PoolLoad, Gets, Goto, server
    <2>4. pc' \in [Builders -> Places] /\ pool' \in [Builders -> Nat]
      <3>1. pc \in [Builders -> Places] /\ pool \in [Builders -> Nat]
        BY DEF SetupTypes
      <3>2. HandlerStarts(b) \in Places /\ "store" \in Places
        BY <2>1 DEF Places
      <3>. QED
        BY <2>2, <2>3, <3>1, <3>2
    <2>5. ASSUME NEW a \in Builders
          PROVE  /\ pc'[a] = "start" => entry'[a] = "none"
                 /\ pc'[a] \in {"load", "store", "serve"} => entry'[a] \in Constructors
                 /\ pc'[a] = "store" => PoolSize(a)' \in CacheableSizes
                 /\ pc'[a] = "ready" => entry'[a] # "none"
                 /\ pc'[a] \in ToolingServices => entry'[a] = "tooling"
      <3>1. PoolSize(a)' = PoolSize(a) /\ entry'[a] = entry[a]
        BY <2>3 DEF PoolSize
      <3>2. CASE a = b
        <4>1. pc'[a] \in {"serve", "ready", "rejected", "store"}
          BY <2>1, <2>3, <3>2 DEF SetupTypes
        <4>2. entry[a] \in Constructors /\ entry[a] # "none"
          BY <2>3, <3>2 DEF SetupTypes, Constructors
        <4>. QED
          BY <2>3, <3>1, <3>2, <4>1, <4>2 DEF ToolingServices
      <3>3. CASE a # b
        <4>1. pc'[a] = pc[a]
          BY <2>3, <3>3 DEF SetupTypes
        <4>. QED
          BY <3>1, <4>1 DEF SetupTypes
      <3>. QED
        BY <3>2, <3>3
    <2>. QED
      BY <2>3, <2>4, <2>5 DEF SetupTypes
  <1>5. ASSUME NEW b \in Builders, PoolStore(b)
        PROVE  SetupTypes'
    <2>1. HandlerStarts(b) \in {"serve", "ready", "rejected"}
      BY HandlerStartsType
    <2>2. entry[b] \in Constructors /\ PoolSize(b) \in CacheableSizes
      BY <1>5 DEF PoolStore, SetupTypes
    <2>3. Cached(b) \in Nat
      BY <2>2, CachedType
    <2>4. made' \in Nat /\ cache' \in [Constructors -> [CacheableSizes -> Nat]]
      <3>1. made' \in Nat
        BY <1>5 DEF PoolStore, SetupTypes
      <3>2. \/ cache' = [cache EXCEPT ![entry[b]][PoolSize(b)] = made']
            \/ cache' = cache
        BY <1>5 DEF PoolStore
      <3>3. cache \in [Constructors -> [CacheableSizes -> Nat]]
        BY DEF SetupTypes
      <3>4. ASSUME NEW e \in Constructors, NEW s \in CacheableSizes, NEW n \in Nat
            PROVE  [cache EXCEPT ![e][s] = n] \in [Constructors -> [CacheableSizes -> Nat]]
        BY <3>3
      <3>. QED
        BY <2>2, <3>1, <3>2, <3>3, <3>4, SMTT(30)
    <2>5. pool' \in [Builders -> Nat] /\ pc' = [pc EXCEPT ![b] = HandlerStarts(b)]
      BY <1>5, <2>3, <2>4 DEF PoolStore, Gets, Goto, SetupTypes
    <2>. QED
      BY <1>5, <2>1, <2>2, <2>4, <2>5
         DEF PoolStore, SetupTypes, Places, PoolSize, server, Constructors, ToolingServices
  <1>6. ASSUME NEW b \in Builders, NativeServes(b)
        PROVE  SetupTypes'
    BY <1>6 DEF NativeServes, Goto, SetupTypes, Places, PoolSize, Constructors, ToolingServices
  <1>7. ASSUME NEW b \in Builders, ListenAndServeTooling(b)
        PROVE  SetupTypes'
    <2>1. PICK options \in Chosen(b, ToolingFields) :
            LET c == BuildBridgeConfig(options)
            IN  /\ config' = [config EXCEPT ![b] = c]
                /\ IF GetToolingListenAddressError(c) \/ GetToolingConfigError(c)
                   THEN Goto(b, "rejected") /\ UNCHANGED listed
                   ELSE /\ listed' = [listed EXCEPT ![b] = services]
                        /\ Goto(b, EnsureToolingServices(c, services))
      BY <1>7 DEF ListenAndServeTooling
    <2>2. BuildBridgeConfig(options) \in [Fields -> Int]
      BY ConfigType
    <2>3. \E there \in {"rejected", "ready"} \cup ToolingServices : pc' = [pc EXCEPT ![b] = there]
      BY <2>1 DEF Goto, EnsureToolingServices, AfterReflection, ToolingServices
    <2>4. /\ config' \in [Builders -> [Fields -> Int]] /\ DOMAIN listed' = Builders
          /\ \A a \in Builders \ {b} : config'[a] = config[a]
          /\ entry' = [entry EXCEPT ![b] = "tooling"] /\ UNCHANGED <<pool, made, cache>>
      BY <1>7, <2>1, <2>2 DEF ListenAndServeTooling, SetupTypes
    <2>. QED
      BY <2>3, <2>4 DEF SetupTypes, Places, Constructors, PoolSize, ToolingServices
  <1>8. ASSUME NEW b \in Builders, ToolingRegisters(b)
        PROVE  SetupTypes'
    <2>1. \E there \in {"ready"} \cup ToolingServices : pc' = [pc EXCEPT ![b] = there]
      BY <1>8 DEF ToolingRegisters, Goto, AfterReflection, ToolingServices
    <2>2. pc[b] \in ToolingServices /\ UNCHANGED <<entry, config, pool, cache, made, listed>>
      BY <1>8 DEF ToolingRegisters
    <2>. QED
      BY <2>1, <2>2 DEF SetupTypes, Places, PoolSize, ToolingServices
  <1>9. CASE UNCHANGED setupVars
    BY <1>9 DEF setupVars, SetupTypes, PoolSize
  <1>. QED
    BY <1>1, <1>2, <1>3, <1>4, <1>5, <1>6, <1>7, <1>8, <1>9 DEF SetupNext

\* A step that leaves the builders of tooling alone keeps their accounts.
LEMMA ToolingUndisturbed ==
    ASSUME ServicesAccounted, FatalExplained,
           ToolingBuilders' = ToolingBuilders,
           UNCHANGED <<services, fatal>>, serving => serving',
           \A b \in ToolingBuilders : pc'[b] = pc[b] /\ config'[b] = config[b] /\ listed'[b] = listed[b]
    PROVE  ServicesAccounted' /\ FatalExplained'
  <1>1. \A b \in ToolingBuilders : SetOutFor(b)' = SetOutFor(b)
    BY DEF SetOutFor, LacksReflection, LacksHealth
  <1>2. \A b \in ToolingBuilders : Registered(b)' = Registered(b)
    BY <1>1 DEF Registered
  <1>3. ServicesAccounted'
    BY <1>1, <1>2 DEF ServicesAccounted
  <1>4. FatalExplained'
    BY <1>1 DEF FatalExplained, RegisteredTooLate, RegisteredAtOnce, RegisteredV1Again, LacksReflection
  <1>. QED
    BY <1>3, <1>4

\* A builder that has read its list has everything on it and nothing to account
\* for; one that registers adds to the services what it adds to its own.
LEMMA ToolingStep ==
    ASSUME SetupInv, [SetupNext]_setupVars
    PROVE  ServicesAccounted' /\ FatalExplained'
  <1> USE DEF SetupInv
  <1>1. ASSUME NEW b \in Builders, ListenAndServeTooling(b), ~fatal
        PROVE  ServicesAccounted' /\ FatalExplained'
    <2>1. /\ pc[b] = "start" /\ entry[b] = "none" /\ entry' = [entry EXCEPT ![b] = "tooling"]
          /\ services' = services /\ fatal' = fatal /\ serving' = serving
      BY <1>1 DEF ListenAndServeTooling, SetupTypes
    <2>2. PICK c \in [Fields -> Int] :
            /\ config' = [config EXCEPT ![b] = c]
            /\ \/ pc' = [pc EXCEPT ![b] = "rejected"] /\ listed' = listed
               \/ /\ pc' = [pc EXCEPT ![b] = EnsureToolingServices(c, services)]
                  /\ listed' = [listed EXCEPT ![b] = services]
      BY <1>1, ConfigType DEF ListenAndServeTooling, Goto
    <2>3. \A a \in Builders \ {b} : /\ pc'[a] = pc[a] /\ config'[a] = config[a] /\ entry'[a] = entry[a]
                                    /\ listed'[a] = listed[a]
      BY <2>1, <2>2 DEF SetupTypes
    <2>4. b \notin ToolingBuilders
      BY <2>1 DEF ToolingBuilders
    <2>5. CASE pc'[b] = "rejected"
      <3>1. ToolingBuilders' = ToolingBuilders
        BY <2>3, <2>4, <2>5 DEF ToolingBuilders
      <3>. QED
        BY <2>1, <2>3, <2>4, <3>1, ToolingUndisturbed DEF ToolingBuilders
    <2>6. CASE /\ pc' = [pc EXCEPT ![b] = EnsureToolingServices(c, services)]
               /\ listed' = [listed EXCEPT ![b] = services]
      <3>1. /\ pc'[b] = EnsureToolingServices(c, services) /\ config'[b] = c /\ listed'[b] = services
            /\ entry'[b] = "tooling"
        BY <2>1, <2>2, <2>6 DEF SetupTypes
      <3>2. pc'[b] \in {"reflection.v1alpha", "health", "ready"}
        BY <3>1 DEF EnsureToolingServices, AfterReflection
      <3>3. ToolingBuilders' = ToolingBuilders \cup {b}
        BY <2>3, <3>1, <3>2 DEF ToolingBuilders
      <3>4. \A a \in ToolingBuilders : SetOutFor(a)' = SetOutFor(a) /\ pc'[a] = pc[a] /\ listed'[a] = listed[a]
        BY <2>3, <2>4 DEF SetOutFor, LacksReflection, LacksHealth, ToolingBuilders
      <3>5. \A a \in ToolingBuilders : Registered(a)' = Registered(a)
        BY <3>4 DEF Registered
      <3>6. pc'[b] = "ready" \/ pc'[b] \in SetOutFor(b)'
        BY <3>1 DEF SetOutFor, EnsureToolingServices, AfterReflection, ToolingServices,
           ReflectionDue, HealthDue, HasToolingService, LacksReflection, LacksHealth
      <3>7. Registered(b)' = {}
        BY <3>1 DEF Registered, SetOutFor, EnsureToolingServices, AfterReflection, ReflectionDue, HealthDue, HasToolingService, LacksReflection, LacksHealth,
                    ToolingServices
      <3>8. ServicesAccounted'
        BY <2>1, <3>1, <3>3, <3>4, <3>5, <3>6, <3>7 DEF ServicesAccounted
      <3>9. FatalExplained'
        BY <1>1, <2>1 DEF FatalExplained
      <3>. QED
        BY <3>8, <3>9
    <2>. QED
      BY <2>2, <2>5, <2>6 DEF SetupTypes
  <1>2. ASSUME NEW b \in Builders, ToolingRegisters(b), ~fatal
        PROVE  ServicesAccounted' /\ FatalExplained'
    <2>1. /\ pc[b] \in ToolingServices /\ services' = services \cup {pc[b]}
          /\ fatal' = (serving \/ pc[b] \in services)
          /\ UNCHANGED <<entry, config, listed, serving>>
      BY <1>2 DEF ToolingRegisters
    <2>2. \A a \in Builders \ {b} : pc'[a] = pc[a]
      BY <1>2 DEF ToolingRegisters, Goto, SetupTypes
    <2>3. /\ pc[b] = "reflection.v1alpha" => pc'[b] = "reflection.v1"
          /\ pc[b] = "reflection.v1" => pc'[b] = AfterReflection(config[b], listed[b])
          /\ pc[b] = "health" => pc'[b] = "ready"
      BY <1>2 DEF ToolingRegisters, Goto, SetupTypes, ToolingServices
    <2>4. b \in ToolingBuilders /\ pc[b] \in SetOutFor(b)
      BY <2>1 DEF ToolingBuilders, ToolingServices, ServicesAccounted, SetupTypes
    <2>5. pc'[b] \in ToolingServices \cup {"ready"}
      BY <2>1, <2>3 DEF ToolingServices, AfterReflection
    <2>6. ToolingBuilders' = ToolingBuilders
      BY <2>1, <2>2, <2>4, <2>5 DEF ToolingBuilders, ToolingServices
    <2>7. \A a \in ToolingBuilders : SetOutFor(a)' = SetOutFor(a)
      BY <2>1 DEF SetOutFor, LacksReflection, LacksHealth
    <2>8. \A a \in ToolingBuilders \ {b} : Registered(a)' = Registered(a)
      BY <2>2, <2>7 DEF Registered, ToolingBuilders
    <2>9. pc'[b] = "ready" \/ pc'[b] \in SetOutFor(b)'
      BY <2>1, <2>3, <2>4, <2>7 DEF SetOutFor, AfterReflection, ToolingServices,
           ReflectionDue, HealthDue, HasToolingService, LacksReflection, LacksHealth
    <2>10. Registered(b)' = Registered(b) \cup {pc[b]}
      BY <2>1, <2>3, <2>4, <2>7 DEF Registered, SetOutFor, AfterReflection, ToolingServices,
           ReflectionDue, HealthDue, HasToolingService, LacksReflection, LacksHealth
    <2>11. ServicesAccounted'
      BY <2>1, <2>2, <2>4, <2>6, <2>7, <2>8, <2>9, <2>10 DEF ServicesAccounted, ToolingBuilders
    <2>12. ASSUME pc[b] \in services
           PROVE  RegisteredAtOnce \/ RegisteredV1Again
      <3>1. CASE pc[b] \in listed[b]
        <4>1. pc[b] = "reflection.v1" /\ LacksReflection(b)
          BY <2>1, <2>4, <3>1 DEF SetOutFor, LacksReflection, LacksHealth, ToolingServices
        <4>. QED
          BY <2>4, <3>1, <4>1 DEF RegisteredV1Again
      <3>2. CASE pc[b] \notin listed[b]
        <4>1. PICK a \in ToolingBuilders : pc[b] \in Registered(a)
          BY <2>4, <2>12, <3>2 DEF ServicesAccounted
        <4>2. pc[b] \notin Registered(b)
          BY <2>1 DEF Registered, ToolingServices
        <4>3. Registered(a) \subseteq SetOutFor(a)
          BY <4>1 DEF ServicesAccounted, Registered, SetOutFor, ToolingServices
        <4>. QED
          BY <2>4, <4>1, <4>2, <4>3 DEF RegisteredAtOnce
      <3>. QED
        BY <3>1, <3>2
    <2>13. FatalExplained'
      BY <2>1, <2>6, <2>7, <2>12
         DEF FatalExplained, RegisteredTooLate, RegisteredAtOnce, RegisteredV1Again, LacksReflection
    <2>. QED
      BY <2>11, <2>13
  <1>3. ASSUME NEW b \in Builders, ~fatal,
               \/ BuildBridgeHandler(b) \/ NewHandler(b)
               \/ PoolPrivate(b) \/ PoolLoad(b) \/ PoolStore(b) \/ NativeServes(b)
        PROVE  ServicesAccounted' /\ FatalExplained'
    <2>1. b \notin ToolingBuilders /\ entry'[b] \in Constructors
      BY <1>3 DEF BuildBridgeHandler, NewHandler, PoolPrivate, PoolLoad, PoolStore, NativeServes, SetupTypes,
                  ToolingBuilders, Constructors
    <2>2. \A a \in Builders \ {b} : pc'[a] = pc[a] /\ config'[a] = config[a] /\ entry'[a] = entry[a]
      BY <1>3 DEF BuildBridgeHandler, NewHandler, PoolPrivate, PoolLoad, PoolStore, NativeServes, Gets, Goto,
                  SetupTypes
    <2>3. UNCHANGED <<listed, services, fatal>> /\ (serving => serving')
      BY <1>3 DEF BuildBridgeHandler, NewHandler, PoolPrivate, PoolLoad, PoolStore, NativeServes, server
    <2>4. ToolingBuilders' = ToolingBuilders
      BY <2>1, <2>2 DEF ToolingBuilders, Constructors
    <2>. QED
      BY <2>1, <2>2, <2>3, <2>4, ToolingUndisturbed DEF ToolingBuilders
  <1>4. CASE UNCHANGED setupVars
    BY <1>4, ToolingUndisturbed DEF setupVars, ToolingBuilders
  <1>. QED
    BY <1>1, <1>2, <1>3, <1>4 DEF SetupNext

\* A configuration is sound from its check on, and nothing changes it later.
LEMMA SettingsStep ==
    ASSUME SetupInv, [SetupNext]_setupVars
    PROVE  SettingsChecked'
  <1> USE DEF SetupInv
  <1>1. ASSUME NEW b \in Builders, BuildBridgeHandler(b)
        PROVE  SettingsChecked'
    <2>1. PICK options \in Chosen(b, BridgeFields) :
            LET c == BuildBridgeConfig(options)
            IN  IF GetBridgeConfigError(c)
                THEN Goto(b, "rejected") /\ UNCHANGED config
                ELSE /\ config' = [config EXCEPT ![b] = BufferDefaults(ApplyBridgeKeepaliveDefaults(c))]
                     /\ Goto(b, "load")
      BY <1>1 DEF BuildBridgeHandler
    <2>2. BuildBridgeConfig(options) \in [Fields -> Int] /\ BuildBridgeConfig(options).dialTimeout = 0
      <3>1. "dialTimeout" \in Fields \ BridgeFields
        BY DEF Fields, BridgeFields, ProxyFields, Sizes
      <3>. QED
        BY <3>1, ConfigType
    <2>3. pc'[b] = "load" => SettingsSound(config'[b], "BuildBridgeHandler")
      BY <2>1, <2>2, BridgeDefaultsSound DEF Goto, SetupTypes
    <2>4. /\ pc'[b] \in {"rejected", "load"} /\ entry'[b] = "BuildBridgeHandler"
          /\ \A a \in Builders : a # b =>
                pc'[a] = pc[a] /\ entry'[a] = entry[a] /\ config'[a] = config[a]
      BY <1>1, <2>1 DEF BuildBridgeHandler, Goto, SetupTypes
    <2>. QED
      BY <2>3, <2>4 DEF SettingsChecked
  <1>2. ASSUME NEW b \in Builders, NewHandler(b)
        PROVE  SettingsChecked'
    <2>1. PICK options \in Chosen(b, ProxyFields) :
            config' = [config EXCEPT ![b] =
                          OrDefault(BufferDefaults(BuildBridgeConfig(options)), "dialTimeout", 1)]
      BY <1>2 DEF NewHandler
    <2>2. BuildBridgeConfig(options) \in [Fields -> Int] /\ BuildBridgeConfig(options).lifetime = 0
      BY ConfigType DEF Fields, BridgeFields, ProxyFields, Sizes
    <2>3. config'[b].readBuffer # 0 /\ config'[b].writeBuffer # 0 /\ config'[b].lifetime = 0
      BY <2>1, <2>2, ProxyDefaults DEF SetupTypes
    <2>4. /\ pc'[b] = "load" /\ entry'[b] = "NewHandler"
          /\ \A a \in Builders : a # b =>
                pc'[a] = pc[a] /\ entry'[a] = entry[a] /\ config'[a] = config[a]
      BY <1>2, <2>1 DEF NewHandler, Goto, SetupTypes
    <2>. QED
      BY <2>3, <2>4 DEF SettingsChecked
  <1>3. ASSUME NEW b \in Builders, PoolPrivate(b) \/ PoolLoad(b) \/ PoolStore(b)
        PROVE  SettingsChecked'
    <2>1. /\ pc[b] \in {"load", "store"}
          /\ \/ pc' = [pc EXCEPT ![b] = "store"]
             \/ pc' = [pc EXCEPT ![b] = HandlerStarts(b)]
          /\ UNCHANGED <<entry, config>>
      BY <1>3 DEF PoolPrivate, PoolLoad, PoolStore, Gets, Goto
    <2>2. entry[b] = "NewHandler" /\ HandlerStarts(b) \in {"serve", "ready"}
            => SettingsSound(config[b], "NewHandler")
      <3>1. config[b] \in [Fields -> Int]
        BY DEF SetupTypes
      <3>2. entry[b] = "NewHandler" /\ HandlerStarts(b) \in {"serve", "ready"}
              => ~GetHandlerConfigError(config[b])
        BY DEF HandlerStarts
      <3>3. entry[b] = "NewHandler" =>
              config[b].readBuffer # 0 /\ config[b].writeBuffer # 0 /\ config[b].lifetime = 0
        BY <2>1 DEF SettingsChecked
      <3>. QED
        BY <3>1, <3>2, <3>3, ProxySound
    <2>3. \A a \in Builders : a # b => pc'[a] = pc[a]
      BY <2>1 DEF SetupTypes
    <2>4. pc'[b] \in {"store", "serve", "ready", "rejected"}
            /\ (pc'[b] = "store" \/ pc'[b] = HandlerStarts(b))
      BY <2>1, HandlerStartsType DEF SetupTypes
    <2>. QED
      BY <2>1, <2>2, <2>3, <2>4 DEF SettingsChecked
  <1>4. ASSUME NEW b \in Builders, NativeServes(b)
        PROVE  SettingsChecked'
    BY <1>4 DEF NativeServes, Goto, SettingsChecked, SetupTypes
  <1>5. ASSUME NEW b \in Builders, ListenAndServeTooling(b) \/ ToolingRegisters(b)
        PROVE  SettingsChecked'
    <2>1. /\ entry'[b] = "tooling"
          /\ \A a \in Builders : a # b =>
                pc'[a] = pc[a] /\ entry'[a] = entry[a] /\ config'[a] = config[a]
      BY <1>5 DEF ListenAndServeTooling, ToolingRegisters, Goto, SetupTypes
    <2>. QED
      BY <2>1 DEF SettingsChecked
  <1>6. CASE UNCHANGED setupVars
    BY <1>6 DEF setupVars, SettingsChecked
  <1>. QED
    BY <1>1, <1>2, <1>3, <1>4, <1>5, <1>6 DEF SetupNext

\* A pool is new, or the one that the cache has for the handler's size; storing
\* fills only an empty place.
LEMMA PoolsStep ==
    ASSUME SetupInv, [SetupNext]_setupVars
    PROVE  PoolsApart'
  <1> USE DEF SetupInv
  <1>1. ASSUME UNCHANGED <<pool, cache, made>>, Handlers' = Handlers,
               \A a \in Handlers : entry'[a] = entry[a] /\ config'[a] = config[a]
        PROVE  PoolsApart'
    <2>1. \A a \in Handlers : PoolSize(a)' = PoolSize(a)
      BY <1>1 DEF PoolSize
    <2>. QED
      BY <1>1, <2>1 DEF PoolsApart, Handlers
  <1>2. ASSUME NEW b \in Builders, BuildBridgeHandler(b) \/ NewHandler(b)
        PROVE  PoolsApart'
    <2>1. /\ pc[b] = "start" /\ pc'[b] \in {"rejected", "load"}
          /\ \A a \in Builders : a # b =>
                pc'[a] = pc[a] /\ entry'[a] = entry[a] /\ config'[a] = config[a]
          /\ UNCHANGED <<pool, cache, made>>
      BY <1>2 DEF BuildBridgeHandler, NewHandler, Goto, SetupTypes
    <2>2. Handlers' = Handlers /\ b \notin Handlers
      BY <2>1 DEF Handlers
    <2>. QED
      BY <1>1, <2>1, <2>2 DEF Handlers
  <1>3. ASSUME NEW b \in Builders, ListenAndServeTooling(b) \/ ToolingRegisters(b)
        PROVE  PoolsApart'
    <2>1. /\ pc[b] \in {"start"} \cup ToolingServices /\ entry'[b] = "tooling"
          /\ \A a \in Builders : a # b =>
                pc'[a] = pc[a] /\ entry'[a] = entry[a] /\ config'[a] = config[a]
          /\ UNCHANGED <<pool, cache, made>>
      BY <1>3 DEF ListenAndServeTooling, ToolingRegisters, Goto, SetupTypes
    <2>2. Handlers' = Handlers /\ b \notin Handlers
      BY <2>1 DEF Handlers, ToolingServices
    <2>. QED
      BY <1>1, <2>1, <2>2 DEF Handlers
  <1>4. ASSUME NEW b \in Builders, NativeServes(b)
        PROVE  PoolsApart'
    <2>1. Handlers' = Handlers
      BY <1>4 DEF NativeServes, Goto, Handlers, SetupTypes
    <2>. QED
      BY <1>1, <1>4, <2>1 DEF NativeServes
  <1>5. ASSUME NEW b \in Builders, PoolPrivate(b)
        PROVE  PoolsApart'
    <2>1. /\ b \notin Handlers /\ PoolSize(b) \notin CacheableSizes
          /\ made' = made + 1 /\ pool' = [pool EXCEPT ![b] = made + 1]
          /\ pc' = [pc EXCEPT ![b] = HandlerStarts(b)]
          /\ UNCHANGED <<entry, config, cache>>
      BY <1>5 DEF PoolPrivate, Gets, Goto, Handlers
    <2>2. Handlers' \subseteq Handlers \cup {b}
      BY <2>1 DEF Handlers, SetupTypes
    <2>3. \A a \in Builders : PoolSize(a)' = PoolSize(a)
      BY <2>1 DEF PoolSize
    <2>. QED
      BY <2>1, <2>2, <2>3 DEF PoolsApart, SetupTypes, Handlers
  <1>6. ASSUME NEW b \in Builders, PoolLoad(b) \/ PoolStore(b),
               Cached(b) # 0, pool' = [pool EXCEPT ![b] = Cached(b)],
               pc' = [pc EXCEPT ![b] = HandlerStarts(b)], cache' = cache,
               made' \in {made, made + 1}
        PROVE  PoolsApart'
    <2>1. /\ b \notin Handlers
          /\ entry[b] \in Constructors /\ PoolSize(b) \in CacheableSizes
          /\ UNCHANGED <<entry, config>>
      BY <1>6 DEF PoolLoad, PoolStore, Handlers, SetupTypes
    <2>2. Handlers' \subseteq Handlers \cup {b}
      BY <1>6, <2>1 DEF Handlers, SetupTypes
    <2>3. \A a \in Builders : PoolSize(a)' = PoolSize(a)
      BY <2>1 DEF PoolSize
    <2>. QED
      BY <1>6, <2>1, <2>2, <2>3 DEF PoolsApart, SetupTypes, Handlers, Cached
  <1>7. ASSUME NEW b \in Builders, PoolLoad(b), Cached(b) = 0
        PROVE  PoolsApart'
    <2>1. /\ pc[b] = "load" /\ pc' = [pc EXCEPT ![b] = "store"]
          /\ UNCHANGED <<entry, config, pool, cache, made>>
      BY <1>7 DEF PoolLoad, Goto
    <2>2. Handlers' = Handlers
      BY <2>1 DEF Handlers, SetupTypes
    <2>. QED
      BY <1>1, <2>1, <2>2
  <1>8. ASSUME NEW b \in Builders, PoolStore(b), Cached(b) = 0
        PROVE  PoolsApart'
    <2>1. /\ b \notin Handlers
          /\ entry[b] \in Constructors /\ PoolSize(b) \in CacheableSizes
          /\ made' = made + 1 /\ pool' = [pool EXCEPT ![b] = made + 1]
          /\ cache' = [cache EXCEPT ![entry[b]][PoolSize(b)] = made + 1]
          /\ pc' = [pc EXCEPT ![b] = HandlerStarts(b)]
          /\ UNCHANGED <<entry, config>>
      BY <1>8 DEF PoolStore, Gets, Goto, Handlers, SetupTypes
    <2>2. Handlers' \subseteq Handlers \cup {b}
      BY <2>1 DEF Handlers, SetupTypes
    <2>3. \A a \in Builders : PoolSize(a)' = PoolSize(a)
      BY <2>1 DEF PoolSize
    <2>. QED
      BY <1>8, <2>1, <2>2, <2>3 DEF PoolsApart, SetupTypes, Handlers, Cached
  <1>9. CASE UNCHANGED setupVars
    BY <1>1, <1>9 DEF setupVars, Handlers
  <1>10. ASSUME NEW b \in Builders, PoolLoad(b) \/ PoolStore(b)
         PROVE  PoolsApart'
    <2>1. CASE Cached(b) # 0
      BY <1>6, <1>10, <2>1 DEF PoolLoad, PoolStore, Gets, Goto
    <2>2. CASE Cached(b) = 0
      BY <1>7, <1>8, <1>10, <2>2
    <2>. QED
      BY <2>1, <2>2
  <1>. QED
    BY <1>2, <1>3, <1>4, <1>5, <1>9, <1>10 DEF SetupNext

LEMMA SetupInductive == SetupInv /\ [SetupNext]_setupVars => SetupInv'
  BY SetupTypesStep, ToolingStep, PoolsStep, SettingsStep DEF SetupInv

\* Whatever options are combined, a handler that serves has sound settings: the
\* checks of GetBridgeConfigError and of NewHandler's configuration, and the
\* defaults, leave none out.
THEOREM HandlersAreSound == SetupSpec => []HandlerSettingsSound
  <1>1. SetupInv => HandlerSettingsSound
    BY DEF SetupInv, SetupTypes, SettingsChecked, HandlerSettingsSound, Handlers, Constructors
  <1>. QED
    BY <1>1, SetupInitially, SetupInductive, PTL DEF SetupSpec

\* However many goroutines build handlers at the same time, they share one pool
\* per package and cached size (buildWebSocketWriteBufferPool's LoadOrStore).
THEOREM PoolsAreShared == SetupSpec => []OnePoolPerSize
  <1>1. SetupInv => OnePoolPerSize
    <2> SUFFICES ASSUME SetupInv, NEW a \in Handlers, NEW b \in Handlers, a # b
                 PROVE  pool[a] = pool[b] <=>
                          entry[a] = entry[b] /\ PoolSize(a) = PoolSize(b)
                          /\ PoolSize(a) \in CacheableSizes
      BY DEF OnePoolPerSize
    <2>1. entry[a] \in Constructors /\ entry[b] \in Constructors
      BY DEF SetupInv, SetupTypes, Handlers
    <2>. QED
      BY <2>1 DEF SetupInv, PoolsApart
  <1>. QED
    BY <1>1, SetupInitially, SetupInductive, PTL DEF SetupSpec

\* Tooling can be set up again and again, by any number of goroutines, and then
\* has what was asked for: only a server that serves, two goroutines that set out
\* for the same service, and v1 reflection found alone end the process
\* (ensureToolingServices), although a list may be read between any two
\* registrations.
THEOREM ToolingIsRepeatable == SetupSpec => []ToolingRegistersOnce
  <1>1. SetupInv => ToolingRegistersOnce
    <2>1. ASSUME SetupInv, NEW b \in ToolingBuilders, pc[b] = "ready"
          PROVE  /\ config[b].reflection = 1 => "reflection.v1alpha" \in services
                 /\ config[b].health = 1 => "health" \in services
      <3>1. listed[b] \cup SetOutFor(b) \subseteq services
        BY <2>1 DEF SetupInv, ServicesAccounted, Registered
      <3>. QED
        BY <3>1 DEF SetOutFor, LacksReflection, LacksHealth, ToolingServices
    <2>. QED
      BY <2>1 DEF SetupInv, FatalExplained, ToolingRegistersOnce
  <1>. QED
    BY <1>1, SetupInitially, SetupInductive, PTL DEF SetupSpec

-----------------------------------------------------------------------------
(***************************************************************************)
(* The client.  Its dialer owns what it presents, or nobody changes it.    *)
(***************************************************************************)
HandshakeFixed ==
    /\ conn.state \in {"none", "refused", "dialing"}
    /\ conn.state = "none" => dialed = <<>> /\ attempts = <<>>
    /\ conn.state = "dialing" /\ conn.subprotocols # "caller" =>
          /\ conn.headers # "caller"
          /\ dialed[1] = Handshake(conn.url, heap, conn.headers, conn.subprotocols)
          /\ attempts \in Seq({dialed[1]})

LEMMA FirstDial ==
    ASSUME conn.state = "none", HandshakeFixed, NEW x, dialed' = Append(dialed, x), attempts' = attempts
    PROVE  dialed'[1] = x /\ attempts' \in Seq({x})
  <1>1. dialed = <<>> /\ attempts = <<>>
    BY DEF HandshakeFixed
  <1>2. <<>> \in Seq({x})
    OBVIOUS
  <1>. QED
    BY <1>1, <1>2

LEMMA NativeDialerFixed ==
    ASSUME HandshakeFixed, conn.state = "none",
           NEW c, NEW h, NEW target, NEW url,
           NativeDialer(c, h, target, url),
           dialed' = Append(dialed, Handshake(url, h, c.headers, c.subprotocols)),
           attempts' = attempts
    PROVE  HandshakeFixed'
  <1>1. /\ conn'.state = "dialing" /\ conn'.url = url
        /\ conn'.headers = "dialer" /\ conn'.subprotocols = "dialer"
    BY DEF NativeDialer
  <1>2. /\ heap'["headers"]["dialer"] = Contents(h, "headers", c.headers)
        /\ heap'["subprotocols"]["dialer"] = Contents(h, "subprotocols", c.subprotocols)
    BY DEF NativeDialer, Kinds, Owners
  <1>3. Handshake(url, heap', "dialer", "dialer") = Handshake(url, h, c.headers, c.subprotocols)
    <2>1. /\ Contents(heap', "headers", "dialer") = Contents(h, "headers", c.headers)
          /\ Contents(heap', "subprotocols", "dialer") = Contents(h, "subprotocols", c.subprotocols)
      BY <1>2 DEF Contents, Owners
    <2>. QED
      BY <2>1 DEF Handshake
  <1>4. /\ dialed'[1] = Handshake(url, h, c.headers, c.subprotocols)
        /\ attempts' \in Seq({dialed'[1]})
    BY FirstDial
  <1>. QED
    BY <1>1, <1>3, <1>4 DEF HandshakeFixed

LEMMA BrowserDialerFixed ==
    ASSUME HandshakeFixed, conn.state = "none",
           NEW c, NEW h, NEW target, NEW url,
           BrowserConfigValid(c), BrowserDialer(c, h, target, url),
           dialed' = Append(dialed, Handshake(url, h, c.headers, c.subprotocols)),
           attempts' = attempts
    PROVE  HandshakeFixed'
  <1>1. /\ conn'.state = "dialing" /\ conn'.url = url
        /\ conn'.headers = Nil /\ conn'.subprotocols = c.subprotocols
        /\ heap' = h /\ c.headers = Nil
    BY DEF BrowserDialer, BrowserConfigValid
  <1>2. /\ dialed'[1] = Handshake(url, h, c.headers, c.subprotocols)
        /\ attempts' \in Seq({dialed'[1]})
    BY FirstDial
  <1>. QED
    BY <1>1, <1>2 DEF HandshakeFixed, Nil

LEMMA BuildTunnelConnFixed ==
    ASSUME HandshakeFixed, conn.state = "none",
           NEW c, NEW h, NEW target, BuildTunnelConn(c, h, target)
    PROVE  HandshakeFixed'
  <1>1. attempts' = attempts
    BY DEF BuildTunnelConn
  <1>2. CASE Refused
    BY <1>2 DEF Refused, HandshakeFixed
  <1>3. ASSUME NEW url,
               dialed' = Append(dialed, Handshake(url, h, c.headers, c.subprotocols)),
               \/ NativeDialer(c, h, target, url)
               \/ BrowserConfigValid(c) /\ BrowserDialer(c, h, target, url)
        PROVE  HandshakeFixed'
    BY <1>1, <1>3, NativeDialerFixed, BrowserDialerFixed
  <1>. QED
    BY <1>2, <1>3 DEF BuildTunnelConn

LEMMA HandshakeInductive == HandshakeFixed /\ [ClientNext]_clientState => HandshakeFixed'
  <1> SUFFICES ASSUME HandshakeFixed, [ClientNext]_clientState
               PROVE  HandshakeFixed'
    OBVIOUS
  <1>1. ASSUME NEW target, NEW settings, DialContext(target, settings)
        PROVE  HandshakeFixed'
    <2> DEFINE applied == ApplyOptions(settings, heap)
    <2>1. conn.state = "none" /\ (Refused \/ BuildTunnelConn(applied.cfg, applied.heap, target))
      BY <1>1 DEF DialContext
    <2> HIDE DEF applied
    <2>2. CASE Refused
      BY <2>2 DEF Refused, HandshakeFixed
    <2>. QED
      BY <2>1, <2>2, BuildTunnelConnFixed
  <1>2. ASSUME NEW target, NEW settings, DialConfig(target, settings)
        PROVE  HandshakeFixed'
    <2> DEFINE c == FoldLeft(SetField, Zero, settings)
    <2>1. conn.state = "none" /\ BuildTunnelConn(c, heap, target)
      BY <1>2 DEF DialConfig
    <2> HIDE DEF c
    <2>. QED
      BY <2>1, BuildTunnelConnFixed
  <1>3. ASSUME NEW settings, DialOption(settings)
        PROVE  HandshakeFixed'
    <2> DEFINE c == FoldLeft(SetField, Zero, settings)
               url == [scheme |-> "ws", host |-> "name", path |-> "none"]
    <2>1. /\ conn.state = "none" /\ attempts' = attempts
          /\ dialed' = Append(dialed, Handshake(url, heap, c.headers, c.subprotocols))
          /\ NativeDialer(c, heap, BlankTarget, url)
      BY <1>3 DEF DialOption
    <2> HIDE DEF c, url
    <2>. QED
      BY <2>1, NativeDialerFixed
  <1>4. CASE Attempt
    <2>1. CASE conn.subprotocols # "caller"
      <3>1. /\ attempts \in Seq({dialed[1]})
            /\ attempts' = Append(attempts, dialed[1])
        BY <1>4, <2>1 DEF Attempt, HandshakeFixed
      <3>2. attempts' \in Seq({dialed[1]})
        BY <3>1
      <3>. QED
        BY <1>4, <3>2 DEF Attempt, HandshakeFixed
    <2>2. CASE conn.subprotocols = "caller"
      BY <1>4, <2>2 DEF Attempt, HandshakeFixed
    <2>. QED
      BY <2>1, <2>2
  <1>5. ASSUME NEW kind \in Kinds, CallerWrites(kind)
        PROVE  HandshakeFixed'
    <2>1. ASSUME NEW k \in Kinds, NEW owner, owner # "caller"
          PROVE  Contents(heap', k, owner) = Contents(heap, k, owner)
      BY <1>5, <2>1 DEF CallerWrites, Contents
    <2>2. UNCHANGED <<conn, dialed, attempts>>
      BY <1>5 DEF CallerWrites
    <2>3. ASSUME NEW url, NEW hs, NEW ps, hs # "caller", ps # "caller"
          PROVE  Handshake(url, heap', hs, ps) = Handshake(url, heap, hs, ps)
      BY <2>1, <2>3 DEF Handshake, Kinds
    <2>. QED
      BY <2>2, <2>3 DEF HandshakeFixed
  <1>6. CASE UNCHANGED clientState
    BY <1>6 DEF clientState, HandshakeFixed
  <1>. QED
    BY <1>1, <1>2, <1>3, <1>4, <1>5, <1>6 DEF ClientNext

\* Every attempt of a connection makes the handshake that was dialed: the copies
\* of buildTunnelDialer, or of the options in a browser, cannot be reached from
\* the maps and slices that the caller goes on using (client.go:206-236).
THEOREM ReconnectsRepeatTheDial == TunnelSpec => []HandshakeAsDialed
  <1>1. ClientInit => HandshakeFixed
    BY DEF ClientInit, HandshakeFixed
  <1>2. HandshakeFixed => HandshakeAsDialed
    BY DEF HandshakeFixed, HandshakeAsDialed
  <1>. QED
    BY <1>1, <1>2, HandshakeInductive, PTL DEF TunnelSpec

-----------------------------------------------------------------------------
(***************************************************************************)
(* The caller's maps.  What the loop over the options leaves behind is a   *)
(* recursive function; both that it is defined and what it keeps are shown *)
(* for every number of options by the smallest number that would not do.   *)
(***************************************************************************)

\* A set of natural numbers has a smallest one.
LEMMA SmallestIndex ==
    ASSUME NEW T \in SUBSET Nat, T # {}
    PROVE  \E m \in T : m - 1 \notin T
  <1> DEFINE R == OpToRel(<, Nat)
  <1>1. \A x, y \in Nat : x < y => <<x, y>> \in R
    BY DEF OpToRel
  <1>2. IsWellFoundedOn(R, Nat)
    BY NatLessThanWellFounded
  <1> HIDE DEF R
  <1>3. PICK m \in T : \A y \in T : ~(<<y, m>> \in R)
    BY <1>2, WFMin
  <1>4. m - 1 \notin T
    <2> SUFFICES ASSUME m - 1 \in T
                 PROVE  FALSE
      OBVIOUS
    <2>1. m - 1 \in Nat /\ m \in Nat /\ m - 1 < m
      OBVIOUS
    <2>. QED
      BY <2>1, <1>1, <1>3
  <1>. QED
    BY <1>4

\* after, in ApplyOptions, for the first n options.
Applies(f, n, settings, h) ==
    f = [i \in 0 .. n |-> IF i = 0 THEN [cfg |-> Zero, heap |-> h]
                         ELSE ApplyOption(f[i - 1], settings[i])]

\* For every list of options there is such a function.
LEMMA OptionsApply ==
    ASSUME NEW settings, NEW h, NEW n \in Nat
    PROVE  \E f : Applies(f, n, settings, h)
  <1> DEFINE Undefined == {k \in Nat : ~ \E f : Applies(f, k, settings, h)}
             start == [cfg |-> Zero, heap |-> h]
  <1> SUFFICES ASSUME Undefined # {}
               PROVE  FALSE
    OBVIOUS
  <1>1. PICK m \in Undefined : m - 1 \notin Undefined
    <2> HIDE DEF Undefined
    <2>1. Undefined \in SUBSET Nat
      BY DEF Undefined
    <2>. QED
      BY <2>1, SmallestIndex
  <1>2. CASE m = 0
    <2> DEFINE f == [i \in 0 .. 0 |-> start]
    <2>1. Applies(f, 0, settings, h)
      BY DEF Applies
    <2>. QED
      BY <1>1, <1>2, <2>1
  <1>3. CASE m # 0
    <2>1. m \in Nat /\ m - 1 \in Nat
      BY <1>3
    <2>2. PICK f : Applies(f, m - 1, settings, h)
      BY <1>1, <2>1
    <2> DEFINE g == [i \in 0 .. m |-> IF i = m THEN ApplyOption(f[m - 1], settings[m]) ELSE f[i]]
    <2>3. \A i \in 0 .. (m - 1) :
             f[i] = IF i = 0 THEN start ELSE ApplyOption(f[i - 1], settings[i])
      BY <2>2 DEF Applies
    <2>4. ASSUME NEW i \in 0 .. m
          PROVE  g[i] = IF i = 0 THEN start ELSE ApplyOption(g[i - 1], settings[i])
      <3>1. CASE i = m
        <4>1. m - 1 \in 0 .. m /\ m - 1 # m
          BY <2>1
        <4>2. g[m - 1] = f[m - 1] /\ g[m] = ApplyOption(f[m - 1], settings[m])
          BY <2>1, <4>1
        <4>. QED
          BY <1>3, <3>1, <4>2
      <3>2. CASE i = 0
        <4>1. i \in 0 .. (m - 1) /\ i # m
          BY <2>1, <3>2
        <4>. QED
          BY <2>3, <3>2, <4>1
      <3>3. CASE i # m /\ i # 0
        <4>1. i \in 0 .. (m - 1) /\ i - 1 \in 0 .. m /\ i - 1 # m
          BY <2>1, <3>3
        <4>2. g[i] = f[i] /\ g[i - 1] = f[i - 1]
          BY <3>3, <4>1
        <4> HIDE DEF g
        <4>. QED
          BY <2>3, <3>3, <4>1, <4>2
      <3>. QED
        BY <3>1, <3>2, <3>3
    <2>5. g = [i \in 0 .. m |-> g[i]]
      OBVIOUS
    <2> HIDE DEF g
    <2>6. Applies(g, m, settings, h)
      BY <2>4, <2>5 DEF Applies
    <2>. QED
      BY <1>1, <2>6
  <1>. QED
    BY <1>2, <1>3

\* A heap of maps and slices, and the caller's part of it.
HeapShaped(h) == h = [k \in Kinds |-> [o \in Owners |-> h[k][o]]]
CallersPart(h, w) == \A k \in Kinds : h[k]["caller"] = w[k]

LEMMA OwnedKeeps ==
    ASSUME NEW h, HeapShaped(h), NEW w, CallersPart(h, w),
           NEW kind \in Kinds, NEW contents
    PROVE  LET g == Owned(h, kind, "options", contents)
           IN  HeapShaped(g) /\ CallersPart(g, w)
  BY DEF Owned, HeapShaped, CallersPart, Kinds, Owners

\* One option keeps the caller's part: it writes into the options' own copy.
CallerKept(m, w) == "heap" \in DOMAIN m /\ HeapShaped(m.heap) /\ CallersPart(m.heap, w)

LEMMA OptionKeeps ==
    ASSUME NEW m, NEW w, CallerKept(m, w), NEW setting
    PROVE  CallerKept(ApplyOption(m, setting), w)
  <1>1. \A kind \in Kinds : \A contents :
           /\ HeapShaped(Owned(m.heap, kind, "options", contents))
           /\ CallersPart(Owned(m.heap, kind, "options", contents), w)
    BY OwnedKeeps DEF CallerKept
  <1>2. ASSUME NEW c, NEW kind \in Kinds, NEW contents,
               ApplyOption(m, setting) = [cfg |-> c, heap |-> Owned(m.heap, kind, "options", contents)]
        PROVE  CallerKept(ApplyOption(m, setting), w)
    <2>1. CallerKept([cfg |-> c, heap |-> Owned(m.heap, kind, "options", contents)], w)
      BY <1>1 DEF CallerKept
    <2>. QED
      BY <1>2, <2>1
  <1>3. CASE setting \in {"Headers", "Header", "Subprotocols"}
    BY <1>2, <1>3 DEF ApplyOption, Kinds
  <1>4. CASE setting \notin {"Headers", "Header", "Subprotocols"}
    <2>1. ApplyOption(m, setting) = [m EXCEPT !.cfg = SetValue(@, setting)]
      BY <1>4 DEF ApplyOption
    <2>2. DOMAIN ApplyOption(m, setting) = DOMAIN m /\ ApplyOption(m, setting).heap = m.heap
      BY <2>1 DEF CallerKept
    <2>. QED
      BY <2>2 DEF CallerKept
  <1>. QED
    BY <1>3, <1>4

\* So do all of them, in any number and order.
LEMMA OptionsKeep ==
    ASSUME NEW settings, Len(settings) \in Nat, NEW h, NEW w, HeapShaped(h), CallersPart(h, w)
    PROVE  CallerKept(ApplyOptions(settings, h), w)
  <1> DEFINE start == [cfg |-> Zero, heap |-> h]
             after == CHOOSE f : Applies(f, Len(settings), settings, h)
  <1>1. PICK n \in Nat : n = Len(settings)
    OBVIOUS
  <1>2. ApplyOptions(settings, h) = after[n]
    BY <1>1 DEF ApplyOptions, Applies
  <1>3. Applies(after, n, settings, h)
    BY <1>1, OptionsApply
  <1> HIDE DEF after
  <1>4. \A i \in 0 .. n :
           after[i] = IF i = 0 THEN start ELSE ApplyOption(after[i - 1], settings[i])
    BY <1>3 DEF Applies
  <1> DEFINE Lost == {i \in 0 .. n : ~CallerKept(after[i], w)}
  <1>5. ASSUME Lost # {}
        PROVE  FALSE
    <2>1. Lost \in SUBSET Nat /\ Lost # {}
      BY <1>5
    <2>2. PICK m \in Lost : m - 1 \notin Lost
      <3> HIDE DEF Lost
      <3>. QED
        BY <2>1, SmallestIndex
    <2>3. m \in 0 .. n /\ ~CallerKept(after[m], w)
      BY <2>2
    <2>4. CASE m = 0
      <3>1. CallerKept(start, w)
        BY DEF CallerKept
      <3>2. after[m] = start
        BY <1>4, <2>3, <2>4
      <3>. QED
        BY <2>3, <3>1, <3>2
    <2>5. CASE m # 0
      <3>1. m - 1 \in 0 .. n
        BY <2>3, <2>5
      <3>2. CallerKept(after[m - 1], w)
        BY <2>2, <3>1
      <3>3. after[m] = ApplyOption(after[m - 1], settings[m])
        BY <1>4, <2>3, <2>5
      <3>. QED
        BY <2>3, <3>2, <3>3, OptionKeeps
    <2>. QED
      BY <2>4, <2>5
  <1>6. n \in 0 .. n
    OBVIOUS
  <1>. QED
    BY <1>2, <1>5, <1>6

CallerInv == HeapShaped(heap) /\ DOMAIN written = Kinds /\ CallersPart(heap, written)

LEMMA NativeDialerKeeps ==
    ASSUME NEW c, NEW h, NEW target, NEW url, HeapShaped(h), CallersPart(h, written),
           NativeDialer(c, h, target, url)
    PROVE  HeapShaped(heap') /\ CallersPart(heap', written)
  BY DEF NativeDialer, HeapShaped, CallersPart, Kinds, Owners

LEMMA BuildTunnelConnKeeps ==
    ASSUME NEW c, NEW h, NEW target, HeapShaped(h), CallersPart(h, written),
           BuildTunnelConn(c, h, target)
    PROVE  HeapShaped(heap') /\ CallersPart(heap', written) /\ written' = written
  <1>1. written' = written
    BY DEF BuildTunnelConn
  <1>2. heap' = h \/ \E url : NativeDialer(c, h, target, url)
    BY DEF BuildTunnelConn, BrowserDialer
  <1>. QED
    BY <1>1, <1>2, NativeDialerKeeps

LEMMA CallerInductive == CallerInv /\ [ClientNext]_clientState => CallerInv'
  <1> SUFFICES ASSUME CallerInv, [ClientNext]_clientState
               PROVE  CallerInv'
    OBVIOUS
  <1> USE DEF CallerInv
  <1>1. ASSUME NEW target, NEW settings \in SeqOf(Settings, MaxSettings),
               DialContext(target, settings)
        PROVE  CallerInv'
    <2> DEFINE applied == ApplyOptions(settings, heap)
    <2>1. Len(settings) \in Nat
      BY ClientBoundsAssumption DEF SeqOf
    <2>2. CallerKept(applied, written)
      BY <2>1, OptionsKeep
    <2>3. \/ heap' = heap /\ written' = written
          \/ BuildTunnelConn(applied.cfg, applied.heap, target)
      BY <1>1 DEF DialContext
    <2> HIDE DEF applied
    <2>. QED
      BY <2>2, <2>3, BuildTunnelConnKeeps DEF CallerKept
  <1>2. ASSUME NEW target, NEW settings, DialConfig(target, settings)
        PROVE  CallerInv'
    <2> DEFINE c == FoldLeft(SetField, Zero, settings)
    <2>1. BuildTunnelConn(c, heap, target)
      BY <1>2 DEF DialConfig
    <2> HIDE DEF c
    <2>. QED
      BY <2>1, BuildTunnelConnKeeps
  <1>3. ASSUME NEW settings, DialOption(settings)
        PROVE  CallerInv'
    <2> DEFINE c == FoldLeft(SetField, Zero, settings)
    <2>1. written' = written /\ \E url : NativeDialer(c, heap, BlankTarget, url)
      BY <1>3 DEF DialOption
    <2> HIDE DEF c
    <2>. QED
      BY <2>1, NativeDialerKeeps
  <1>4. CASE Attempt
    BY <1>4 DEF Attempt
  <1>5. ASSUME NEW kind \in Kinds, CallerWrites(kind)
        PROVE  CallerInv'
    BY <1>5 DEF CallerWrites, HeapShaped, CallersPart, Kinds, Owners
  <1>6. CASE UNCHANGED clientState
    BY <1>6 DEF clientState
  <1>. QED
    BY <1>1, <1>2, <1>3, <1>4, <1>5, <1>6 DEF ClientNext

\* However many options a dial is given and in whatever order, none of them
\* writes into a map or slice of the caller's: WithHeaders and WithSubprotocols
\* copy, and WithHeader adds to the copy (client.go:53-75).
THEOREM CallersMapsAreUntouched == TunnelSpec => []CallerMapsUntouched
  <1>1. ClientInit => CallerInv
    BY DEF ClientInit, CallerInv, HeapShaped, CallersPart, Kinds, Owners
  <1>2. CallerInv => CallerMapsUntouched
    BY DEF CallerInv, CallersPart, CallerMapsUntouched
  <1>. QED
    BY <1>1, <1>2, CallerInductive, PTL DEF TunnelSpec

-----------------------------------------------------------------------------
(***************************************************************************)
(* Targets: what the two parsers return, and that it is final.             *)
(***************************************************************************)
URL(s, h, p) == [scheme |-> s, host |-> h, path |-> p]

LEMMA MappedScheme ==
    ASSUME NEW s, NEW h, NEW p
    PROVE  MapHTTPSchemeToWebSocket(URL(s, h, p)) =
              URL(IF s = "https" THEN "wss" ELSE IF s = "http" THEN "ws" ELSE s, h, p)
  BY DEF MapHTTPSchemeToWebSocket, URL

\* Parsing leaves a websocket URL as it is, in both builds.
LEMMA ParsedIsFinal ==
    ASSUME NEW s \in {"ws", "wss"}, NEW h, NEW p, NEW useTLS \in BOOLEAN
    PROVE  /\ h # "none" => ParseNativeTarget(URL(s, h, p), useTLS) = {URL(s, h, p)}
           /\ ParseBrowserTarget(URL(s, h, p)) = {URL(s, h, p)}
  <1>1. MapHTTPSchemeToWebSocket(URL(s, h, p)) = URL(s, h, p)
    BY MappedScheme
  <1>2. URL(s, h, p).scheme = s /\ URL(s, h, p).host = h /\ URL(s, h, p) # BlankTarget
    BY DEF URL, BlankTarget
  <1>3. InferBrowserWebSocketURL(URL(s, h, p)) = URL(s, h, p)
    BY <1>1, <1>2 DEF InferBrowserWebSocketURL
  <1>. QED
    BY <1>1, <1>2, <1>3 DEF ParseNativeTarget, ParseBrowserTarget

LEMMA NativeParsed ==
    ASSUME NEW s, NEW h, NEW p, NEW useTLS \in BOOLEAN,
           s \in {"none", "ws", "wss", "http", "https", "other"},
           NEW url \in ParseNativeTarget(URL(s, h, p), useTLS)
    PROVE  \E z \in {"ws", "wss"} : \E k :
              /\ url = URL(z, k, p) /\ k # "none"
              /\ s # "none" => k = h
              /\ (z = "wss") <=> (s \in {"wss", "https"} \/ (s = "none" /\ useTLS))
  <1> DEFINE z == IF s \in {"wss", "https"} \/ (s = "none" /\ useTLS) THEN "wss" ELSE "ws"
             k == IF s = "none" /\ h = ":port" THEN "localhost:port" ELSE h
  <1>1. CASE s # "none"
    <2> DEFINE m == IF s = "https" THEN "wss" ELSE IF s = "http" THEN "ws" ELSE s
    <2>1. MapHTTPSchemeToWebSocket(URL(s, h, p)) = URL(m, h, p)
      BY MappedScheme
    <2>2. URL(m, h, p).scheme = m /\ URL(m, h, p).host = h
      BY DEF URL
    <2>3. m # "none" /\ m # "other" /\ h # "none" /\ url = URL(m, h, p)
      BY <1>1, <2>1, <2>2 DEF ParseNativeTarget
    <2>. QED
      BY <1>1, <2>3
  <1>2. CASE s = "none"
    <2>1. MapHTTPSchemeToWebSocket(URL(s, h, p)) = URL(s, h, p)
      BY <1>2, MappedScheme
    <2>2. URL(s, h, p).scheme = s /\ URL(s, h, p).host = h /\ URL(s, h, p).path = p
      BY DEF URL
    <2>3. k # "none" /\ url = URL(z, k, p)
      BY <1>2, <2>1, <2>2 DEF ParseNativeTarget, URL
    <2>. QED
      BY <1>2, <2>3
  <1>. QED
    BY <1>1, <1>2

LEMMA BrowserParsed ==
    ASSUME NEW s, NEW h, NEW p,
           s \in {"none", "ws", "wss", "http", "https", "other"},
           NEW url \in ParseBrowserTarget(URL(s, h, p))
    PROVE  \E z \in {"ws", "wss"} : \E k, q :
              /\ url = URL(z, k, q)
              /\ s # "none" => k = h /\ q = p
              /\ (z = "wss") <=> (s \in {"wss", "https"} \/ (s = "none" /\ page = "https:"))
  <1>1. s # "other" /\ url = InferBrowserWebSocketURL(URL(s, h, p))
    BY MappedScheme DEF ParseBrowserTarget, URL
  <1>2. CASE s # "none"
    BY <1>1, <1>2, MappedScheme DEF InferBrowserWebSocketURL, URL
  <1>3. CASE s = "none"
    <2> DEFINE z == IF page = "https:" THEN "wss" ELSE "ws"
               k == IF page # "none" /\ h = "none" THEN "page" ELSE h
    <2>1. MapHTTPSchemeToWebSocket(URL(s, h, p)) = URL(s, h, p)
      BY <1>3, MappedScheme
    <2>2. URL(s, h, p).scheme = s /\ URL(s, h, p).host = h /\ URL(s, h, p).path = p
      BY DEF URL
    <2>3. \/ url = URL("ws", "localhost:8080", "none") /\ page = "none"
          \/ url = URL(z, k, p)
      BY <1>1, <1>3, <2>1, <2>2 DEF InferBrowserWebSocketURL, URL
    <2>. QED
      BY <1>3, <2>3
  <1>. QED
    BY <1>2, <1>3

LEMMA TargetIsNormalised ==
    ASSUME NEW target \in Targets
    PROVE  TargetNormalised(target)
  <1> DEFINE s == target.scheme
             h == target.host
             p == target.path
  <1>1. /\ target = URL(s, h, p) /\ target.scheme = s
        /\ s \in {"none", "ws", "wss", "http", "https", "other"}
    BY DEF Targets, URL
  <1> HIDE DEF s, h, p
  <1> SUFFICES ASSUME NEW useTLS \in BOOLEAN
               PROVE  /\ \A url \in ParseNativeTarget(target, useTLS) :
                            /\ ParseNativeTarget(url, ~useTLS) = {url}
                            /\ ParseBrowserTarget(url) = {url}
                            /\ (url.scheme = "wss") <=>
                                 (s \in {"wss", "https"} \/ (s = "none" /\ useTLS))
                      /\ \A url \in ParseBrowserTarget(target) :
                            /\ ParseBrowserTarget(url) = {url}
                            /\ (url.scheme = "wss") <=>
                                 (s \in {"wss", "https"} \/ (s = "none" /\ page = "https:"))
                      /\ s # "none" =>
                            ParseNativeTarget(target, useTLS) \subseteq ParseBrowserTarget(target)
    BY <1>1 DEF TargetNormalised
  <1>2. ASSUME NEW url \in ParseNativeTarget(target, useTLS)
        PROVE  /\ ParseNativeTarget(url, ~useTLS) = {url} /\ ParseBrowserTarget(url) = {url}
               /\ (url.scheme = "wss") <=>
                    (s \in {"wss", "https"} \/ (s = "none" /\ useTLS))
    <2>1. PICK z, k :
             /\ z \in {"ws", "wss"} /\ url = URL(z, k, p) /\ k # "none"
             /\ (z = "wss") <=> (s \in {"wss", "https"} \/ (s = "none" /\ useTLS))
      BY <1>1, <1>2, NativeParsed
    <2>2. url.scheme = z
      BY <2>1 DEF URL
    <2>3. ASSUME NEW b \in BOOLEAN
          PROVE  /\ ParseNativeTarget(URL(z, k, p), b) = {URL(z, k, p)}
                 /\ ParseBrowserTarget(URL(z, k, p)) = {URL(z, k, p)}
      BY <2>1, ParsedIsFinal
    <2>4. /\ ParseNativeTarget(URL(z, k, p), ~useTLS) = {URL(z, k, p)}
          /\ ParseBrowserTarget(URL(z, k, p)) = {URL(z, k, p)}
      BY <2>3
    <2>. QED
      BY <2>1, <2>2, <2>4
  <1>3. ASSUME NEW url \in ParseBrowserTarget(target)
        PROVE  /\ ParseBrowserTarget(url) = {url}
               /\ (url.scheme = "wss") <=>
                    (s \in {"wss", "https"} \/ (s = "none" /\ page = "https:"))
    <2>1. PICK z, k, q :
             /\ z \in {"ws", "wss"} /\ url = URL(z, k, q)
             /\ (z = "wss") <=> (s \in {"wss", "https"} \/ (s = "none" /\ page = "https:"))
      BY <1>1, <1>3, BrowserParsed
    <2>2. url.scheme = z
      BY <2>1 DEF URL
    <2>. QED
      BY <2>1, <2>2, ParsedIsFinal
  <1>4. ASSUME s # "none", NEW url \in ParseNativeTarget(target, useTLS)
        PROVE  url \in ParseBrowserTarget(target)
    <2>1. MapHTTPSchemeToWebSocket(target).scheme \in {"ws", "wss"}
            /\ url = MapHTTPSchemeToWebSocket(target)
      <3> DEFINE m == IF s = "https" THEN "wss" ELSE IF s = "http" THEN "ws" ELSE s
      <3>1. MapHTTPSchemeToWebSocket(target) = URL(m, h, p)
        BY <1>1, MappedScheme
      <3>2. URL(m, h, p).scheme = m
        BY DEF URL
      <3>3. m # "none" /\ m # "other" /\ url = URL(m, h, p)
        BY <1>1, <1>4, <3>1, <3>2 DEF ParseNativeTarget
      <3>. QED
        BY <1>1, <3>1, <3>2, <3>3
    <2>. QED
      BY <2>1 DEF ParseBrowserTarget, InferBrowserWebSocketURL
  <1>. QED
    BY <1>2, <1>3, <1>4

\* Normalising a target keeps what the caller asked for and is finished, in both
\* builds and whatever page the browser shows: no target loses its security.
THEOREM TargetsAreNormalised == TunnelSpec => []TargetsNormalised
  <1>1. TargetsNormalised
    BY TargetIsNormalised DEF TargetsNormalised
  <1>. QED
    BY <1>1, PTL
=============================================================================
