---------------------------- MODULE TunnelClient ----------------------------
(***************************************************************************)
(* Dialing a tunnel (pkg/grpctunnel/client.go, client_wasm.go, api.go, and *)
(* DialOptionWithConfig of pkg/bridge/client.go): a target and a           *)
(* configuration, given as options to Dial or as a TunnelConfig, become a  *)
(* gRPC connection whose every reconnect performs the same handshake.      *)
(*                                                                         *)
(* Header maps and subprotocol slices are Go references: heap holds what   *)
(* each owner's map or slice contains, a configuration only says whose it  *)
(* uses, and the caller may change its own at any time.  A target is its   *)
(* scheme, host and path.                                                  *)
(***************************************************************************)
EXTENDS Integers, Sequences, SequencesExt

CONSTANTS
    MaxSettings,    \* bound: options or fields set
    MaxAttempts,    \* bound: connection attempts of gRPC
    MaxWrites       \* bound: changes by the caller to its own maps

ASSUME ClientBoundsAssumption == {MaxSettings, MaxAttempts, MaxWrites} \subseteq Nat

VARIABLES
    build,      \* the build: "native", or "wasm"
    page,       \* what window.location says, in a browser
    heap,       \* heap[kind][owner]: contents of a map or slice
    cfg,        \* the TunnelConfig
    conn,       \* what the gRPC connection was made from, or how the dial ended
    written,    \* history: what the caller put into its own maps
    dialed,     \* history: the handshake the configuration asked for
    attempts    \* history: the handshakes made

clientState == <<build, page, heap, cfg, conn, written, dialed, attempts>>

Kinds == {"headers", "subprotocols"}
Owners == {"caller", "options", "dialer"}
Nil == "nil"        \* no owner: a nil map or slice

-----------------------------------------------------------------------------
(***************************************************************************)
(* Targets.                                                                *)
(***************************************************************************)
Targets == [scheme : {"none", "ws", "wss", "http", "https", "other"},
            host : {"none", "name", ":port"}, path : {"none", "path"}]
BlankTarget == [scheme |-> "none", host |-> "none", path |-> "none"]

MapHTTPSchemeDowngrades(t) ==
    IF t.scheme \in {"http", "https"} THEN [t EXCEPT !.scheme = "ws"] ELSE t
MapHTTPSchemeToWebSocket(t) ==
    CASE t.scheme = "https" -> [t EXCEPT !.scheme = "wss"]
      [] t.scheme = "http"  -> [t EXCEPT !.scheme = "ws"]
      [] OTHER              -> t

\* ParseTunnelTargetURL in a native build; the result is a set of at most one
\* URL, empty for an error.  "://" makes a scheme, so only "none" is inferred.
ParseNativeTarget(target, useTLS) ==
    LET t == MapHTTPSchemeToWebSocket(target)
        url == IF t.scheme # "none" THEN t
               ELSE [scheme |-> IF useTLS THEN "wss" ELSE "ws",
                     host |-> IF t.host = ":port" THEN "localhost:port" ELSE t.host,
                     path |-> t.path]
    IN  IF target = BlankTarget \/ url.scheme = "other" \/ url.host = "none" THEN {} ELSE {url}

\* inferBrowserWebSocketURL: a blank target or a bare path goes to the page's
\* host; without window.location to localhost:8080, or nowhere.
InferBrowserWebSocketURL(target) ==
    LET t == MapHTTPSchemeToWebSocket(target)
        scheme == IF page = "https:" THEN "wss" ELSE "ws"
    IN  IF t.scheme \in {"ws", "wss"} THEN t
        ELSE IF page = "none" /\ t = BlankTarget
        THEN [scheme |-> "ws", host |-> "localhost:8080", path |-> "none"]
        ELSE [scheme |-> scheme,
              host |-> IF page # "none" /\ t.host = "none" THEN "page" ELSE t.host,
              path |-> t.path]

\* ParseTunnelTargetURL in a wasm build.
ParseBrowserTarget(target) ==
    IF MapHTTPSchemeToWebSocket(target).scheme = "other" THEN {} ELSE {InferBrowserWebSocketURL(target)}

\* buildTunnelGRPCDialTarget: the host of a websocket URL, anything else as it is.
DialTarget(target, url) ==
    CASE target = BlankTarget -> url
      [] target.scheme \in {"ws", "wss"} /\ target.host # "none"
           -> [scheme |-> "none", host |-> target.host, path |-> "none"]
      [] OTHER -> target

-----------------------------------------------------------------------------
(***************************************************************************)
(* Options and configurations.  has is the set of options of which a wasm  *)
(* build only remembers that they were given.                              *)
(***************************************************************************)
Zero == [tls |-> FALSE, headers |-> Nil, subprotocols |-> Nil, proxy |-> FALSE, timeout |-> 0,
         compression |-> FALSE, reconnect |-> Nil, keepalive |-> Nil, has |-> {}]

Settings == {"TLS", "Headers", "Header", "Subprotocols", "Proxy", "Timeout", "ZeroTimeout",
             "NegativeTimeout", "Compression", "Reconnect", "BadReconnect", "Keepalive", "BadKeepalive",
             "Unsupported"}
Literals == Settings \ {"Header", "Unsupported"}      \* what a TunnelConfig can hold

Owned(h, kind, owner, contents) == [h EXCEPT ![kind][owner] = contents]

\* The fields that are values.
SetValue(c, setting) ==
    CASE setting = "TLS"             -> [c EXCEPT !.tls = TRUE]
      [] setting = "Proxy"           -> [c EXCEPT !.proxy = TRUE, !.has = @ \cup {"proxy"}]
      [] setting = "Timeout"         -> [c EXCEPT !.timeout = 1, !.has = @ \cup {"timeout"}]
      [] setting = "ZeroTimeout"     -> [c EXCEPT !.timeout = 0, !.has = @ \cup {"timeout"}]
      [] setting = "NegativeTimeout" -> [c EXCEPT !.timeout = -1, !.has = @ \cup {"timeout"}]
      [] setting = "Compression"     -> [c EXCEPT !.compression = TRUE]
      [] setting \in {"Reconnect", "BadReconnect"} -> [c EXCEPT !.reconnect = setting]
      [] setting \in {"Keepalive", "BadKeepalive"} -> [c EXCEPT !.keepalive = setting]
      [] OTHER                       -> c

\* WithHeaders and WithSubprotocols copy when they are applied, WithHeader
\* adds to what the options own by then.
ApplyOptionShares(made, setting) ==
    CASE setting = "Headers" -> [made EXCEPT !.cfg.headers = "caller", !.cfg.has = @ \cup {"headers"}]
      [] setting = "Header" ->
            LET owner == IF made.cfg.headers = Nil THEN "options" ELSE made.cfg.headers
            IN  [cfg |-> [made.cfg EXCEPT !.headers = owner, !.has = @ \cup {"headers"}],
                 heap |-> Owned(made.heap, "headers", owner, Append(made.heap["headers"][owner], "added"))]
      [] OTHER -> [made EXCEPT !.cfg = SetValue(@, setting)]
ApplyOption(made, setting) ==
    CASE setting = "Headers" ->
            [cfg |-> [made.cfg EXCEPT !.headers = "options", !.has = @ \cup {"headers"}],
             heap |-> Owned(made.heap, "headers", "options", made.heap["headers"]["caller"])]
      [] setting = "Header" ->
            LET old == IF made.cfg.headers = Nil THEN <<>> ELSE made.heap["headers"]["options"]
            IN  [cfg |-> [made.cfg EXCEPT !.headers = "options", !.has = @ \cup {"headers"}],
                 heap |-> Owned(made.heap, "headers", "options", Append(old, "added"))]
      [] setting = "Subprotocols" ->
            [cfg |-> [made.cfg EXCEPT !.subprotocols = "options"],
             heap |-> Owned(made.heap, "subprotocols", "options", made.heap["subprotocols"]["caller"])]
      [] OTHER -> [made EXCEPT !.cfg = SetValue(@, setting)]

\* The loop of DialContext: each option in turn, on a zero clientOptions.
ApplyOptions(settings, h) ==
    LET after[n \in 0 .. Len(settings)] ==
            IF n = 0 THEN [cfg |-> Zero, heap |-> h] ELSE ApplyOption(after[n - 1], settings[n])
    IN  after[Len(settings)]

\* A TunnelConfig refers to the caller's own map and slice.
SetField(c, setting) ==
    CASE setting = "Headers"      -> [c EXCEPT !.headers = "caller"]
      [] setting = "Subprotocols" -> [c EXCEPT !.subprotocols = "caller"]
      [] OTHER                    -> SetValue(c, setting)

\* getTunnelConfigErrorWithoutTarget of the two builds.
PoliciesValid(c) == c.reconnect # "BadReconnect" /\ c.keepalive # "BadKeepalive"
NativeConfigValid(c) == c.timeout >= 0 /\ PoliciesValid(c)
BrowserConfigValid(c) ==
    /\ ~c.tls /\ c.headers = Nil /\ ~c.proxy /\ c.timeout = 0 /\ ~c.compression
    /\ PoliciesValid(c)

-----------------------------------------------------------------------------
Contents(h, kind, owner) == IF owner \in Owners THEN h[kind][owner] ELSE <<>>
Handshake(url, h, hs, ps) ==
    [url |-> url, headers |-> Contents(h, "headers", hs), subprotocols |-> Contents(h, "subprotocols", ps)]

ClientInit ==
    /\ build \in {"native", "wasm"}
    /\ page \in IF build = "native" THEN {"none"} ELSE {"none", "http:", "https:"}
    /\ heap = [k \in Kinds |-> [o \in Owners |-> IF o = "caller" THEN <<k>> ELSE <<>>]]
    /\ written = [k \in Kinds |-> <<k>>]
    /\ cfg = Zero
    /\ conn = [state |-> "none"]
    /\ dialed = <<>> /\ attempts = <<>>

Refused == conn' = [state |-> "refused"] /\ UNCHANGED dialed

\* BuildTunnelConn of a native build, after the checks: buildTunnelDialer
\* copies the headers and the subprotocols, once for all reconnects.
NativeDialerShares(c, h, target, url) ==
    /\ heap' = h
    /\ conn' = [state |-> "dialing", url |-> url, headers |-> c.headers, subprotocols |-> c.subprotocols,
                authority |-> DialTarget(target, url)]
NativeDialer(c, h, target, url) ==
    /\ heap' = [k \in Kinds |-> [o \in Owners |->
                   IF o = "dialer"
                   THEN Contents(h, k, IF k = "headers" THEN c.headers ELSE c.subprotocols)
                   ELSE h[k][o]]]
    /\ conn' = [state |-> "dialing", url |-> url, headers |-> "dialer", subprotocols |-> "dialer",
                authority |-> DialTarget(target, url)]

\* The same in a wasm build, which passes the subprotocols on as they are.
BrowserDialer(c, h, target, url) ==
    /\ heap' = h
    /\ conn' = [state |-> "dialing", url |-> url, headers |-> Nil, subprotocols |-> c.subprotocols,
                authority |-> DialTarget(target, url)]

BuildTunnelConn(c, h, target) ==
    /\ cfg' = c
    /\ LET native == build = "native"
           valid == IF native THEN NativeConfigValid(c) ELSE BrowserConfigValid(c)
           urls == IF native THEN ParseNativeTarget(target, c.tls) ELSE ParseBrowserTarget(target)
       IN  \/ ~valid /\ heap' = h /\ Refused
           \/ valid /\ urls = {} /\ heap' = h /\ Refused
           \/ valid /\ \E url \in urls :
                /\ dialed' = Append(dialed, Handshake(url, h, c.headers, c.subprotocols))
                /\ IF native THEN NativeDialer(c, h, target, url) ELSE BrowserDialer(c, h, target, url)
    /\ UNCHANGED <<build, page, written, attempts>>

\* splitDialOptions refuses an option of another type; DialContext of a wasm
\* build one that only a native build can honour, even with its zero value.
SplitDialOptionsFails(settings) == "Unsupported" \in ToSet(settings)
BrowserRefuses(c) == build = "wasm" /\ c.has # {}

DialContext(target, settings) ==
    /\ conn.state = "none"
    /\ LET made == ApplyOptions(settings, heap)
       IN  IF SplitDialOptionsFails(settings) \/ BrowserRefuses(made.cfg)
           THEN Refused /\ UNCHANGED <<build, page, heap, cfg, written, attempts>>
           ELSE BuildTunnelConn(made.cfg, made.heap, target)

DialConfig(target, settings) ==
    /\ conn.state = "none"
    /\ BuildTunnelConn(FoldLeft(SetField, Zero, settings), heap, target)

\* DialOptionWithConfig of pkg/bridge: any URL, the same copies.
DialOption(settings) ==
    /\ conn.state = "none" /\ build = "native"
    /\ LET c == FoldLeft(SetField, Zero, settings)
           url == [scheme |-> "ws", host |-> "name", path |-> "none"]
       IN  /\ cfg' = c
           /\ dialed' = Append(dialed, Handshake(url, heap, c.headers, c.subprotocols))
           /\ NativeDialer(c, heap, BlankTarget, url)
    /\ UNCHANGED <<build, page, written, attempts>>

\* gRPC connects or reconnects (external): the dialer's closure is called.
Attempt ==
    /\ conn.state = "dialing" /\ Len(attempts) < MaxAttempts
    /\ attempts' = Append(attempts, Handshake(conn.url, heap, conn.headers, conn.subprotocols))
    /\ UNCHANGED <<build, page, heap, cfg, conn, written, dialed>>

\* The caller reuses its map or slice (external).
CallerWrites(kind) ==
    /\ Len(written[kind]) <= MaxWrites
    /\ written' = [written EXCEPT ![kind] = Append(@, "later")]
    /\ heap' = [k \in Kinds |-> [o \in Owners |->
                   IF k = kind /\ o = "caller" THEN Append(heap[k][o], "later") ELSE heap[k][o]]]
    /\ UNCHANGED <<build, page, cfg, conn, dialed, attempts>>

ClientNext ==
    \/ \E target \in Targets :
        \/ \E settings \in SeqOf(Settings, MaxSettings) : DialContext(target, settings)
        \/ \E settings \in SeqOf(Literals, MaxSettings) : DialConfig(target, settings)
    \/ \E settings \in SeqOf(Literals, MaxSettings) : DialOption(settings)
    \/ Attempt
    \/ \E kind \in Kinds : CallerWrites(kind)

TunnelSpec == ClientInit /\ [][ClientNext]_clientState

-----------------------------------------------------------------------------
(***************************************************************************)
(* Properties.                                                             *)
(***************************************************************************)
\* Every attempt of a connection, the first and each reconnect, presents what
\* the configuration said when it was dialed, whatever the caller does to its
\* map and slice since.  (The browser's dialer uses the slice of a TunnelConfig
\* itself: there the caller has to leave it alone.)
HandshakeAsDialed ==
    conn.state = "dialing" /\ conn.subprotocols # "caller" =>
        \A i \in DOMAIN attempts : attempts[i] = dialed[1]

\* No option, in any order and number, writes into the caller's own maps.
CallerMapsUntouched == \A k \in Kinds : heap[k]["caller"] = written[k]

\* Normalising keeps what the caller asked for and is finished: the URL is a
\* websocket URL that either build would take as it is; a secure scheme, a
\* secure page or TLS without a scheme gives wss and nothing else does.
TargetNormalised(target) ==
    \A useTLS \in BOOLEAN :
        LET secure == target.scheme \in {"wss", "https"}
            native == ParseNativeTarget(target, useTLS)
            browser == ParseBrowserTarget(target)
        IN  /\ \A url \in native :
                /\ ParseNativeTarget(url, ~useTLS) = {url} /\ ParseBrowserTarget(url) = {url}
                /\ (url.scheme = "wss") <=> (secure \/ (target.scheme = "none" /\ useTLS))
            /\ \A url \in browser :
                /\ ParseBrowserTarget(url) = {url}
                /\ (url.scheme = "wss") <=> (secure \/ (target.scheme = "none" /\ page = "https:"))
            /\ target.scheme # "none" => native \subseteq browser
TargetsNormalised == conn.state = "none" => \A target \in Targets : TargetNormalised(target)
=============================================================================
