--------------------------- MODULE MCBridgeSession ---------------------------
(* Two sessions, native or over http2.ServeConn.                           *)
EXTENDS BridgeSession

CONSTANTS s1, s2
=============================================================================
