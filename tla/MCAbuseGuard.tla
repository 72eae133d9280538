---------------------------- MODULE MCAbuseGuard ----------------------------
(* A small instance of AbuseGuard: who the requests of a run come from.    *)
EXTENDS AbuseGuard, TLC

CONSTANTS a1, a2, a3, u1, u2

\* Host "a", and two requests whose address cannot be read.  Every connection
\* has a port of its own, which is named after it.
TwoClients ==
    [r \in Requests |-> [host |-> IF r \in {a1, a2, a3} THEN "a" ELSE "", port |-> r]]

\* Requests of one client are alike.
Alike == Permutations({a1, a2, a3}) \cup Permutations({u1, u2})
=============================================================================
