------------------------------ MODULE SlotPool ------------------------------
(***************************************************************************)
(* What the abuse guard promises the upgrade handlers: a handler has a     *)
(* slot or has none, it gets one only while fewer than the cap are taken,  *)
(* and only its own release gives it back.                                 *)
(***************************************************************************)
EXTENDS Integers, FiniteSets

CONSTANTS
    Users,      \* who may hold a slot
    Cap         \* MaxActiveConnections; 0 for no cap

VARIABLE held   \* who holds one

Init == held = {}

Take(u) ==
    /\ u \notin held
    /\ Cap = 0 \/ Cardinality(held) < Cap
    /\ held' = held \cup {u}

Give(u) ==
    /\ u \in held
    /\ held' = held \ {u}

Next == \E u \in Users : Take(u) \/ Give(u)

Spec == Init /\ [][Next]_held
=============================================================================
