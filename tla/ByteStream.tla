----------------------------- MODULE ByteStream -----------------------------
(***************************************************************************)
(* What a net.Conn promises its reader: the bytes that arrived, in order,  *)
(* without a gap, until the connection is closed; what was not read by     *)
(* then is lost.  Bytes are numbered in the order in which they arrive.    *)
(***************************************************************************)
EXTENDS Integers, Sequences

VARIABLES
    arrived,    \* how many bytes the peer's messages have brought
    got,        \* the bytes handed to the reader, in order
    closed

vars == <<arrived, got, closed>>

Bytes(from, to) == [i \in 1 .. (to - from + 1) |-> from + i - 1]

Init == arrived = 0 /\ got = <<>> /\ closed = FALSE

Arrive ==
    /\ arrived' \in Nat /\ arrived' >= arrived
    /\ UNCHANGED got
    /\ closed' \in {closed, TRUE}   \* a message too many closes the connection

Take ==
    /\ ~closed
    /\ \E upto \in Len(got) + 1 .. arrived : got' = Bytes(1, upto)
    /\ UNCHANGED <<arrived, closed>>

Close ==
    /\ closed' = TRUE
    /\ UNCHANGED <<arrived, got>>

Next == Arrive \/ Take \/ Close

Spec == Init /\ [][Next]_vars
=============================================================================
