---------------------------- MODULE WebSocketConn ----------------------------
(***************************************************************************)
(* The write side of the net.Conn over a gorilla websocket: Write,         *)
(* SetWriteDeadline and Close called from several goroutines, as gRPC's    *)
(* transports do (pkg/grpctunnel/conn.go, and the adapter of the frozen    *)
(* pkg/bridge/conn.go: variable pkg says which).                           *)
(*                                                                         *)
(* gorilla is external and modelled as the adapters use it: WriteMessage   *)
(* flushes a message in one or more frames; every flush copies the         *)
(* connection's deadline field, a plain field, to the net.Conn and then    *)
(* writes; a failed write is remembered and fails every later one.         *)
(***************************************************************************)
EXTENDS Integers, FiniteSets

CONSTANTS
    Writers,        \* goroutines that call Write
    Setters,        \* goroutines that call SetWriteDeadline
    Free,           \* nobody, as the owner of a mutex
    MaxFrames,      \* bound: frames of one message
    Packages        \* whose adapter: "grpctunnel", "bridge"

ASSUME ThreadAssumption ==
    /\ Writers \cap Setters = {}
    /\ Free \notin Writers \cup Setters
    /\ MaxFrames \in Nat \ {0}
    /\ Packages \subseteq {"grpctunnel", "bridge"}

VARIABLES
    pkg,            \* the package the adapter is from; never changes
    writeMu,        \* owner of writeMu
    deadlineMu,     \* owner of deadlineMu (bridge)
    wpc,            \* each writer: "idle", "locked", "flush", "send"
    left,           \* frames of its message still to be written
    spc,            \* each setter: "idle", "called", "field", "net"
    deadline,       \* the deadline it was called with: "none", "past"
    field,          \* gorilla's writeDeadline field
    netDeadline,    \* write deadline of the net.Conn
    writeErr,       \* gorilla remembers a failed write
    isClosed,
    sock,           \* "open", "closed"
    torn,           \* history: a frame was cut short on the wire
    kicked          \* history: where the writer of the message under way was when
                    \* the net.Conn got a past deadline, "no" once it returned
                    \* or a later call withdrew that deadline

writerVars == <<wpc, left>>
setterVars == <<spc, deadline>>
gorillaVars == <<field, netDeadline, writeErr, torn>>
closeVars  == <<isClosed, sock>>
vars == <<pkg, writeMu, deadlineMu, writerVars, setterVars, gorillaVars, closeVars, kicked>>

Init ==
    /\ pkg \in Packages
    /\ writeMu = Free
    /\ deadlineMu = Free
    /\ wpc = [w \in Writers |-> "idle"]
    /\ left = [w \in Writers |-> 0]
    /\ spc = [s \in Setters |-> "idle"]
    /\ deadline = [s \in Setters |-> "none"]
    /\ field = "none"
    /\ netDeadline = "none"
    /\ writeErr = FALSE
    /\ isClosed = FALSE
    /\ sock = "open"
    /\ torn = FALSE
    /\ kicked = [w \in Writers |-> "no"]

-----------------------------------------------------------------------------
(***************************************************************************)
(* Write.                                                                  *)
(***************************************************************************)
WriteLocksNothing(w) ==
    /\ wpc[w] = "idle"
    /\ wpc' = [wpc EXCEPT ![w] = "locked"]
    /\ \E n \in 1 .. MaxFrames : left' = [left EXCEPT ![w] = n]
    /\ UNCHANGED <<pkg, writeMu, deadlineMu, setterVars, gorillaVars, closeVars, kicked>>
WriteLocks(w) ==
    /\ wpc[w] = "idle" /\ writeMu = Free
    /\ writeMu' = w
    /\ wpc' = [wpc EXCEPT ![w] = "locked"]
    /\ \E n \in 1 .. MaxFrames : left' = [left EXCEPT ![w] = n]
    /\ UNCHANGED <<pkg, deadlineMu, setterVars, gorillaVars, closeVars, kicked>>

\* Write returns; the deferred Unlock runs.
WriteReturns(w) ==
    /\ wpc' = [wpc EXCEPT ![w] = "idle"]
    /\ left' = [left EXCEPT ![w] = 0]
    /\ kicked' = [kicked EXCEPT ![w] = "no"]
    /\ writeMu' = Free

\* The closed check: io.ErrClosedPipe, or on to WriteMessage.
WriteChecks(w) ==
    /\ wpc[w] = "locked"
    /\ IF isClosed
       THEN WriteReturns(w)
       ELSE wpc' = [wpc EXCEPT ![w] = "flush"] /\ UNCHANGED <<left, kicked, writeMu>>
    /\ UNCHANGED <<pkg, deadlineMu, setterVars, gorillaVars, closeVars>>

\* gorilla, one frame: fail on a remembered error, else set the net.Conn's
\* deadline from the field and write.
Flush(w) ==
    /\ wpc[w] = "flush"
    /\ IF writeErr
       THEN WriteReturns(w) /\ UNCHANGED netDeadline
       ELSE /\ netDeadline' = field
            /\ wpc' = [wpc EXCEPT ![w] = "send"]
            /\ UNCHANGED <<left, kicked, writeMu>>
    /\ UNCHANGED <<pkg, deadlineMu, setterVars, field, writeErr, torn, closeVars>>

\* The peer has drained enough: the frame is out, the next one follows.
SendCompletes(w) ==
    /\ wpc[w] = "send" /\ sock = "open" /\ netDeadline = "none"
    /\ IF left[w] = 1
       THEN WriteReturns(w)
       ELSE /\ left' = [left EXCEPT ![w] = @ - 1]
            /\ wpc' = [wpc EXCEPT ![w] = "flush"]
            /\ UNCHANGED <<kicked, writeMu>>
    /\ UNCHANGED <<pkg, deadlineMu, setterVars, gorillaVars, closeVars>>

\* The deadline or the closed socket ends the blocked write, mid-frame.
SendFails(w) ==
    /\ wpc[w] = "send" /\ (sock = "closed" \/ netDeadline = "past")
    /\ writeErr' = TRUE
    /\ torn' = TRUE
    /\ WriteReturns(w)
    /\ UNCHANGED <<pkg, deadlineMu, setterVars, field, netDeadline, closeVars>>

-----------------------------------------------------------------------------
(***************************************************************************)
(* SetWriteDeadline.                                                       *)
(***************************************************************************)
SetCalled(s) ==
    /\ spc[s] = "idle"
    /\ spc' = [spc EXCEPT ![s] = "called"]
    /\ \E d \in {"none", "past"} : deadline' = [deadline EXCEPT ![s] = d]
    /\ UNCHANGED <<pkg, writeMu, deadlineMu, writerVars, gorillaVars, closeVars, kicked>>

\* grpctunnel: TryLock, and the field when it is ours.
SetBlocksForLock(s) ==
    /\ spc[s] = "called" /\ pkg = "grpctunnel"
    /\ writeMu = Free
    /\ writeMu' = s
    /\ spc' = [spc EXCEPT ![s] = "field"]
    /\ UNCHANGED <<pkg, deadlineMu, writerVars, deadline, gorillaVars, closeVars, kicked>>
SetIgnoresLock(s) ==
    /\ spc[s] = "called" /\ pkg = "grpctunnel"
    /\ spc' = [spc EXCEPT ![s] = "field"]
    /\ UNCHANGED <<pkg, writeMu, deadlineMu, writerVars, deadline, gorillaVars, closeVars, kicked>>
SetTryLock(s) ==
    /\ spc[s] = "called" /\ pkg = "grpctunnel"
    /\ IF writeMu = Free
       THEN writeMu' = s /\ spc' = [spc EXCEPT ![s] = "field"]
       ELSE spc' = [spc EXCEPT ![s] = "net"] /\ UNCHANGED writeMu
    /\ UNCHANGED <<pkg, deadlineMu, writerVars, deadline, gorillaVars, closeVars, kicked>>

\* bridge: deadlineMu, a mutex of its own.
SetLocksDeadline(s) ==
    /\ spc[s] = "called" /\ pkg = "bridge"
    /\ deadlineMu = Free
    /\ deadlineMu' = s
    /\ spc' = [spc EXCEPT ![s] = "field"]
    /\ UNCHANGED <<pkg, writeMu, writerVars, deadline, gorillaVars, closeVars, kicked>>

\* gorilla's SetWriteDeadline: the field; the mutex is released.
SetField(s) ==
    /\ spc[s] = "field"
    /\ field' = deadline[s]
    /\ spc' = [spc EXCEPT ![s] = "idle"]
    /\ writeMu' = IF writeMu = s THEN Free ELSE writeMu
    /\ deadlineMu' = IF deadlineMu = s THEN Free ELSE deadlineMu
    /\ UNCHANGED <<pkg, writerVars, deadline, netDeadline, writeErr, torn, closeVars, kicked>>

KickedBy(s) ==
    [w \in Writers |-> IF writeMu = w /\ deadline[s] = "past" THEN wpc[w] ELSE "no"]

\* The net.Conn's SetWriteDeadline, which interrupts a blocked write.
SetNetSkipped(s) ==
    /\ spc[s] = "net"
    /\ spc' = [spc EXCEPT ![s] = "idle"]
    /\ kicked' = KickedBy(s)
    /\ UNCHANGED <<pkg, writeMu, deadlineMu, writerVars, deadline, gorillaVars, closeVars>>
SetNet(s) ==
    /\ spc[s] = "net"
    /\ netDeadline' = deadline[s]
    /\ spc' = [spc EXCEPT ![s] = "idle"]
    /\ kicked' = KickedBy(s)
    /\ UNCHANGED <<pkg, writeMu, deadlineMu, writerVars, deadline, field, writeErr, torn, closeVars>>

-----------------------------------------------------------------------------
(***************************************************************************)
(* Close, once: the flag and then the socket, under no lock.               *)
(***************************************************************************)
CloseFlag ==
    /\ ~isClosed
    /\ isClosed' = TRUE
    /\ UNCHANGED <<pkg, writeMu, deadlineMu, writerVars, setterVars, gorillaVars, sock, kicked>>

CloseSocketAfterWrite ==
    /\ isClosed /\ sock = "open" /\ writeMu = Free
    /\ sock' = "closed"
    /\ UNCHANGED <<pkg, writeMu, deadlineMu, writerVars, setterVars, gorillaVars, isClosed, kicked>>
CloseSocket ==
    /\ isClosed /\ sock = "open"
    /\ sock' = "closed"
    /\ UNCHANGED <<pkg, writeMu, deadlineMu, writerVars, setterVars, gorillaVars, isClosed, kicked>>

Write(w) ==
    WriteLocks(w) \/ WriteChecks(w) \/ Flush(w) \/ SendCompletes(w) \/ SendFails(w)

SetWriteDeadline(s) ==
    SetCalled(s) \/ SetTryLock(s) \/ SetLocksDeadline(s) \/ SetField(s) \/ SetNet(s)

Next ==
    \/ \E w \in Writers : Write(w)
    \/ \E s \in Setters : SetWriteDeadline(s)
    \/ CloseFlag \/ CloseSocket

(***************************************************************************)
(* Goroutines run, a call to Close finishes and a sync.Mutex starves       *)
(* nobody; the peer need not drain, and nobody is obliged to call          *)
(* anything.                                                               *)
(***************************************************************************)
Fairness ==
    /\ \A w \in Writers : WF_vars(WriteChecks(w) \/ Flush(w) \/ SendFails(w))
    /\ \A s \in Setters :
        /\ WF_vars(SetTryLock(s) \/ SetField(s) \/ SetNet(s))
        /\ SF_vars(SetLocksDeadline(s))
    /\ WF_vars(CloseSocket)

Spec == Init /\ [][Next]_vars /\ Fairness

-----------------------------------------------------------------------------
(***************************************************************************)
(* Properties.                                                             *)
(***************************************************************************)

\* Every variable has its type.
TypeOK ==
    /\ pkg \in Packages
    /\ writeMu \in Writers \cup Setters \cup {Free}
    /\ deadlineMu \in Setters \cup {Free}
    /\ wpc \in [Writers -> {"idle", "locked", "flush", "send"}]
    /\ left \in [Writers -> 0 .. MaxFrames]
    /\ spc \in [Setters -> {"idle", "called", "field", "net"}]
    /\ deadline \in [Setters -> {"none", "past"}]
    /\ field \in {"none", "past"} /\ netDeadline \in {"none", "past"}
    /\ writeErr \in BOOLEAN /\ isClosed \in BOOLEAN /\ torn \in BOOLEAN
    /\ sock \in {"open", "closed"}
    /\ kicked \in [Writers -> {"no", "locked", "flush", "send"}]

InGorilla ==
    {w \in Writers : wpc[w] \in {"flush", "send"}} \cup {s \in Setters : spc[s] = "field"}

\* "gorilla's documented concurrency model permits only ONE goroutine in the
\* write path at a time - SetWriteDeadline included" (grpctunnel/conn.go:146-148):
\* no flush reads the deadline field while another goroutine writes it, and no
\* two goroutines write frames.  Here for the adapter that keeps to it.
WritePathExclusive == pkg = "grpctunnel" => Cardinality(InGorilla) <= 1

\* "This CANNOT simply call gorilla's Conn.SetWriteDeadline under its own little
\* mutex" (grpctunnel/conn.go:143-144): the same of either adapter.
EveryAdapterExclusive == Cardinality(InGorilla) <= 1

\* Nothing follows a frame that was cut short: no writer sends on a wire whose
\* framing is lost, though the write that was cut gave its lock away.
TornFrameIsLast == torn => \A w \in Writers : wpc[w] # "send"

\* SetWriteDeadline returns although a write is stuck for ever behind writeMu:
\* a caller that wants to unblock that write never waits for it.
SetterReturns == \A s \in Setters : spc[s] = "called" ~> spc[s] = "idle"

\* A past deadline set while a write is blocked in the socket ends that write,
\* unless a later call withdraws the deadline first.
BlockedWriteInterrupted ==
    \A w \in Writers : kicked[w] = "send" ~> kicked[w] = "no"

\* Close ends a write that the peer does not drain.
CloseFreesWriters ==
    \A w \in Writers : isClosed ~> wpc[w] = "idle"

\* "When a write IS in flight ... the deadline is applied to the underlying
\* net.Conn directly ... and it interrupts the in-flight frame exactly as the
\* caller wanted" (grpctunnel/conn.go:154-159): a past deadline ends the write
\* that is under way, wherever it is, unless a later call withdraws it.
InFlightWriteInterrupted ==
    \A w \in Writers : kicked[w] # "no" ~> kicked[w] = "no"
=============================================================================
