------------------------ MODULE WebSocketConnProofs ------------------------
(***************************************************************************)
(* Theorems about WebSocketConn, for any goroutines, message lengths and   *)
(* packages.                                                               *)
(***************************************************************************)
EXTENDS WebSocketConn, FiniteSetTheorems, TLAPS

\* Who holds writeMu: exactly the writer that is inside Write, and the setter
\* that got it from TryLock; a writer has a frame left to write; and gorilla
\* remembers the write that was cut.
LockInv ==
    /\ \A w \in Writers : wpc[w] # "idle" <=> writeMu = w
    /\ \A w \in Writers : wpc[w] # "idle" => left[w] > 0
    /\ pkg = "grpctunnel" => \A s \in Setters : spc[s] = "field" => writeMu = s
    /\ torn => writeErr

ConnInv == TypeOK /\ LockInv /\ TornFrameIsLast

LEMMA ConnInit == Init => ConnInv
  <1> SUFFICES ASSUME Init PROVE ConnInv
    OBVIOUS
  <1>1. TypeOK
    <2>1. writeErr \in BOOLEAN /\ isClosed \in BOOLEAN /\ torn \in BOOLEAN
      BY DEF Init
    <2>2. left \in [Writers -> 0 .. MaxFrames]
      BY ThreadAssumption DEF Init
    <2>. QED
      BY <2>1, <2>2 DEF Init, TypeOK
  <1>2. LockInv /\ TornFrameIsLast
    BY ThreadAssumption DEF Init, LockInv, TornFrameIsLast
  <1>. QED
    BY <1>1, <1>2 DEF ConnInv

\* Leaving Write gives the mutex back and changes no other writer.
LEMMA ReturnKeepsLock ==
    ASSUME ConnInv, NEW w \in Writers, wpc[w] # "idle", WriteReturns(w),
           UNCHANGED <<pkg, spc, sock>>,
           torn' => writeErr'
    PROVE  LockInv' /\ TornFrameIsLast'
  <1>1. writeMu = w /\ writeMu' = Free
    BY DEF ConnInv, LockInv, WriteReturns
  <1>2. \A v \in Writers : wpc'[v] = "idle"
    BY <1>1 DEF ConnInv, LockInv, TypeOK, WriteReturns
  <1>3. \A s \in Setters : pkg = "grpctunnel" => spc[s] # "field"
    BY <1>1, ThreadAssumption DEF ConnInv, LockInv
  <1>. QED
    BY <1>1, <1>2, <1>3, ThreadAssumption DEF LockInv, TornFrameIsLast

LEMMA ConnInductive == ConnInv /\ [Next]_vars => ConnInv'
  <1> SUFFICES ASSUME ConnInv, [Next]_vars
               PROVE  ConnInv'
    OBVIOUS
  <1> USE ThreadAssumption
  <1>1. ASSUME NEW w \in Writers, WriteLocks(w)
        PROVE  ConnInv'
    <2>1. TypeOK'
      BY <1>1 DEF ConnInv, TypeOK, WriteLocks, setterVars, gorillaVars, closeVars
    <2>2. LockInv' /\ TornFrameIsLast'
      BY <1>1 DEF ConnInv, TypeOK, LockInv, TornFrameIsLast, WriteLocks, setterVars, gorillaVars, closeVars
    <2>. QED
      BY <2>1, <2>2 DEF ConnInv
  <1>2. ASSUME NEW w \in Writers, WriteChecks(w)
        PROVE  ConnInv'
    <2>1. TypeOK'
      BY <1>2 DEF ConnInv, TypeOK, WriteChecks, WriteReturns, setterVars, gorillaVars, closeVars
    <2>2. CASE isClosed
      <3>1. WriteReturns(w) /\ wpc[w] # "idle" /\ UNCHANGED <<pkg, spc, sock, torn, writeErr>>
        BY <1>2, <2>2 DEF WriteChecks, setterVars, gorillaVars, closeVars
      <3>2. torn' => writeErr'
        BY <3>1 DEF ConnInv, LockInv
      <3>. QED
        BY <2>1, <3>1, <3>2, ReturnKeepsLock DEF ConnInv
    <2>3. CASE ~isClosed
      <3>1. LockInv' /\ TornFrameIsLast'
        BY <1>2, <2>3 DEF ConnInv, TypeOK, LockInv, TornFrameIsLast, WriteChecks, setterVars, gorillaVars, closeVars
      <3>. QED
        BY <2>1, <3>1 DEF ConnInv
    <2>. QED
      BY <2>2, <2>3
  <1>3. ASSUME NEW w \in Writers, Flush(w)
        PROVE  ConnInv'
    <2>1. TypeOK'
      BY <1>3 DEF ConnInv, TypeOK, Flush, WriteReturns, setterVars, closeVars
    <2>2. CASE writeErr
      <3>1. WriteReturns(w) /\ wpc[w] # "idle" /\ UNCHANGED <<pkg, spc, sock, torn, writeErr>>
        BY <1>3, <2>2 DEF Flush, setterVars, closeVars
      <3>2. torn' => writeErr'
        BY <3>1 DEF ConnInv, LockInv
      <3>. QED
        BY <2>1, <3>1, <3>2, ReturnKeepsLock DEF ConnInv
    <2>3. CASE ~writeErr
      <3>1. LockInv' /\ TornFrameIsLast'
        BY <1>3, <2>3 DEF ConnInv, TypeOK, LockInv, TornFrameIsLast, Flush, setterVars, closeVars
      <3>. QED
        BY <2>1, <3>1 DEF ConnInv
    <2>. QED
      BY <2>2, <2>3
  <1>4. ASSUME NEW w \in Writers, SendCompletes(w)
        PROVE  ConnInv'
    <2>1. TypeOK'
      BY <1>4 DEF ConnInv, TypeOK, LockInv, SendCompletes, WriteReturns, setterVars, gorillaVars, closeVars
    <2>2. CASE left[w] = 1
      <3>1. WriteReturns(w) /\ wpc[w] # "idle" /\ UNCHANGED <<pkg, spc, sock, torn, writeErr>>
        BY <1>4, <2>2 DEF SendCompletes, setterVars, gorillaVars, closeVars
      <3>2. torn' => writeErr'
        BY <3>1 DEF ConnInv, LockInv
      <3>. QED
        BY <2>1, <3>1, <3>2, ReturnKeepsLock DEF ConnInv
    <2>3. CASE left[w] # 1
      <3>1. LockInv' /\ TornFrameIsLast'
        BY <1>4, <2>3 DEF ConnInv, TypeOK, LockInv, TornFrameIsLast, SendCompletes, setterVars, gorillaVars, closeVars
      <3>. QED
        BY <2>1, <3>1 DEF ConnInv
    <2>. QED
      BY <2>2, <2>3
  <1>5. ASSUME NEW w \in Writers, SendFails(w)
        PROVE  ConnInv'
    <2>1. TypeOK'
      BY <1>5 DEF ConnInv, TypeOK, SendFails, WriteReturns, setterVars, closeVars
    <2>2. WriteReturns(w) /\ wpc[w] # "idle" /\ UNCHANGED <<pkg, spc, sock>> /\ writeErr'
      BY <1>5 DEF SendFails, setterVars, closeVars
    <2>. QED
      BY <2>1, <2>2, ReturnKeepsLock DEF ConnInv
  <1>6. ASSUME NEW s \in Setters, SetCalled(s)
        PROVE  ConnInv'
    BY <1>6 DEF ConnInv, TypeOK, LockInv, TornFrameIsLast, SetCalled, writerVars, gorillaVars, closeVars
  <1>7. ASSUME NEW s \in Setters, SetTryLock(s)
        PROVE  ConnInv'
    <2>1. TypeOK'
      BY <1>7 DEF ConnInv, TypeOK, SetTryLock, writerVars, gorillaVars, closeVars
    <2>2. LockInv' /\ TornFrameIsLast'
      BY <1>7 DEF ConnInv, TypeOK, LockInv, TornFrameIsLast, SetTryLock, writerVars, gorillaVars, closeVars
    <2>. QED
      BY <2>1, <2>2 DEF ConnInv
  <1>8. ASSUME NEW s \in Setters, SetLocksDeadline(s)
        PROVE  ConnInv'
    BY <1>8 DEF ConnInv, TypeOK, LockInv, TornFrameIsLast, SetLocksDeadline, writerVars, gorillaVars, closeVars
  <1>9. ASSUME NEW s \in Setters, SetField(s)
        PROVE  ConnInv'
    <2>1. TypeOK'
      BY <1>9 DEF ConnInv, TypeOK, SetField, writerVars, closeVars
    <2>2. LockInv' /\ TornFrameIsLast'
      BY <1>9 DEF ConnInv, TypeOK, LockInv, TornFrameIsLast, SetField, writerVars, closeVars
    <2>. QED
      BY <2>1, <2>2 DEF ConnInv
  <1>10. ASSUME NEW s \in Setters, SetNet(s)
         PROVE  ConnInv'
    <2>1. \A w \in Writers : KickedBy(s)[w] \in {"no", "locked", "flush", "send"}
      BY DEF ConnInv, TypeOK, LockInv, KickedBy
    <2>2. TypeOK'
      BY <1>10, <2>1 DEF ConnInv, TypeOK, SetNet, KickedBy, writerVars, closeVars
    <2>3. LockInv' /\ TornFrameIsLast'
      BY <1>10 DEF ConnInv, TypeOK, LockInv, TornFrameIsLast, SetNet, writerVars, closeVars
    <2>. QED
      BY <2>2, <2>3 DEF ConnInv
  <1>11. CASE CloseFlag \/ CloseSocket
    <2>1. TypeOK'
      BY <1>11 DEF ConnInv, TypeOK, CloseFlag, CloseSocket, writerVars, setterVars, gorillaVars
    <2>2. LockInv' /\ TornFrameIsLast'
      BY <1>11 DEF ConnInv, LockInv, TornFrameIsLast, CloseFlag, CloseSocket,
                   writerVars, setterVars, gorillaVars
    <2>. QED
      BY <2>1, <2>2 DEF ConnInv
  <1>12. CASE UNCHANGED vars
    BY <1>12 DEF ConnInv, TypeOK, LockInv, TornFrameIsLast, vars,
                 writerVars, setterVars, gorillaVars, closeVars
  <1>. QED
    BY <1>1, <1>2, <1>3, <1>4, <1>5, <1>6, <1>7, <1>8, <1>9, <1>10, <1>11, <1>12
       DEF Next, Write, SetWriteDeadline

\* Whoever is in gorilla's write path through the adapter of grpctunnel holds
\* the mutex, so nobody is there beside it.
LEMMA LockInvExcludes == LockInv => WritePathExclusive
  <1> SUFFICES ASSUME LockInv, pkg = "grpctunnel"
               PROVE  Cardinality(InGorilla) <= 1
    BY DEF WritePathExclusive
  <1>1. InGorilla \subseteq {writeMu}
    BY DEF LockInv, InGorilla
  <1>2. IsFiniteSet({writeMu}) /\ Cardinality({writeMu}) = 1
    BY FS_Singleton
  <1>3. Cardinality(InGorilla) <= Cardinality({writeMu})
    BY <1>1, <1>2, FS_Subset
  <1>. QED
    BY <1>2, <1>3

\* At most one goroutine is in gorilla's write path, SetWriteDeadline included,
\* for any number of writers and setters (grpctunnel/conn.go:146-148).
THEOREM OneInTheWritePath == Spec => []WritePathExclusive
  <1>1. ConnInv => WritePathExclusive
    BY LockInvExcludes DEF ConnInv
  <1>. QED
    BY <1>1, ConnInit, ConnInductive, PTL DEF Spec

\* No frame follows one that a deadline or Close has cut short, on either
\* adapter: the error that gorilla remembers stops every later flush.
THEOREM TornFrameStaysLast == Spec => []TornFrameIsLast
  <1>1. ConnInv => TornFrameIsLast
    BY DEF ConnInv
  <1>. QED
    BY <1>1, ConnInit, ConnInductive, PTL DEF Spec

-----------------------------------------------------------------------------
(***************************************************************************)
(* What the liveness of deadlines rests on: a deadline that was to         *)
(* interrupt a write still stands, and no setter waits for a writer.       *)
(***************************************************************************)
\* A write that was blocked in the socket when the deadline passed is there
\* still and the deadline stands, so all that is left to it is to fail.
InterruptedMustFail ==
    \A w \in Writers : kicked[w] = "send" => wpc[w] = "send" /\ netDeadline = "past"

\* A setter holds a mutex only while it stores the field, which nothing blocks;
\* the one goroutine that may be stuck with a mutex is a writer with writeMu,
\* which setters only try.
SettersHoldBriefly ==
    /\ \A s \in Setters : writeMu = s => spc[s] = "field" /\ pkg = "grpctunnel"
    /\ deadlineMu # Free => deadlineMu \in Setters /\ spc[deadlineMu] = "field"

KickInv == InterruptedMustFail /\ SettersHoldBriefly

LEMMA KickInductive == ConnInv /\ KickInv /\ [Next]_vars => KickInv'
  <1> SUFFICES ASSUME ConnInv, KickInv, [Next]_vars
               PROVE  KickInv'
    OBVIOUS
  <1> USE ThreadAssumption DEF ConnInv, TypeOK, LockInv, KickInv, InterruptedMustFail, SettersHoldBriefly
  <1>1. ASSUME NEW w \in Writers, WriteLocks(w)
        PROVE  KickInv'
    BY <1>1 DEF WriteLocks, setterVars, gorillaVars
  <1>2. ASSUME NEW w \in Writers, WriteChecks(w)
        PROVE  KickInv'
    BY <1>2 DEF WriteChecks, WriteReturns, setterVars, gorillaVars
  <1>3. ASSUME NEW w \in Writers, Flush(w)
        PROVE  KickInv'
    <2>1. writeMu = w /\ \A v \in Writers : kicked[v] # "send"
      BY <1>3 DEF Flush
    <2>. QED
      BY <1>3, <2>1 DEF Flush, WriteReturns, setterVars
  <1>4. ASSUME NEW w \in Writers, SendCompletes(w)
        PROVE  KickInv'
    BY <1>4 DEF SendCompletes, WriteReturns, setterVars, gorillaVars
  <1>5. ASSUME NEW w \in Writers, SendFails(w)
        PROVE  KickInv'
    BY <1>5 DEF SendFails, WriteReturns, setterVars
  <1>6. ASSUME NEW s \in Setters, SetCalled(s)
        PROVE  KickInv'
    BY <1>6 DEF SetCalled, writerVars, gorillaVars
  <1>7. ASSUME NEW s \in Setters, SetTryLock(s) \/ SetLocksDeadline(s)
        PROVE  KickInv'
    BY <1>7 DEF SetTryLock, SetLocksDeadline, writerVars, gorillaVars
  <1>8. ASSUME NEW s \in Setters, SetField(s)
        PROVE  KickInv'
    BY <1>8 DEF SetField, writerVars
  <1>9. ASSUME NEW s \in Setters, SetNet(s)
        PROVE  KickInv'
    <2>1. \A w \in Writers : kicked'[w] = "send" => wpc[w] = "send" /\ deadline[s] = "past"
      BY <1>9 DEF SetNet, KickedBy
    <2>. QED
      BY <1>9, <2>1 DEF SetNet, writerVars
  <1>10. CASE CloseFlag \/ CloseSocket
    BY <1>10 DEF CloseFlag, CloseSocket, writerVars, setterVars, gorillaVars
  <1>11. CASE UNCHANGED vars
    BY <1>11 DEF vars, writerVars, setterVars, gorillaVars
  <1>. QED
    BY <1>1, <1>2, <1>3, <1>4, <1>5, <1>6, <1>7, <1>8, <1>9, <1>10, <1>11
       DEF Next, Write, SetWriteDeadline

LEMMA KickAlways == Spec => []KickInv
  <1>1. Init => KickInv
    BY ThreadAssumption DEF Init, KickInv, InterruptedMustFail, SettersHoldBriefly
  <1>. QED
    BY <1>1, ConnInit, ConnInductive, KickInductive, PTL DEF Spec

\* A past deadline that finds a write blocked in the socket is not overwritten:
\* no other writer's flush copies its field over it before that write has
\* failed, and the write completes no frame meanwhile (grpctunnel/conn.go:163-175).
THEOREM InterruptionIsFinal == Spec => []InterruptedMustFail
  <1>1. KickInv => InterruptedMustFail
    BY DEF KickInv
  <1>. QED
    BY <1>1, KickAlways, PTL

\* SetWriteDeadline never holds a mutex where it could be kept waiting, so
\* neither a Write nor another SetWriteDeadline is kept by one that does not
\* come back, on either adapter.
THEOREM SettersNeverHoldUp == Spec => []SettersHoldBriefly
  <1>1. KickInv => SettersHoldBriefly
    BY DEF KickInv
  <1>. QED
    BY <1>1, KickAlways, PTL
=============================================================================
