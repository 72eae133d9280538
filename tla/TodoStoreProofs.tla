-------------------------- MODULE TodoStoreProofs --------------------------
(***************************************************************************)
(* Theorems about TodoStore, for any ids, values, first files and bounds.  *)
(* Both rest on equality alone: no type invariant is needed.               *)
(***************************************************************************)
EXTENDS TodoStore, TLAPS

\* The three handlers are mutations that leave the worker alone.
LEMMA HandlersMutate ==
    ASSUME CreateTodo \/ UpdateTodo \/ DeleteTodo
    PROVE  /\ up /\ up' = up
           /\ signal' = TRUE
           /\ store' \in past' /\ past \subseteq past'
           /\ UNCHANGED <<file, worker, snapshot, failed>>
  <1>1. CASE CreateTodo
    BY <1>1 DEF CreateTodo, Mutates, SignalTodosPersistLocked, disk
  <1>2. CASE UpdateTodo
    BY <1>2 DEF UpdateTodo, Mutates, SignalTodosPersistLocked, disk
  <1>3. CASE DeleteTodo
    BY <1>3 DEF DeleteTodo, Mutates, SignalTodosPersistLocked, disk
  <1>. QED
    BY <1>1, <1>2, <1>3

\* A start loads what the file yields, and leaves a file that yields it again.
LEMMA StartLoads ==
    ASSUME StartDirectBridge \/ StartGrpcServer
    PROVE  /\ up' = TRUE /\ worker' = "waiting"
           /\ store' = RestartYields(file) /\ store' \in past' /\ past \subseteq past'
           /\ file' = file \/ (file' = Holds(<<>>) /\ store' = <<>>)
  <1>1. file.kind \in {"missing", "invalid"} => RestartYields(file) = <<>>
    BY DEF RestartYields
  <1>2. CASE StartDirectBridge
    BY <1>1, <1>2 DEF StartDirectBridge, NewTodoServer
  <1>3. CASE StartGrpcServer
    BY <1>1, <1>3 DEF StartGrpcServer, NewTodoServer
  <1>. QED
    BY <1>2, <1>3

\* The one-place channel loses no change: whatever the file does not hold is
\* in the worker's hands or has left a token, in every interleaving of the
\* handlers with runTodosPersistWorker, across kills and starts.
THEOREM DirtyStaysScheduled == Spec => []DirtyIsScheduled
  <1>1. Init => DirtyIsScheduled
    BY DEF Init, DirtyIsScheduled
  <1>2. DirtyIsScheduled /\ [Next]_vars => DirtyIsScheduled'
    <2> SUFFICES ASSUME DirtyIsScheduled, [Next]_vars
                 PROVE  DirtyIsScheduled'
      OBVIOUS
    <2>1. CASE StartDirectBridge \/ StartGrpcServer
      BY <2>1, StartLoads DEF DirtyIsScheduled, Persisted
    <2>2. CASE Crash
      BY <2>2 DEF Crash, DirtyIsScheduled
    <2>3. CASE CreateTodo \/ UpdateTodo \/ DeleteTodo
      BY <2>3, HandlersMutate DEF DirtyIsScheduled
    <2>4. CASE WorkerWakes \/ DebounceResets
      BY <2>4 DEF WorkerWakes, DebounceResets, Goto, DirtyIsScheduled
    <2>5. CASE DebounceEnds
      BY <2>5 DEF DebounceEnds, Goto, DirtyIsScheduled
    <2>6. CASE TakeSnapshot
      BY <2>6 DEF TakeSnapshot, Goto, DirtyIsScheduled
    <2>7. CASE SaveTruncates
      BY <2>7 DEF SaveTruncates, At, Goto, DirtyIsScheduled
    <2>8. CASE SaveCompletes
      BY <2>8 DEF SaveCompletes, At, Goto, DirtyIsScheduled, Persisted
    <2>9. CASE SaveFails
      BY <2>9 DEF SaveFails, Goto, DirtyIsScheduled
    <2>10. CASE UNCHANGED vars
      BY <2>10 DEF vars, disk, memory, history, DirtyIsScheduled, Persisted
    <2>. QED
      BY <2>1, <2>2, <2>3, <2>4, <2>5, <2>6, <2>7, <2>8, <2>9, <2>10 DEF Next, Worker
  <1>. QED
    BY <1>1, <1>2, PTL DEF Spec

\* FileIsOneInstant speaks of the file only; what the file will hold next is
\* the snapshot, and the snapshot is a copy of the list.
InstantInv ==
    /\ FileIsOneInstant
    /\ up => store \in past
    /\ worker \in {"saving", "writing"} => up /\ snapshot \in past

\* A file that can be read is a list that existed as a whole: handlers replace
\* todos and never write into one that a snapshot shares.
THEOREM FileIsAlwaysOneInstant == Spec => []FileIsOneInstant
  <1>1. Init => InstantInv
    BY DEF Init, InstantInv, FileIsOneInstant, Missing, Holds
  <1>2. InstantInv /\ [Next]_vars => InstantInv'
    <2> SUFFICES ASSUME InstantInv, [Next]_vars
                 PROVE  InstantInv'
      OBVIOUS
    <2>1. CASE StartDirectBridge \/ StartGrpcServer
      <3>1. file' = file \/ file' = Holds(<<>>)
        BY <2>1 DEF StartDirectBridge, StartGrpcServer
      <3>2. FileIsOneInstant'
        <4>1. past \subseteq past'
          BY <2>1, StartLoads DEF StartDirectBridge, StartGrpcServer, NewTodoServer
        <4>2. Holds(<<>>).todos = <<>>
          BY DEF Holds
        <4>. QED
          BY <3>1, <4>1, <4>2 DEF InstantInv, FileIsOneInstant
      <3>. QED
        BY <2>1, <3>2 DEF StartDirectBridge, StartGrpcServer, NewTodoServer, InstantInv
    <2>2. CASE Crash
      <3>1. file' = file \/ file' = Invalid
        BY <2>2 DEF Crash
      <3>2. Invalid.kind # "todos"
        BY DEF Invalid
      <3>. QED
        BY <2>2, <3>1, <3>2 DEF Crash, InstantInv, FileIsOneInstant
    <2>3. CASE CreateTodo \/ UpdateTodo \/ DeleteTodo
      BY <2>3, HandlersMutate DEF InstantInv, FileIsOneInstant
    <2>4. CASE WorkerWakes \/ DebounceResets \/ DebounceEnds
      BY <2>4 DEF WorkerWakes, DebounceResets, DebounceEnds, Goto, InstantInv, FileIsOneInstant
    <2>5. CASE TakeSnapshot
      BY <2>5 DEF TakeSnapshot, At, Goto, InstantInv, FileIsOneInstant
    <2>6. CASE SaveTruncates
      BY <2>6 DEF SaveTruncates, At, Goto, Empty, InstantInv, FileIsOneInstant
    <2>7. CASE SaveCompletes
      BY <2>7 DEF SaveCompletes, At, Goto, Holds, InstantInv, FileIsOneInstant
    <2>8. CASE SaveFails
      <3>1. file' = file \/ file'.kind # "todos"
        BY <2>8 DEF SaveFails, Empty, Invalid
      <3>. QED
        BY <2>8, <3>1 DEF SaveFails, Goto, InstantInv, FileIsOneInstant
    <2>9. CASE UNCHANGED vars
      BY <2>9 DEF vars, disk, memory, history, InstantInv, FileIsOneInstant
    <2>. QED
      BY <2>1, <2>2, <2>3, <2>4, <2>5, <2>6, <2>7, <2>8, <2>9 DEF Next, Worker
  <1>3. InstantInv => FileIsOneInstant
    BY DEF InstantInv
  <1>. QED
    BY <1>1, <1>2, <1>3, PTL DEF Spec
=============================================================================
