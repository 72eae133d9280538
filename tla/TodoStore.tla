----------------------------- MODULE TodoStore -----------------------------
(***************************************************************************)
(* The todo service that two of the examples serve through the bridge      *)
(* (examples/direct-bridge/main.go and examples/grpc-server/main.go, the   *)
(* same code but for one branch of loadTodos).  RPC handlers change a list *)
(* and its index under a mutex and leave a token in a channel of capacity  *)
(* one; a worker collects the tokens of a burst, copies the list and       *)
(* rewrites a file.  The process may be killed at any point and started    *)
(* again, and a save may fail at any point.                                *)
(*                                                                         *)
(* os.WriteFile truncates before it writes (external); a todo is its id    *)
(* and one value for text and done.  Requests for an id that is not there  *)
(* change nothing and are left out, and so is ListTodos.                   *)
(***************************************************************************)
EXTENDS Integers, Sequences, FiniteSets, SequencesExt

CONSTANTS
    Ids,            \* the uuids CreateTodo draws
    Values,
    NoId,           \* the empty id, or a null entry, of a file edited by hand
    SeedFiles,      \* what the file may hold before the first start
    MaxOps,         \* bound: mutations
    MaxCrashes      \* bound: kills

ASSUME BoundsAssumption == MaxOps \in Nat /\ MaxCrashes \in Nat
ASSUME IdAssumption == NoId \notin Ids
Entries == [id : Ids \cup {NoId}, val : Values]
ASSUME SeedAssumption == SeedFiles \subseteq Seq(Entries)

VARIABLES
    program,    \* which example runs
    directory,  \* the data directory exists
    file,       \* todos.json
    up,         \* the process runs
    store,      \* the list
    storeByID,  \* the keys of the index
    signal,     \* persistSignal holds its token
    worker,     \* where runTodosPersistWorker is
    snapshot,   \* parseStoreSnapshot
    used,       \* ids already drawn
    ops, crashes,
    failed,     \* history: the last save of this process failed
    past        \* history: every list there has been, and the first file

memory == <<store, storeByID, signal, worker, snapshot>>
disk == <<directory, file>>
history == <<used, ops, crashes, failed, past>>
vars == <<program, disk, up, memory, history>>

Missing == [kind |-> "missing", todos |-> <<>>]
Empty == [kind |-> "empty", todos |-> <<>>]
Invalid == [kind |-> "invalid", todos |-> <<>>]     \* a write that broke off
Holds(todos) == [kind |-> "todos", todos |-> todos]

IdsOf(todos) == {todos[i].id : i \in DOMAIN todos}

\* buildTodoStore: entries without an id, and all but the first of an id, are skipped.
BuildTodoStore(todos) ==
    FoldLeft(LAMBDA kept, t : IF t.id = NoId \/ t.id \in IdsOf(kept) THEN kept ELSE Append(kept, t),
             <<>>, todos)

\* What a start makes of the file.
RestartYields(f) == IF f.kind = "todos" THEN BuildTodoStore(f.todos) ELSE <<>>

Init ==
    /\ program \in {"direct-bridge", "grpc-server"}
    /\ \/ directory \in BOOLEAN /\ file = Missing /\ past = {}
       \/ directory = TRUE /\ \E seed \in SeedFiles : file = Holds(seed) /\ past = {seed}
    /\ up = FALSE
    /\ store = <<>> /\ storeByID = {}
    /\ signal = FALSE /\ worker = "waiting" /\ snapshot = <<>>
    /\ used = IdsOf(file.todos)
    /\ ops = 0 /\ crashes = 0 /\ failed = FALSE

-----------------------------------------------------------------------------
(***************************************************************************)
(* Start and kill.                                                         *)
(***************************************************************************)

\* newTodoServer: a new server on the list, and its worker.
NewTodoServer(todos) ==
    /\ ~up /\ up' = TRUE
    /\ store' = todos /\ storeByID' = IdsOf(todos)
    /\ signal' = FALSE /\ worker' = "waiting" /\ snapshot' = <<>>
    /\ past' = past \cup {todos}
    /\ UNCHANGED <<program, used, ops, crashes, failed>>

\* loadTodos of direct-bridge makes the directory and the file if need be;
\* it starts a file it cannot parse afresh and leaves an empty one alone.
StartDirectBridge ==
    /\ program = "direct-bridge"
    /\ NewTodoServer(RestartYields(file))
    /\ directory' = TRUE
    /\ file' = IF file.kind \in {"missing", "invalid"} THEN Holds(<<>>) ELSE file

\* loadTodos of grpc-server makes the file only: without the directory the
\* program ends.
StartGrpcServer ==
    /\ program = "grpc-server"
    /\ directory
    /\ NewTodoServer(RestartYields(file))
    /\ file' = IF file.kind \in {"missing", "invalid"} THEN Holds(<<>>) ELSE file
    /\ UNCHANGED directory

\* The process is killed (external): memory is gone, and a rewrite under way
\* leaves nothing, or a part, in the file.
Crash ==
    /\ up /\ crashes < MaxCrashes
    /\ up' = FALSE /\ crashes' = crashes + 1
    /\ store' = <<>> /\ storeByID' = {} /\ signal' = FALSE
    /\ worker' = "waiting" /\ snapshot' = <<>> /\ failed' = FALSE
    /\ file' \in IF worker = "writing" THEN {file, Invalid} ELSE {file}
    /\ UNCHANGED <<program, directory, used, ops, past>>

-----------------------------------------------------------------------------
(***************************************************************************)
(* RPC handlers, each under the write lock to its end.                     *)
(***************************************************************************)

\* signalTodosPersistLocked: a second token is dropped.
SignalTodosPersistLocked == signal' = TRUE

Mutates(todos, ids) ==
    /\ up /\ ops < MaxOps /\ ops' = ops + 1
    /\ store' = todos /\ storeByID' = ids
    /\ past' = past \cup {todos}
    /\ SignalTodosPersistLocked
    /\ UNCHANGED <<program, disk, up, worker, crashes, failed>>

CreateTodo ==
    \E id \in Ids \ used, v \in Values :
        /\ Mutates(Append(store, [id |-> id, val |-> v]), storeByID \cup {id})
        /\ used' = used \cup {id}
        /\ UNCHANGED snapshot

\* The node gets a new todo; the old one, which a snapshot may hold, stays.
Replaced(todos, id, v) ==
    [i \in DOMAIN todos |-> IF todos[i].id = id THEN [id |-> id, val |-> v] ELSE todos[i]]
UpdateTodoInPlace ==
    \E id \in storeByID, v \in Values :
        /\ Mutates(Replaced(store, id, v), storeByID)
        /\ snapshot' = Replaced(snapshot, id, v)
        /\ UNCHANGED used
UpdateTodo ==
    \E id \in storeByID, v \in Values :
        /\ Mutates(Replaced(store, id, v), storeByID)
        /\ UNCHANGED <<snapshot, used>>

DeleteTodo ==
    \E id \in storeByID :
        /\ Mutates(SelectSeq(store, LAMBDA t : t.id # id), storeByID \ {id})
        /\ UNCHANGED <<snapshot, used>>

-----------------------------------------------------------------------------
(***************************************************************************)
(* runTodosPersistWorker.                                                  *)
(***************************************************************************)
At(here) == up /\ worker = here
Goto(there) == worker' = there /\ UNCHANGED <<program, directory, up, store, storeByID, used, ops, crashes, past>>

\* The range over persistSignal takes a token and starts the debounce timer.
WorkerWakes ==
    /\ At("waiting") /\ signal
    /\ signal' = FALSE
    /\ Goto("debounce")
    /\ UNCHANGED <<file, snapshot, failed>>

\* A further token restarts the timer.
DebounceResetsForgets ==
    /\ At("debounce") /\ signal
    /\ signal' = FALSE
    /\ Goto("waiting")
    /\ UNCHANGED <<file, snapshot, failed>>
DebounceResets ==
    /\ At("debounce") /\ signal
    /\ signal' = FALSE
    /\ Goto("debounce")
    /\ UNCHANGED <<file, snapshot, failed>>

\* The timer's case is taken; the read lock may have to be waited for.
DebounceEnds ==
    /\ At("debounce")
    /\ Goto("runPersist")
    /\ UNCHANGED <<file, signal, snapshot, failed>>

\* buildTodosSnapshot under the read lock.
TakeSnapshot ==
    /\ At("runPersist")
    /\ snapshot' = store
    /\ Goto("saving")
    /\ UNCHANGED <<file, signal, failed>>

\* saveTodos: the snapshot is encoded and the file opened, which truncates it.
SaveTruncates ==
    /\ At("saving")
    /\ file' = Empty
    /\ Goto("writing")
    /\ UNCHANGED <<signal, snapshot, failed>>

SaveCompletesDrains ==
    /\ At("writing")
    /\ file' = Holds(snapshot)
    /\ failed' = FALSE /\ signal' = FALSE
    /\ Goto("waiting")
    /\ UNCHANGED snapshot
SaveCompletes ==
    /\ At("writing")
    /\ file' = Holds(snapshot)
    /\ failed' = FALSE
    /\ Goto("waiting")
    /\ UNCHANGED <<signal, snapshot>>

\* A save that fails, before or after the truncation, is logged and not tried again.
SaveFails ==
    /\ \/ At("saving") /\ UNCHANGED file
       \/ At("writing") /\ file' \in {Empty, Invalid}
    /\ failed' = TRUE
    /\ Goto("waiting")
    /\ UNCHANGED <<signal, snapshot>>

Worker ==
    \/ WorkerWakes \/ DebounceResets \/ DebounceEnds \/ TakeSnapshot
    \/ SaveTruncates \/ SaveCompletes \/ SaveFails

Next ==
    \/ StartDirectBridge \/ StartGrpcServer \/ Crash
    \/ CreateTodo \/ UpdateTodo \/ DeleteTodo
    \/ Worker

\* The worker's goroutine is scheduled and its timer fires.  Nobody has to
\* start the program, and no RPC has to come.
Spec == Init /\ [][Next]_vars /\ WF_vars(Worker)

-----------------------------------------------------------------------------
(***************************************************************************)
(* Properties.                                                             *)
(***************************************************************************)
\* The file is the list, or makes it again at the next start.
Persisted == file = Holds(store) \/ RestartYields(file) = store

\* One token is enough: a change that is not in the file, because it came
\* during the debounce, between the timer and the snapshot or while a snapshot
\* is being written, is in the snapshot or has left a token that is still
\* there.  Only a failed save, which nothing repeats, leaves the worker idle
\* over a list it has not saved.
DirtyIsScheduled ==
    up => \/ signal
          \/ worker \in {"debounce", "runPersist"}
          \/ worker \in {"saving", "writing"} /\ snapshot = store
          \/ worker = "waiting" /\ (Persisted \/ failed)

\* The snapshot outlives the lock but not the instant it was taken: a file
\* that can be read holds a list that existed as a whole, though todos are
\* updated and deleted while it is written and processes are killed.
FileIsOneInstant == file.kind = "todos" => file.todos \in past \cup {<<>>}

\* When the process stays up, the file catches up with the list for good, or
\* the last save has failed.
StoreReachesFile == (<>[]up) => <>[](Persisted \/ failed)
=============================================================================
