------------------------------- MODULE Background -------------------------------
(***************************************************************************)
(* Commands the Lead leaves running (background.py): a thread each, whose  *)
(* record waits in background_tasks until the Lead collects it.  The       *)
(* records are numbered anew by every runtime of the process, and a thread *)
(* of the last runtime may still be at work when the next is to be built.  *)
(***************************************************************************)
EXTENDS Naturals

CONSTANTS
  MaxTasks,      \* bound: commands started by one runtime
  MaxRuntimes    \* bound: runtimes built, by restarts and reloads

ASSUME BackgroundAssumption == MaxTasks \in Nat /\ MaxRuntimes \in Nat

Ids == 1..MaxTasks
Runtimes == 1..MaxRuntimes

VARIABLES
  runtime,     \* how many were built
  accepting,   \* _background_accepting
  task,        \* background_tasks and background_results
  worker,      \* the threads
  cancelled    \* the threads whose cancel_event is set

backgroundVars == <<runtime, accepting, task, worker, cancelled>>

\* Of which runtime the command is, and of which runtime the thread that wrote the
\* record last.
TaskRec == [status : {"none", "running", "cancelled", "completed"}, of : 0..MaxRuntimes,
            by : 0..MaxRuntimes]
NoTask == [status |-> "none", of |-> 0, by |-> 0]
Threads == Runtimes \X Ids

BackgroundInit ==
  /\ runtime = 0 /\ accepting = FALSE
  /\ task = [id \in Ids |-> NoTask]
  /\ worker = [t \in Threads |-> "none"]
  /\ cancelled = {}

\* start_background_task: the next number.
StartTask ==
  /\ accepting
  /\ \E id \in Ids :
       /\ \A n \in Ids : n < id <=> worker[<<runtime, n>>] # "none"
       /\ task' = [task EXCEPT ![id] = [status |-> "running", of |-> runtime, by |-> runtime]]
       /\ worker' = [worker EXCEPT ![<<runtime, id>>] = "running"]
  /\ UNCHANGED <<runtime, accepting, cancelled>>

\* The command ends: its thread writes the record.  A hook that raises leaves the
\* record as it is, for ever.
CommandEnds(t) ==
  LET record(status) == [task EXCEPT ![t[2]].status = status, ![t[2]].by = t[1]] IN
  /\ worker[t] = "running"
  /\ worker' = [worker EXCEPT ![t] = "over"]
  /\ task' \in IF t \in cancelled THEN {record("cancelled")} ELSE {record("completed"), task}
  /\ UNCHANGED <<runtime, accepting, cancelled>>

\* collect_background_results, which only the turns of the Lead call.
Collect ==
  task' = [id \in Ids |-> IF task[id].status = "completed" THEN NoTask ELSE task[id]]

\* shutdown_background_tasks, which waits for the threads, but not for ever.
ShutdownTasks ==
  /\ accepting' = FALSE
  /\ cancelled' = cancelled \cup {t \in Threads : t[1] = runtime /\ task[t[2]].status # "none"}
  /\ UNCHANGED <<runtime, task, worker>>

\* Fault: threads of the last runtime are forgotten.
InitializeTasksFaulty ==
  /\ runtime < MaxRuntimes /\ runtime' = runtime + 1
  /\ accepting' = TRUE
  /\ task' = [id \in Ids |-> NoTask]
  /\ UNCHANGED <<worker, cancelled>>

\* initialize_background_tasks: not while a thread is alive.
InitializeTasks ==
  /\ \A id \in Ids : task[id].status # "none" => worker[<<task[id].of, id>>] # "running"
  /\ runtime < MaxRuntimes /\ runtime' = runtime + 1
  /\ accepting' = TRUE
  /\ task' = [id \in Ids |-> NoTask]
  /\ UNCHANGED <<worker, cancelled>>

\* The process dies, and its threads.
LoseTasks ==
  /\ accepting' = FALSE
  /\ task' = [id \in Ids |-> NoTask]
  /\ worker' = [t \in Threads |-> IF worker[t] = "running" THEN "over" ELSE worker[t]]
  /\ UNCHANGED <<runtime, cancelled>>

-----------------------------------------------------------------------------
\* The Lead is told the result of the command it started, and never that of a command
\* which had the same number in the runtime before (background.py:29-40): also when
\* that one outlives the close of its runtime, cancelled or not.
ResultOfItsCommand == \A id \in Ids : task[id].by = task[id].of
===============================================================================
