---------------------------------- MODULE Cron ----------------------------------
(***************************************************************************)
(* Scheduled prompts (cron.py): jobs that the Lead schedules and cancels   *)
(* by tools, the thread that queues what is due once a minute, and the     *)
(* file of the durable ones.  The scheduler saves under cron_lock, the     *)
(* tools after they have let it go.                                        *)
(***************************************************************************)
EXTENDS Naturals

CONSTANTS
  Jobs,         \* as many as are ever scheduled
  OneShot,      \* those that are not recurring
  Durable,      \* those that are durable
  MaxQueued     \* bound: how often a job is queued before anybody looks

ASSUME CronAssumption == OneShot \subseteq Jobs /\ Durable \subseteq Jobs /\ MaxQueued \in Nat

VARIABLES
  known,       \* jobs scheduled up to now
  scheduled,   \* scheduled_jobs
  due,         \* match the present minute and were not queued in it (_last_fired)
  fired,       \* cron_queue
  file,        \* DURABLE_PATH
  saving,      \* the scheduler holds the lock and saves
  tool,        \* the tool call of the Lead that is at work
  dropped      \* jobs whose cancellation was reported to the Lead

cronVars == <<known, scheduled, due, fired, file, saving, tool, dropped>>

NoTool == [at |-> "none", cancels |-> {}, saved |-> {}]
ToolRec == [at : {"none", "save", "write"}, cancels : SUBSET Jobs, saved : SUBSET Jobs]
NothingFired == [j \in Jobs |-> 0]

CronInit ==
  /\ known = {} /\ scheduled = {} /\ due = {} /\ dropped = {}
  /\ fired = NothingFired
  /\ file = {}
  /\ saving = FALSE /\ tool = NoTool

\* A minute begins.  (A pass of the scheduler is over within its minute.)
MinuteBegins ==
  /\ ~saving
  /\ due' \in SUBSET Jobs
  /\ UNCHANGED <<known, scheduled, fired, file, saving, tool, dropped>>

\* cron_scheduler_loop, one pass: what is due is queued, and a one-shot job is gone.
Pass ==
  LET now == scheduled \cap due IN
  /\ ~saving /\ now # {}
  /\ \A j \in now : fired[j] < MaxQueued
  /\ fired' = [j \in Jobs |-> IF j \in now THEN fired[j] + 1 ELSE fired[j]]
  /\ due' = due \ now
  /\ scheduled' = scheduled \ (now \cap OneShot)
  /\ saving' = (now \cap OneShot \cap Durable # {})
  /\ UNCHANGED <<known, file, tool, dropped>>

\* The end of such a pass: save_durable_jobs.
PassSaves ==
  /\ saving /\ saving' = FALSE
  /\ file' = scheduled \cap Durable
  /\ UNCHANGED <<known, scheduled, due, fired, tool, dropped>>

\* schedule_job
Schedule(j) ==
  /\ tool = NoTool /\ ~saving /\ j \notin known
  /\ known' = known \cup {j}
  /\ scheduled' = scheduled \cup {j}
  /\ tool' = IF j \in Durable THEN [NoTool EXCEPT !.at = "save"] ELSE tool
  /\ UNCHANGED <<due, fired, file, saving, dropped>>

\* Fault: what is to be saved is read before the job is removed.
CancelFaulty(j) ==
  /\ tool = NoTool /\ ~saving /\ j \in scheduled
  /\ scheduled' = scheduled \ {j}
  /\ IF j \in Durable
     THEN tool' = [at |-> "write", cancels |-> {j}, saved |-> scheduled \cap Durable]
          /\ UNCHANGED dropped
     ELSE tool' = tool /\ dropped' = dropped \cup {j}
  /\ UNCHANGED <<known, due, fired, file, saving>>

\* cancel_job
Cancel(j) ==
  /\ tool = NoTool /\ ~saving /\ j \in scheduled
  /\ scheduled' = scheduled \ {j}
  /\ IF j \in Durable
     THEN tool' = [NoTool EXCEPT !.at = "save", !.cancels = {j}] /\ UNCHANGED dropped
     ELSE tool' = tool /\ dropped' = dropped \cup {j}
  /\ UNCHANGED <<known, due, fired, file, saving>>

\* save_durable_jobs without the lock: the jobs are read, and written later.
ToolReads ==
  /\ tool.at = "save"
  /\ tool' = [tool EXCEPT !.at = "write", !.saved = scheduled \cap Durable]
  /\ UNCHANGED <<known, scheduled, due, fired, file, saving, dropped>>

ToolWrites ==
  /\ tool.at = "write"
  /\ file' = tool.saved
  /\ dropped' = dropped \cup tool.cancels
  /\ tool' = NoTool
  /\ UNCHANGED <<known, scheduled, due, fired, saving>>

\* The file cannot be written, or the jobs change while they are read: the tool
\* raises, and the job is nevertheless scheduled or gone.
ToolRaises ==
  /\ tool.at = "save"
  /\ tool' = NoTool
  /\ UNCHANGED <<known, scheduled, due, fired, file, saving, dropped>>

\* consume_cron_queue
Consume == fired' = NothingFired

\* shutdown_cron and load_durable_jobs; anything may be due again.
Load ==
  /\ scheduled' = file
  /\ fired' = NothingFired
  /\ due' \in SUBSET Jobs
  /\ UNCHANGED <<known, file, saving, tool, dropped>>

\* The process dies.  A file that is being written may be cut off, and is read as
\* an empty one then.
LoseJobs ==
  /\ file' \in {file} \cup (IF saving \/ tool.at = "write" THEN {{}} ELSE {})
  /\ scheduled' = {} /\ due' = {} /\ fired' = NothingFired
  /\ saving' = FALSE /\ tool' = NoTool
  /\ UNCHANGED <<known, dropped>>

-----------------------------------------------------------------------------
\* A job whose cancellation was reported stays cancelled: through saves that overlap
\* those of the scheduler, failed and cut off saves, reloads and restarts
\* (cron.py:162-169).
CancelSticks == dropped \cap scheduled = {}
===============================================================================
