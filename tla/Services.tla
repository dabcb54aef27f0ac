-------------------------------- MODULE Services --------------------------------
(***************************************************************************)
(* What runs beside the turns of the Lead, and how a runtime is built,     *)
(* closed and built again (__main__.py, web.py): background commands, the  *)
(* cron scheduler, the Lead that collects from both, and the thread that   *)
(* starts a turn for what cron has queued.                                 *)
(***************************************************************************)
EXTENDS Background, Cron

VARIABLES
  open,      \* the runtime is built and not closed
  autorun    \* cron_autorun_loop is alive

lifeVars == <<open, autorun>>
vars == <<backgroundVars, cronVars, lifeVars>>

Init == BackgroundInit /\ CronInit /\ open = FALSE /\ autorun = FALSE

\* build_runtime; only the command line starts the loop for cron.
Build ==
  /\ ~open /\ open' = TRUE
  /\ InitializeTasks /\ Load
  /\ autorun' \in BOOLEAN

\* close, between the turns of the user.  The scheduler ends its pass.
Close ==
  /\ open /\ open' = FALSE
  /\ tool = NoTool /\ ~saving
  /\ ShutdownTasks
  /\ autorun' = FALSE
  /\ UNCHANGED cronVars

Crash ==
  /\ open' = FALSE /\ autorun' = FALSE
  /\ LoseTasks /\ LoseJobs

\* agent_loop, at the top of its loop.
LeadCollects ==
  /\ open
  /\ Collect /\ Consume
  /\ UNCHANGED <<runtime, accepting, worker, cancelled>>
  /\ UNCHANGED <<known, scheduled, due, file, saving, tool, dropped>>
  /\ UNCHANGED lifeVars

\* Fault: no job, nothing to do.
AutorunFaulty ==
  /\ open /\ autorun /\ fired # NothingFired /\ scheduled # {}
  /\ Consume
  /\ autorun' \in BOOLEAN
  /\ UNCHANGED <<known, scheduled, due, file, saving, tool, dropped, open>>
  /\ UNCHANGED backgroundVars

\* cron_autorun_loop, which ends if its turn raises.
Autorun ==
  /\ open /\ autorun /\ fired # NothingFired
  /\ Consume
  /\ autorun' \in BOOLEAN
  /\ UNCHANGED <<known, scheduled, due, file, saving, tool, dropped, open>>
  /\ UNCHANGED backgroundVars

Works ==
  \/ /\ open /\ StartTask
     /\ UNCHANGED <<cronVars, lifeVars>>
  \/ /\ \E t \in Threads : CommandEnds(t)
     /\ UNCHANGED <<cronVars, lifeVars>>
  \/ /\ open
     /\ \/ MinuteBegins \/ Pass \/ PassSaves \/ ToolReads \/ ToolWrites \/ ToolRaises
        \/ \E j \in Jobs : Schedule(j) \/ Cancel(j)
     /\ UNCHANGED <<backgroundVars, lifeVars>>

Next == Build \/ Close \/ Crash \/ LeadCollects \/ Autorun \/ Works

Spec == Init /\ [][Next]_vars

\* The loop for cron looks once a second.
FairSpec == Spec /\ WF_vars(Autorun)

-----------------------------------------------------------------------------
TypeOK ==
  /\ runtime \in 0..MaxRuntimes /\ accepting \in BOOLEAN
  /\ task \in [Ids -> TaskRec]
  /\ worker \in [Threads -> {"none", "running", "over"}] /\ cancelled \subseteq Threads
  /\ known \subseteq Jobs /\ scheduled \subseteq Jobs /\ due \subseteq Jobs /\ file \subseteq Jobs
  /\ fired \in [Jobs -> 0..MaxQueued]
  /\ saving \in BOOLEAN /\ tool \in ToolRec /\ dropped \subseteq Jobs
  /\ open \in BOOLEAN /\ autorun \in BOOLEAN

\* What cron has queued is taken from the queue in the end, if the loop for it is
\* there and no turn of it raises (__main__.py:594-607).
FiredIsTaken == \A j \in Jobs : fired[j] > 0 ~> fired[j] = 0 \/ ~autorun
===============================================================================
