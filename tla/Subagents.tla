------------------------------- MODULE Subagents -------------------------------
(***************************************************************************)
(* SubagentManager (subagents.py) and the worker threads of its jobs: the  *)
(* queue of jobs, permissions, writes under the mutation lock, timeouts    *)
(* with their grace for a write, cancellation, the barrier at the end of   *)
(* the parent's turn, and shutdown.  A region under the manager's lock is  *)
(* one step; pc says between which of them a worker is.                    *)
(***************************************************************************)
EXTENDS MutationLock, FiniteSets

CONSTANTS
  MaxJobs,         \* how many jobs are spawned
  MaxConcurrent,   \* max_concurrent, 4 in the code
  Others,          \* other writers of the workspace: members, the Lead
  Asked            \* the requests for the mutation lock that tools make

Jobs == 1..MaxJobs

ASSUME BoundsAssumption == MaxJobs \in Nat /\ MaxConcurrent \in Nat \ {0}
ASSUME AskedAssumption == Asked \subseteq Requests
ASSUME JobsAssumption == Writers = Jobs \cup Others /\ Jobs \cap Others = {}

VARIABLES
  job,         \* job[j]: the record of a job
  pc,          \* pc[j]: where the worker of the job is
  turn,        \* the parent's turn: "open", "collected", "settled", "abandoned"
  reviewed,    \* the job whose request the parent is reviewing, 0 if none
  accepting,   \* _accepting
  late         \* history: the jobs that ended between the two halves of a barrier

managerVars == <<job, pc, turn, reviewed, accepting, late>>
vars == <<lockVars, managerVars>>

Terminal == {"completed", "failed", "cancelled", "timed_out"}
States == Terminal \cup
  {"new", "queued", "running", "waiting_permission", "waiting_human", "waiting_resource",
   "writing", "finishing_write", "cancelling", "stuck", "gone"}

JobRec == [state : States, cancelled : BOOLEAN, reason : {"none", "timeout", "cancelled"},
           overdue : BOOLEAN, timer : {"off", "set", "grace"}, mutating : BOOLEAN,
           finish : BOOLEAN, delivered : BOOLEAN,
           request : {"none", "open", "reviewing", "approved", "denied"}]

NewJob == [state |-> "new", cancelled |-> FALSE, reason |-> "none", overdue |-> FALSE,
           timer |-> "off", mutating |-> FALSE, finish |-> FALSE, delivered |-> FALSE,
           request |-> "none"]

Places == {"none", "round", "gate", "human", "tool", "lock", "granted", "body",
           "released", "returned", "replied", "failed", "stopped", "ended", "dead"}

Alive(j) == pc[j] \notin {"none", "dead"}
Ended(j) == job[j].state \in Terminal \cup {"gone"}

-----------------------------------------------------------------------------
\* Helpers of the manager, each called with the lock held, on the table of jobs.

\* _live_count_locked
Live(jobs) == {j \in Jobs : jobs[j].state \notin Terminal \cup {"new", "queued", "gone"}}

\* The jobs of the queue whose turn comes while there is room, in their order.
Reached(jobs) ==
  LET Runnable(k) == jobs[k].state = "queued" /\ ~jobs[k].overdue IN
  {j \in Jobs : /\ jobs[j].state = "queued"
                /\ Cardinality(Live(jobs)) + Cardinality({k \in 1..(j - 1) : Runnable(k)})
                     < MaxConcurrent}

\* _finish_locked
Finished(rec, state) == [rec EXCEPT !.state = state, !.request = "none"]

\* _dispatch_locked: jobs start, or have timed out in the queue.
Dispatched(jobs) ==
  [j \in Jobs |->
     IF j \notin Reached(jobs) THEN jobs[j]
     ELSE IF jobs[j].overdue THEN Finished(jobs[j], "timed_out")
     ELSE [jobs[j] EXCEPT !.state = "running", !.timer = "set"]]

\* The threads that _dispatch_locked starts.
Started(jobs, places) ==
  [j \in Jobs |-> IF j \in Reached(jobs) /\ ~jobs[j].overdue THEN "round" ELSE places[j]]

\* _cleanup_locked, called by the parent or (me) in a worker.
Cleaned(jobs, me) ==
  [j \in Jobs |-> IF /\ jobs[j].state \in Terminal /\ jobs[j].delivered
                     /\ ~Alive(j) \/ j = me
                  THEN [NewJob EXCEPT !.state = "gone"] ELSE jobs[j]]

\* collect_updates: the results the parent has not seen.
Undelivered == {j \in Jobs : job[j].state \in Terminal /\ ~job[j].delivered}
Delivered(jobs, which) ==
  [j \in Jobs |-> IF j \in which THEN [jobs[j] EXCEPT !.delivered = TRUE] ELSE jobs[j]]

\* Jobs end while the parent is between the two halves of its barrier.
RecordsLate ==
  late' = IF turn = "collected"
          THEN late \cup {j \in Jobs : ~Ended(j) /\ job'[j].state \in Terminal} ELSE late

Init ==
  /\ LockInit
  /\ job = [j \in Jobs |-> NewJob]
  /\ pc = [j \in Jobs |-> "none"]
  /\ turn = "open" /\ reviewed = 0 /\ accepting = TRUE /\ late = {}

-----------------------------------------------------------------------------
\* The parent: one thread, so while it reviews a request it does nothing else.

ParentFree == turn = "open" /\ reviewed = 0

\* start
Spawn(j) ==
  /\ ParentFree /\ accepting
  /\ job[j].state = "new" /\ \A k \in 1..(j - 1) : job[k].state # "new"
  /\ LET jobs == [job EXCEPT ![j].state = "queued"] IN
     /\ job' = Dispatched(jobs)
     /\ pc' = Started(jobs, pc)
  /\ UNCHANGED <<lockVars, turn, reviewed, accepting, late>>

\* review_permission, first half; a call that policy wants asked also waits for a human.
ReviewBegins(j) ==
  /\ ParentFree
  /\ job[j].state = "waiting_permission" /\ job[j].request = "open"
  /\ \E state \in {"waiting_permission", "waiting_human"} :
       job' = [job EXCEPT ![j].request = "reviewing", ![j].state = state]
  /\ reviewed' = j
  /\ UNCHANGED <<lockVars, pc, turn, accepting, late>>

\* review_permission, second half; refused when the job stopped in between.
ReviewEnds ==
  /\ reviewed # 0
  /\ LET j == reviewed IN
     \/ /\ job[j].request = "reviewing" /\ ~job[j].cancelled
        /\ \E decision \in {"approved", "denied"} :
             job' = [job EXCEPT ![j].request = decision, ![j].state = "running"]
     \/ /\ job[j].request # "reviewing" \/ job[j].cancelled
        /\ UNCHANGED job
  /\ reviewed' = 0
  /\ UNCHANGED <<lockVars, pc, turn, accepting, late>>

\* Fault: every job is ended at once.
StoppedFaulty(jobs, j) ==
  [jobs EXCEPT ![j] = Finished([@ EXCEPT !.cancelled = TRUE, !.reason = "cancelled"],
                               "cancelled")]

\* cancel, on a job that has not ended: a queued one ends, the others are asked to.
Stopped(jobs, j) ==
  LET rec == [jobs[j] EXCEPT !.cancelled = TRUE, !.reason = "cancelled"] IN
  [jobs EXCEPT ![j] = IF rec.state = "queued" THEN Finished(rec, "cancelled")
                      ELSE [rec EXCEPT !.state = "cancelling"]]

Cancel(j) ==
  /\ ~Ended(j) /\ job[j].state # "new"
  /\ LET jobs == Stopped(job, j) IN
     IF job[j].state = "queued"
     THEN job' = Dispatched(jobs) /\ pc' = Started(jobs, pc)
     ELSE job' = jobs /\ UNCHANGED pc
  /\ UNCHANGED <<lockVars, turn, reviewed, accepting, late>>

CancelJob(j) == ParentFree /\ Cancel(j)

\* cancel_turn: the turn fails or is stopped, and its jobs are cancelled one by one.
AbandonTurn ==
  /\ ParentFree
  /\ turn' = "abandoned"
  /\ UNCHANGED <<lockVars, job, pc, reviewed, accepting, late>>

CancelTurn(j) == turn = "abandoned" /\ ~job[j].cancelled /\ Cancel(j)

\* collect_updates, and check and wait for all that have ended.
Collect ==
  /\ ParentFree
  /\ Undelivered # {}
  /\ job' = Cleaned(Delivered(job, Undelivered), 0)
  /\ UNCHANGED <<lockVars, pc, turn, reviewed, accepting, late>>

\* check, wait: some results are consumed.
Check(j) ==
  /\ ParentFree
  /\ j \in Undelivered
  /\ job' = Cleaned(Delivered(job, {j}), 0)
  /\ UNCHANGED <<lockVars, pc, turn, reviewed, accepting, late>>

\* barrier, first half: no update, so it goes on to look for active jobs.
BarrierCollects ==
  /\ ParentFree
  /\ Undelivered = {}
  /\ turn' = "collected" /\ late' = {}
  /\ job' = Cleaned(job, 0)
  /\ UNCHANGED <<lockVars, pc, reviewed, accepting>>

\* Fault: a job that waits for permission does not keep the turn open.
BarrierDecidesFaulty ==
  /\ turn = "collected"
  /\ turn' = IF \A j \in Jobs : Ended(j) \/ job[j].state \in {"new", "waiting_permission"}
             THEN "settled" ELSE "open"
  /\ UNCHANGED <<lockVars, job, pc, reviewed, accepting, late>>

\* barrier, second half, under a lock taken anew.
BarrierDecides ==
  /\ turn = "collected"
  /\ turn' = IF \A j \in Jobs : Ended(j) \/ job[j].state = "new" THEN "settled" ELSE "open"
  /\ UNCHANGED <<lockVars, job, pc, reviewed, accepting, late>>

\* shutdown, before the threads are joined.
ShutdownBegins ==
  /\ accepting
  /\ accepting' = FALSE
  /\ job' = [j \in Jobs |->
       LET rec == [job[j] EXCEPT !.cancelled = TRUE] IN
       IF job[j].state = "new" \/ Ended(j) THEN job[j]
       ELSE IF job[j].state = "queued" THEN Finished(rec, "cancelled")
       ELSE [rec EXCEPT !.state = "cancelling"]]
  /\ RecordsLate
  /\ UNCHANGED <<lockVars, pc, turn, reviewed>>

\* shutdown, after the join timed out.
ShutdownEnds ==
  /\ ~accepting
  /\ \E j \in Jobs : Alive(j) /\ ~Ended(j) /\ job[j].state # "stuck"
  /\ job' = [j \in Jobs |-> IF Alive(j) /\ ~Ended(j) THEN [job[j] EXCEPT !.state = "stuck"]
                            ELSE job[j]]
  /\ UNCHANGED <<lockVars, pc, turn, reviewed, accepting, late>>

-----------------------------------------------------------------------------
\* Time.

\* The deadline passes.
DeadlinePasses(j) ==
  /\ job[j].state # "new" /\ ~Ended(j) /\ ~job[j].overdue
  /\ job' = [job EXCEPT ![j].overdue = TRUE]
  /\ UNCHANGED <<lockVars, pc, turn, reviewed, accepting, late>>

\* _timeout: a write in progress gets a grace period, once.
TimerFires(j) ==
  /\ job[j].timer # "off" /\ job[j].overdue /\ ~Ended(j)
  /\ LET rec == job[j] IN
     \/ /\ rec.mutating /\ rec.state # "finishing_write"
        /\ job' = [job EXCEPT ![j] = [rec EXCEPT !.state = "finishing_write", !.finish = TRUE,
                                                 !.timer = "grace", !.overdue = FALSE]]
     \/ /\ ~(rec.mutating /\ rec.state # "finishing_write")
        /\ job' = [job EXCEPT ![j] = [rec EXCEPT !.state = "cancelling", !.reason = "timeout",
                                                 !.cancelled = TRUE, !.timer = "off"]]
  /\ UNCHANGED <<lockVars, pc, turn, reviewed, accepting, late>>

-----------------------------------------------------------------------------
\* The worker: _execute_subagent.

Goto(j, place) == pc' = [pc EXCEPT ![j] = place]
Running(j, place) == pc[j] = place
WorkerOnly == UNCHANGED <<lockVars, turn, reviewed, accepting, late>>
\* _raise_if_cancelled
MustStop(j) == job[j].cancelled \/ job[j].overdue

\* _raise_if_cancelled raises; a deadline that passed sets the event, but no reason.
Notices(j) ==
  /\ pc[j] \in {"round", "gate", "tool", "returned"}
  /\ MustStop(j)
  /\ Goto(j, "stopped")
  /\ job' = [job EXCEPT ![j].cancelled = TRUE]
  /\ WorkerOnly

\* A provider, a hook, an approval or a tool raises.
Fails(j) ==
  /\ pc[j] \in {"round", "human", "tool"}
  /\ Goto(j, "failed")
  /\ job' = [job EXCEPT ![j].state = IF @ = "waiting_human" THEN "running" ELSE @]
  /\ WorkerOnly

\* The model answers with a text.
Replies(j) ==
  /\ Running(j, "round") /\ ~MustStop(j)
  /\ Goto(j, "replied")
  /\ UNCHANGED job /\ WorkerOnly

\* _await_permission: a request is raised.
AsksPermission(j) ==
  /\ Running(j, "round") /\ ~MustStop(j)
  /\ Goto(j, "gate")
  /\ job' = [job EXCEPT ![j].request = "open", ![j].state = "waiting_permission"]
  /\ WorkerOnly

\* _await_permission returns; when policy has become stricter since the review,
\* the worker asks a human itself (_human_permission_state).
GetsAnswer(j) ==
  /\ Running(j, "gate") /\ ~job[j].cancelled
  /\ \/ /\ job[j].request = "denied" /\ Goto(j, "round")
        /\ job' = [job EXCEPT ![j].request = "none", ![j].state = "running"]
     \/ /\ job[j].request = "approved" /\ Goto(j, "tool")
        /\ job' = [job EXCEPT ![j].request = "none", ![j].state = "running"]
     \/ /\ job[j].request = "approved" /\ Goto(j, "human")
        /\ job' = [job EXCEPT ![j].request = "none", ![j].state = "waiting_human"]
  /\ WorkerOnly

\* The human answers, or the console for one who does not: denied.
HumanAnswers(j) ==
  /\ Running(j, "human")
  /\ \E place \in {"tool", "round"} : Goto(j, place)
  /\ job' = [job EXCEPT ![j].state = IF @ = "waiting_human" THEN "running" ELSE @]
  /\ WorkerOnly

\* acquire: the event waiting_resource, and the request.
AsksLock(j) ==
  /\ Running(j, "tool") /\ ~MustStop(j)
  /\ Goto(j, "lock")
  /\ job' = [job EXCEPT ![j].state = "waiting_resource"]
  /\ \E r \in Asked : Enqueue(j, r)
  /\ UNCHANGED <<turn, reviewed, accepting, late>>

GetsLock(j) ==
  /\ Running(j, "lock") /\ Acquire(j)
  /\ Goto(j, "granted")
  /\ UNCHANGED <<job, turn, reviewed, accepting, late>>

\* The request is given up; a deadline that passed sets the event.
GivesUpLock(j) ==
  /\ Running(j, "lock") /\ MustStop(j) /\ GiveUp(j)
  /\ Goto(j, "returned")
  /\ job' = [job EXCEPT ![j].cancelled = TRUE]
  /\ UNCHANGED <<turn, reviewed, accepting, late>>

\* _mutation_event "writing", whatever the state was.
StartsWriting(j) ==
  /\ Running(j, "granted")
  /\ Goto(j, "body")
  /\ job' = [job EXCEPT ![j].mutating = TRUE, ![j].state = "writing"]
  /\ WorkerOnly

\* The write or the command ends, with its effect or (cancelled, overdue, in
\* conflict) without, and gives the lock back.
Unlocks(j) ==
  /\ Running(j, "body") /\ Release(j)
  /\ Goto(j, "released")
  /\ UNCHANGED <<job, turn, reviewed, accepting, late>>

\* _mutation_event "released", after the lock was given back.
EndsWriting(j) ==
  /\ Running(j, "released")
  /\ Goto(j, "returned")
  /\ LET rec == job[j] IN
     job' = [job EXCEPT ![j] =
       [rec EXCEPT !.mutating = FALSE,
                   !.finish = @ \/ rec.state = "finishing_write",
                   !.state = IF @ \in {"cancelling", "stuck"} THEN @ ELSE "running"]]
  /\ WorkerOnly

\* Fault: the grace is not remembered.
GoesOnFaulty(j) ==
  /\ Running(j, "returned") /\ ~MustStop(j)
  /\ Goto(j, "round")
  /\ UNCHANGED job /\ WorkerOnly

\* The tool has returned: the next one, or the end when should_finish_after_write.
GoesOn(j) ==
  /\ Running(j, "returned") /\ ~MustStop(j)
  /\ Goto(j, IF job[j].finish THEN "replied" ELSE "round")
  /\ UNCHANGED job /\ WorkerOnly

\* _worker: how the job ends.
Outcome(j) ==
  IF pc[j] = "stopped" \/ job[j].cancelled
  THEN IF job[j].reason = "timeout" THEN "timed_out" ELSE "cancelled"
  ELSE IF pc[j] = "failed" THEN "failed" ELSE "completed"

Ends(j) ==
  /\ pc[j] \in {"replied", "failed", "stopped"}
  /\ Goto(j, "ended")
  /\ job' = [job EXCEPT ![j] = Finished(@, Outcome(j))]
  /\ RecordsLate
  /\ UNCHANGED <<lockVars, turn, reviewed, accepting>>

\* Fault: the queue is not looked at.
ExitsFaulty(j) ==
  /\ Running(j, "ended")
  /\ job' = Cleaned([job EXCEPT ![j].timer = "off"], j)
  /\ pc' = [pc EXCEPT ![j] = "dead"]
  /\ RecordsLate
  /\ UNCHANGED <<lockVars, turn, reviewed, accepting>>

\* _worker: the finally clause.
Exits(j) ==
  /\ Running(j, "ended")
  /\ LET jobs == Cleaned([job EXCEPT ![j].timer = "off"], j) IN
     /\ job' = Dispatched(jobs)
     /\ pc' = Started(jobs, [pc EXCEPT ![j] = "dead"])
  /\ RecordsLate
  /\ UNCHANGED <<lockVars, turn, reviewed, accepting>>

-----------------------------------------------------------------------------
\* Another writer of the workspace.
OtherWrites(w) ==
  /\ (\E r \in Asked : Enqueue(w, r)) \/ Acquire(w)
  /\ UNCHANGED managerVars
OtherReleases(w) == Release(w) /\ UNCHANGED managerVars

WorkerStep(j) ==
  \/ Notices(j) \/ Replies(j) \/ AsksPermission(j) \/ GetsAnswer(j) \/ HumanAnswers(j)
  \/ AsksLock(j) \/ GetsLock(j) \/ GivesUpLock(j) \/ StartsWriting(j)
  \/ Unlocks(j) \/ EndsWriting(j) \/ GoesOn(j) \/ Fails(j) \/ Ends(j) \/ Exits(j)

ParentStep ==
  \/ \E j \in Jobs : Spawn(j) \/ ReviewBegins(j) \/ CancelJob(j) \/ CancelTurn(j) \/ Check(j)
  \/ ReviewEnds \/ AbandonTurn \/ Collect \/ BarrierCollects \/ BarrierDecides

Next ==
  \/ ParentStep \/ ShutdownBegins \/ ShutdownEnds
  \/ \E j \in Jobs : WorkerStep(j) \/ DeadlinePasses(j) \/ TimerFires(j)
  \/ \E w \in Others : OtherWrites(w) \/ OtherReleases(w)

\* Threads go on, time passes and timers fire, calls of the provider and of tools
\* return, and other writers end their writes.  The human is asked through the Web
\* console, which answers in the end (the command line waits for as long as it takes).
Fairness ==
  /\ \A j \in Jobs : /\ WF_vars(WorkerStep(j))
                     /\ WF_vars(GetsLock(j)) /\ WF_vars(DeadlinePasses(j))
                     /\ WF_vars(TimerFires(j))
  /\ \A w \in Others : WF_vars(OtherReleases(w)) /\ WF_vars(Acquire(w) /\ UNCHANGED managerVars)

Spec == Init /\ [][Next]_vars
FairSpec == Spec /\ Fairness

-----------------------------------------------------------------------------
TypeOK ==
  /\ LockTypeOK
  /\ job \in [Jobs -> JobRec]
  /\ pc \in [Jobs -> Places]
  /\ turn \in {"open", "collected", "settled", "abandoned"}
  /\ reviewed \in 0..MaxJobs
  /\ accepting \in BOOLEAN
  /\ late \subseteq Jobs

\* A job that is announced as ended does nothing any more: its worker is past
\* its last tool and holds no lock, although the state is set by five different
\* threads (worker, timer, lock, parent, shutdown).  The parent ends its turn on this.
\* And whatever the states shown in between (an event of the lock overwrites
\* "cancelling"), a job that was told to stop never counts as completed.
OutcomeIsTrue ==
  \A j \in Jobs :
    /\ Ended(j) => pc[j] \in {"none", "ended", "dead"} /\ grant[j] = "idle"
    /\ job[j].state = "completed" => ~job[j].cancelled

\* A job whose write got the grace period does that write and nothing more: no
\* further round, permission or write, whoever overwrites its state meanwhile.
GraceIsFinal ==
  \A j \in Jobs : job[j].timer = "grace" =>
    pc[j] \notin {"round", "gate", "human", "tool", "lock", "granted"}

\* A turn that ends by its barrier leaves no job behind, and no result that was
\* there when the barrier collected.
BarrierHolds ==
  turn = "settled" =>
    \A j \in Jobs : job[j].state \in {"new", "gone"}
                    \/ (job[j].state \in Terminal /\ (job[j].delivered \/ j \in late))

\* Every job ends: in the queue, waiting for a permission nobody gives or for a
\* lock, writing, or after a shutdown gave up on it.
EveryJobEnds == \A j \in Jobs : job[j].state # "new" ~> Ended(j)
===============================================================================
