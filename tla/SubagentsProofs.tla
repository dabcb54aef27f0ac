---------------------------- MODULE SubagentsProofs ----------------------------
(***************************************************************************)
(* Sub-agents, for every number of jobs, places and other writers: types;  *)
(* an ended job does nothing any more and was not told to stop if it is    *)
(* completed; a grace period is good for one write; the barrier leaves     *)
(* nothing behind; and jobs use the lock as MutationLock describes it.     *)
(***************************************************************************)
EXTENDS Subagents, TLAPS

-----------------------------------------------------------------------------
(* Types                                                                   *)

\* Taking one place out of a queue leaves a queue.
LEMMA LeftIsQueue ==
  ASSUME queue \in Seq(Writers), NEW n \in 1..Len(queue)
  PROVE  Left(n) \in Seq(Writers)
<1>1. Len(queue) \in Nat /\ Len(queue) >= 1
  OBVIOUS
<1>2. \A i \in 1..Len(queue) : queue[i] \in Writers
  OBVIOUS
<1>3. Left(n) \in [1..(Len(queue) - 1) -> Writers]
  BY <1>1, <1>2 DEF Left
<1> QED
  BY <1>1, <1>3

LEMMA LockTypes == LockTypeOK /\ [LockNext]_lockVars => LockTypeOK'
<1> SUFFICES ASSUME LockTypeOK, [LockNext]_lockVars PROVE LockTypeOK'
  OBVIOUS
<1>1. ASSUME NEW w \in Writers, NEW r \in Requests, Enqueue(w, r) PROVE LockTypeOK'
  BY <1>1 DEF LockTypeOK, Enqueue, Grants
<1>2. ASSUME NEW w \in Writers, Acquire(w) PROVE LockTypeOK'
  BY <1>2, LeftIsQueue DEF LockTypeOK, Acquire, Grants
<1>3. ASSUME NEW w \in Writers, GiveUp(w) PROVE LockTypeOK'
  BY <1>3, LeftIsQueue DEF LockTypeOK, GiveUp, Grants
<1>4. ASSUME NEW w \in Writers, Abandon(w) PROVE LockTypeOK'
  BY <1>4 DEF LockTypeOK, Abandon, Grants
<1>5. ASSUME NEW w \in Writers, Release(w) PROVE LockTypeOK'
  BY <1>5 DEF LockTypeOK, Release, Grants
<1>6. CASE UNCHANGED lockVars
  BY <1>6 DEF LockTypeOK, lockVars
<1> QED
  BY <1>1, <1>2, <1>3, <1>4, <1>5, <1>6 DEF LockNext

\* Every step of the system is a step of the lock, or leaves it alone.
LEMMA LockUsed == [Next]_vars => [LockNext]_lockVars
<1> SUFFICES ASSUME [Next]_vars PROVE [LockNext]_lockVars
  OBVIOUS
<1> USE JobsAssumption, AskedAssumption
<1>1. CASE ParentStep \/ ShutdownBegins \/ ShutdownEnds
  BY <1>1 DEF ParentStep, ShutdownBegins, ShutdownEnds, Spawn, ReviewBegins, CancelJob, CancelTurn,
              Cancel, Check, ReviewEnds, AbandonTurn, Collect, BarrierCollects, BarrierDecides
<1>2. ASSUME NEW j \in Jobs, WorkerStep(j) PROVE [LockNext]_lockVars
  <2>1. \/ UNCHANGED lockVars \/ \E r \in Requests : Enqueue(j, r)
        \/ Acquire(j) \/ GiveUp(j) \/ Release(j)
    BY <1>2 DEF WorkerStep, Notices, Replies, AsksPermission, GetsAnswer, HumanAnswers, AsksLock,
                GetsLock, GivesUpLock, StartsWriting, Unlocks, EndsWriting, GoesOn, Fails, Ends,
                Exits, WorkerOnly
  <2> QED
    BY <2>1 DEF LockNext
<1>3. ASSUME NEW j \in Jobs, DeadlinePasses(j) \/ TimerFires(j) PROVE [LockNext]_lockVars
  BY <1>3 DEF DeadlinePasses, TimerFires
<1>4. ASSUME NEW w \in Others, OtherWrites(w) \/ OtherReleases(w) PROVE [LockNext]_lockVars
  BY <1>4 DEF OtherWrites, OtherReleases, LockNext
<1>5. CASE UNCHANGED vars
  BY <1>5 DEF vars
<1> QED
  BY <1>1, <1>2, <1>3, <1>4, <1>5 DEF Next

\* Sub-agents and the other writers use the lock as it is described by itself, so
\* that what is proved of it alone (exclusive writing) holds of them.
THEOREM JobsUseLock == Spec => LockSpec
<1>1. Init => LockInit
  BY DEF Init
<1> QED
  BY <1>1, LockUsed, PTL DEF Spec, LockSpec

\* The table of jobs and the places of their workers.
TableOK == job \in [Jobs -> JobRec] /\ pc \in [Jobs -> Places]

LEMMA NewJobType == NewJob \in JobRec /\ [NewJob EXCEPT !.state = "gone"] \in JobRec
BY DEF NewJob, JobRec, States, Terminal

LEMMA FinishedType ==
  ASSUME NEW rec \in JobRec, NEW state \in Terminal
  PROVE  Finished(rec, state) \in JobRec
BY Zenon DEF Finished, JobRec, States

LEMMA DispatchedType ==
  ASSUME NEW jobs \in [Jobs -> JobRec], NEW places \in [Jobs -> Places]
  PROVE  Dispatched(jobs) \in [Jobs -> JobRec] /\ Started(jobs, places) \in [Jobs -> Places]
<1>1. ASSUME NEW j \in Jobs
      PROVE  /\ Finished(jobs[j], "timed_out") \in JobRec
             /\ [jobs[j] EXCEPT !.state = "running", !.timer = "set"] \in JobRec
  <2>1. jobs[j] \in JobRec
    OBVIOUS
  <2>2. Finished(jobs[j], "timed_out") \in JobRec
    BY <2>1, FinishedType DEF Terminal
  <2>3. [jobs[j] EXCEPT !.state = "running", !.timer = "set"] \in JobRec
    BY <2>1, Zenon DEF JobRec, States
  <2> QED
    BY <2>2, <2>3
<1>2. Dispatched(jobs) \in [Jobs -> JobRec]
  BY <1>1, Zenon DEF Dispatched
<1>3. Started(jobs, places) \in [Jobs -> Places]
  BY Zenon DEF Started, Places
<1> QED
  BY <1>2, <1>3

LEMMA CleanedType ==
  ASSUME NEW jobs \in [Jobs -> JobRec], NEW me
  PROVE  Cleaned(jobs, me) \in [Jobs -> JobRec]
BY NewJobType, Zenon DEF Cleaned

-----------------------------------------------------------------------------
(* One job                                                                 *)

Waits(rec) == rec.state \in {"new", "queued"}
Over(rec) == rec.state \in Terminal \cup {"gone"}

\* A job's record rec, the place p of its worker and its grant g fit together: the
\* record says that it waits or is over exactly when no worker is at work for it,
\* and the worker is at the lock, or has it, exactly in the places for that.
JobTrue(rec, p, g) ==
  /\ Waits(rec) => p = "none"
  /\ Over(rec) => p \in {"none", "ended", "dead"}
  /\ p \in {"none", "ended", "dead"} => Over(rec) \/ (Waits(rec) /\ p = "none")
  /\ p = "lock" <=> g = "waiting"
  /\ p \in {"granted", "body"} <=> g = "owning"
  /\ g # "abandoned"
  /\ rec.state = "completed" => ~rec.cancelled
  /\ rec.request # "none" => p \in {"gate", "stopped"}
  /\ rec.mutating => p \in {"body", "released"}
  /\ p = "none" => rec.timer = "off"
  /\ rec.timer = "grace" =>
       rec.finish /\ p \notin {"round", "gate", "human", "tool", "lock", "granted"}

JobsTrue == \A j \in Jobs : JobTrue(job[j], pc[j], grant[j])

\* While the parent is in its barrier, what has ended and is not delivered ended in
\* between, and after it nobody is at work.
BarrierTrue ==
  /\ turn \in {"collected", "settled"} =>
       /\ reviewed = 0
       /\ \A j \in Jobs : job[j].state \in Terminal => job[j].delivered \/ j \in late
  /\ turn = "settled" => \A j \in Jobs : job[j].state = "new" \/ Over(job[j])

JobInv == TypeOK /\ JobsTrue /\ BarrierTrue

LEMMA IsTable == TypeOK <=>
  /\ LockTypeOK /\ TableOK
  /\ turn \in {"open", "collected", "settled", "abandoned"}
  /\ reviewed \in 0..MaxJobs /\ accepting \in BOOLEAN /\ late \subseteq Jobs
BY DEF TypeOK, TableOK

\* One job goes on to record r and place p.
LEMMA OneJob ==
  ASSUME TableOK, JobsTrue, NEW j \in Jobs, NEW r \in JobRec, NEW p \in Places,
         JobTrue(r, p, grant'[j]),
         job' = [job EXCEPT ![j] = r], pc' = [pc EXCEPT ![j] = p],
         \A k \in Jobs \ {j} : grant'[k] = grant[k]
  PROVE  TableOK' /\ JobsTrue'
<1>1. TableOK'
  BY DEF TableOK
<1>2. ASSUME NEW k \in Jobs PROVE JobTrue(job'[k], pc'[k], grant'[k])
  <2>1. CASE k = j
    BY <2>1 DEF TableOK
  <2>2. CASE k # j
    BY <2>2 DEF TableOK, JobsTrue
  <2> QED
    BY <2>1, <2>2
<1> QED
  BY <1>1, <1>2 DEF JobsTrue

\* A job that has begun and is not over does not end, and the barrier goes on.
LEMMA OneJobBarrier ==
  ASSUME TableOK, BarrierTrue, NEW j \in Jobs, NEW r, r.state \notin Terminal,
         ~Over(job[j]), job[j].state # "new",
         job' = [job EXCEPT ![j] = r], UNCHANGED <<turn, reviewed, late>>
  PROVE  BarrierTrue'
<1>1. job'[j] = r /\ \A k \in Jobs \ {j} : job'[k] = job[k]
  BY DEF TableOK
<1>2. turn # "settled"
  BY DEF BarrierTrue
<1> QED
  BY <1>1, <1>2 DEF BarrierTrue

\* Jobs start, or have timed out in the queue.
LEMMA DispatchedTrue ==
  ASSUME NEW jobs \in [Jobs -> JobRec], NEW places \in [Jobs -> Places], NEW j \in Jobs, NEW g,
         JobTrue(jobs[j], places[j], g)
  PROVE  JobTrue(Dispatched(jobs)[j], Started(jobs, places)[j], g)
<1> DEFINE r == jobs[j]
           late0 == Finished(r, "timed_out")
           started == [r EXCEPT !.state = "running", !.timer = "set"]
<1>1. r \in JobRec
  OBVIOUS
<1>2. CASE j \notin Reached(jobs)
  BY <1>2 DEF Dispatched, Started
<1>3. CASE j \in Reached(jobs)
  <2>1. r.state = "queued" /\ places[j] = "none"
    BY <1>3 DEF Reached, JobTrue, Waits
  <2>2. CASE r.overdue
    <3>1. /\ Dispatched(jobs)[j] = late0 /\ Started(jobs, places)[j] = "none"
      BY <1>3, <2>1, <2>2 DEF Dispatched, Started
    <3>2. /\ late0.state = "timed_out" /\ late0.request = "none" /\ late0.mutating = r.mutating
          /\ late0.timer = r.timer /\ late0.finish = r.finish
      BY <1>1 DEF Finished, JobRec
    <3> HIDE DEF late0
    <3>3. JobTrue(late0, "none", g)
      BY <2>1, <3>2 DEF JobTrue, Waits, Over, Terminal
    <3> QED
      BY <3>1, <3>3
  <2>3. CASE ~r.overdue
    <3>1. Dispatched(jobs)[j] = started /\ Started(jobs, places)[j] = "round"
      BY <1>3, <2>3 DEF Dispatched, Started
    <3>2. /\ started.state = "running" /\ started.request = r.request
          /\ started.mutating = r.mutating /\ started.timer = "set"
      BY <1>1 DEF JobRec
    <3> HIDE DEF started
    <3>3. JobTrue(started, "round", g)
      BY <2>1, <3>2 DEF JobTrue, Waits, Over, Terminal
    <3> QED
      BY <3>1, <3>3
  <2> QED
    BY <2>2, <2>3
<1> QED
  BY <1>2, <1>3

\* A job that is cleaned up was over, and its worker is gone.
LEMMA CleanedTrue ==
  ASSUME NEW jobs \in [Jobs -> JobRec], NEW me, NEW j \in Jobs, NEW p, NEW g,
         JobTrue(jobs[j], p, g), p \in {"none", "ended", "dead"} \/ j # me \/ jobs[j].state \notin Terminal
  PROVE  JobTrue(Cleaned(jobs, me)[j], p, g)
<1>1. CASE Cleaned(jobs, me)[j] = jobs[j]
  BY <1>1
<1>2. CASE /\ Cleaned(jobs, me)[j] = [NewJob EXCEPT !.state = "gone"]
           /\ jobs[j].state \in Terminal
  BY <1>2 DEF JobTrue, NewJob, Waits, Over, Terminal
<1> QED
  BY <1>1, <1>2 DEF Cleaned

LEMMA InitJobs == Init => JobInv
<1> SUFFICES ASSUME Init PROVE JobInv
  OBVIOUS
<1>1. TypeOK
  <2>1. LockTypeOK
    BY NoneAssumption DEF Init, LockInit, LockTypeOK, NoRequest, Grants
  <2> QED
    BY <2>1, NewJobType, BoundsAssumption DEF Init, TypeOK, Places
<1>2. JobsTrue
  BY JobsAssumption DEF Init, LockInit, JobsTrue, JobTrue, NewJob, Waits, Over, Terminal
<1>3. BarrierTrue
  BY DEF Init, BarrierTrue
<1> QED
  BY <1>1, <1>2, <1>3 DEF JobInv

\* The steps of the parent, in which the table is dispatched or cleaned.
LEMMA ParentTrue ==
  ASSUME JobInv, ParentStep
  PROVE  TableOK' /\ JobsTrue' /\ BarrierTrue'
<1>t. TableOK /\ JobsTrue /\ BarrierTrue
  BY IsTable DEF JobInv
<1>p. ASSUME NEW j \in Jobs PROVE job[j] \in JobRec /\ pc[j] \in Places /\ JobTrue(job[j], pc[j], grant[j])
  BY <1>t DEF TableOK, JobsTrue
\* Nothing is said of the turns of this kind.
<1>b. turn' \notin {"collected", "settled"} => BarrierTrue'
  BY DEF BarrierTrue
<1>d. ASSUME NEW jobs \in [Jobs -> JobRec], grant' = grant,
             \A j \in Jobs : JobTrue(jobs[j], pc[j], grant[j]),
             job' = Dispatched(jobs), pc' = Started(jobs, pc)
      PROVE  TableOK' /\ JobsTrue'
  BY <1>t, <1>d, DispatchedType, DispatchedTrue DEF TableOK, JobsTrue
<1>c. ASSUME NEW jobs \in [Jobs -> JobRec], UNCHANGED <<grant, pc>>,
             \A j \in Jobs : JobTrue(jobs[j], pc[j], grant[j]), job' = Cleaned(jobs, 0)
      PROVE  TableOK' /\ JobsTrue'
  <2>0. \A j \in Jobs : j # 0
    BY BoundsAssumption DEF Jobs
  <2>1. \A j \in Jobs : JobTrue(job'[j], pc[j], grant[j])
    BY <1>c, <2>0, CleanedTrue
  <2> QED
    BY <1>c, <1>t, <2>1, CleanedType DEF TableOK, JobsTrue
<1>1. ASSUME NEW j \in Jobs, Spawn(j) PROVE TableOK' /\ JobsTrue' /\ BarrierTrue'
  <2> DEFINE r == [job[j] EXCEPT !.state = "queued"]
             jobs == [job EXCEPT ![j] = r]
  <2>1. /\ job[j].state = "new" /\ turn = "open" /\ turn' = turn /\ grant' = grant
        /\ job' = Dispatched(jobs) /\ pc' = Started(jobs, pc)
    BY <1>1 DEF Spawn, ParentFree, lockVars
  <2>2. r \in JobRec /\ jobs \in [Jobs -> JobRec]
    <3>1. job[j] \in JobRec
      BY <1>p
    <3>2. r \in JobRec
      BY <3>1, Zenon DEF JobRec, States
    <3> QED
      BY <1>t, <3>2 DEF TableOK
  <2>3. r.state = "queued" /\ r.request = job[j].request /\ r.mutating = job[j].mutating
        /\ r.timer = job[j].timer /\ r.finish = job[j].finish
    BY <1>p DEF JobRec
  <2>4. JobTrue(r, pc[j], grant[j])
    <3> HIDE DEF r
    <3> QED
      BY <1>p, <2>1, <2>3 DEF JobTrue, Waits, Over, Terminal
  <2>5. \A k \in Jobs : JobTrue(jobs[k], pc[k], grant[k])
    BY <1>p, <1>t, <2>4 DEF TableOK
  <2> HIDE DEF jobs, r
  <2> QED
    BY <1>b, <1>d, <2>1, <2>2, <2>5
<1>2. ASSUME NEW j \in Jobs, ReviewBegins(j) PROVE TableOK' /\ JobsTrue' /\ BarrierTrue'
  <2>1. PICK state \in {"waiting_permission", "waiting_human"} :
          job' = [job EXCEPT ![j] = [job[j] EXCEPT !.request = "reviewing", !.state = state]]
    BY <1>2, <1>t DEF ReviewBegins, TableOK
  <2> DEFINE r == [job[j] EXCEPT !.request = "reviewing", !.state = state]
  <2>2. /\ job[j].state = "waiting_permission" /\ job[j].request = "open"
        /\ turn = "open" /\ turn' = turn /\ pc' = [pc EXCEPT ![j] = pc[j]] /\ grant' = grant
    BY <1>2, <1>t DEF ReviewBegins, ParentFree, lockVars, TableOK
  <2>3. r \in JobRec
    <3>1. job[j] \in JobRec
      BY <1>p
    <3> QED
      BY <3>1, Zenon DEF JobRec, States
  <2>4. JobTrue(r, pc[j], grant[j])
    <3>1. r.state = state /\ r.timer = job[j].timer /\ r.mutating = job[j].mutating
          /\ r.finish = job[j].finish
      BY <1>p DEF JobRec
    <3> HIDE DEF r
    <3> QED
      BY <1>p, <2>2, <3>1 DEF JobTrue, Waits, Over, Terminal
  <2> HIDE DEF r
  <2>5. TableOK' /\ JobsTrue'
    BY <1>p, <1>t, <2>1, <2>2, <2>3, <2>4, OneJob DEF r
  <2> QED
    BY <1>b, <2>2, <2>5
<1>3. CASE ReviewEnds
  <2>1. UNCHANGED <<grant, pc, turn>> /\ turn \notin {"collected", "settled"}
    BY <1>3, <1>t DEF ReviewEnds, BarrierTrue, lockVars
  <2>2. CASE UNCHANGED job
    BY <1>b, <1>t, <2>1, <2>2 DEF TableOK, JobsTrue
  <2>3. ASSUME NEW j \in Jobs, job[j].request = "reviewing", ~job[j].cancelled,
               NEW decision \in {"approved", "denied"},
               job' = [job EXCEPT ![j].request = decision, ![j].state = "running"]
        PROVE  TableOK' /\ JobsTrue'
    <3> DEFINE r == [job[j] EXCEPT !.request = decision, !.state = "running"]
    <3>1. job[j] \in JobRec
      BY <1>p
    <3>2. r \in JobRec
      BY <3>1, Zenon DEF JobRec, States
    <3>3. r.state = "running" /\ r.timer = job[j].timer /\ r.mutating = job[j].mutating
          /\ r.finish = job[j].finish
      BY <3>1 DEF JobRec
    <3>4. job' = [job EXCEPT ![j] = r] /\ pc' = [pc EXCEPT ![j] = pc[j]]
      BY <1>t, <2>1, <2>3 DEF TableOK
    <3> HIDE DEF r
    <3>5. JobTrue(r, pc[j], grant'[j])
      BY <1>p, <2>1, <2>3, <3>3 DEF JobTrue, Waits, Over, Terminal
    <3> QED
      BY <1>p, <1>t, <2>1, <3>2, <3>4, <3>5, OneJob
  <2>4. reviewed \in Jobs
    BY <1>3, BoundsAssumption DEF ReviewEnds, JobInv, TypeOK, Jobs
  <2> QED
    BY <1>3, <1>b, <2>1, <2>2, <2>3, <2>4 DEF ReviewEnds
<1>4. ASSUME NEW j \in Jobs, Cancel(j), turn' = turn, turn \notin {"collected", "settled"}
      PROVE  TableOK' /\ JobsTrue' /\ BarrierTrue'
  <2> DEFINE r == [job[j] EXCEPT !.cancelled = TRUE, !.reason = "cancelled"]
             ended == Finished(r, "cancelled")
             told == [r EXCEPT !.state = "cancelling"]
  <2>1. job[j] \in JobRec
    BY <1>p
  <2>2. r \in JobRec
    BY <2>1, Zenon DEF JobRec
  <2>3. ended \in JobRec /\ told \in JobRec
    <3>1. told \in JobRec
      BY <2>2, Zenon DEF JobRec, States
    <3> HIDE DEF r
    <3> QED
      BY <2>2, <3>1, FinishedType DEF Terminal
  <2>4. /\ r.state = job[j].state /\ r.timer = job[j].timer /\ r.mutating = job[j].mutating
        /\ r.finish = job[j].finish /\ r.request = job[j].request
    BY <2>1 DEF JobRec
  <2>5. Stopped(job, j) = [job EXCEPT ![j] = IF job[j].state = "queued" THEN ended ELSE told]
    BY <2>4 DEF Stopped
  <2> HIDE DEF r
  <2>6. /\ ended.state = "cancelled" /\ ended.request = "none" /\ ended.timer = r.timer
        /\ ended.mutating = r.mutating /\ ended.finish = r.finish
        /\ told.state = "cancelling" /\ told.request = r.request /\ told.timer = r.timer
        /\ told.mutating = r.mutating /\ told.finish = r.finish
    BY <2>2 DEF Finished, JobRec
  <2> HIDE DEF ended, told
  <2>7. ~Ended(j) /\ job[j].state # "new" /\ grant' = grant
    BY <1>4 DEF Cancel, lockVars
  <2>8. CASE job[j].state = "queued"
    <3> DEFINE jobs == [job EXCEPT ![j] = ended]
    <3>1. job' = Dispatched(jobs) /\ pc' = Started(jobs, pc)
      BY <1>4, <2>5, <2>8 DEF Cancel
    <3>2. JobTrue(ended, pc[j], grant[j])
      BY <1>p, <2>4, <2>6, <2>8 DEF JobTrue, Waits, Over, Terminal
    <3>3. jobs \in [Jobs -> JobRec] /\ \A k \in Jobs : JobTrue(jobs[k], pc[k], grant[k])
      BY <1>p, <1>t, <2>3, <3>2 DEF TableOK
    <3> HIDE DEF jobs
    <3> QED
      BY <1>4, <1>b, <1>d, <2>7, <3>1, <3>3
  <2>9. CASE job[j].state # "queued"
    <3>1. job' = [job EXCEPT ![j] = told] /\ pc' = [pc EXCEPT ![j] = pc[j]]
      BY <1>4, <1>t, <2>5, <2>9 DEF Cancel, TableOK
    <3>2. JobTrue(told, pc[j], grant'[j])
      BY <1>p, <2>4, <2>6, <2>7, <2>9 DEF JobTrue, Waits, Over, Ended, Terminal
    <3>3. TableOK' /\ JobsTrue'
      BY <1>p, <1>t, <2>3, <2>7, <3>1, <3>2, OneJob
    <3> QED
      BY <1>4, <1>b, <3>3
  <2> QED
    BY <2>8, <2>9
<1>5. ASSUME NEW j \in Jobs, CancelJob(j) PROVE TableOK' /\ JobsTrue' /\ BarrierTrue'
  BY <1>4, <1>5 DEF CancelJob, ParentFree, Cancel
<1>6. ASSUME NEW j \in Jobs, CancelTurn(j) PROVE TableOK' /\ JobsTrue' /\ BarrierTrue'
  BY <1>4, <1>6 DEF CancelTurn, Cancel
<1>7. CASE AbandonTurn
  BY <1>7, <1>b, <1>t DEF AbandonTurn, lockVars, TableOK, JobsTrue
\* The results of the jobs in S are delivered.
<1>s. ASSUME NEW S \in SUBSET Jobs
      PROVE  /\ Delivered(job, S) \in [Jobs -> JobRec]
             /\ \A j \in Jobs : JobTrue(Delivered(job, S)[j], pc[j], grant[j])
  <2>1. ASSUME NEW j \in Jobs PROVE [job[j] EXCEPT !.delivered = TRUE] \in JobRec
    <3>1. job[j] \in JobRec
      BY <1>p
    <3> QED
      BY <3>1, Zenon DEF JobRec
  <2>2. ASSUME NEW j \in Jobs PROVE JobTrue([job[j] EXCEPT !.delivered = TRUE], pc[j], grant[j])
    <3> DEFINE r == [job[j] EXCEPT !.delivered = TRUE]
    <3>1. /\ r.state = job[j].state /\ r.timer = job[j].timer /\ r.mutating = job[j].mutating
          /\ r.finish = job[j].finish /\ r.request = job[j].request
          /\ r.cancelled = job[j].cancelled
      BY <1>p DEF JobRec
    <3> HIDE DEF r
    <3> QED
      BY <1>p, <3>1 DEF JobTrue, Waits, Over
  <2> QED
    BY <1>p, <2>1, <2>2 DEF Delivered
<1>8. CASE Collect
  <2>1. Undelivered \in SUBSET Jobs
    BY DEF Undelivered
  <2> QED
    BY <1>8, <1>b, <1>c, <1>s, <2>1 DEF Collect, ParentFree, lockVars
<1>9. ASSUME NEW j \in Jobs, Check(j) PROVE TableOK' /\ JobsTrue' /\ BarrierTrue'
  BY <1>9, <1>b, <1>c, <1>s DEF Check, ParentFree, lockVars
<1>10. CASE BarrierCollects
  <2>1. TableOK' /\ JobsTrue'
    BY <1>10, <1>c, <1>p, <1>t DEF BarrierCollects, lockVars, TableOK
  <2>2. ASSUME NEW j \in Jobs, job'[j].state \in Terminal PROVE job'[j].delivered
    <3>1. job'[j] = job[j]
      BY <1>10, <2>2 DEF BarrierCollects, Cleaned, NewJob, Terminal
    <3> QED
      BY <1>10, <2>2, <3>1 DEF BarrierCollects, Undelivered
  <2> QED
    BY <1>10, <2>1, <2>2 DEF BarrierCollects, ParentFree, BarrierTrue
<1>11. CASE BarrierDecides
  <2>1. TableOK' /\ JobsTrue'
    BY <1>11, <1>t DEF BarrierDecides, lockVars, TableOK, JobsTrue
  <2> QED
    BY <1>11, <1>t, <2>1 DEF BarrierDecides, BarrierTrue, Ended, Over
<1> QED
  BY <1>1, <1>2, <1>3, <1>5, <1>6, <1>7, <1>8, <1>9, <1>10, <1>11 DEF ParentStep

\* A worker at work: its job has begun and is not over, and the turn is not settled.
LEMMA AtWork ==
  ASSUME JobInv, NEW j \in Jobs, pc[j] \notin {"none", "ended", "dead"}
  PROVE  /\ ~Over(job[j]) /\ ~Waits(job[j]) /\ turn # "settled"
         /\ job[j] \in JobRec /\ pc[j] \in Places /\ JobTrue(job[j], pc[j], grant[j])
BY DEF JobInv, TypeOK, JobsTrue, BarrierTrue, JobTrue, Waits

\* A worker at work goes on, and its job is not over yet.
LEMMA GoesFurther ==
  ASSUME JobInv, NEW j \in Jobs, pc[j] \notin {"none", "ended", "dead"},
         NEW r \in JobRec, NEW p \in Places, JobTrue(r, p, grant'[j]), r.state \notin Terminal,
         job' = [job EXCEPT ![j] = r], pc' = [pc EXCEPT ![j] = p],
         \A k \in Jobs \ {j} : grant'[k] = grant[k], UNCHANGED <<turn, reviewed, late>>
  PROVE  TableOK' /\ JobsTrue' /\ BarrierTrue'
<1>1. TableOK /\ JobsTrue /\ BarrierTrue
  BY IsTable DEF JobInv
<1>2. ~Over(job[j]) /\ job[j].state # "new"
  BY AtWork DEF Waits
<1>3. TableOK' /\ JobsTrue'
  BY <1>1, OneJob
<1>4. BarrierTrue'
  BY <1>1, <1>2, OneJobBarrier
<1> QED
  BY <1>3, <1>4

\* The steps of a worker in which it does not end.
LEMMA WorkerTrue ==
  ASSUME JobInv, NEW j \in Jobs, WorkerStep(j), ~Ends(j), ~Exits(j)
  PROVE  TableOK' /\ JobsTrue' /\ BarrierTrue'
<1> DEFINE Aim == TableOK' /\ JobsTrue' /\ BarrierTrue'
<1>t. /\ job \in [Jobs -> JobRec] /\ pc \in [Jobs -> Places] /\ grant \in [Writers -> Grants]
      /\ j \in Writers /\ Jobs \subseteq Writers
  BY JobsAssumption DEF JobInv, TypeOK, LockTypeOK
<1>p. job[j] \in JobRec /\ pc[j] \in Places
  BY <1>t
<1>w. pc[j] \notin {"none", "ended", "dead"} =>
        ~Over(job[j]) /\ ~Waits(job[j]) /\ JobTrue(job[j], pc[j], grant[j])
  BY AtWork
\* Only the place changes, or the record and the place do.
<1>a. ASSUME NEW r \in JobRec, NEW p \in Places, pc[j] \notin {"none", "ended", "dead"},
             JobTrue(r, p, grant'[j]), r.state \notin Terminal, job' = [job EXCEPT ![j] = r],
             Goto(j, p), \A k \in Jobs \ {j} : grant'[k] = grant[k],
             UNCHANGED <<turn, reviewed, late>>
      PROVE  Aim
  BY <1>a, GoesFurther DEF Goto
<1>b. ASSUME NEW p \in Places, pc[j] \notin {"none", "ended", "dead"},
             JobTrue(job[j], p, grant'[j]), UNCHANGED job,
             Goto(j, p), \A k \in Jobs \ {j} : grant'[k] = grant[k],
             UNCHANGED <<turn, reviewed, late>>
      PROVE  Aim
  <2>1. job' = [job EXCEPT ![j] = job[j]]
    BY <1>b, <1>t
  <2>2. job[j].state \notin Terminal
    BY <1>b, <1>w DEF Over
  <2> QED
    BY <1>a, <1>b, <1>p, <2>1, <2>2
<1>1. CASE Notices(j)
  <2> DEFINE r == [job[j] EXCEPT !.cancelled = TRUE]
  <2>1. /\ pc[j] \in {"round", "gate", "tool", "returned"} /\ Goto(j, "stopped")
        /\ UNCHANGED <<grant, turn, reviewed, late>> /\ job' = [job EXCEPT ![j] = r]
    BY <1>1, <1>t DEF Notices, WorkerOnly, lockVars
  <2>2. r \in JobRec
    BY <1>p, Zenon DEF JobRec
  <2>3. /\ r.state = job[j].state /\ r.timer = job[j].timer /\ r.mutating = job[j].mutating
        /\ r.finish = job[j].finish /\ r.request = job[j].request
    BY <1>p DEF JobRec
  <2> HIDE DEF r
  <2>4. JobTrue(r, "stopped", grant'[j]) /\ r.state \notin Terminal
    BY <1>w, <2>1, <2>3 DEF JobTrue, Waits, Over, Terminal
  <2>5. "stopped" \in Places
    BY DEF Places
  <2> QED
    BY <1>a, <2>1, <2>2, <2>4, <2>5
<1>2. CASE Fails(j)
  <2> DEFINE s == IF job[j].state = "waiting_human" THEN "running" ELSE job[j].state
             r == [job[j] EXCEPT !.state = s]
  <2>1. /\ pc[j] \in {"round", "human", "tool"} /\ Goto(j, "failed")
        /\ UNCHANGED <<grant, turn, reviewed, late>> /\ job' = [job EXCEPT ![j] = r]
    BY <1>2, <1>t DEF Fails, WorkerOnly, lockVars
  <2>2. r \in JobRec
    <3>1. s \in States
      BY <1>p DEF JobRec, States
    <3> HIDE DEF s
    <3> QED
      BY <1>p, <3>1, Zenon DEF JobRec
  <2>3. /\ r.state = s /\ r.timer = job[j].timer /\ r.mutating = job[j].mutating
        /\ r.finish = job[j].finish /\ r.request = job[j].request
    BY <1>p DEF JobRec
  <2> HIDE DEF r
  <2>4. JobTrue(r, "failed", grant'[j]) /\ r.state \notin Terminal
    BY <1>w, <2>1, <2>3 DEF JobTrue, Waits, Over, Terminal
  <2>5. "failed" \in Places
    BY DEF Places
  <2> QED
    BY <1>a, <2>1, <2>2, <2>4, <2>5
<1>3. CASE Replies(j)
  <2>1. /\ pc[j] = "round" /\ Goto(j, "replied")
        /\ UNCHANGED <<grant, turn, reviewed, late, job>>
    BY <1>3 DEF Replies, Running, WorkerOnly, lockVars
  <2>2. JobTrue(job[j], "replied", grant'[j]) /\ "replied" \in Places
    BY <1>w, <2>1 DEF JobTrue, Waits, Over, Places
  <2> QED
    BY <1>b, <2>1, <2>2
<1>4. CASE AsksPermission(j)
  <2> DEFINE r == [job[j] EXCEPT !.request = "open", !.state = "waiting_permission"]
  <2>1. /\ pc[j] = "round" /\ Goto(j, "gate")
        /\ UNCHANGED <<grant, turn, reviewed, late>> /\ job' = [job EXCEPT ![j] = r]
    BY <1>4, <1>t DEF AsksPermission, Running, WorkerOnly, lockVars
  <2>2. r \in JobRec
    BY <1>p, Zenon DEF JobRec, States
  <2>3. /\ r.state = "waiting_permission" /\ r.timer = job[j].timer
        /\ r.mutating = job[j].mutating /\ r.finish = job[j].finish
    BY <1>p DEF JobRec
  <2> HIDE DEF r
  <2>4. JobTrue(r, "gate", grant'[j]) /\ r.state \notin Terminal
    BY <1>w, <2>1, <2>3 DEF JobTrue, Waits, Over, Terminal
  <2>5. "gate" \in Places
    BY DEF Places
  <2> QED
    BY <1>a, <2>1, <2>2, <2>4, <2>5
<1>5. CASE GetsAnswer(j)
  <2>1. PICK s \in {"running", "waiting_human"}, p \in {"round", "tool", "human"} :
          /\ Goto(j, p)
          /\ job' = [job EXCEPT ![j] = [job[j] EXCEPT !.request = "none", !.state = s]]
    BY <1>5, <1>t DEF GetsAnswer
  <2> DEFINE r == [job[j] EXCEPT !.request = "none", !.state = s]
  <2>2. pc[j] = "gate" /\ UNCHANGED <<grant, turn, reviewed, late>>
    BY <1>5 DEF GetsAnswer, Running, WorkerOnly, lockVars
  <2>3. r \in JobRec
    <3>1. s \in States
      BY DEF States
    <3> QED
      BY <1>p, <3>1, Zenon DEF JobRec
  <2>4. /\ r.state = s /\ r.timer = job[j].timer /\ r.request = "none"
        /\ r.mutating = job[j].mutating /\ r.finish = job[j].finish
    BY <1>p DEF JobRec
  <2>5. job' = [job EXCEPT ![j] = r]
    BY <2>1
  <2> HIDE DEF r
  <2>6. JobTrue(r, p, grant'[j]) /\ r.state \notin Terminal
    BY <1>w, <2>2, <2>4 DEF JobTrue, Waits, Over, Terminal
  <2>7. p \in Places
    BY DEF Places
  <2> QED
    BY <1>a, <2>1, <2>2, <2>3, <2>5, <2>6, <2>7
<1>6. CASE HumanAnswers(j)
  <2> DEFINE s == IF job[j].state = "waiting_human" THEN "running" ELSE job[j].state
             r == [job[j] EXCEPT !.state = s]
  <2>0. PICK p \in {"tool", "round"} : Goto(j, p)
    BY <1>6 DEF HumanAnswers
  <2>1. /\ pc[j] = "human"
        /\ UNCHANGED <<grant, turn, reviewed, late>> /\ job' = [job EXCEPT ![j] = r]
    BY <1>6, <1>t DEF HumanAnswers, Running, WorkerOnly, lockVars
  <2>2. r \in JobRec
    <3>1. s \in States
      BY <1>p DEF JobRec, States
    <3> HIDE DEF s
    <3> QED
      BY <1>p, <3>1, Zenon DEF JobRec
  <2>3. /\ r.state = s /\ r.timer = job[j].timer /\ r.mutating = job[j].mutating
        /\ r.finish = job[j].finish /\ r.request = job[j].request
    BY <1>p DEF JobRec
  <2> HIDE DEF r
  <2>4. JobTrue(r, p, grant'[j]) /\ r.state \notin Terminal
    BY <1>w, <2>1, <2>3 DEF JobTrue, Waits, Over, Terminal
  <2>5. p \in Places
    BY DEF Places
  <2> QED
    BY <1>a, <2>0, <2>1, <2>2, <2>4, <2>5
<1>7. CASE AsksLock(j)
  <2> DEFINE r == [job[j] EXCEPT !.state = "waiting_resource"]
  <2>1. /\ pc[j] = "tool" /\ Goto(j, "lock") /\ UNCHANGED <<turn, reviewed, late>>
        /\ job' = [job EXCEPT ![j] = r] /\ grant' = [grant EXCEPT ![j] = "waiting"]
    BY <1>7, <1>t DEF AsksLock, Running, Enqueue
  <2>2. r \in JobRec
    BY <1>p, Zenon DEF JobRec, States
  <2>3. /\ r.state = "waiting_resource" /\ r.timer = job[j].timer /\ r.request = job[j].request
        /\ r.mutating = job[j].mutating /\ r.finish = job[j].finish
    BY <1>p DEF JobRec
  <2> HIDE DEF r
  <2>g. grant'[j] = "waiting" /\ \A k \in Jobs \ {j} : grant'[k] = grant[k]
    BY <1>t, <2>1
  <2>4. JobTrue(r, "lock", grant'[j]) /\ r.state \notin Terminal
    BY <1>w, <2>1, <2>g, <2>3 DEF JobTrue, Waits, Over, Terminal
  <2>5. "lock" \in Places
    BY DEF Places
  <2> QED
    BY <1>a, <2>1, <2>2, <2>g, <2>4, <2>5
<1>8. CASE GetsLock(j)
  <2>1. /\ pc[j] = "lock" /\ Goto(j, "granted") /\ UNCHANGED <<turn, reviewed, late, job>>
        /\ grant' = [grant EXCEPT ![j] = "owning"]
    BY <1>8 DEF GetsLock, Running, Acquire
  <2>2. grant'[j] = "owning" /\ \A k \in Jobs \ {j} : grant'[k] = grant[k]
    BY <1>t, <2>1
  <2>3. JobTrue(job[j], "granted", grant'[j]) /\ "granted" \in Places
    BY <1>w, <2>1, <2>2 DEF JobTrue, Waits, Over, Places
  <2> QED
    BY <1>b, <2>1, <2>2, <2>3
<1>9. CASE GivesUpLock(j)
  <2> DEFINE r == [job[j] EXCEPT !.cancelled = TRUE]
  <2>1. /\ pc[j] = "lock" /\ Goto(j, "returned") /\ UNCHANGED <<turn, reviewed, late>>
        /\ job' = [job EXCEPT ![j] = r] /\ grant' = [grant EXCEPT ![j] = "idle"]
    BY <1>9, <1>t DEF GivesUpLock, Running, GiveUp
  <2>2. r \in JobRec
    BY <1>p, Zenon DEF JobRec
  <2>3. /\ r.state = job[j].state /\ r.timer = job[j].timer /\ r.mutating = job[j].mutating
        /\ r.finish = job[j].finish /\ r.request = job[j].request
    BY <1>p DEF JobRec
  <2> HIDE DEF r
  <2>g. grant'[j] = "idle" /\ \A k \in Jobs \ {j} : grant'[k] = grant[k]
    BY <1>t, <2>1
  <2>4. JobTrue(r, "returned", grant'[j]) /\ r.state \notin Terminal
    BY <1>w, <2>1, <2>g, <2>3 DEF JobTrue, Waits, Over, Terminal
  <2>5. "returned" \in Places
    BY DEF Places
  <2> QED
    BY <1>a, <2>1, <2>2, <2>g, <2>4, <2>5
<1>10. CASE StartsWriting(j)
  <2> DEFINE r == [job[j] EXCEPT !.mutating = TRUE, !.state = "writing"]
  <2>1. /\ pc[j] = "granted" /\ Goto(j, "body")
        /\ UNCHANGED <<grant, turn, reviewed, late>> /\ job' = [job EXCEPT ![j] = r]
    BY <1>10, <1>t DEF StartsWriting, Running, WorkerOnly, lockVars
  <2>2. r \in JobRec
    BY <1>p, Zenon DEF JobRec, States
  <2>3. /\ r.state = "writing" /\ r.timer = job[j].timer /\ r.request = job[j].request
        /\ r.mutating /\ r.finish = job[j].finish
    BY <1>p DEF JobRec
  <2> HIDE DEF r
  <2>4. JobTrue(r, "body", grant'[j]) /\ r.state \notin Terminal
    BY <1>w, <2>1, <2>3 DEF JobTrue, Waits, Over, Terminal
  <2>5. "body" \in Places
    BY DEF Places
  <2> QED
    BY <1>a, <2>1, <2>2, <2>4, <2>5
<1>11. CASE Unlocks(j)
  <2>1. /\ pc[j] = "body" /\ Goto(j, "released") /\ UNCHANGED <<turn, reviewed, late, job>>
        /\ grant' = [grant EXCEPT ![j] = "idle"]
    BY <1>11 DEF Unlocks, Running, Release
  <2>2. grant'[j] = "idle" /\ \A k \in Jobs \ {j} : grant'[k] = grant[k]
    BY <1>t, <2>1
  <2>3. JobTrue(job[j], "released", grant'[j]) /\ "released" \in Places
    BY <1>w, <2>1, <2>2 DEF JobTrue, Waits, Over, Places
  <2> QED
    BY <1>b, <2>1, <2>2, <2>3
<1>12. CASE EndsWriting(j)
  <2> DEFINE s == IF job[j].state \in {"cancelling", "stuck"} THEN job[j].state ELSE "running"
             f == job[j].finish \/ job[j].state = "finishing_write"
             r == [job[j] EXCEPT !.mutating = FALSE, !.finish = f, !.state = s]
  <2>1. /\ pc[j] = "released" /\ Goto(j, "returned")
        /\ UNCHANGED <<grant, turn, reviewed, late>> /\ job' = [job EXCEPT ![j] = r]
    BY <1>12, <1>t DEF EndsWriting, Running, WorkerOnly, lockVars
  <2>f. f \in BOOLEAN /\ (job[j].finish => f) /\ s \in States /\ s \notin Terminal \cup {"gone", "new", "queued"}
    BY <1>p DEF JobRec, States, Terminal
  <2> HIDE DEF s, f
  <2>2. r \in JobRec
    BY <1>p, <2>f, Zenon DEF JobRec
  <2>3. /\ r.state = s /\ r.timer = job[j].timer /\ ~r.mutating
        /\ r.finish = f /\ r.request = job[j].request
    BY <1>p DEF JobRec
  <2> HIDE DEF r
  <2>4. JobTrue(r, "returned", grant'[j]) /\ r.state \notin Terminal
    BY <1>w, <2>1, <2>f, <2>3 DEF JobTrue, Waits, Over, Terminal
  <2>5. "returned" \in Places
    BY DEF Places
  <2> QED
    BY <1>a, <2>1, <2>2, <2>4, <2>5
<1>13. CASE GoesOn(j)
  <2> DEFINE p == IF job[j].finish THEN "replied" ELSE "round"
  <2>1. /\ pc[j] = "returned" /\ Goto(j, p) /\ UNCHANGED <<grant, turn, reviewed, late, job>>
    BY <1>13 DEF GoesOn, Running, WorkerOnly, lockVars
  <2>2. JobTrue(job[j], p, grant'[j]) /\ p \in Places
    BY <1>w, <2>1 DEF JobTrue, Waits, Over, Places
  <2> HIDE DEF p
  <2> QED
    BY <1>b, <2>1, <2>2
<1> QED
  BY <1>1, <1>2, <1>3, <1>4, <1>5, <1>6, <1>7, <1>8, <1>9, <1>10, <1>11, <1>12, <1>13
  DEF WorkerStep

\* A worker records how its job ends.
LEMMA EndsTrue ==
  ASSUME JobInv, NEW j \in Jobs, Ends(j)
  PROVE  TableOK' /\ JobsTrue' /\ BarrierTrue'
<1> DEFINE s == Outcome(j)
           r == Finished(job[j], s)
<1>t. TableOK /\ JobsTrue /\ BarrierTrue
  BY IsTable DEF JobInv
<1>1. /\ pc[j] \in {"replied", "failed", "stopped"} /\ pc' = [pc EXCEPT ![j] = "ended"]
      /\ job' = [job EXCEPT ![j] = r] /\ UNCHANGED <<grant, turn, reviewed>> /\ RecordsLate
  BY <1>t DEF Ends, Goto, lockVars, TableOK
<1>2. /\ ~Over(job[j]) /\ ~Waits(job[j]) /\ turn # "settled"
      /\ job[j] \in JobRec /\ JobTrue(job[j], pc[j], grant[j])
  BY <1>1, AtWork
<1>3. s \in Terminal /\ (s = "completed" => ~job[j].cancelled)
  BY DEF Outcome, Terminal
<1> HIDE DEF s
<1>4. r \in JobRec
  BY <1>2, <1>3, FinishedType
<1>5. /\ r.state = s /\ r.request = "none" /\ r.timer = job[j].timer
      /\ r.mutating = job[j].mutating /\ r.finish = job[j].finish
      /\ r.cancelled = job[j].cancelled
  BY <1>2 DEF Finished, JobRec
<1> HIDE DEF r
<1>6. JobTrue(r, "ended", grant'[j])
  BY <1>1, <1>2, <1>3, <1>5 DEF JobTrue, Waits, Over, Terminal
<1>7. TableOK' /\ JobsTrue'
  <2>1. "ended" \in Places
    BY DEF Places
  <2>2. \A k \in Jobs \ {j} : grant'[k] = grant[k]
    BY <1>1
  <2> QED
    BY <1>1, <1>4, <1>6, <1>t, <2>1, <2>2, OneJob
<1>8. BarrierTrue'
  <2>1. job'[j] = r /\ \A k \in Jobs \ {j} : job'[k] = job[k]
    BY <1>1, <1>t DEF TableOK
  <2>2. turn = "collected" => late' = late \cup {k \in Jobs : ~Ended(k) /\ job'[k].state \in Terminal}
    BY <1>1 DEF RecordsLate
  <2>3. ~Ended(j)
    BY <1>2 DEF Over, Ended
  <2> QED
    BY <1>1, <1>2, <1>t, <2>1, <2>2, <2>3 DEF BarrierTrue
<1> QED
  BY <1>7, <1>8

\* What changes of one job when the table is cleaned up and dispatched: it is as it
\* was, or cleaned up, or it was in the queue and starts or has timed out.
LEMMA ExitShape ==
  ASSUME NEW jobs \in [Jobs -> JobRec], NEW me, NEW k \in Jobs,
         NEW r, r = Dispatched(Cleaned(jobs, me))[k]
  PROVE  \/ r = jobs[k]
         \/ r.state = "gone" /\ jobs[k].state \in Terminal
         \/ /\ jobs[k].state = "queued"
            /\ r.state = "running" \/ r.state = "timed_out"
<1> DEFINE c == Cleaned(jobs, me)
<1>1. c \in [Jobs -> JobRec]
  BY CleanedType
<1>2. \/ c[k] = jobs[k]
      \/ c[k] = [NewJob EXCEPT !.state = "gone"] /\ jobs[k].state \in Terminal
  BY DEF Cleaned
<1>3. [NewJob EXCEPT !.state = "gone"].state = "gone"
  BY DEF NewJob
<1> HIDE DEF c
<1>4. CASE k \notin Reached(c)
  <2>1. r = c[k]
    BY <1>4 DEF Dispatched, c
  <2> QED
    BY <2>1, <1>2, <1>3
<1>5. CASE k \in Reached(c)
  <2>1. c[k].state = "queued"
    BY <1>5 DEF Reached
  <2>2. jobs[k] = c[k]
    BY <2>1, <1>2, <1>3
  <2>3. \/ r = Finished(c[k], "timed_out")
        \/ r = [c[k] EXCEPT !.state = "running", !.timer = "set"]
    BY <1>5 DEF Dispatched, c
  <2>4. c[k] \in JobRec
    BY <1>1
  <2>5. /\ Finished(c[k], "timed_out").state = "timed_out"
        /\ [c[k] EXCEPT !.state = "running", !.timer = "set"].state = "running"
    BY <2>4 DEF Finished, JobRec
  <2> QED
    BY <2>1, <2>2, <2>3, <2>5
<1> QED
  BY <1>4, <1>5

\* A worker exits: its job may be forgotten, and the queue is looked at.
LEMMA ExitsTrue ==
  ASSUME JobInv, NEW j \in Jobs, Exits(j)
  PROVE  TableOK' /\ JobsTrue' /\ BarrierTrue'
<1> DEFINE r == [job[j] EXCEPT !.timer = "off"]
           off == [job EXCEPT ![j] = r]
           jobs == Cleaned(off, j)
           places == [pc EXCEPT ![j] = "dead"]
<1>t. TableOK /\ JobsTrue /\ BarrierTrue
  BY IsTable DEF JobInv
<1>1. /\ pc[j] = "ended" /\ job' = Dispatched(jobs) /\ pc' = Started(jobs, places)
      /\ UNCHANGED <<grant, turn, reviewed>> /\ RecordsLate
  BY <1>t DEF Exits, Running, lockVars, TableOK
<1>2. /\ job[j] \in JobRec /\ JobTrue(job[j], pc[j], grant[j]) /\ Over(job[j])
  BY <1>1, <1>t DEF TableOK, JobsTrue, JobTrue
<1>3. r \in JobRec
  BY <1>2, Zenon DEF JobRec
<1>4. /\ r.state = job[j].state /\ r.request = job[j].request /\ r.timer = "off"
      /\ r.mutating = job[j].mutating /\ r.finish = job[j].finish
      /\ r.cancelled = job[j].cancelled /\ r.delivered = job[j].delivered
  BY <1>2 DEF JobRec
<1> HIDE DEF r
<1>5. JobTrue(r, "dead", grant[j])
  BY <1>1, <1>2, <1>4 DEF JobTrue, Waits, Over, Terminal
<1>6. off \in [Jobs -> JobRec] /\ places \in [Jobs -> Places]
  BY <1>3, <1>t DEF TableOK, Places
<1>7. \A k \in Jobs : JobTrue(off[k], places[k], grant[k])
  BY <1>5, <1>t DEF TableOK, JobsTrue
<1>k. \A k \in Jobs : off[k].state = job[k].state /\ off[k].delivered = job[k].delivered
  BY <1>4, <1>t DEF TableOK
<1>8. \A k \in Jobs : places[k] \in {"none", "ended", "dead"} \/ k # j
  BY <1>t DEF TableOK
<1> HIDE DEF off, places
<1>9. jobs \in [Jobs -> JobRec]
  BY <1>6, CleanedType
<1>10. \A k \in Jobs : JobTrue(jobs[k], places[k], grant[k])
  BY <1>6, <1>7, <1>8, CleanedTrue
<1>11. TableOK' /\ JobsTrue'
  <2> HIDE DEF jobs
  <2>1. \A k \in Jobs : JobTrue(Dispatched(jobs)[k], Started(jobs, places)[k], grant[k])
    BY <1>6, <1>9, <1>10, DispatchedTrue
  <2>2. Dispatched(jobs) \in [Jobs -> JobRec] /\ Started(jobs, places) \in [Jobs -> Places]
    BY <1>6, <1>9, DispatchedType
  <2> QED
    BY <1>1, <2>1, <2>2 DEF TableOK, JobsTrue
<1>12. ASSUME NEW k \in Jobs
       PROVE  \/ job'[k].state = job[k].state /\ job'[k].delivered = job[k].delivered
              \/ job'[k].state = "gone"
              \/ job[k].state = "queued" /\ job'[k].state \in {"running", "timed_out"}
  <2>1. job'[k] = Dispatched(Cleaned(off, j))[k]
    BY <1>1
  <2>2. \/ job'[k] = off[k]
        \/ job'[k].state = "gone" /\ off[k].state \in Terminal
        \/ /\ off[k].state = "queued"
           /\ job'[k].state = "running" \/ job'[k].state = "timed_out"
    BY <1>6, <2>1, ExitShape
  <2> QED
    BY <1>k, <2>2
<1>13. BarrierTrue'
  <2>1. turn = "collected" => late' = late \cup {k \in Jobs : ~Ended(k) /\ job'[k].state \in Terminal}
    BY <1>1 DEF RecordsLate
  <2>2. turn # "collected" => late' = late
    BY <1>1 DEF RecordsLate
  <2>3. CASE turn = "collected"
    <3>1. ASSUME NEW k \in Jobs, job'[k].state \in Terminal PROVE job'[k].delivered \/ k \in late'
      BY <1>12, <1>t, <2>1, <2>3, <3>1 DEF BarrierTrue, Ended, Terminal
    <3> QED
      BY <1>1, <1>t, <2>3, <3>1 DEF BarrierTrue
  <2>4. CASE turn = "settled"
    <3>1. \A k \in Jobs : job[k].state # "queued"
      BY <1>t, <2>4 DEF BarrierTrue, Over, Terminal
    <3>2. ASSUME NEW k \in Jobs
          PROVE  /\ job'[k].state = "new" \/ Over(job[k])'
                 /\ job'[k].state \in Terminal => job'[k].delivered \/ k \in late'
      BY <1>12, <1>t, <2>2, <2>4, <3>1 DEF BarrierTrue, Over, Terminal
    <3> QED
      BY <1>1, <1>t, <2>4, <3>2 DEF BarrierTrue
  <2>5. CASE turn \notin {"collected", "settled"}
    BY <1>1, <2>5 DEF BarrierTrue
  <2> QED
    BY <2>3, <2>4, <2>5
<1> QED
  BY <1>11, <1>13

\* The deadline passes, or the timer fires.
LEMMA TimeTrue ==
  ASSUME JobInv, NEW j \in Jobs, DeadlinePasses(j) \/ TimerFires(j)
  PROVE  TableOK' /\ JobsTrue' /\ BarrierTrue'
<1>t. TableOK /\ JobsTrue /\ BarrierTrue
  BY IsTable DEF JobInv
<1>1. /\ job[j].state # "new" /\ ~Over(job[j]) /\ UNCHANGED <<pc, grant, turn, reviewed, late>>
      /\ job[j].timer # "off" \/ DeadlinePasses(j)
  <2>1. TimerFires(j) => pc[j] # "none"
    BY <1>t DEF TimerFires, JobsTrue, JobTrue
  <2> QED
    BY <1>t, <2>1 DEF DeadlinePasses, TimerFires, Ended, Over, lockVars, JobsTrue, JobTrue, Waits
<1>2. job[j] \in JobRec /\ pc[j] \in Places /\ JobTrue(job[j], pc[j], grant[j])
  BY <1>t DEF TableOK, JobsTrue
<1>a. ASSUME NEW r \in JobRec, JobTrue(r, pc[j], grant[j]), r.state \notin Terminal,
             job' = [job EXCEPT ![j] = r]
      PROVE  TableOK' /\ JobsTrue' /\ BarrierTrue'
  <2>1. pc' = [pc EXCEPT ![j] = pc[j]]
    BY <1>1, <1>t DEF TableOK
  <2>2. grant'[j] = grant[j] /\ \A k \in Jobs \ {j} : grant'[k] = grant[k]
    BY <1>1
  <2>3. TableOK' /\ JobsTrue'
    BY <1>a, <1>t, <1>2, <2>1, <2>2, OneJob
  <2>4. UNCHANGED <<turn, reviewed, late>>
    BY <1>1
  <2>5. BarrierTrue'
    BY <1>a, <1>t, <1>1, <2>4, OneJobBarrier
  <2> QED
    BY <2>3, <2>5
<1>3. CASE DeadlinePasses(j)
  <2> DEFINE r == [job[j] EXCEPT !.overdue = TRUE]
  <2>1. job' = [job EXCEPT ![j] = r]
    BY <1>3, <1>t DEF DeadlinePasses, TableOK
  <2>2. r \in JobRec
    BY <1>2, Zenon DEF JobRec
  <2>3. /\ r.state = job[j].state /\ r.timer = job[j].timer /\ r.mutating = job[j].mutating
        /\ r.finish = job[j].finish /\ r.request = job[j].request
        /\ r.cancelled = job[j].cancelled
    BY <1>2 DEF JobRec
  <2> HIDE DEF r
  <2>4. JobTrue(r, pc[j], grant[j]) /\ r.state \notin Terminal
    BY <1>1, <1>2, <2>3 DEF JobTrue, Waits, Over
  <2> QED
    BY <1>a, <2>1, <2>2, <2>4
<1>4. CASE TimerFires(j)
  <2>0. job[j].timer # "off"
    BY <1>4 DEF TimerFires
  <2>1. CASE /\ job[j].mutating
             /\ job' = [job EXCEPT ![j] = [job[j] EXCEPT !.state = "finishing_write", !.finish = TRUE,
                                                         !.timer = "grace", !.overdue = FALSE]]
    <3> DEFINE r == [job[j] EXCEPT !.state = "finishing_write", !.finish = TRUE,
                                   !.timer = "grace", !.overdue = FALSE]
    <3>2. r \in JobRec
      BY <1>2, Zenon DEF JobRec, States
    <3>3. /\ r.state = "finishing_write" /\ r.timer = "grace" /\ r.mutating = job[j].mutating
          /\ r.finish /\ r.request = job[j].request
      BY <1>2 DEF JobRec
    <3>4. job' = [job EXCEPT ![j] = r]
      BY <2>1
    <3> HIDE DEF r
    <3>5. JobTrue(r, pc[j], grant[j]) /\ r.state \notin Terminal
      BY <1>1, <1>2, <2>0, <2>1, <3>3 DEF JobTrue, Waits, Over, Terminal
    <3> QED
      BY <1>a, <3>2, <3>4, <3>5
  <2>2. CASE job' = [job EXCEPT ![j] = [job[j] EXCEPT !.state = "cancelling", !.reason = "timeout",
                                                      !.cancelled = TRUE, !.timer = "off"]]
    <3> DEFINE r == [job[j] EXCEPT !.state = "cancelling", !.reason = "timeout",
                                   !.cancelled = TRUE, !.timer = "off"]
    <3>2. r \in JobRec
      BY <1>2, Zenon DEF JobRec, States
    <3>3. /\ r.state = "cancelling" /\ r.timer = "off" /\ r.mutating = job[j].mutating
          /\ r.request = job[j].request
      BY <1>2 DEF JobRec
    <3>4. job' = [job EXCEPT ![j] = r]
      BY <2>2
    <3> HIDE DEF r
    <3>5. JobTrue(r, pc[j], grant[j]) /\ r.state \notin Terminal
      BY <1>1, <1>2, <2>0, <3>3 DEF JobTrue, Waits, Over, Terminal
    <3> QED
      BY <1>a, <3>2, <3>4, <3>5
  <2> QED
    BY <1>4, <2>1, <2>2 DEF TimerFires
<1> QED
  BY <1>3, <1>4

\* Shutdown tells every job to stop, and gives up on those that do not.
LEMMA ShutdownTrue ==
  ASSUME JobInv, ShutdownBegins \/ ShutdownEnds
  PROVE  TableOK' /\ JobsTrue' /\ BarrierTrue'
<1>t. TableOK /\ JobsTrue /\ BarrierTrue
  BY IsTable DEF JobInv
<1>p. ASSUME NEW j \in Jobs PROVE job[j] \in JobRec /\ JobTrue(job[j], pc[j], grant[j])
  BY <1>t DEF TableOK, JobsTrue
<1>g. UNCHANGED <<grant, pc, turn, reviewed>>
  BY DEF ShutdownBegins, ShutdownEnds, lockVars
<1>1. CASE ShutdownBegins
  <2>1. ASSUME NEW j \in Jobs
        PROVE  /\ job'[j] \in JobRec /\ JobTrue(job'[j], pc[j], grant[j])
               /\ \/ job'[j] = job[j]
                  \/ ~Over(job[j]) /\ job[j].state # "new"
    <3> DEFINE r == [job[j] EXCEPT !.cancelled = TRUE]
               ended == Finished(r, "cancelled")
               told == [r EXCEPT !.state = "cancelling"]
    <3>1. r \in JobRec
      <4>1. job[j] \in JobRec
        BY <1>p
      <4> QED
        BY <4>1, Zenon DEF JobRec
    <3>2. /\ r.state = job[j].state /\ r.timer = job[j].timer /\ r.mutating = job[j].mutating
          /\ r.finish = job[j].finish /\ r.request = job[j].request
      BY <1>p DEF JobRec
    <3>3. job'[j] = IF job[j].state = "new" \/ Ended(j) THEN job[j]
                    ELSE IF job[j].state = "queued" THEN ended ELSE told
      BY <1>1 DEF ShutdownBegins
    <3> HIDE DEF r
    <3>4. ended \in JobRec /\ told \in JobRec
      <4>1. told \in JobRec
        BY <3>1, Zenon DEF JobRec, States
      <4> QED
        BY <3>1, <4>1, FinishedType DEF Terminal
    <3>5. /\ ended.state = "cancelled" /\ ended.request = "none" /\ ended.timer = r.timer
          /\ ended.mutating = r.mutating /\ ended.finish = r.finish
          /\ told.state = "cancelling" /\ told.request = r.request /\ told.timer = r.timer
          /\ told.mutating = r.mutating /\ told.finish = r.finish
      BY <3>1 DEF Finished, JobRec
    <3> HIDE DEF ended, told
    <3>6. CASE job[j].state = "new" \/ Ended(j)
      BY <1>p, <3>3, <3>6
    <3>7. CASE ~(job[j].state = "new" \/ Ended(j)) /\ job[j].state = "queued"
      BY <1>p, <3>2, <3>3, <3>4, <3>5, <3>7 DEF JobTrue, Waits, Over, Ended, Terminal
    <3>8. CASE ~(job[j].state = "new" \/ Ended(j)) /\ job[j].state # "queued"
      BY <1>p, <3>2, <3>3, <3>4, <3>5, <3>8 DEF JobTrue, Waits, Over, Ended, Terminal
    <3> QED
      BY <3>6, <3>7, <3>8
  <2>2. TableOK' /\ JobsTrue'
    <3>1. job' \in [Jobs -> JobRec]
      BY <1>1, <2>1 DEF ShutdownBegins
    <3> QED
      BY <1>g, <1>t, <2>1, <3>1 DEF TableOK, JobsTrue
  <2>3. turn = "collected" => late' = late \cup {k \in Jobs : ~Ended(k) /\ job'[k].state \in Terminal}
    BY <1>1 DEF ShutdownBegins, RecordsLate
  <2>4. turn # "collected" => late' = late
    BY <1>1 DEF ShutdownBegins, RecordsLate
  <2>5. turn = "settled" => \A k \in Jobs : job'[k] = job[k]
    BY <1>t, <2>1 DEF BarrierTrue
  <2>6. turn = "collected" =>
          \A k \in Jobs : job'[k].state \in Terminal => job'[k].delivered \/ k \in late'
    BY <1>t, <2>1, <2>3 DEF BarrierTrue, Ended, Over
  <2>7. BarrierTrue'
    BY <1>g, <1>t, <2>4, <2>5, <2>6 DEF BarrierTrue, Over
  <2> QED
    BY <2>2, <2>7
<1>2. CASE ShutdownEnds
  <2>1. ASSUME NEW j \in Jobs
        PROVE  /\ job'[j] \in JobRec /\ JobTrue(job'[j], pc[j], grant[j])
               /\ \/ job'[j] = job[j]
                  \/ ~Over(job[j]) /\ job[j].state # "new" /\ job'[j].state = "stuck"
    <3> DEFINE r == [job[j] EXCEPT !.state = "stuck"]
    <3>1. r \in JobRec
      <4>1. job[j] \in JobRec
        BY <1>p
      <4> QED
        BY <4>1, Zenon DEF JobRec, States
    <3>2. /\ r.state = "stuck" /\ r.timer = job[j].timer /\ r.mutating = job[j].mutating
          /\ r.finish = job[j].finish /\ r.request = job[j].request
      BY <1>p DEF JobRec
    <3>3. job'[j] = IF Alive(j) /\ ~Ended(j) THEN r ELSE job[j]
      BY <1>2 DEF ShutdownEnds
    <3> HIDE DEF r
    <3>6. CASE ~(Alive(j) /\ ~Ended(j))
      BY <1>p, <3>3, <3>6
    <3>7. CASE Alive(j) /\ ~Ended(j)
      BY <1>p, <3>1, <3>2, <3>3, <3>7 DEF JobTrue, Waits, Over, Ended, Alive, Terminal
    <3> QED
      BY <3>6, <3>7
  <2>2. TableOK' /\ JobsTrue'
    <3>1. job' \in [Jobs -> JobRec]
      BY <1>2, <2>1 DEF ShutdownEnds
    <3> QED
      BY <1>g, <1>t, <2>1, <3>1 DEF TableOK, JobsTrue
  <2>3. BarrierTrue'
    <3>1. late' = late
      BY <1>2 DEF ShutdownEnds
    <3> QED
      BY <1>g, <1>t, <2>1, <3>1 DEF BarrierTrue, Over, Terminal
  <2> QED
    BY <2>2, <2>3
<1> QED
  BY <1>1, <1>2

\* The other writers leave the jobs and their grants alone.
LEMMA OthersTrue ==
  ASSUME JobInv, NEW w \in Others, OtherWrites(w) \/ OtherReleases(w)
  PROVE  TableOK' /\ JobsTrue' /\ BarrierTrue'
<1>t. TableOK /\ JobsTrue /\ BarrierTrue
  BY IsTable DEF JobInv
<1>1. UNCHANGED <<job, pc, turn, reviewed, late>>
  BY DEF OtherWrites, OtherReleases, managerVars
<1>2. \A j \in Jobs : grant'[j] = grant[j]
  <2>1. \E g : grant' = [grant EXCEPT ![w] = g]
    BY DEF OtherWrites, OtherReleases, Enqueue, Acquire, Release
  <2>2. w \notin Jobs /\ Jobs \subseteq Writers /\ grant \in [Writers -> Grants]
    BY JobsAssumption DEF JobInv, TypeOK, LockTypeOK
  <2> QED
    BY <2>1, <2>2
<1> QED
  BY <1>t, <1>1, <1>2 DEF TableOK, JobsTrue, BarrierTrue

LEMMA JobStep == JobInv /\ [Next]_vars => JobInv'
<1> SUFFICES ASSUME JobInv, [Next]_vars PROVE JobInv'
  OBVIOUS
<1>1. LockTypeOK'
  BY LockUsed, LockTypes DEF JobInv, TypeOK
<1>2. TableOK' /\ JobsTrue' /\ BarrierTrue'
  <2>1. CASE ParentStep
    BY <2>1, ParentTrue
  <2>2. CASE ShutdownBegins \/ ShutdownEnds
    BY <2>2, ShutdownTrue
  <2>3. ASSUME NEW j \in Jobs, WorkerStep(j) PROVE TableOK' /\ JobsTrue' /\ BarrierTrue'
    BY <2>3, WorkerTrue, EndsTrue, ExitsTrue
  <2>4. ASSUME NEW j \in Jobs, DeadlinePasses(j) \/ TimerFires(j)
        PROVE  TableOK' /\ JobsTrue' /\ BarrierTrue'
    BY <2>4, TimeTrue
  <2>5. ASSUME NEW w \in Others, OtherWrites(w) \/ OtherReleases(w)
        PROVE  TableOK' /\ JobsTrue' /\ BarrierTrue'
    BY <2>5, OthersTrue
  <2>6. CASE UNCHANGED vars
    BY <2>6, IsTable DEF vars, lockVars, managerVars, JobInv, TableOK, JobsTrue, BarrierTrue
  <2> QED
    BY <2>1, <2>2, <2>3, <2>4, <2>5, <2>6 DEF Next
<1>3. /\ turn' \in {"open", "collected", "settled", "abandoned"}
      /\ reviewed' \in 0..MaxJobs /\ accepting' \in BOOLEAN /\ late' \subseteq Jobs
  <2>0. /\ turn \in {"open", "collected", "settled", "abandoned"}
        /\ reviewed \in 0..MaxJobs /\ accepting \in BOOLEAN /\ late \subseteq Jobs
    BY DEF JobInv, TypeOK
  <2>1. CASE ParentStep
    <3>1. ASSUME NEW j \in Jobs,
                 Spawn(j) \/ ReviewBegins(j) \/ CancelJob(j) \/ CancelTurn(j) \/ Check(j)
          PROVE  UNCHANGED <<turn, accepting, late>> /\ reviewed' \in {reviewed, j}
      BY <3>1 DEF Spawn, ReviewBegins, CancelJob, CancelTurn, Cancel, Check
    <3>2. \A j \in Jobs : j \in 0..MaxJobs
      BY BoundsAssumption DEF Jobs
    <3>3. CASE ReviewEnds \/ AbandonTurn \/ Collect \/ BarrierCollects \/ BarrierDecides
      <4>1. /\ turn' \in {turn, "open", "collected", "settled", "abandoned"}
            /\ reviewed' \in {reviewed, 0} /\ UNCHANGED accepting /\ late' \in {late, {}}
        BY <3>3 DEF ReviewEnds, AbandonTurn, Collect, BarrierCollects, BarrierDecides
      <4> QED
        BY <2>0, <4>1, BoundsAssumption
    <3> QED
      BY <2>0, <2>1, <3>1, <3>2, <3>3 DEF ParentStep
  <2>2. CASE ShutdownBegins \/ ShutdownEnds
    BY <2>0, <2>2 DEF ShutdownBegins, ShutdownEnds, RecordsLate
  <2>3. ASSUME NEW j \in Jobs, WorkerStep(j)
        PROVE  UNCHANGED <<turn, reviewed, accepting>> /\ (UNCHANGED late \/ RecordsLate)
    BY <2>3 DEF WorkerStep, Notices, Replies, AsksPermission, GetsAnswer, HumanAnswers, AsksLock,
                GetsLock, GivesUpLock, StartsWriting, Unlocks, EndsWriting, GoesOn, Fails, Ends,
                Exits, WorkerOnly
  <2>4. ASSUME NEW j \in Jobs, DeadlinePasses(j) \/ TimerFires(j)
        PROVE  UNCHANGED <<turn, reviewed, accepting, late>>
    BY <2>4 DEF DeadlinePasses, TimerFires
  <2>5. ASSUME NEW w \in Others, OtherWrites(w) \/ OtherReleases(w)
        PROVE  UNCHANGED <<turn, reviewed, accepting, late>>
    BY <2>5 DEF OtherWrites, OtherReleases, managerVars
  <2>6. CASE UNCHANGED vars
    BY <2>0, <2>6 DEF vars, managerVars
  <2>7. RecordsLate => late' \subseteq Jobs
    BY <2>0 DEF RecordsLate
  <2> QED
    BY <2>0, <2>1, <2>2, <2>3, <2>4, <2>5, <2>6, <2>7 DEF Next
<1> QED
  BY <1>1, <1>2, <1>3 DEF JobInv, TypeOK, TableOK

LEMMA JobsAlways == Spec => []JobInv
BY InitJobs, JobStep, PTL DEF Spec

-----------------------------------------------------------------------------
(* What follows                                                            *)

\* The lock's tables, the jobs, their workers and the parent's turn have their types.
THEOREM SubagentTypes == Spec => []TypeOK
<1>1. JobInv => TypeOK
  BY DEF JobInv
<1> QED
  BY <1>1, JobsAlways, PTL

\* Whoever sets the state of a job last (its worker, the timer, the lock's event, the
\* parent, shutdown), a job that is announced as ended has a worker that does nothing
\* any more and holds no lock, and one that was told to stop is not "completed".
THEOREM EndedMeansIdle == Spec => []OutcomeIsTrue
<1>1. JobInv => OutcomeIsTrue
  <2> SUFFICES ASSUME JobInv, NEW j \in Jobs
               PROVE  /\ Ended(j) => pc[j] \in {"none", "ended", "dead"} /\ grant[j] = "idle"
                      /\ job[j].state = "completed" => ~job[j].cancelled
    BY DEF OutcomeIsTrue
  <2>1. JobTrue(job[j], pc[j], grant[j]) /\ grant[j] \in Grants
    BY JobsAssumption DEF JobInv, JobsTrue, TypeOK, LockTypeOK
  <2> QED
    BY <2>1 DEF JobTrue, Ended, Over, Grants
<1> QED
  BY <1>1, JobsAlways, PTL

\* The grace that a timeout gives to a write in progress is good for that write: the
\* worker reaches no further round, permission or lock, for any order of its events.
THEOREM OneWriteOfGrace == Spec => []GraceIsFinal
<1>1. JobInv => GraceIsFinal
  BY DEF JobInv, JobsTrue, JobTrue, GraceIsFinal
<1> QED
  BY <1>1, JobsAlways, PTL

\* Although the barrier takes the manager's lock twice, a turn that it ends leaves no
\* job at work, and no result undelivered but of jobs that ended in between.
THEOREM NothingLeftBehind == Spec => []BarrierHolds
<1>1. JobInv => BarrierHolds
  BY DEF JobInv, BarrierTrue, BarrierHolds, Over
<1> QED
  BY <1>1, JobsAlways, PTL

================================================================================
