--------------------------- MODULE TaskStoreProofs ---------------------------
(***************************************************************************)
(* The task store, for every set of tasks, members and clients and every   *)
(* bound: types; and, of the behaviours in which no owner was started      *)
(* while a release of its task was on its way: a manual release hits       *)
(* abandoned tasks only, no member owns two running tasks, a worker        *)
(* executes what it owns, a running task is ready, the dependencies have   *)
(* no cycle, a running task keeps its owner and a match decided too early  *)
(* is decided again.                                                       *)
(*                                                                         *)
(* The invariant is built in four layers, each of which needs the one      *)
(* before: OwnerInv (who writes running records), FileInv (what was read   *)
(* is still so when it is written), MatchInv (matches and what sees to     *)
(* them), AbandonInv (what a release knows while it is on its way).  The   *)
(* middle ones hold as long as no release hit a task that was executed     *)
(* (ReleaseAfterStop); the last one shows that none does.                  *)
(***************************************************************************)
EXTENDS TaskStore, TLAPS

-----------------------------------------------------------------------------
(* Records and operations in flight                                        *)

LEMMA BlankType ==
    ASSUME NEW s \in {"free", "pending", "in_progress", "completed", "deleted"}
    PROVE  Blank(s) \in TaskRec
BY SMT DEF Blank, TaskRec

LEMMA IdleType == IdleOp \in OpRec
BY BlankType DEF IdleOp, OpRec, Kinds

LEMMA RematchedType ==
    ASSUME NEW r \in TaskRec
    PROVE  Rematched(r) \in TaskRec
<1>1. r.matching_revision + 1 \in Nat \ {0}
  BY DEF TaskRec
<1> QED
  BY <1>1, Zenon DEF Rematched, TaskRec

\* The operations in flight are well formed.
OpsType == op \in [Procs -> OpRec] /\ \A p \in Procs : ~Idle(p) => op[p].task \in Tasks

\* An operation put in flight for a thread leaves them well formed.
LEMMA LaunchType ==
    ASSUME OpsType, NEW p \in Procs, NEW o \in OpRec, o.task \in Tasks \/ o.kind = "idle",
           op' = [op EXCEPT ![p] = o]
    PROVE  OpsType'
BY Zenon DEF OpsType, Idle

LEMMA StageType ==
    ASSUME OpsType, NEW p \in Procs, NEW kind \in Kinds, NEW t \in Tasks, NEW r \in TaskRec,
           Stage(p, kind, t, r) \/ StageUnlocked(p, kind, t, r)
    PROVE  OpsType'
<1> DEFINE o == [IdleOp EXCEPT !.kind = kind, !.task = t, !.rec = r]
           l == [IdleOp EXCEPT !.kind = kind, !.task = t, !.rec = r, !.locks = {t}]
<1>1. o \in OpRec /\ l \in OpRec
  BY IdleType, Zenon DEF OpRec
<1>2. o.task = t /\ l.task = t
  BY DEF IdleOp
<1>3. op' = [op EXCEPT ![p] = l] \/ op' = [op EXCEPT ![p] = o]
  BY DEF Stage, StageUnlocked
<1> HIDE DEF o, l
<1> QED
  BY <1>1, <1>2, <1>3, LaunchType

LEMMA FinishType ==
    ASSUME OpsType, NEW p \in Procs, Finish(p)
    PROVE  OpsType'
BY IdleType, LaunchType DEF Finish, IdleOp

\* The thread's operation goes on under another name.
LEMMA KindType ==
    ASSUME OpsType, NEW p \in Procs, ~Idle(p), NEW kind \in Kinds,
           op' = [op EXCEPT ![p].kind = kind]
    PROVE  OpsType'
<1> DEFINE o == [op[p] EXCEPT !.kind = kind]
<1>1. op[p] \in OpRec /\ op[p].task \in Tasks
  BY DEF OpsType
<1>2. o \in OpRec /\ o.task \in Tasks
  BY <1>1, Zenon DEF OpRec
<1>3. op' = [op EXCEPT ![p] = o]
  OBVIOUS
<1> HIDE DEF o
<1> QED
  BY <1>2, <1>3, LaunchType

\* The operation in flight of a thread, field by field.
LEMMA OpFields ==
    ASSUME OpsType, NEW p \in Procs
    PROVE  /\ op[p].kind \in Kinds
           /\ op[p].kind # "idle" => op[p].task \in Tasks
           /\ op[p].rec \in TaskRec
           /\ op[p].agent \in Agents \cup {NoAgent}
           /\ op[p].todo \in SUBSET Tasks
<1>1. op[p] \in OpRec
  BY DEF OpsType
<1> QED
  BY <1>1, Zenon DEF OpRec, OpsType, Idle

-----------------------------------------------------------------------------
(* Type correctness                                                        *)

LEMMA InitType == Init => TypeOK
<1> SUFFICES ASSUME Init PROVE TypeOK
  OBVIOUS
<1>1. \A p \in Procs : Idle(p)
  BY DEF Init, Idle, IdleOp
<1> QED
  BY <1>1, BlankType, IdleType, ConstantsAssumption DEF Init, TypeOK

\* The steps of a client.
LEMMA ClientType ==
    ASSUME TypeOK, NEW c \in Clients, ClientStep(c)
    PROVE  TypeOK'
<1> USE DEF ghosts
<1>0. c \in Procs
  BY DEF Procs
<1>t. OpsType
  BY DEF TypeOK, OpsType
<1>f. /\ op[c].kind # "idle" => op[c].task \in Tasks
      /\ op[c].rec \in TaskRec
      /\ op[c].agent \in Agents \cup {NoAgent}
      /\ op[c].todo \in SUBSET Tasks
  BY <1>0, <1>t, OpFields
<1>p. ASSUME NEW t \in Tasks PROVE tasks[t] \in TaskRec
  BY DEF TypeOK
<1>1. CASE Publish(c)
  <2>1. OpsType'
    BY <1>0, <1>1, <1>t, FinishType DEF Publish
  <2>2. op[c].task \in Tasks
    BY <1>1, <1>f DEF Publish
  <2>3. tasks' \in [Tasks -> TaskRec]
    BY <1>1, <1>f, <2>2, Zenon DEF Publish, TypeOK
  <2>4. verdict' \in [Tasks -> {"sound", "stale", "overwrote"}]
    BY <1>1 DEF Publish, Verdict, TypeOK
  <2>5. misreleased' \subseteq Tasks
    BY <1>1, <2>2 DEF Publish, TypeOK
  <2> QED
    BY <1>1, <2>1, <2>3, <2>4, <2>5 DEF Publish, TypeOK, OpsType
<1>2. CASE PublishAssign(c)
  <2> DEFINE o == [op[c] EXCEPT !.kind = "assigned", !.locks = {}, !.graph = FALSE]
  <2>1. op[c].task \in Tasks /\ op[c] \in OpRec
    BY <1>0, <1>2, <1>f, <1>t DEF PublishAssign, OpsType
  <2>2. tasks' \in [Tasks -> TaskRec]
    BY <1>2, <1>f, <2>1, Zenon DEF PublishAssign, TypeOK
  <2>3. o \in OpRec /\ o.task \in Tasks
    BY <2>1, Zenon DEF OpRec, Kinds
  <2>5. op' = [op EXCEPT ![c] = o]
    BY <1>2 DEF PublishAssign
  <2> HIDE DEF o
  <2>4. OpsType'
    BY <1>0, <1>t, <2>3, <2>5, LaunchType
  <2> QED
    BY <1>2, <2>2, <2>4 DEF PublishAssign, TypeOK, OpsType
<1>3. CASE RollbackAssign(c)
  <2> DEFINE t == op[c].task
             previous == op[c].agent
             back == [tasks[t] EXCEPT !.assignee = NoAgent]
             again == [tasks[t] EXCEPT !.assignee = previous]
             o(r) == [IdleOp EXCEPT !.kind = "rollback", !.task = t, !.locks = {t},
                                    !.rec = r, !.graph = previous # NoAgent,
                                    !.agent = op[c].rec.assignee]
  <2>1. t \in Tasks /\ previous \in Agents \cup {NoAgent}
    BY <1>3, <1>f DEF RollbackAssign
  <2>2. tasks[t] \in TaskRec /\ op[c].rec.assignee \in Agents \cup {NoAgent}
    BY <2>1, <1>f, <1>p, Zenon DEF TaskRec
  <2>3. back \in TaskRec /\ again \in TaskRec
    BY <2>1, <2>2, Zenon DEF TaskRec
  <2>4. ASSUME NEW r \in TaskRec PROVE o(r) \in OpRec /\ o(r).task \in Tasks
    BY <2>1, <2>2, IdleType, Zenon DEF OpRec, Kinds
  <2>5. Rematched(back) \in TaskRec
    BY <2>3, RematchedType
  <2>6. op' = [op EXCEPT ![c] = o(Rematched(back))] \/ op' = [op EXCEPT ![c] = o(again)] \/ Finish(c)
    BY <1>3 DEF RollbackAssign
  <2> HIDE DEF o
  <2>7. OpsType'
    BY <1>0, <1>t, <2>3, <2>4, <2>5, <2>6, LaunchType, FinishType
  <2> QED
    BY <1>3, <2>7 DEF RollbackAssign, TypeOK, OpsType
<1>4. CASE RegisterAssign(c)
  <2>1. OpsType'
    BY <1>0, <1>4, <1>t, FinishType DEF RegisterAssign
  <2> QED
    BY <1>4, <2>1 DEF RegisterAssign, TypeOK, OpsType
<1>5. ASSUME NEW t \in Tasks, NEW D \in SUBSET (Tasks \ {t}), CreateTask(c, t, D)
      PROVE  TypeOK'
  <2>1. [Blank("pending") EXCEPT !.blockedBy = D] \in TaskRec
    BY BlankType, Zenon DEF TaskRec
  <2>2. tasks' \in [Tasks -> TaskRec]
    BY <1>5, <2>1, Zenon DEF CreateTask, TypeOK
  <2> QED
    BY <1>5, <2>2 DEF CreateTask, TypeOK, Idle
<1>6. ASSUME NEW t \in Tasks, NEW D \in SUBSET (Tasks \ {t}), UpdateBlockedBy(c, t, D)
      PROVE  TypeOK'
  <2> DEFINE r == [tasks[t] EXCEPT !.blockedBy = D]
             n == IF Matchable(r) THEN Rematched(r) ELSE r
             o == [IdleOp EXCEPT !.kind = "edit", !.task = t, !.rec = n,
                                 !.locks = D \cup {t}, !.graph = TRUE]
  <2>0. tasks[t] \in TaskRec
    BY <1>p
  <2>1. r \in TaskRec
    BY <2>0, Zenon DEF TaskRec
  <2>2. n \in TaskRec
    BY <2>1, RematchedType
  <2>3. o \in OpRec /\ o.task \in Tasks
    <3> HIDE DEF n
    <3> QED
      BY <2>2, IdleType, Zenon DEF OpRec, Kinds
  <2>4. OpsType'
    BY <1>0, <1>6, <1>t, <2>3, LaunchType DEF UpdateBlockedBy
  <2> QED
    BY <1>6, <2>4 DEF UpdateBlockedBy, TypeOK, OpsType
<1>7. ASSUME NEW t \in Tasks, NEW a \in Agents, CreateQueuedTask(c, t, a) PROVE TypeOK'
  <2>1. [Blank("pending") EXCEPT !.assignee = a] \in TaskRec
    BY BlankType, Zenon DEF TaskRec
  <2>2. tasks' \in [Tasks -> TaskRec]
    BY <1>7, <2>1, Zenon DEF CreateQueuedTask, TypeOK
  <2> QED
    BY <1>7, <2>2 DEF CreateQueuedTask, TypeOK, Idle
<1>8. ASSUME NEW t \in Tasks, NEW a \in Agents, AssignTask(c, t, a) PROVE TypeOK'
  <2> DEFINE r == [Blank("free") EXCEPT !.assignee = tasks[t].assignee]
             o == [IdleOp EXCEPT !.kind = "assigning", !.task = t, !.agent = a, !.rec = r]
  <2>0. tasks[t] \in TaskRec
    BY <1>p
  <2>1. r \in TaskRec
    BY <2>0, BlankType, Zenon DEF TaskRec
  <2>2. o \in OpRec /\ o.task \in Tasks
    BY <2>1, IdleType, Zenon DEF OpRec, Kinds
  <2>3. OpsType'
    BY <1>0, <1>8, <1>t, <2>2, LaunchType DEF AssignTask
  <2> QED
    BY <1>8, <2>3 DEF AssignTask, TypeOK, OpsType
<1>9. ASSUME NEW t \in Tasks, NEW C \in SUBSET Agents, SetTaskCandidates(c, t, C)
      PROVE  TypeOK'
  <2> DEFINE r == [tasks[t] EXCEPT !.candidate_members = C, !.matching_status = "matched"]
  <2>0. tasks[t] \in TaskRec
    BY <1>p
  <2>1. r \in TaskRec
    BY <2>0, Zenon DEF TaskRec
  <2>2. OpsType'
    BY <1>0, <1>9, <1>t, <2>1, StageType DEF SetTaskCandidates, Kinds
  <2> QED
    BY <1>9, <2>2 DEF SetTaskCandidates, TypeOK, OpsType
<1>10. ASSUME NEW t \in Tasks, UpdateTask(c, t) PROVE TypeOK'
  <2> DEFINE r == IF Matchable(tasks[t]) THEN Rematched(tasks[t]) ELSE tasks[t]
  <2>1. r \in TaskRec
    BY <1>p, RematchedType
  <2>2. OpsType'
    BY <1>0, <1>10, <1>t, <2>1, StageType DEF UpdateTask, Kinds
  <2> QED
    BY <1>10, <2>2 DEF UpdateTask, TypeOK, OpsType
<1>11. ASSUME NEW t \in Tasks, RequestRematch(c, t) PROVE TypeOK'
  <2>1. Rematched(tasks[t]) \in TaskRec
    BY <1>p, RematchedType
  <2>2. OpsType'
    BY <1>0, <1>11, <1>t, <2>1, StageType DEF RequestRematch, Kinds
  <2> QED
    BY <1>11, <2>2 DEF RequestRematch, TypeOK, OpsType
<1>12. ASSUME NEW t \in Tasks, UnassignTask(c, t) PROVE TypeOK'
  <2> DEFINE r == [tasks[t] EXCEPT !.assignee = NoAgent]
  <2>0. tasks[t] \in TaskRec
    BY <1>p
  <2>1. r \in TaskRec
    BY <2>0, Zenon DEF TaskRec
  <2>2. Rematched(r) \in TaskRec
    BY <2>1, RematchedType
  <2>3. OpsType'
    BY <1>0, <1>12, <1>t, <2>2, StageType DEF UnassignTask, Kinds
  <2> QED
    BY <1>12, <2>3 DEF UnassignTask, TypeOK, OpsType
<1>13. ASSUME NEW t \in Tasks, ReleaseTask(c, t) PROVE TypeOK'
  <2> DEFINE o == [IdleOp EXCEPT !.kind = "look", !.task = t, !.rec = tasks[t],
                                 !.agent = tasks[t].owner]
  <2>1. tasks[t] \in TaskRec /\ tasks[t].owner \in Agents \cup {NoAgent}
    BY <1>p, Zenon DEF TaskRec
  <2>2. o \in OpRec /\ o.task \in Tasks
    BY <2>1, IdleType, Zenon DEF OpRec, Kinds
  <2>3. OpsType'
    BY <1>0, <1>13, <1>t, <2>2, LaunchType DEF ReleaseTask
  <2> QED
    BY <1>13, <2>3 DEF ReleaseTask, TypeOK, OpsType
<1>14. ASSUME NEW t \in Tasks, DeleteTask(c, t) PROVE TypeOK'
  <2> DEFINE o == [IdleOp EXCEPT !.kind = "delete", !.task = t, !.rec = Blank("deleted"),
                                 !.locks = {t}, !.graph = TRUE]
  <2>1. Blank("deleted") \in TaskRec
    BY BlankType
  <2>2. o \in OpRec /\ o.task \in Tasks
    BY <2>1, IdleType, Zenon DEF OpRec, Kinds
  <2>3. OpsType'
    BY <1>0, <1>14, <1>t, <2>2, LaunchType DEF DeleteTask
  <2> QED
    BY <1>14, <2>3 DEF DeleteTask, TypeOK, OpsType
<1>15. CASE ReserveTask(c)
  <2> DEFINE t == op[c].task
             a == op[c].agent
             r == [tasks[t] EXCEPT !.assignee = a]
             o == [IdleOp EXCEPT !.kind = "assign", !.task = t, !.locks = {t}, !.rec = r,
                                 !.graph = TRUE, !.agent = op[c].rec.assignee]
  <2>1. t \in Tasks /\ op[c].rec.assignee \in Agents \cup {NoAgent}
    BY <1>15, <1>f, Zenon DEF ReserveTask, TaskRec
  <2>2. tasks[t] \in TaskRec /\ a \in Agents \cup {NoAgent}
    BY <1>f, <1>p, <2>1
  <2>3. r \in TaskRec
    BY <2>2, Zenon DEF TaskRec
  <2>4. o \in OpRec /\ o.task \in Tasks
    BY <2>1, <2>3, IdleType, Zenon DEF OpRec, Kinds
  <2>5. op' = [op EXCEPT ![c] = o] \/ Finish(c)
    BY <1>15 DEF ReserveTask
  <2>6. OpsType'
    BY <1>0, <1>t, <2>4, <2>5, LaunchType, FinishType
  <2> QED
    BY <1>15, <2>6 DEF ReserveTask, TypeOK, OpsType
<1>16. CASE ListTasks(c)
  <2>1. OpsType'
    BY <1>0, <1>16, <1>t, KindType DEF ListTasks, Kinds, Idle
  <2> QED
    BY <1>16, <2>1 DEF ListTasks, TypeOK, OpsType
<1>17. CASE LookOnline(c)
  <2>1. OpsType'
    BY <1>0, <1>17, <1>t, KindType, FinishType DEF LookOnline, Kinds, Idle
  <2> QED
    BY <1>17, <2>1 DEF LookOnline, TypeOK, OpsType
<1>18. CASE CompareRelease(c)
  <2> DEFINE t == op[c].task
             r == [tasks[t] EXCEPT !.status = "pending", !.owner = NoAgent, !.assignee = NoAgent]
             o == [op[c] EXCEPT !.kind = "release", !.locks = {t}, !.rec = Rematched(r)]
  <2>1. t \in Tasks /\ op[c] \in OpRec
    BY <1>0, <1>18, <1>f, <1>t DEF CompareRelease, OpsType
  <2>2. tasks[t] \in TaskRec
    BY <1>p, <2>1
  <2>3. r \in TaskRec
    BY <2>2, Zenon DEF TaskRec
  <2>4. Rematched(r) \in TaskRec
    BY <2>3, RematchedType
  <2> HIDE DEF r
  <2>5. o \in OpRec /\ o.task \in Tasks
    BY <2>1, <2>4, Zenon DEF OpRec, Kinds
  <2>6. op' = [op EXCEPT ![c] = o] \/ Finish(c)
    BY <1>18 DEF CompareRelease, r
  <2>7. OpsType'
    BY <1>0, <1>t, <2>5, <2>6, LaunchType, FinishType
  <2> QED
    BY <1>18, <2>7 DEF CompareRelease, TypeOK, OpsType
<1> QED
  BY <1>1, <1>2, <1>3, <1>4, <1>5, <1>6, <1>7, <1>8, <1>9, <1>10, <1>11, <1>12, <1>13, <1>14,
     <1>15, <1>16, <1>17, <1>18
  DEF ClientStep

\* The steps of a worker.
LEMMA WorkerType ==
    ASSUME TypeOK, NEW a \in Agents, WorkerStep(a)
    PROVE  TypeOK'
<1> USE DEF ghosts
<1>0. a \in Procs
  BY DEF Procs
<1>t. OpsType
  BY DEF TypeOK, OpsType
<1>f. /\ op[a].kind # "idle" => op[a].task \in Tasks
      /\ op[a].rec \in TaskRec
      /\ op[a].todo \in SUBSET Tasks
  BY <1>0, <1>t, OpFields
<1>p. ASSUME NEW t \in Tasks PROVE tasks[t] \in TaskRec
  BY DEF TypeOK
<1>w. work[a] \in Tasks \cup {NoTask}
  BY DEF TypeOK
<1>i. ASSUME NEW t \in Tasks PROVE InterruptedRec(a, tasks[t]) \in TaskRec
  <2>1. tasks[t] \in TaskRec
    BY <1>p
  <2> QED
    BY <2>1, Zenon DEF InterruptedRec, TaskRec
<1>1. CASE PublishClaim(a)
  <2> DEFINE o == [IdleOp EXCEPT !.kind = "register", !.task = op[a].task]
  <2>1. op[a].task \in Tasks
    BY <1>1, <1>f DEF PublishClaim
  <2>2. tasks' \in [Tasks -> TaskRec]
    BY <1>1, <1>f, <2>1, Zenon DEF PublishClaim, TypeOK
  <2>3. o \in OpRec /\ o.task \in Tasks
    BY <2>1, IdleType, Zenon DEF OpRec, Kinds
  <2>4. OpsType'
    BY <1>0, <1>1, <1>t, <2>3, LaunchType DEF PublishClaim
  <2> QED
    BY <1>1, <2>2, <2>4 DEF PublishClaim, TypeOK, OpsType
<1>2. CASE RegisterClaim(a)
  <2>1. op[a].task \in Tasks
    BY <1>2, <1>f DEF RegisterClaim
  <2>2. OpsType'
    BY <1>0, <1>2, <1>t, FinishType DEF RegisterClaim
  <2>3. work' \in [Agents -> Tasks \cup {NoTask}]
    BY <1>2, <2>1, Zenon DEF RegisterClaim, TypeOK
  <2> QED
    BY <1>2, <2>2, <2>3 DEF RegisterClaim, TypeOK, OpsType
<1>3. CASE RejectClaim(a)
  <2>1. op[a].task \in Tasks
    BY <1>3, <1>f DEF RejectClaim
  <2>2. OpsType'
    BY <1>0, <1>3, <1>t, <1>i, <2>1, FinishType, StageType DEF RejectClaim, Kinds
  <2> QED
    BY <1>3, <2>2 DEF RejectClaim, TypeOK, OpsType
<1>4. CASE StopWorker(a)
  <2>0. thread' \in [Agents -> {"none", "live", "stopping"}]
    BY <1>4 DEF StopWorker, TypeOK
  <2>1. CASE LetGo(a) /\ UNCHANGED op
    BY <1>4, <2>0, <2>1, Zenon DEF StopWorker, LetGo, TypeOK, Idle
  <2>2. CASE /\ work[a] # NoTask
             /\ StageUnlocked(a, "interrupt", work[a], InterruptedRec(a, tasks[work[a]]))
             /\ UNCHANGED work
    <3>1. OpsType'
      BY <1>0, <1>t, <1>w, <1>i, <2>2, StageType DEF Kinds
    <3> QED
      BY <1>4, <2>0, <2>2, <3>1 DEF StopWorker, TypeOK, OpsType
  <2> QED
    BY <1>4, <2>1, <2>2 DEF StopWorker
<1>5. CASE NoteIntervention(a)
  <2>1. OpsType'
    BY <1>0, <1>5, <1>t, <1>w, <1>p, StageType DEF NoteIntervention, Kinds
  <2> QED
    BY <1>5, <2>1 DEF NoteIntervention, TypeOK, OpsType
<1>6. CASE PublishOwn(a)
  <2>1. op[a].task \in Tasks
    BY <1>6, <1>f DEF PublishOwn
  <2>2. tasks' \in [Tasks -> TaskRec]
    BY <1>6, <1>f, <2>1, Zenon DEF PublishOwn, TypeOK
  <2>3. OpsType'
    BY <1>0, <1>6, <1>t, FinishType DEF PublishOwn
  <2>4. work' \in [Agents -> Tasks \cup {NoTask}]
    BY <1>6, Zenon DEF PublishOwn, LetGo, TypeOK
  <2> QED
    BY <1>6, <2>2, <2>3, <2>4 DEF PublishOwn, TypeOK, OpsType
<1>7. CASE PublishComplete(a)
  <2> DEFINE o == [IdleOp EXCEPT !.kind = "scan", !.task = op[a].task]
  <2>1. op[a].task \in Tasks
    BY <1>7, <1>f DEF PublishComplete
  <2>2. tasks' \in [Tasks -> TaskRec]
    BY <1>7, <1>f, <2>1, Zenon DEF PublishComplete, TypeOK
  <2>3. o \in OpRec /\ o.task \in Tasks
    BY <2>1, IdleType, Zenon DEF OpRec, Kinds
  <2>4. OpsType'
    BY <1>0, <1>7, <1>t, <2>3, LaunchType DEF PublishComplete
  <2> QED
    BY <1>7, <2>2, <2>4 DEF PublishComplete, TypeOK, OpsType
<1>8. CASE ScanUnblocked(a)
  <2> DEFINE S == {s \in Stored : /\ tasks[s].status = "pending"
                                  /\ op[a].task \in tasks[s].blockedBy
                                  /\ Ready(s)}
             o == [op[a] EXCEPT !.kind = "unblock", !.todo = S]
  <2>1. S \in SUBSET Tasks
    BY DEF Stored
  <2>2. op[a] \in OpRec /\ op[a].task \in Tasks
    BY <1>0, <1>8, <1>t, <1>f DEF OpsType, ScanUnblocked
  <2>3. o \in OpRec /\ o.task \in Tasks
    <3> HIDE DEF S
    <3> QED
      BY <2>1, <2>2, Zenon DEF OpRec, Kinds
  <2>4. op' = [op EXCEPT ![a] = o]
    BY <1>8 DEF ScanUnblocked
  <2>5. OpsType'
    BY <1>0, <1>t, <2>3, <2>4, LaunchType
  <2> QED
    BY <1>8, <2>5 DEF ScanUnblocked, TypeOK, OpsType
<1>9. CASE CompleteDone(a)
  <2>1. OpsType'
    BY <1>0, <1>9, <1>t, FinishType DEF CompleteDone
  <2>2. work' \in [Agents -> Tasks \cup {NoTask}]
    BY <1>9 DEF CompleteDone, TypeOK
  <2> QED
    BY <1>9, <2>1, <2>2 DEF CompleteDone, TypeOK, OpsType
<1>10. ASSUME NEW t \in Tasks, ClaimTask(a, t) PROVE TypeOK'
  <2> DEFINE r == [tasks[t] EXCEPT !.owner = a, !.status = "in_progress"]
  <2>0. tasks[t] \in TaskRec
    BY <1>p
  <2>1. r \in TaskRec
    BY <2>0, Zenon DEF TaskRec
  <2>2. OpsType'
    BY <1>0, <1>10, <1>t, <2>1, StageType DEF ClaimTask, Kinds
  <2> QED
    BY <1>10, <2>2 DEF ClaimTask, TypeOK, OpsType
<1>11. ASSUME NEW t \in Tasks, ReportMismatch(a, t) PROVE TypeOK'
  <2> DEFINE r == [tasks[t] EXCEPT !.status = "pending", !.owner = NoAgent,
                                   !.assignee = NoAgent,
                                   !.matching_status = "rematch_required"]
  <2>0. tasks[t] \in TaskRec
    BY <1>p
  <2>1. r \in TaskRec
    BY <2>0, Zenon DEF TaskRec
  <2>2. Rematched(r) \in TaskRec
    BY <2>1, RematchedType
  <2>3. OpsType'
    BY <1>0, <1>11, <1>t, <2>2, StageType DEF ReportMismatch, Kinds
  <2> QED
    BY <1>11, <2>3 DEF ReportMismatch, TypeOK, OpsType
<1>12. ASSUME NEW t \in Tasks, CompleteTask(a, t) PROVE TypeOK'
  <2> DEFINE r == [tasks[t] EXCEPT !.status = "completed"]
  <2>0. tasks[t] \in TaskRec
    BY <1>p
  <2>1. r \in TaskRec
    BY <2>0, Zenon DEF TaskRec
  <2>2. OpsType'
    BY <1>0, <1>12, <1>t, <2>1, StageType DEF CompleteTask, Kinds
  <2> QED
    BY <1>12, <2>2 DEF CompleteTask, TypeOK, OpsType
<1>13. ASSUME NEW s \in Tasks, UnblockOne(a, s) PROVE TypeOK'
  <2> DEFINE o == [op[a] EXCEPT !.todo = @ \ {s}]
  <2>1. tasks' = [tasks EXCEPT ![s] = Rematched(tasks[s])] \/ tasks' = tasks
    BY <1>13 DEF UnblockOne
  <2>2. Rematched(tasks[s]) \in TaskRec
    BY <1>p, RematchedType
  <2>3. tasks' \in [Tasks -> TaskRec]
    BY <2>1, <2>2, Zenon DEF TypeOK
  <2>4. op[a] \in OpRec /\ op[a].task \in Tasks
    BY <1>0, <1>13, <1>t, <1>f DEF OpsType, UnblockOne
  <2>5. o \in OpRec /\ o.task \in Tasks
    BY <2>4, Zenon DEF OpRec
  <2>6. op' = [op EXCEPT ![a] = o]
    BY <1>13 DEF UnblockOne
  <2>7. OpsType'
    BY <1>0, <1>t, <2>5, <2>6, LaunchType
  <2> QED
    BY <1>13, <2>3, <2>7 DEF UnblockOne, TypeOK, OpsType
<1>14. CASE StartWorker(a)
  <2>1. overtaken' \subseteq Tasks
    BY <1>14 DEF StartWorker, ReleasesOf, Releasing, TypeOK, Idle
  <2> QED
    BY <1>14, <2>1 DEF StartWorker, TypeOK, Idle
<1>15. CASE AskToStop(a) \/ LeaveTeam(a)
  BY <1>15 DEF AskToStop, LeaveTeam, TypeOK, Idle
<1> QED
  BY <1>1, <1>2, <1>3, <1>4, <1>5, <1>6, <1>7, <1>8, <1>9, <1>10, <1>11, <1>12, <1>13, <1>14,
     <1>15
  DEF WorkerStep

LEMMA NextType ==
    ASSUME TypeOK, [Next]_vars
    PROVE  TypeOK'
<1>1. CASE \E c \in Clients : ClientStep(c)
  BY <1>1, ClientType
<1>2. CASE \E a \in Agents : WorkerStep(a)
  BY <1>2, WorkerType
<1>3. ASSUME NEW t \in Tasks, LeadReads(t) PROVE TypeOK'
  <2>1. tasks[t].matching_revision \in Nat
    BY Zenon DEF TypeOK, TaskRec
  <2>2. Ready(t) \in BOOLEAN
    BY DEF Ready
  <2>3. ctx' \in [Tasks -> [rev: Nat, ready: BOOLEAN]]
    BY <1>3, <2>1, <2>2 DEF LeadReads, TypeOK
  <2> QED
    BY <1>3, <2>3 DEF LeadReads, TypeOK, ghosts, Idle
<1>4. CASE Crash
  <2>1. crashes' \in Nat
    BY <1>4 DEF Crash, TypeOK
  <2>2. op' \in [Procs -> OpRec] /\ \A p \in Procs : op'[p].kind = "idle"
    BY <1>4, IdleType DEF Crash, IdleOp
  <2>3. torn' \subseteq Tasks
    BY <1>4 DEF Crash, TypeOK, Idle, Procs
  <2> QED
    BY <1>4, <2>1, <2>2, <2>3 DEF Crash, TypeOK, Idle
<1>5. CASE UNCHANGED vars
  BY <1>5 DEF vars, ghosts, TypeOK, Idle
<1> QED
  BY <1>1, <1>2, <1>3, <1>4, <1>5 DEF Next

\* The types of the store, the operations in flight and the registry.
THEOREM TypeCorrect == Spec => []TypeOK
<1>1. Init => TypeOK
  BY InitType
<1>2. TypeOK /\ [Next]_vars => TypeOK'
  BY NextType
<1> QED
  BY <1>1, <1>2, PTL DEF Spec

-----------------------------------------------------------------------------
(* One running task per owner.  A claim scans the other tasks and locks    *)
(* none; what makes it safe is that no thread but the worker itself ever   *)
(* writes a running record of that worker.                                 *)

Holds(a, t) == Owns(a, t) \/ (op[a].kind \in {"claim", "note"} /\ op[a].task = t)
HoldsOne == \A a \in Agents, s, t \in Tasks : Holds(a, s) /\ Holds(a, t) => s = t
Looking == {"look", "shown", "checked"}
OwnWrite(p, o) ==
    \/ p \in Clients /\ o.kind \in Looking
    \/ p \in Agents /\ o.kind \in {"claim", "note"} /\ o.rec.owner = p
WritesOwn == \A p \in Procs : op[p].rec.status = "in_progress" => OwnWrite(p, op[p])
\* The worker's task, if it runs, is its own: needed where a note is staged.
NotesOwn == \A a \in Agents : Idle(a) /\ work[a] \in Tasks /\ Running(work[a]) => Owns(a, work[a])
OwnerInv == TypeOK /\ HoldsOne /\ WritesOwn

LEMMA InitOwner == Init => OwnerInv
<1> SUFFICES ASSUME Init PROVE OwnerInv
  OBVIOUS
<1>1. HoldsOne
  BY DEF Init, HoldsOne, Holds, Owns, Running, Blank, IdleOp, Procs
<1>2. WritesOwn
  BY DEF Init, WritesOwn, IdleOp, Blank
<1> QED
  BY <1>1, <1>2, InitType DEF OwnerInv

\* p goes on to an operation that does not write a running record.
LEMMA LaunchOwner ==
    ASSUME OwnerInv, NEW p \in Procs, NEW o, op' = [op EXCEPT ![p] = o], tasks' = tasks,
           o.rec.status = "in_progress" => p \in Clients /\ o.kind \in Looking,
           o.kind \notin {"claim", "note"}
    PROVE  HoldsOne' /\ WritesOwn'
<1>1. /\ op'[p] = o
      /\ \A q \in Procs \ {p} : op'[q] = op[q]
  BY DEF OwnerInv, TypeOK
<1>2. ASSUME NEW q \in Procs, op'[q].rec.status = "in_progress" PROVE OwnWrite(q, op'[q])
  <2>1. CASE q = p
    BY <1>1, <1>2, <2>1 DEF OwnWrite
  <2>2. CASE q # p
    BY <1>1, <1>2, <2>2, Zenon DEF OwnerInv, WritesOwn
  <2> QED
    BY <2>1, <2>2
<1>3. ASSUME NEW a \in Agents, NEW s \in Tasks, Holds(a, s)' PROVE Holds(a, s)
  BY <1>1, <1>3, Zenon DEF Holds, Owns, Running, Procs
<1> QED
  BY <1>2, <1>3 DEF HoldsOne, WritesOwn, OwnerInv

\* p writes a record, a running one only of the task it holds, and goes on.
LEMMA WriteOwner ==
    ASSUME OwnerInv, NEW p \in Procs, NEW o, op' = [op EXCEPT ![p] = o],
           NEW t \in Tasks, NEW r, tasks' = [tasks EXCEPT ![t] = r],
           r.status = "in_progress" => p \in Agents /\ r.owner = p /\ Holds(p, t),
           o.rec.status # "in_progress", o.kind \notin {"claim", "note"}
    PROVE  HoldsOne' /\ WritesOwn'
<1>1. WritesOwn'
  BY Zenon DEF OwnerInv, TypeOK, WritesOwn
<1>2. ASSUME NEW a \in Agents, NEW s \in Tasks, Holds(a, s)' PROVE Holds(a, s)
  <2>1. a \in Procs
    BY DEF Procs
  <2>2. CASE s = t
    BY <1>2, <2>1, <2>2, SMT DEF OwnerInv, TypeOK, Holds, Owns, Running
  <2>3. CASE s # t
    BY <1>2, <2>1, <2>3, SMT DEF OwnerInv, TypeOK, Holds, Owns, Running
  <2> QED
    BY <2>2, <2>3
<1> QED
  BY <1>1, <1>2 DEF HoldsOne, OwnerInv

\* A record that is not running is written while the operations stay.
LEMMA CreateOwner ==
    ASSUME OwnerInv, op' = op, NEW t \in Tasks, NEW r, tasks' = [tasks EXCEPT ![t] = r],
           r.status # "in_progress"
    PROVE  HoldsOne' /\ WritesOwn'
<1>1. WritesOwn'
  BY Zenon DEF OwnerInv, WritesOwn
<1>2. ASSUME NEW a \in Agents, NEW s \in Tasks, Holds(a, s)' PROVE Holds(a, s)
  <2>1. a \in Procs
    BY DEF Procs
  <2>2. CASE s = t
    BY <1>2, <2>1, <2>2, SMT DEF OwnerInv, TypeOK, Holds, Owns, Running
  <2>3. CASE s # t
    BY <1>2, <2>1, <2>3, SMT DEF OwnerInv, TypeOK, Holds, Owns, Running
  <2> QED
    BY <2>2, <2>3
<1> QED
  BY <1>1, <1>2 DEF HoldsOne, OwnerInv

LEMMA IdleNotRunning == IdleOp.rec.status # "in_progress" /\ IdleOp.kind = "idle"
BY DEF IdleOp, Blank

LEMMA FinishOwner ==
    ASSUME OwnerInv, NEW p \in Procs, Finish(p), tasks' = tasks
    PROVE  HoldsOne' /\ WritesOwn'
BY LaunchOwner, IdleNotRunning DEF Finish

LEMMA StageOwner ==
    ASSUME OwnerInv, NEW p \in Procs, NEW kind, NEW t, NEW r, tasks' = tasks,
           Stage(p, kind, t, r) \/ StageUnlocked(p, kind, t, r),
           kind \notin {"claim", "note"}, r.status # "in_progress"
    PROVE  HoldsOne' /\ WritesOwn'
<1> DEFINE o == [IdleOp EXCEPT !.kind = kind, !.task = t, !.rec = r]
           l == [IdleOp EXCEPT !.kind = kind, !.task = t, !.rec = r, !.locks = {t}]
<1>1. /\ o.rec.status # "in_progress" /\ o.kind \notin {"claim", "note"}
      /\ l.rec.status # "in_progress" /\ l.kind \notin {"claim", "note"}
  BY DEF IdleOp
<1>2. op' = [op EXCEPT ![p] = l] \/ op' = [op EXCEPT ![p] = o]
  BY DEF Stage, StageUnlocked
<1> HIDE DEF o, l
<1> QED
  BY <1>1, <1>2, LaunchOwner

LEMMA RematchedStatus ==
    ASSUME NEW r \in TaskRec
    PROVE  Rematched(r).status = r.status
BY DEF Rematched, TaskRec

\* The steps of a client.
LEMMA ClientOwner ==
    ASSUME OwnerInv, NEW c \in Clients, ClientStep(c)
    PROVE  HoldsOne' /\ WritesOwn'
<1> USE DEF ghosts
<1>0. c \in Procs /\ c \notin Agents
  BY ConstantsAssumption DEF Procs
<1>t. TypeOK /\ OpsType
  BY DEF OwnerInv, TypeOK, OpsType
<1>f. op[c].kind # "idle" => op[c].task \in Tasks
  BY <1>0, <1>t, OpFields
<1>r. op[c].kind \notin Looking => op[c].rec.status # "in_progress"
  BY <1>0 DEF OwnerInv, WritesOwn, OwnWrite
<1>p. ASSUME NEW t \in Tasks PROVE tasks[t] \in TaskRec
  BY <1>t DEF TypeOK
<1>1. CASE Publish(c)
  <2>1. op[c].task \in Tasks /\ op[c].kind \notin Looking
    BY <1>1, <1>f DEF Publish, Looking
  <2> QED
    BY <1>0, <1>1, <1>r, <2>1, WriteOwner, IdleNotRunning DEF Publish, Finish
<1>2. CASE PublishAssign(c)
  <2> DEFINE o == [op[c] EXCEPT !.kind = "assigned", !.locks = {}, !.graph = FALSE]
  <2>1. op[c].task \in Tasks /\ op[c] \in OpRec /\ op[c].kind \notin Looking
    BY <1>0, <1>2, <1>f, <1>t DEF PublishAssign, OpsType, Looking
  <2>2. o.rec = op[c].rec /\ o.kind = "assigned"
    BY <2>1 DEF OpRec
  <2>3. op' = [op EXCEPT ![c] = o] /\ tasks' = [tasks EXCEPT ![op[c].task] = op[c].rec]
    BY <1>2 DEF PublishAssign
  <2> HIDE DEF o
  <2> QED
    BY <1>0, <1>r, <2>1, <2>2, <2>3, WriteOwner
<1>3. CASE RollbackAssign(c)
  <2> DEFINE t == op[c].task
             previous == op[c].agent
             back == [tasks[t] EXCEPT !.assignee = NoAgent]
             again == [tasks[t] EXCEPT !.assignee = previous]
             o(r) == [IdleOp EXCEPT !.kind = "rollback", !.task = t, !.locks = {t},
                                    !.rec = r, !.graph = previous # NoAgent,
                                    !.agent = op[c].rec.assignee]
  <2>1. t \in Tasks /\ tasks' = tasks
    BY <1>3, <1>f DEF RollbackAssign
  <2>2. tasks[t] \in TaskRec
    BY <2>1, <1>p
  <2>3. \/ Finish(c)
        \/ /\ Unclaimed(tasks[t])
           /\ op' = [op EXCEPT ![c] = o(Rematched(back))] \/ op' = [op EXCEPT ![c] = o(again)]
    BY <1>3 DEF RollbackAssign, Assignable
  <2>4. CASE Unclaimed(tasks[t])
    <3>1. back \in TaskRec
      BY <2>2, Zenon DEF TaskRec
    <3>2. back.status = "pending" /\ again.status = "pending"
      BY <2>2, <2>4 DEF TaskRec, Unclaimed
    <3>3. Rematched(back).status # "in_progress"
      BY <3>1, <3>2, RematchedStatus
    <3>4. ASSUME NEW r, r.status # "in_progress", op' = [op EXCEPT ![c] = o(r)]
          PROVE  HoldsOne' /\ WritesOwn'
      <4>1. o(r).rec = r /\ o(r).kind = "rollback"
        BY DEF IdleOp
      <4> HIDE DEF o
      <4> QED
        BY <1>0, <2>1, <3>4, <4>1, LaunchOwner DEF Looking
    <3> HIDE DEF o, back, again
    <3>5. CASE op' = [op EXCEPT ![c] = o(Rematched(back))]
      BY <3>3, <3>4, <3>5
    <3>6. CASE op' = [op EXCEPT ![c] = o(again)]
      BY <3>2, <3>4, <3>6
    <3>7. CASE Finish(c)
      BY <1>0, <2>1, <3>7, FinishOwner
    <3> QED
      BY <2>3, <3>5, <3>6, <3>7
  <2>5. CASE Finish(c)
    BY <1>0, <2>1, <2>5, FinishOwner
  <2> QED
    BY <2>3, <2>4, <2>5
<1>4. CASE RegisterAssign(c)
  BY <1>0, <1>4, FinishOwner DEF RegisterAssign
<1>5. ASSUME NEW t \in Tasks, NEW D \in SUBSET (Tasks \ {t}), CreateTask(c, t, D)
      PROVE  HoldsOne' /\ WritesOwn'
  <2>1. [Blank("pending") EXCEPT !.blockedBy = D].status # "in_progress"
    BY DEF Blank
  <2> QED
    BY <1>5, <2>1, CreateOwner DEF CreateTask
<1>6. ASSUME NEW t \in Tasks, NEW D \in SUBSET (Tasks \ {t}), UpdateBlockedBy(c, t, D)
      PROVE  HoldsOne' /\ WritesOwn'
  <2> DEFINE r == [tasks[t] EXCEPT !.blockedBy = D]
             n == IF Matchable(r) THEN Rematched(r) ELSE r
             o == [IdleOp EXCEPT !.kind = "edit", !.task = t, !.rec = n,
                                 !.locks = D \cup {t}, !.graph = TRUE]
  <2>0. tasks[t] \in TaskRec
    BY <1>p
  <2>1. r \in TaskRec
    BY <2>0, Zenon DEF TaskRec
  <2>2. r.status = "pending"
    BY <2>0, <1>6 DEF TaskRec, UpdateBlockedBy, Unclaimed
  <2>3. n.status # "in_progress"
    BY <2>1, <2>2, RematchedStatus
  <2>4. o.rec.status # "in_progress" /\ o.kind \notin {"claim", "note"}
    <3> HIDE DEF n
    <3> QED
      BY <2>3 DEF IdleOp
  <2>5. op' = [op EXCEPT ![c] = o] /\ tasks' = tasks
    BY <1>6 DEF UpdateBlockedBy
  <2> HIDE DEF o
  <2> QED
    BY <1>0, <2>4, <2>5, LaunchOwner
<1>7. ASSUME NEW t \in Tasks, NEW a \in Agents, CreateQueuedTask(c, t, a)
      PROVE  HoldsOne' /\ WritesOwn'
  <2>1. [Blank("pending") EXCEPT !.assignee = a].status # "in_progress"
    BY DEF Blank
  <2> QED
    BY <1>7, <2>1, CreateOwner DEF CreateQueuedTask
<1>8. ASSUME NEW t \in Tasks, NEW a \in Agents, AssignTask(c, t, a)
      PROVE  HoldsOne' /\ WritesOwn'
  <2> DEFINE r == [Blank("free") EXCEPT !.assignee = tasks[t].assignee]
             o == [IdleOp EXCEPT !.kind = "assigning", !.task = t, !.agent = a, !.rec = r]
  <2>1. o.rec.status # "in_progress" /\ o.kind \notin {"claim", "note"}
    BY DEF IdleOp, Blank
  <2>2. op' = [op EXCEPT ![c] = o] /\ tasks' = tasks
    BY <1>8 DEF AssignTask
  <2> HIDE DEF o
  <2> QED
    BY <1>0, <2>1, <2>2, LaunchOwner
<1>9. ASSUME NEW t \in Tasks, NEW C \in SUBSET Agents, SetTaskCandidates(c, t, C)
      PROVE  HoldsOne' /\ WritesOwn'
  <2> DEFINE r == [tasks[t] EXCEPT !.candidate_members = C, !.matching_status = "matched"]
  <2>1. tasks[t] \in TaskRec
    BY <1>p
  <2>2. r.status # "in_progress"
    BY <1>9, <2>1 DEF TaskRec, SetTaskCandidates, Matchable, Unclaimed
  <2>3. Stage(c, "match", t, r) /\ tasks' = tasks
    BY <1>9 DEF SetTaskCandidates
  <2> HIDE DEF r
  <2> QED
    BY <1>0, <2>2, <2>3, StageOwner
<1>10. ASSUME NEW t \in Tasks, UpdateTask(c, t) PROVE HoldsOne' /\ WritesOwn'
  <2> DEFINE r == IF Matchable(tasks[t]) THEN Rematched(tasks[t]) ELSE tasks[t]
  <2>1. r.status # "in_progress"
    BY <1>10, <1>p, RematchedStatus DEF UpdateTask, Unclaimed
  <2> QED
    BY <1>0, <1>10, <2>1, StageOwner DEF UpdateTask
<1>11. ASSUME NEW t \in Tasks, RequestRematch(c, t) PROVE HoldsOne' /\ WritesOwn'
  <2>1. Rematched(tasks[t]).status # "in_progress"
    BY <1>11, <1>p, RematchedStatus DEF RequestRematch, Matchable, Unclaimed
  <2> QED
    BY <1>0, <1>11, <2>1, StageOwner DEF RequestRematch
<1>12. ASSUME NEW t \in Tasks, UnassignTask(c, t) PROVE HoldsOne' /\ WritesOwn'
  <2> DEFINE r == [tasks[t] EXCEPT !.assignee = NoAgent]
  <2>0. tasks[t] \in TaskRec
    BY <1>p
  <2>1. r \in TaskRec
    BY <2>0, Zenon DEF TaskRec
  <2>2. r.status = "pending"
    BY <2>0, <1>12 DEF TaskRec, UnassignTask, Unclaimed
  <2>3. Rematched(r).status # "in_progress"
    BY <2>1, <2>2, RematchedStatus
  <2> QED
    BY <1>0, <1>12, <2>3, StageOwner DEF UnassignTask
<1>13. ASSUME NEW t \in Tasks, ReleaseTask(c, t) PROVE HoldsOne' /\ WritesOwn'
  <2> DEFINE o == [IdleOp EXCEPT !.kind = "look", !.task = t, !.rec = tasks[t],
                                 !.agent = tasks[t].owner]
  <2>1. o.kind = "look"
    BY DEF IdleOp
  <2>2. op' = [op EXCEPT ![c] = o] /\ tasks' = tasks
    BY <1>13 DEF ReleaseTask
  <2> HIDE DEF o
  <2> QED
    BY <1>0, <2>1, <2>2, LaunchOwner DEF Looking
<1>14. ASSUME NEW t \in Tasks, DeleteTask(c, t) PROVE HoldsOne' /\ WritesOwn'
  <2> DEFINE o == [IdleOp EXCEPT !.kind = "delete", !.task = t, !.rec = Blank("deleted"),
                                 !.locks = {t}, !.graph = TRUE]
  <2>1. o.rec.status # "in_progress" /\ o.kind \notin {"claim", "note"}
    BY DEF IdleOp, Blank
  <2>2. op' = [op EXCEPT ![c] = o] /\ tasks' = tasks
    BY <1>14 DEF DeleteTask
  <2> HIDE DEF o
  <2> QED
    BY <1>0, <2>1, <2>2, LaunchOwner
<1>15. CASE ReserveTask(c)
  <2> DEFINE t == op[c].task
             r == [tasks[t] EXCEPT !.assignee = op[c].agent]
             o == [IdleOp EXCEPT !.kind = "assign", !.task = t, !.locks = {t}, !.rec = r,
                                 !.graph = TRUE, !.agent = op[c].rec.assignee]
  <2>1. t \in Tasks /\ tasks' = tasks
    BY <1>15, <1>f DEF ReserveTask
  <2>2. Finish(c) \/ (Unclaimed(tasks[t]) /\ op' = [op EXCEPT ![c] = o])
    BY <1>15 DEF ReserveTask, Assignable
  <2>3. Unclaimed(tasks[t]) => r.status = "pending"
    BY <1>p, <2>1 DEF TaskRec, Unclaimed
  <2>4. o.rec = r /\ o.kind = "assign"
    BY DEF IdleOp
  <2> HIDE DEF o
  <2> QED
    BY <1>0, <2>1, <2>2, <2>3, <2>4, LaunchOwner, FinishOwner
<1>16. ASSUME NEW kind \in Looking, op[c].kind \in Looking, op' = [op EXCEPT ![c].kind = kind],
              tasks' = tasks
       PROVE  HoldsOne' /\ WritesOwn'
  <2> DEFINE o == [op[c] EXCEPT !.kind = kind]
  <2>1. op[c] \in OpRec
    BY <1>0, <1>t DEF OpsType
  <2>2. o.kind = kind /\ op' = [op EXCEPT ![c] = o]
    BY <1>16, <2>1 DEF OpRec
  <2> HIDE DEF o
  <2> QED
    BY <1>0, <1>16, <2>2, LaunchOwner DEF Looking
<1>17. CASE ListTasks(c)
  BY <1>16, <1>17 DEF ListTasks, Looking
<1>18. CASE LookOnline(c)
  BY <1>0, <1>16, <1>18, FinishOwner DEF LookOnline, Looking
<1>19. CASE CompareRelease(c)
  <2> DEFINE t == op[c].task
             r == [tasks[t] EXCEPT !.status = "pending", !.owner = NoAgent, !.assignee = NoAgent]
             o == [op[c] EXCEPT !.kind = "release", !.locks = {t}, !.rec = Rematched(r)]
  <2>1. t \in Tasks /\ op[c] \in OpRec /\ tasks' = tasks
    BY <1>0, <1>19, <1>f, <1>t DEF CompareRelease, OpsType
  <2>2. tasks[t] \in TaskRec
    BY <1>p, <2>1
  <2>3. r \in TaskRec /\ r.status = "pending"
    <3>1. r \in TaskRec
      BY <2>2, Zenon DEF TaskRec
    <3> QED
      BY <2>2, <3>1 DEF TaskRec
  <2>4. Rematched(r).status # "in_progress"
    BY <2>3, RematchedStatus
  <2>5. op' = [op EXCEPT ![c] = o] \/ Finish(c)
    BY <1>19 DEF CompareRelease
  <2> HIDE DEF r
  <2>6. o.rec = Rematched(r) /\ o.kind = "release"
    BY <2>1 DEF OpRec
  <2> HIDE DEF o
  <2> QED
    BY <1>0, <2>1, <2>4, <2>5, <2>6, LaunchOwner, FinishOwner
<1> QED
  BY <1>1, <1>2, <1>3, <1>4, <1>5, <1>6, <1>7, <1>8, <1>9, <1>10, <1>11, <1>12, <1>13, <1>14,
     <1>15, <1>17, <1>18, <1>19
  DEF ClientStep

\* The steps of a worker.
LEMMA WorkerOwner ==
    ASSUME OwnerInv, NotesOwn, NEW a \in Agents, WorkerStep(a)
    PROVE  HoldsOne' /\ WritesOwn'
<1> USE DEF ghosts
<1>0. a \in Procs
  BY DEF Procs
<1>t. TypeOK /\ OpsType
  BY DEF OwnerInv, TypeOK, OpsType
<1>f. op[a].kind # "idle" => op[a].task \in Tasks
  BY <1>0, <1>t, OpFields
<1>p. ASSUME NEW t \in Tasks PROVE tasks[t] \in TaskRec
  BY <1>t DEF TypeOK
<1>w. op[a].rec.status = "in_progress" => op[a].kind \in {"claim", "note"} /\ op[a].rec.owner = a
  BY <1>0, ConstantsAssumption DEF OwnerInv, WritesOwn, OwnWrite
<1>h. op[a].rec.status = "in_progress" => op[a].rec.owner = a /\ Holds(a, op[a].task)
  BY <1>w DEF Holds
<1>i. ASSUME NEW t \in Tasks PROVE InterruptedRec(a, tasks[t]).status # "in_progress"
  BY <1>p DEF InterruptedRec, TaskRec
<1>1. CASE PublishClaim(a)
  <2> DEFINE o == [IdleOp EXCEPT !.kind = "register", !.task = op[a].task]
  <2>1. op[a].task \in Tasks
    BY <1>1, <1>f DEF PublishClaim
  <2>2. o.rec.status # "in_progress" /\ o.kind \notin {"claim", "note"}
    BY DEF IdleOp, Blank
  <2>3. op' = [op EXCEPT ![a] = o] /\ tasks' = [tasks EXCEPT ![op[a].task] = op[a].rec]
    BY <1>1 DEF PublishClaim
  <2> HIDE DEF o
  <2> QED
    BY <1>0, <1>h, <2>1, <2>2, <2>3, WriteOwner
<1>2. CASE RegisterClaim(a)
  BY <1>0, <1>2, FinishOwner DEF RegisterClaim
<1>3. CASE RejectClaim(a)
  <2>1. op[a].task \in Tasks
    BY <1>3, <1>f DEF RejectClaim
  <2> QED
    BY <1>0, <1>3, <1>i, <2>1, FinishOwner, StageOwner DEF RejectClaim
<1>4. CASE StopWorker(a)
  <2>1. CASE UNCHANGED <<tasks, op>>
    BY <2>1 DEF OwnerInv, HoldsOne, WritesOwn, OwnWrite, Holds, Owns, Running
  <2>2. CASE /\ work[a] # NoTask /\ tasks' = tasks
             /\ StageUnlocked(a, "interrupt", work[a], InterruptedRec(a, tasks[work[a]]))
    <3>1. work[a] \in Tasks
      BY <1>t, <2>2 DEF TypeOK
    <3> QED
      BY <1>0, <1>i, <2>2, <3>1, StageOwner
  <2> QED
    BY <1>4, <2>1, <2>2 DEF StopWorker
<1>5. CASE NoteIntervention(a)
  <2> DEFINE t == work[a]
  <2>1. t \in Tasks /\ Owns(a, t)
    BY <1>5, <1>t DEF NoteIntervention, TypeOK, NotesOwn
  <2>2. /\ op'[a].kind = "note" /\ op'[a].task = t /\ op'[a].rec = tasks[t]
        /\ \A p \in Procs \ {a} : op'[p] = op[p]
    BY <1>0, <1>t, <1>5 DEF NoteIntervention, StageUnlocked, TypeOK, IdleOp
  <2>3. tasks' = tasks
    BY <1>5 DEF NoteIntervention
  <2>4. ASSUME NEW p \in Procs, op'[p].rec.status = "in_progress"
        PROVE  OwnWrite(p, op'[p])
    <3>1. CASE p = a
      <4>1. op'[p].kind = "note" /\ op'[p].rec.owner = p /\ p \in Agents
        BY <2>1, <2>2, <3>1 DEF Owns
      <4> QED
        BY <4>1 DEF OwnWrite
    <3>2. CASE p # a
      BY <2>2, <2>4, <3>2, Zenon DEF OwnerInv, WritesOwn
    <3> QED
      BY <3>1, <3>2
  <2>5. ASSUME NEW b \in Agents, NEW s \in Tasks, Holds(b, s)' PROVE Holds(b, s)
    BY <2>1, <2>2, <2>3, <2>5, Zenon DEF Holds, Owns, Running, Procs
  <2> QED
    BY <2>4, <2>5 DEF HoldsOne, WritesOwn, OwnerInv
<1>6. CASE PublishOwn(a)
  <2>1. op[a].task \in Tasks
    BY <1>6, <1>f DEF PublishOwn
  <2> QED
    BY <1>0, <1>6, <1>h, <2>1, WriteOwner, IdleNotRunning DEF PublishOwn, Finish
<1>7. CASE PublishComplete(a)
  <2> DEFINE o == [IdleOp EXCEPT !.kind = "scan", !.task = op[a].task]
  <2>1. op[a].task \in Tasks
    BY <1>7, <1>f DEF PublishComplete
  <2>2. o.rec.status # "in_progress" /\ o.kind \notin {"claim", "note"}
    BY DEF IdleOp, Blank
  <2>3. op' = [op EXCEPT ![a] = o] /\ tasks' = [tasks EXCEPT ![op[a].task] = op[a].rec]
    BY <1>7 DEF PublishComplete
  <2> HIDE DEF o
  <2> QED
    BY <1>0, <1>h, <2>1, <2>2, <2>3, WriteOwner
<1>8. CASE ScanUnblocked(a)
  <2> DEFINE S == {s \in Stored : /\ tasks[s].status = "pending"
                                  /\ op[a].task \in tasks[s].blockedBy
                                  /\ Ready(s)}
             o == [op[a] EXCEPT !.kind = "unblock", !.todo = S]
  <2>1. op[a] \in OpRec /\ op[a].kind = "scan"
    BY <1>0, <1>8, <1>t DEF OpsType, ScanUnblocked
  <2>2. o.rec = op[a].rec /\ o.kind = "unblock"
    <3> HIDE DEF S
    <3> QED
      BY <2>1 DEF OpRec
  <2>3. op' = [op EXCEPT ![a] = o] /\ tasks' = tasks
    BY <1>8 DEF ScanUnblocked
  <2> HIDE DEF o
  <2> QED
    BY <1>0, <1>w, <2>1, <2>2, <2>3, LaunchOwner
<1>9. CASE CompleteDone(a)
  BY <1>0, <1>9, FinishOwner DEF CompleteDone
<1>10. ASSUME NEW t \in Tasks, ClaimTask(a, t) PROVE HoldsOne' /\ WritesOwn'
  <2> DEFINE r == [tasks[t] EXCEPT !.owner = a, !.status = "in_progress"]
  <2>1. tasks[t] \in TaskRec
    BY <1>p
  <2>2. r.owner = a
    BY <2>1 DEF TaskRec
  <2>3. /\ op'[a].kind = "claim" /\ op'[a].task = t /\ op'[a].rec = r
        /\ \A p \in Procs \ {a} : op'[p] = op[p]
    BY <1>0, <1>t, <1>10 DEF ClaimTask, Stage, TypeOK, IdleOp
  <2>4. tasks' = tasks
    BY <1>10 DEF ClaimTask
  <2>5. ASSUME NEW p \in Procs, op'[p].rec.status = "in_progress"
        PROVE  OwnWrite(p, op'[p])
    <3> HIDE DEF r
    <3>1. CASE p = a
      BY <2>2, <2>3, <3>1 DEF OwnWrite
    <3>2. CASE p # a
      BY <2>3, <2>5, <3>2, Zenon DEF OwnerInv, WritesOwn, OwnWrite
    <3> QED
      BY <3>1, <3>2
  <2>6. ASSUME NEW b \in Agents, NEW s \in Tasks, Holds(b, s)'
        PROVE  Holds(b, s) \/ (b = a /\ s = t)
    BY <2>3, <2>4, <2>6, Zenon DEF Holds, Owns, Running, Procs
  <2>7. ASSUME NEW s \in Tasks, Holds(a, s) PROVE s = t
    BY <1>10, <2>7 DEF Holds, ClaimTask, Idle, OwnsAnother
  <2> QED
    BY <2>5, <2>6, <2>7 DEF HoldsOne, WritesOwn, OwnerInv
<1>11. ASSUME NEW t \in Tasks, ReportMismatch(a, t) PROVE HoldsOne' /\ WritesOwn'
  <2> DEFINE r == [tasks[t] EXCEPT !.status = "pending", !.owner = NoAgent,
                                   !.assignee = NoAgent,
                                   !.matching_status = "rematch_required"]
  <2>0. tasks[t] \in TaskRec
    BY <1>p
  <2>1. r \in TaskRec
    BY <2>0, Zenon DEF TaskRec
  <2>2. r.status = "pending"
    BY <2>0 DEF TaskRec
  <2>3. Rematched(r).status # "in_progress"
    BY <2>1, <2>2, RematchedStatus
  <2> QED
    BY <1>0, <1>11, <2>3, StageOwner DEF ReportMismatch
<1>12. ASSUME NEW t \in Tasks, CompleteTask(a, t) PROVE HoldsOne' /\ WritesOwn'
  <2> DEFINE r == [tasks[t] EXCEPT !.status = "completed"]
  <2>0. tasks[t] \in TaskRec
    BY <1>p
  <2>1. r.status = "completed"
    BY <2>0 DEF TaskRec
  <2>2. StageUnlocked(a, "complete", t, r) /\ tasks' = tasks
    BY <1>12 DEF CompleteTask
  <2> HIDE DEF r
  <2> QED
    BY <1>0, <2>1, <2>2, StageOwner
<1>13. ASSUME NEW s \in Tasks, UnblockOne(a, s) PROVE HoldsOne' /\ WritesOwn'
  <2> DEFINE o == [op[a] EXCEPT !.todo = @ \ {s}]
  <2>0. tasks[s] \in TaskRec
    BY <1>p
  <2>1. \/ tasks' = tasks
        \/ /\ Matchable(tasks[s])
           /\ tasks' = [tasks EXCEPT ![s] = Rematched(tasks[s])]
    BY <1>13 DEF UnblockOne
  <2>2. Matchable(tasks[s]) => Rematched(tasks[s]).status # "in_progress"
    BY <2>0, RematchedStatus DEF Matchable, Unclaimed
  <2>3. op[a] \in OpRec /\ op[a].kind = "unblock"
    BY <1>0, <1>13, <1>t DEF OpsType, UnblockOne
  <2>4. o.rec = op[a].rec /\ o.kind = "unblock"
    BY <2>3 DEF OpRec
  <2>5. op' = [op EXCEPT ![a] = o]
    BY <1>13 DEF UnblockOne
  <2> HIDE DEF o
  <2>6. o.rec.status # "in_progress" /\ o.kind \notin {"claim", "note"}
    BY <1>w, <2>3, <2>4
  <2>7. CASE tasks' = tasks
    BY <1>0, <2>5, <2>6, <2>7, LaunchOwner
  <2>8. CASE Matchable(tasks[s]) /\ tasks' = [tasks EXCEPT ![s] = Rematched(tasks[s])]
    BY <1>0, <2>2, <2>5, <2>6, <2>8, WriteOwner
  <2> QED
    BY <2>1, <2>7, <2>8
<1>14. CASE StartWorker(a) \/ AskToStop(a) \/ LeaveTeam(a)
  <2>1. UNCHANGED <<tasks, op>>
    BY <1>14 DEF StartWorker, AskToStop, LeaveTeam
  <2> QED
    BY <2>1 DEF OwnerInv, HoldsOne, WritesOwn, OwnWrite, Holds, Owns, Running
<1> QED
  BY <1>1, <1>2, <1>3, <1>4, <1>5, <1>6, <1>7, <1>8, <1>9, <1>10, <1>11, <1>12, <1>13, <1>14
  DEF WorkerStep

LEMMA NextOwner ==
    ASSUME OwnerInv, NotesOwn, [Next]_vars
    PROVE  OwnerInv'
<1>1. TypeOK'
  BY NextType DEF OwnerInv
<1>2. HoldsOne' /\ WritesOwn'
  <2>1. CASE \E c \in Clients : ClientStep(c)
    BY <2>1, ClientOwner
  <2>2. CASE \E a \in Agents : WorkerStep(a)
    BY <2>2, WorkerOwner
  <2>3. CASE UNCHANGED <<tasks, op>>
    BY <2>3 DEF OwnerInv, HoldsOne, WritesOwn, OwnWrite, Holds, Owns, Running
  <2>4. CASE Crash
    <3>1. \A p \in Procs : op'[p] = IdleOp
      BY <2>4 DEF Crash
    <3>2. tasks' = tasks
      BY <2>4 DEF Crash
    <3>3. WritesOwn'
      BY <3>1, IdleNotRunning, Zenon DEF WritesOwn
    <3>4. ASSUME NEW a \in Agents, NEW s \in Tasks, Holds(a, s)' PROVE Holds(a, s)
      BY <3>1, <3>2, <3>4, IdleNotRunning, Zenon DEF Holds, Owns, Running, Procs
    <3> QED
      BY <3>3, <3>4 DEF HoldsOne, OwnerInv
  <2> QED
    BY <2>1, <2>2, <2>3, <2>4 DEF Next, LeadReads, vars
<1> QED
  BY <1>1, <1>2 DEF OwnerInv

-----------------------------------------------------------------------------
(* What stands in for the locks the workers do not take.  Every operation  *)
(* in flight has read a record that is still so in the store when it is    *)
(* written: clients and claims by the lock of the task, workers because    *)
(* the task runs and is theirs.                                            *)

Locking == {"edit", "match", "assign", "rollback", "release", "delete", "claim"}
Executing == {"register", "complete", "note", "interrupt", "mismatch"}
Scanning == {"scan", "unblock"}
Passive == {"idle", "assigned"} \cup Scanning
Writing == (Locking \cup Executing) \ {"register", "delete"}

\* What thread p, at work on o, has read is still so in the file it is to write.
OpTrue(p, o) ==
    LET t == o.task
        r == o.rec
        f == tasks[t] IN
    /\ o.kind \in Locking => t \in o.locks
    /\ o.kind \in {"edit", "match", "assign", "rollback", "claim"} => Unclaimed(f)
    /\ o.kind \in {"edit", "match", "assign", "rollback", "release", "interrupt", "mismatch"} =>
          Unclaimed(r)
    /\ o.kind \in {"release", "mismatch"} => r.assignee = NoAgent
    /\ o.kind = "assigning" => o.agent # NoAgent
    /\ o.kind \in Executing => p \in Agents /\ Owns(p, t)
    /\ o.kind \in {"claim", "note"} => r.status = "in_progress" /\ r.owner = p
    /\ o.kind = "claim" => Ready(t)
    /\ o.kind = "complete" => r.status = "completed"
    /\ o.kind = "delete" =>
          /\ Exists(t) /\ ~Running(t) /\ Dependents(t) = {}
          /\ r.status = "deleted" /\ o.graph
    /\ o.kind \in Writing /\ r.blockedBy # f.blockedBy =>
          /\ o.kind = "edit" /\ o.graph
          /\ ~HasCycle([BlockedBy EXCEPT ![t] = r.blockedBy], Tasks)

LocksTrue ==
    \A p, q \in Procs : p # q =>
        /\ op[p].locks \cap op[q].locks = {}
        /\ ~(op[p].graph /\ op[q].graph)

ScansFor(a, t) == op[a].task = t /\ op[a].kind \in Scanning
WorksOnOwn(a) == \A t \in Tasks : work[a] = t /\ ~ScansFor(a, t) => Owns(a, t)

FileInv ==
    /\ \A p \in Procs : OpTrue(p, op[p])
    /\ \A a \in Agents : WorksOnOwn(a)
    /\ \A t \in Tasks : Running(t) => Ready(t)
    /\ ~HasCycle(BlockedBy, Tasks)

-----------------------------------------------------------------------------
(* Cycles                                                                  *)

\* Fewer edges, fewer cycles.
LEMMA FewerEdges ==
    ASSUME NEW g, NEW h, \A n \in Tasks : h[n] \subseteq g[n], ~HasCycle(g, Tasks)
    PROVE  ~HasCycle(h, Tasks)
BY DEF HasCycle

\* A new cycle goes through the task whose edges are new, so it is found from there.
LEMMA NewCycle ==
    ASSUME NEW t \in Tasks, NEW D, NEW g, g \in [Tasks -> SUBSET Tasks],
           ~HasCycle(g, Tasks), ~CycleFrom([g EXCEPT ![t] = D], t)
    PROVE  ~HasCycle([g EXCEPT ![t] = D], Tasks)
<1> DEFINE h == [g EXCEPT ![t] = D]
<1> SUFFICES ASSUME NEW C \in SUBSET Tasks, C # {}, \A n \in C : h[n] \cap C # {}
             PROVE  FALSE
  BY DEF HasCycle
<1>1. \A n \in Tasks \ {t} : h[n] = g[n]
  OBVIOUS
<1>2. CASE t \notin C
  BY <1>1, <1>2 DEF HasCycle
<1>3. CASE t \in C
  <2> HIDE DEF h
  <2> DEFINE R == Reachable(h, t)
  <2>1. t \in R
    BY DEF Reachable
  <2>2. ASSUME NEW n \in C \cap R PROVE h[n] \cap (C \cap R) # {}
    <3>1. PICK m \in h[n] : m \in C
      OBVIOUS
    <3>2. m \in R
      BY <3>1 DEF Reachable, ClosedUnder
    <3> QED
      BY <3>1, <3>2
  <2>3. HasCycle(h, R)
    BY <1>3, <2>1, <2>2 DEF HasCycle
  <2> QED
    BY <2>3 DEF CycleFrom, h
<1> QED
  BY <1>2, <1>3

LEMMA BlockedByType == TypeOK => BlockedBy \in [Tasks -> SUBSET Tasks]
<1> SUFFICES ASSUME TypeOK, NEW t \in Tasks PROVE tasks[t].blockedBy \in SUBSET Tasks
  BY DEF BlockedBy
<1>1. tasks[t] \in TaskRec
  BY DEF TypeOK
<1> QED
  BY <1>1 DEF TaskRec

-----------------------------------------------------------------------------
(* Locks                                                                   *)

\* What p takes for o is free, or its own already.
MayTake(p, o) ==
    /\ \A d \in o.locks : d \in op[p].locks \/ LockFree(d)
    /\ o.graph => op[p].graph \/ GraphFree

LEMMA TakeLocks ==
    ASSUME LocksTrue, op \in [Procs -> OpRec], NEW p \in Procs, NEW o, MayTake(p, o),
           op' = [op EXCEPT ![p] = o]
    PROVE  LocksTrue'
<1>1. /\ op'[p] = o
      /\ \A q \in Procs \ {p} : op'[q] = op[q]
  OBVIOUS
<1>2. ASSUME NEW q \in Procs \ {p}
      PROVE  o.locks \cap op[q].locks = {} /\ ~(o.graph /\ op[q].graph)
  BY Zenon DEF MayTake, LocksTrue, LockFree, GraphFree
<1> QED
  BY <1>1, <1>2, Zenon DEF LocksTrue

\* One thread alone is about to write a file that it has locked.
LEMMA HolderAlone ==
    ASSUME LocksTrue, FileInv, NEW p \in Procs, NEW t,
           t \in op[p].locks \/ LockFree(t),
           NEW q \in Procs \ {p}
    PROVE  ~(op[q].kind \in Locking /\ op[q].task = t)
<1>1. t \notin op[q].locks
  BY DEF LocksTrue, LockFree
<1>2. op[q].kind \in Locking => op[q].task \in op[q].locks
  BY Zenon DEF FileInv, OpTrue
<1> QED
  BY <1>1, <1>2

\* So is the worker that executes a task, but for a release that comes too late.
LEMMA WorkerAlone ==
    ASSUME FileInv, NEW p \in Procs, op[p].kind \in Executing, NEW q \in Procs \ {p},
           op[q].task = op[p].task
    PROVE  op[q].kind \notin Executing /\ (op[q].kind \in Locking => op[q].kind = "release")
<1>1. p \in Agents /\ Owns(p, op[p].task)
  BY Zenon DEF FileInv, OpTrue
<1>2. op[q].kind \notin Executing
  <2>1. op[q].kind \in Executing => Owns(q, op[p].task)
    BY Zenon DEF FileInv, OpTrue
  <2> QED
    BY <1>1, <2>1 DEF Owns
<1>3. ~Unclaimed(tasks[op[p].task])
  BY <1>1 DEF Owns, Running, Unclaimed
<1>4. op[q].kind \in Locking => op[q].kind = "release"
  <2>1. OpTrue(q, op[q])
    BY DEF FileInv
  <2> QED
    BY <1>1, <1>3, <2>1 DEF OpTrue, Locking, Owns
<1> QED
  BY <1>2, <1>4

\* Who may write a file that is not running has nobody beside it who executes the task.
LEMMA NoneExecutes ==
    ASSUME FileInv, NEW t, ~Running(t), NEW q \in Procs
    PROVE  ~(op[q].kind \in Executing /\ op[q].task = t)
<1>1. OpTrue(q, op[q])
  BY DEF FileInv
<1> QED
  BY <1>1, Zenon DEF OpTrue, Owns

-----------------------------------------------------------------------------
(* The two shapes of a step                                                *)

\* Files stay; p goes on to o.
LEMMA LaunchFile ==
    ASSUME FileInv, op \in [Procs -> OpRec], NEW p \in Procs, NEW o, OpTrue(p, o),
           op' = [op EXCEPT ![p] = o], tasks' = tasks,
           \A b \in Agents \ {p} : work'[b] = work[b],
           p \in Agents => \A s \in Tasks :
               work'[p] = s /\ ~(o.task = s /\ o.kind \in Scanning) => Owns(p, s)
    PROVE  FileInv'
<1>1. /\ op'[p] = o
      /\ \A q \in Procs \ {p} : op'[q] = op[q]
  OBVIOUS
<1>2. ASSUME NEW q \in Procs PROVE OpTrue(q, op[q])'
  <2>1. OpTrue(q, op'[q])
    BY <1>1 DEF FileInv
  <2> QED
    BY <2>1 DEF OpTrue, Owns, Running, Ready, Exists, Stored, Dependents, BlockedBy
<1>3. ASSUME NEW a \in Agents PROVE WorksOnOwn(a)'
  BY <1>1 DEF FileInv, WorksOnOwn, ScansFor, Owns, Running, Procs
<1>4. ASSUME NEW t \in Tasks, Running(t)' PROVE Ready(t)'
  BY <1>4 DEF FileInv, Running, Ready
<1>5. ~HasCycle(BlockedBy, Tasks)'
  BY DEF FileInv, BlockedBy, Exists
<1> QED
  BY <1>2, <1>3, <1>4, <1>5 DEF FileInv

\* The edges of the new record are old ones, or nobody else changes edges and they
\* close no cycle.
EdgesFit(p, t, r) ==
    \/ r.status \in {"free", "deleted"}
    \/ r.blockedBy = {}
    \/ Exists(t) /\ r.blockedBy = tasks[t].blockedBy
    \/ /\ \A q \in Procs \ {p} : ~op[q].graph
       /\ ~HasCycle([BlockedBy EXCEPT ![t] = r.blockedBy], Tasks)

\* p writes the file of t and goes on to o.
LEMMA WriteFile ==
    ASSUME TypeOK, FileInv, NEW p \in Procs, NEW o, op' = [op EXCEPT ![p] = o],
           NEW t \in Tasks, NEW r \in TaskRec, tasks' = [tasks EXCEPT ![t] = r],
           \A q \in Procs \ {p} :
               /\ op[q].kind \in Locking /\ op[q].task = t =>
                     op[q].kind = "release" /\ r.blockedBy = tasks[t].blockedBy
               /\ ~(op[q].kind \in Executing /\ op[q].task = t),
           tasks[t].status = "completed" => r.status = "completed" \/ Dependents(t) = {},
           EdgesFit(p, t, r),
           r.status = "in_progress" => \A d \in r.blockedBy : d # t /\ tasks[d].status = "completed",
           \/ o.kind \in Passive
           \/ /\ o.kind = "register" /\ p \in Agents /\ o.task = t
              /\ r.status = "in_progress" /\ r.owner = p,
           \A b \in Agents \ {p} : work'[b] = work[b] /\ (Owns(b, t) => work[b] # t),
           p \in Agents => \A s \in Tasks :
               work'[p] = s /\ ~(o.task = s /\ o.kind \in Scanning) => Owns(p, s)'
    PROVE  FileInv'
<1>1. /\ op'[p] = o
      /\ \A q \in Procs \ {p} : op'[q] = op[q]
      /\ tasks'[t] = r
      /\ \A s \in Tasks \ {t} : tasks'[s] = tasks[s]
  BY DEF TypeOK
<1>2. ASSUME NEW s \in Tasks \ {t}, s \in Stored, Ready(s) PROVE Ready(s)'
  <2>1. tasks[s].blockedBy \in SUBSET Tasks
    BY Zenon DEF TypeOK, TaskRec
  <2>2. ASSUME NEW d \in tasks[s].blockedBy PROVE tasks'[d].status = "completed"
    <3>1. d \in Tasks /\ tasks[d].status = "completed"
      BY <1>2, <2>1 DEF Ready
    <3>2. CASE d # t
      BY <1>1, <3>1, <3>2
    <3>3. CASE d = t
      <4>1. s \in Dependents(t)
        BY <1>2, <3>3 DEF Dependents
      <4> QED
        BY <1>1, <3>1, <3>3, <4>1
    <3> QED
      BY <3>2, <3>3
  <2> QED
    BY <1>1, <2>2 DEF Ready
<1>3. \/ \A n \in Tasks : BlockedBy'[n] \subseteq BlockedBy[n]
      \/ /\ \A q \in Procs \ {p} : ~op[q].graph
         /\ ~HasCycle(BlockedBy', Tasks)
  <2>1. ASSUME NEW n \in Tasks \ {t} PROVE BlockedBy'[n] = BlockedBy[n]
    BY <1>1 DEF BlockedBy, Exists
  <2>2. BlockedBy'[t] = IF r.status \in {"free", "deleted"} THEN {} ELSE r.blockedBy
    BY <1>1 DEF BlockedBy, Exists
  <2>3. CASE \/ r.status \in {"free", "deleted"} \/ r.blockedBy = {}
             \/ Exists(t) /\ r.blockedBy = tasks[t].blockedBy
    BY <2>1, <2>2, <2>3 DEF BlockedBy
  <2>4. CASE /\ r.status \notin {"free", "deleted"}
             /\ \A q \in Procs \ {p} : ~op[q].graph
             /\ ~HasCycle([BlockedBy EXCEPT ![t] = r.blockedBy], Tasks)
    <3>1. BlockedBy' = [BlockedBy EXCEPT ![t] = r.blockedBy]
      <4>1. BlockedBy'[t] = r.blockedBy
        BY <2>2, <2>4
      <4>2. \A n \in Tasks : BlockedBy'[n] = IF n = t THEN r.blockedBy ELSE BlockedBy[n]
        BY <2>1, <4>1
      <4>3. /\ BlockedBy' = [n \in Tasks |-> BlockedBy'[n]]
            /\ BlockedBy = [n \in Tasks |-> BlockedBy[n]]
        BY DEF BlockedBy
      <4> HIDE DEF BlockedBy
      <4> QED
        BY Zenon, <4>2, <4>3
    <3> QED
      BY <2>4, <3>1
  <2> QED
    BY <2>3, <2>4 DEF EdgesFit
<1>4. ~HasCycle(BlockedBy, Tasks)'
  BY <1>3, FewerEdges DEF FileInv
<1>5. ASSUME NEW s \in Tasks, Running(s)' PROVE Ready(s)'
  <2>1. CASE s = t
    <3>1. \A d \in r.blockedBy : d \in Tasks /\ d # t /\ tasks[d].status = "completed"
      BY <1>1, <1>5, <2>1 DEF Running, TaskRec
    <3> QED
      BY <1>1, <2>1, <3>1 DEF Ready
  <2>2. CASE s # t
    BY <1>1, <1>2, <1>5, <2>2 DEF Running, FileInv, Stored, Exists
  <2> QED
    BY <2>1, <2>2
<1>6. ASSUME NEW a \in Agents PROVE WorksOnOwn(a)'
  <2>1. CASE a = p
    BY <1>1, <2>1 DEF WorksOnOwn, ScansFor
  <2>2. CASE a # p
    BY <1>1, <2>2 DEF WorksOnOwn, ScansFor, FileInv, Owns, Running, Procs
  <2> QED
    BY <2>1, <2>2
<1>7. ASSUME NEW q \in Procs PROVE OpTrue(q, op[q])'
  <2>1. CASE q = p
    BY <1>1, <2>1 DEF OpTrue, Passive, Scanning, Locking, Executing, Writing, Owns, Running
  <2>2. CASE q # p /\ op[q].kind \in Locking \cup Executing /\ op[q].task # t
    <3> DEFINE s == op[q].task
    <3>1. OpTrue(q, op[q]) /\ op'[q] = op[q]
      BY <1>1, <2>2 DEF FileInv
    <3>2. s \in Tasks /\ s # t /\ tasks'[s] = tasks[s]
      BY <1>1, <2>2 DEF TypeOK, Idle, Locking, Executing
    <3>3. op[q].kind = "claim" => Ready(s)'
      BY <1>2, <3>1, <3>2 DEF OpTrue, Stored, Exists, Unclaimed
    <3>4. ASSUME op[q].kind = "delete" PROVE Dependents(s)' = {}
      <4>1. Dependents(s) = {} /\ op[q].graph
        BY <3>1, <3>4 DEF OpTrue
      <4>2. ASSUME NEW n \in Tasks \ {s}, Exists(n)' PROVE s \notin tasks'[n].blockedBy
        <5>1. CASE n # t
          BY <1>1, <4>1, <4>2, <5>1 DEF Dependents, Stored, Exists
        <5>2. CASE n = t
          BY <1>1, <2>2, <4>1, <4>2, <5>2 DEF Dependents, Stored, Exists, EdgesFit
        <5> QED
          BY <5>1, <5>2
      <4> QED
        BY <3>1, <4>2 DEF Dependents, Stored
    <3> DEFINE g == [BlockedBy EXCEPT ![s] = op[q].rec.blockedBy]
               h == [BlockedBy' EXCEPT ![s] = op[q].rec.blockedBy]
    <3>5. op[q].graph /\ ~HasCycle(g, Tasks) => ~HasCycle(h, Tasks)
      <4>1. op[q].graph => \A n \in Tasks : h[n] \subseteq g[n]
        BY <1>3, <2>2 DEF BlockedBy
      <4> HIDE DEF g, h
      <4> QED
        BY <4>1, FewerEdges
    <3>6. /\ op[q].kind \in Executing => Owns(q, s)'
          /\ op[q].kind = "delete" => Exists(s)' /\ ~Running(s)'
      <4>1. /\ op[q].kind \in Executing => Owns(q, s)
            /\ op[q].kind = "delete" => Exists(s) /\ ~Running(s)
        BY <3>1, Zenon DEF OpTrue
      <4>2. tasks'[s'].status = tasks[s].status /\ tasks'[s'].owner = tasks[s].owner
        BY <3>1, <3>2
      <4> HIDE DEF s
      <4> QED
        BY <4>1, <4>2, Zenon DEF Owns, Running, Exists
    <3>7. /\ op[q].kind \in {"edit", "match", "assign", "rollback", "claim"} => Unclaimed(tasks'[s])
          /\ op[q].kind \in Writing /\ op[q].rec.blockedBy # tasks'[s].blockedBy =>
                op[q].kind = "edit" /\ op[q].graph /\ ~HasCycle(h, Tasks)
      <4> HIDE DEF g, h
      <4> QED
        BY <3>1, <3>2, <3>5 DEF OpTrue, g
    <3> HIDE DEF g, h
    <3>8. /\ op[q].kind \in Locking => s \in op[q].locks
          /\ op[q].kind \in {"edit", "match", "assign", "rollback", "release", "interrupt",
                            "mismatch"} => Unclaimed(op[q].rec)
          /\ op[q].kind \in {"release", "mismatch"} => op[q].rec.assignee = NoAgent
          /\ op[q].kind = "assigning" => op[q].agent # NoAgent
          /\ op[q].kind \in Executing => q \in Agents
          /\ op[q].kind \in {"claim", "note"} =>
                op[q].rec.status = "in_progress" /\ op[q].rec.owner = q
          /\ op[q].kind = "complete" => op[q].rec.status = "completed"
          /\ op[q].kind = "delete" => op[q].rec.status = "deleted" /\ op[q].graph
      BY <3>1 DEF OpTrue
    <3>9. /\ op[q].kind = "claim" => Ready(s)'
          /\ op[q].kind \in Executing => Owns(q, s)'
          /\ op[q].kind = "delete" => Exists(s)' /\ ~Running(s)' /\ Dependents(s)' = {}
      BY <3>3, <3>4, <3>6
    <3> QED
      BY <3>1, <3>7, <3>8, <3>9, ZenonT(40) DEF OpTrue, h
  <2>3. CASE q # p /\ ~(op[q].kind \in Locking \cup Executing /\ op[q].task # t)
    <3>1. OpTrue(q, op[q]) /\ op'[q] = op[q]
      BY <1>1, <2>3 DEF FileInv
    <3>2. \/ op[q].kind \notin Locking \cup Executing
          \/ op[q].kind = "release" /\ op[q].task = t /\ r.blockedBy = tasks[t].blockedBy
      BY <2>3
    <3>3. CASE op[q].kind \notin Locking \cup Executing
      BY <3>1, <3>3, Zenon DEF OpTrue, Locking, Executing, Writing
    <3>4. CASE op[q].kind = "release" /\ op[q].task = t /\ r.blockedBy = tasks[t].blockedBy
      <4>1. tasks'[op'[q].task].blockedBy = tasks[op[q].task].blockedBy
        BY <1>1, <3>1, <3>4
      <4> QED
        BY <3>1, <3>4, <4>1 DEF OpTrue, Locking, Executing, Writing
    <3> QED
      BY <3>2, <3>3, <3>4
  <2> QED
    BY <2>1, <2>2, <2>3
<1> QED
  BY <1>4, <1>5, <1>6, <1>7 DEF FileInv

-----------------------------------------------------------------------------
(* The steps                                                               *)

StoreInv == TypeOK /\ LocksTrue /\ (ReleaseAfterStop => OwnerInv /\ FileInv)

\* Only the write of a client may release a task from under a worker.
LEMMA Misreleases ==
    ASSUME [Next]_vars
    PROVE  misreleased' = misreleased \/ \E c \in Clients : Publish(c)
<1> USE DEF ghosts
<1>1. ASSUME NEW c \in Clients, ClientStep(c), ~Publish(c) PROVE misreleased' = misreleased
  <2>1. ReserveTask(c) \/ PublishAssign(c) \/ RegisterAssign(c) => misreleased' = misreleased
    BY DEF ReserveTask, PublishAssign, RegisterAssign
  <2>2. RollbackAssign(c) => misreleased' = misreleased
    BY DEF RollbackAssign
  <2>3. ListTasks(c) \/ LookOnline(c) \/ CompareRelease(c) => misreleased' = misreleased
    BY DEF ListTasks, LookOnline, CompareRelease
  <2>4. ASSUME NEW t \in Tasks, NEW D \in SUBSET (Tasks \ {t})
        PROVE  CreateTask(c, t, D) \/ UpdateBlockedBy(c, t, D) => misreleased' = misreleased
    BY DEF CreateTask, UpdateBlockedBy
  <2>5. ASSUME NEW t \in Tasks, NEW a \in Agents
        PROVE  CreateQueuedTask(c, t, a) \/ AssignTask(c, t, a) => misreleased' = misreleased
    BY DEF CreateQueuedTask, AssignTask
  <2>6. ASSUME NEW t \in Tasks, NEW C \in SUBSET Agents
        PROVE  SetTaskCandidates(c, t, C) => misreleased' = misreleased
    BY DEF SetTaskCandidates
  <2>7. ASSUME NEW t \in Tasks
        PROVE  UpdateTask(c, t) \/ RequestRematch(c, t) \/ UnassignTask(c, t)
               \/ ReleaseTask(c, t) \/ DeleteTask(c, t) => misreleased' = misreleased
    BY DEF UpdateTask, RequestRematch, UnassignTask, ReleaseTask, DeleteTask
  <2> QED
    BY <1>1, <2>1, <2>2, <2>3, <2>4, <2>5, <2>6, <2>7, Zenon DEF ClientStep
<1>2. ASSUME NEW a \in Agents, WorkerStep(a) PROVE misreleased' = misreleased
  <2>1. StartWorker(a) \/ AskToStop(a) \/ LeaveTeam(a) => misreleased' = misreleased
    BY DEF StartWorker, AskToStop, LeaveTeam
  <2>2. StopWorker(a) => misreleased' = misreleased
    BY DEF StopWorker
  <2>3. PublishClaim(a) \/ RegisterClaim(a) \/ RejectClaim(a) => misreleased' = misreleased
    BY DEF PublishClaim, RegisterClaim, RejectClaim
  <2>4. NoteIntervention(a) \/ PublishOwn(a) => misreleased' = misreleased
    BY DEF NoteIntervention, PublishOwn
  <2>5. PublishComplete(a) \/ ScanUnblocked(a) \/ CompleteDone(a) => misreleased' = misreleased
    BY DEF PublishComplete, ScanUnblocked, CompleteDone
  <2>6. ASSUME NEW t \in Tasks
        PROVE  ClaimTask(a, t) \/ ReportMismatch(a, t) \/ CompleteTask(a, t) \/ UnblockOne(a, t)
               => misreleased' = misreleased
    BY DEF ClaimTask, ReportMismatch, CompleteTask, UnblockOne
  <2> QED
    BY <1>2, <2>1, <2>2, <2>3, <2>4, <2>5, <2>6, Zenon DEF WorkerStep
<1> QED
  BY <1>1, <1>2 DEF Next, LeadReads, Crash, vars

\* What was released from under a worker stays so.
LEMMA StopStays ==
    ASSUME [Next]_vars, ReleaseAfterStop'
    PROVE  ReleaseAfterStop
BY Misreleases DEF Publish, ReleaseAfterStop

LEMMA RematchedFields ==
    ASSUME NEW r \in TaskRec
    PROVE  /\ Rematched(r).status = r.status /\ Rematched(r).owner = r.owner
           /\ Rematched(r).assignee = r.assignee /\ Rematched(r).blockedBy = r.blockedBy
           /\ Rematched(r).candidate_members = r.candidate_members
           /\ Rematched(r).matching_revision = r.matching_revision + 1
           /\ Rematched(r).matching_status # "matched"
BY DEF Rematched, TaskRec

\* Files stay; p goes on to o.
LEMMA LaunchStore ==
    ASSUME StoreInv, NEW p \in Procs, NEW o, op' = [op EXCEPT ![p] = o],
           UNCHANGED <<tasks, work, misreleased>>, MayTake(p, o),
           FileInv => OpTrue(p, o),
           op[p].kind \in Scanning => o.kind \in Scanning /\ o.task = op[p].task
    PROVE  LocksTrue' /\ (ReleaseAfterStop' => FileInv')
<1>1. LocksTrue'
  BY TakeLocks DEF StoreInv, OwnerInv, TypeOK
<1>2. ASSUME ReleaseAfterStop' PROVE FileInv'
  <2>1. FileInv
    BY <1>2 DEF StoreInv, ReleaseAfterStop
  <2>2. p \in Agents => \A s \in Tasks :
          work'[p] = s /\ ~(o.task = s /\ o.kind \in Scanning) => Owns(p, s)
    BY <2>1 DEF FileInv, WorksOnOwn, ScansFor
  <2> QED
    BY <2>1, <2>2, LaunchFile DEF StoreInv, OwnerInv, TypeOK
<1> QED
  BY <1>1, <1>2

LEMMA FinishStore ==
    ASSUME StoreInv, NEW p \in Procs, Finish(p), op[p].kind \notin Scanning,
           UNCHANGED <<tasks, work, misreleased>>
    PROVE  LocksTrue' /\ (ReleaseAfterStop' => FileInv')
<1>1. MayTake(p, IdleOp) /\ OpTrue(p, IdleOp)
  BY DEF MayTake, OpTrue, IdleOp, Locking, Executing, Writing
<1> QED
  BY <1>1, LaunchStore DEF Finish

\* A client, or a claim, has read under the lock it keeps.
LEMMA StageStore ==
    ASSUME StoreInv, NEW p \in Procs, op[p].kind \notin Scanning,
           NEW kind \in {"edit", "match", "claim"}, NEW t, NEW r,
           Stage(p, kind, t, r), UNCHANGED <<tasks, work, misreleased>>, LockFree(t),
           Unclaimed(tasks[t]),
           kind # "claim" => Unclaimed(r),
           kind = "claim" => r.status = "in_progress" /\ r.owner = p /\ Ready(t),
           r.blockedBy = tasks[t].blockedBy
    PROVE  LocksTrue' /\ (ReleaseAfterStop' => FileInv')
<1> DEFINE o == [IdleOp EXCEPT !.kind = kind, !.task = t, !.rec = r, !.locks = {t}]
<1>1. o.kind = kind /\ o.task = t /\ o.rec = r /\ o.locks = {t} /\ ~o.graph
  BY DEF IdleOp
<1>2. op' = [op EXCEPT ![p] = o]
  BY DEF Stage
<1> HIDE DEF o
<1>3. MayTake(p, o)
  BY <1>1 DEF MayTake
<1>4. OpTrue(p, o)
  BY <1>1 DEF OpTrue, Executing
<1> QED
  BY <1>2, <1>3, <1>4, LaunchStore

\* A worker has read the task it executes, without a lock.
LEMMA StageOwnStore ==
    ASSUME StoreInv, NEW a \in Agents, op[a].kind \notin Scanning,
           NEW kind \in {"complete", "note", "interrupt", "mismatch"}, NEW t, NEW r,
           StageUnlocked(a, kind, t, r), UNCHANGED <<tasks, work, misreleased>>,
           Owns(a, t),
           kind \in {"interrupt", "mismatch"} => Unclaimed(r),
           kind = "mismatch" => r.assignee = NoAgent,
           kind = "note" => r.status = "in_progress" /\ r.owner = a,
           kind = "complete" => r.status = "completed",
           r.blockedBy = tasks[t].blockedBy
    PROVE  LocksTrue' /\ (ReleaseAfterStop' => FileInv')
<1> DEFINE o == [IdleOp EXCEPT !.kind = kind, !.task = t, !.rec = r]
<1>1. o.kind = kind /\ o.task = t /\ o.rec = r /\ o.locks = {} /\ ~o.graph
  BY DEF IdleOp
<1>2. op' = [op EXCEPT ![a] = o]
  BY DEF StageUnlocked
<1> HIDE DEF o
<1>3. MayTake(a, o) /\ a \in Procs
  BY <1>1 DEF MayTake, Procs
<1>4. OpTrue(a, o)
  BY <1>1 DEF OpTrue, Locking
<1> QED
  BY <1>2, <1>3, <1>4, LaunchStore

\* The steps of a client.
LEMMA ClientStore ==
    ASSUME StoreInv, NEW c \in Clients, ClientStep(c)
    PROVE  LocksTrue' /\ (ReleaseAfterStop' => FileInv')
<1> USE DEF ghosts
<1>0. c \in Procs /\ c \notin Agents
  BY ConstantsAssumption DEF Procs
<1>t. TypeOK /\ OpsType
  BY DEF StoreInv, OwnerInv, TypeOK, OpsType
<1>f. /\ op[c].kind # "idle" => op[c].task \in Tasks
      /\ op[c].rec \in TaskRec
  BY <1>0, <1>t, OpFields
<1>p. ASSUME NEW t \in Tasks PROVE tasks[t] \in TaskRec
  BY <1>t DEF TypeOK
<1>i. Idle(c) => op[c].kind \notin Scanning
  BY DEF Idle, Scanning
\* It has only read, and took no lock.
<1>l. ASSUME NEW o, op' = [op EXCEPT ![c] = o], o.kind \in {"assigning", "look"},
             o.kind = "assigning" => o.agent # NoAgent, o.locks = {}, ~o.graph, op[c].kind \notin Scanning,
             UNCHANGED <<tasks, work, misreleased>>
      PROVE  LocksTrue' /\ (ReleaseAfterStop' => FileInv')
  <2>1. MayTake(c, o) /\ OpTrue(c, o)
    BY <1>l DEF MayTake, OpTrue, Locking, Executing, Writing
  <2> QED
    BY <1>0, <1>l, <2>1, LaunchStore
<1>1. CASE Publish(c)
  <2> DEFINE t == op[c].task
             r == op[c].rec
  <2>1. t \in Tasks /\ r \in TaskRec /\ op' = [op EXCEPT ![c] = IdleOp]
        /\ tasks' = [tasks EXCEPT ![t] = r] /\ work' = work
        /\ op[c].kind \in {"edit", "match", "rollback", "release", "delete"}
    BY <1>1, <1>f DEF Publish, Finish
  <2>2. LocksTrue'
    <3>1. MayTake(c, IdleOp)
      BY DEF MayTake, IdleOp
    <3> QED
      BY <1>0, <1>t, <2>1, <3>1, TakeLocks DEF StoreInv, OpsType
  <2>3. ASSUME ReleaseAfterStop' PROVE FileInv'
    <3>1. FileInv
      BY <1>1, <2>3 DEF Publish, StoreInv, ReleaseAfterStop
    <3>2. op[c].kind = "release" => Running(t) /\ \A a \in Agents : ~Executes(a, t)
      BY <1>1, <2>1, <2>3 DEF Publish, ReleaseAfterStop
    <3>3. OpTrue(c, op[c]) /\ t \in op[c].locks
      BY <1>0, <2>1, <3>1 DEF FileInv, OpTrue, Locking
    <3>4. /\ op[c].kind # "release" => ~Running(t)
          /\ op[c].kind \notin {"release", "delete"} => tasks[t].status = "pending"
          /\ op[c].kind = "delete" => r.status = "deleted" /\ Dependents(t) = {}
          /\ op[c].kind # "delete" => r.status = "pending"
      BY <2>1, <3>3 DEF OpTrue, Unclaimed, Running
    <3>5. ASSUME NEW q \in Procs \ {c}
          PROVE  /\ ~(op[q].kind \in Locking /\ op[q].task = t)
                 /\ ~(op[q].kind \in Executing /\ op[q].task = t)
      <4>1. ~(op[q].kind \in Locking /\ op[q].task = t)
        BY <1>0, <3>1, <3>3, HolderAlone DEF StoreInv
      <4>2. CASE op[c].kind # "release"
        BY <3>1, <3>4, <4>1, <4>2, NoneExecutes
      <4>3. CASE op[c].kind = "release"
        <5>1. op[q].kind \in Executing => q \in Agents
          BY <3>1 DEF FileInv, OpTrue
        <5> QED
          BY <3>2, <4>1, <4>3, <5>1 DEF Executes, Executing
      <4> QED
        BY <4>2, <4>3
    <3>6. EdgesFit(c, t, r)
      <4>1. CASE op[c].kind = "delete"
        BY <3>4, <4>1 DEF EdgesFit
      <4>2. CASE op[c].kind # "delete" /\ r.blockedBy = tasks[t].blockedBy
        BY <2>1, <3>2, <3>4, <4>2 DEF EdgesFit, Exists, Running
      <4>3. CASE op[c].kind # "delete" /\ r.blockedBy # tasks[t].blockedBy
        <5>1. op[c].kind \in Writing
          BY <2>1, <4>3 DEF Writing, Locking, Executing
        <5>2. op[c].graph /\ ~HasCycle([BlockedBy EXCEPT ![t] = r.blockedBy], Tasks)
          BY <3>3, <4>3, <5>1, Zenon DEF OpTrue
        <5> QED
          BY <1>0, <5>2 DEF EdgesFit, StoreInv, LocksTrue
      <4> QED
        BY <4>1, <4>2, <4>3
    <3>7. ASSUME NEW b \in Agents PROVE Owns(b, t) => work[b] # t
      BY <2>1, <3>2, <3>4 DEF Owns, Executes
    <3>8. IdleOp.kind \in Passive
      BY DEF IdleOp, Passive
    <3>9. /\ tasks[t].status = "completed" => r.status = "completed" \/ Dependents(t) = {}
          /\ r.status # "in_progress"
      BY <2>1, <3>2, <3>4 DEF Running
    <3>10. /\ op' = [op EXCEPT ![c] = IdleOp] /\ tasks' = [tasks EXCEPT ![t] = r]
           /\ t \in Tasks /\ r \in TaskRec
           /\ \A b \in Agents \ {c} : work'[b] = work[b] /\ (Owns(b, t) => work[b] # t)
      BY <2>1, <3>7
    <3> HIDE DEF t, r
    <3> QED
      BY <1>0, <1>t, <3>1, <3>5, <3>6, <3>8, <3>9, <3>10, WriteFile
  <2> QED
    BY <2>2, <2>3
<1>2. CASE PublishAssign(c)
  <2> DEFINE t == op[c].task
             r == op[c].rec
             o == [op[c] EXCEPT !.kind = "assigned", !.locks = {}, !.graph = FALSE]
  <2>1. t \in Tasks /\ r \in TaskRec /\ op' = [op EXCEPT ![c] = o]
        /\ tasks' = [tasks EXCEPT ![t] = r] /\ work' = work /\ op[c].kind = "assign"
    BY <1>2, <1>f DEF PublishAssign
  <2>2. o.kind = "assigned" /\ o.locks = {} /\ ~o.graph
    BY <1>0, <1>t DEF OpsType, OpRec
  <2> HIDE DEF o
  <2>3. LocksTrue'
    <3>1. MayTake(c, o)
      BY <2>2 DEF MayTake
    <3> QED
      BY <1>0, <1>t, <2>1, <3>1, TakeLocks DEF StoreInv, OpsType
  <2>4. ASSUME ReleaseAfterStop' PROVE FileInv'
    <3>1. FileInv
      BY <1>2, <2>4 DEF PublishAssign, StoreInv, ReleaseAfterStop
    <3>2. OpTrue(c, op[c])
      BY <1>0, <3>1 DEF FileInv
    <3>3. /\ t \in op[c].locks /\ Unclaimed(tasks[t]) /\ Unclaimed(r)
          /\ r.blockedBy = tasks[t].blockedBy
      BY <2>1, <3>2 DEF OpTrue, Locking, Writing
    <3>4. ASSUME NEW q \in Procs \ {c}
          PROVE  /\ ~(op[q].kind \in Locking /\ op[q].task = t)
                 /\ ~(op[q].kind \in Executing /\ op[q].task = t)
      BY <1>0, <3>1, <3>3, HolderAlone, NoneExecutes DEF StoreInv, Unclaimed, Running
    <3>5. EdgesFit(c, t, r)
      BY <3>3 DEF EdgesFit, Exists, Unclaimed
    <3>6. /\ tasks[t].status # "completed" /\ r.status # "in_progress"
          /\ \A b \in Agents : ~Owns(b, t)
          /\ o.kind \in Passive
      BY <2>2, <3>3 DEF Unclaimed, Owns, Running, Passive
    <3> QED
      BY <1>0, <1>t, <2>1, <3>1, <3>4, <3>5, <3>6, WriteFile
  <2> QED
    BY <2>3, <2>4
<1>3. CASE RollbackAssign(c)
  <2> DEFINE t == op[c].task
             previous == op[c].agent
             back == [tasks[t] EXCEPT !.assignee = NoAgent]
             again == [tasks[t] EXCEPT !.assignee = previous]
             o(r) == [IdleOp EXCEPT !.kind = "rollback", !.task = t, !.locks = {t},
                                    !.rec = r, !.graph = previous # NoAgent,
                                    !.agent = op[c].rec.assignee]
  <2>1. /\ t \in Tasks /\ LockFree(t) /\ UNCHANGED <<tasks, work, misreleased>>
        /\ op[c].kind \notin Scanning
    BY <1>3, <1>f DEF RollbackAssign, Scanning
  <2>2. tasks[t] \in TaskRec
    BY <2>1, <1>p
  <2>3. ASSUME NEW r, Unclaimed(tasks[t]), Unclaimed(r), r.blockedBy = tasks[t].blockedBy,
               previous # NoAgent => GraphFree, op' = [op EXCEPT ![c] = o(r)]
        PROVE  LocksTrue' /\ (ReleaseAfterStop' => FileInv')
    <3>1. /\ o(r).kind = "rollback" /\ o(r).task = t /\ o(r).rec = r /\ o(r).locks = {t}
          /\ o(r).graph = (previous # NoAgent)
      BY DEF IdleOp
    <3> HIDE DEF o
    <3>2. MayTake(c, o(r)) /\ OpTrue(c, o(r))
      BY <2>1, <2>3, <3>1 DEF MayTake, OpTrue, Executing
    <3> QED
      BY <1>0, <2>1, <2>3, <3>2, LaunchStore
  <2>4. CASE /\ Unclaimed(tasks[t]) /\ previous = NoAgent
             /\ op' = [op EXCEPT ![c] = o(Rematched(back))]
    <3>1. back \in TaskRec /\ Unclaimed(back) /\ back.blockedBy = tasks[t].blockedBy
      BY <2>2, <2>4 DEF TaskRec, Unclaimed
    <3>2. Unclaimed(Rematched(back)) /\ Rematched(back).blockedBy = tasks[t].blockedBy
      BY <3>1, RematchedFields DEF Unclaimed
    <3> HIDE DEF o, back
    <3> QED
      BY <2>3, <2>4, <3>2
  <2>5. CASE Unclaimed(tasks[t]) /\ GraphFree /\ op' = [op EXCEPT ![c] = o(again)]
    <3>1. Unclaimed(again) /\ again.blockedBy = tasks[t].blockedBy
      BY <2>2, <2>5 DEF TaskRec, Unclaimed
    <3> HIDE DEF o, again
    <3> QED
      BY <2>3, <2>5, <3>1
  <2>6. CASE Finish(c)
    BY <1>0, <2>1, <2>6, FinishStore
  <2> QED
    BY <1>3, <2>4, <2>5, <2>6 DEF RollbackAssign, Assignable
<1>4. CASE RegisterAssign(c)
  BY <1>0, <1>4, FinishStore DEF RegisterAssign, Scanning
<1>5. ASSUME NEW t \in Tasks, NEW r \in TaskRec, Idle(c), tasks[t].status = "free", LockFree(t),
             tasks' = [tasks EXCEPT ![t] = r], UNCHANGED <<op, work, misreleased>>,
             r.status = "pending",
             r.blockedBy = {} \/ /\ GraphFree
                                 /\ ~CycleFrom([BlockedBy EXCEPT ![t] = r.blockedBy], t)
      PROVE  LocksTrue' /\ (ReleaseAfterStop' => FileInv')
  <2>1. LocksTrue'
    BY <1>5 DEF StoreInv, LocksTrue
  <2>2. ASSUME ReleaseAfterStop' PROVE FileInv'
    <3>1. FileInv
      BY <1>5, <2>2 DEF StoreInv, ReleaseAfterStop
    <3>2. op' = [op EXCEPT ![c] = op[c]]
      BY <1>0, <1>5, <1>t DEF OpsType
    <3>3. ASSUME NEW q \in Procs \ {c}
          PROVE  /\ ~(op[q].kind \in Locking /\ op[q].task = t)
                 /\ ~(op[q].kind \in Executing /\ op[q].task = t)
      BY <1>0, <1>5, <3>1, HolderAlone, NoneExecutes DEF StoreInv, Running
    <3>4. EdgesFit(c, t, r)
      <4>1. CASE r.blockedBy = {}
        BY <4>1 DEF EdgesFit
      <4>2. CASE GraphFree /\ ~CycleFrom([BlockedBy EXCEPT ![t] = r.blockedBy], t)
        <5>1. ~HasCycle([BlockedBy EXCEPT ![t] = r.blockedBy], Tasks)
          BY <1>t, <3>1, <4>2, NewCycle, BlockedByType DEF FileInv
        <5> QED
          BY <4>2, <5>1 DEF EdgesFit, GraphFree
      <4> QED
        BY <1>5, <4>1, <4>2
    <3>5. /\ tasks[t].status # "completed" /\ r.status # "in_progress"
          /\ \A b \in Agents : ~Owns(b, t)
          /\ op[c].kind \in Passive
      BY <1>5 DEF Owns, Running, Passive, Idle
    <3> QED
      BY <1>0, <1>t, <1>5, <3>1, <3>2, <3>3, <3>4, <3>5, WriteFile
  <2> QED
    BY <2>1, <2>2
<1>6. ASSUME NEW t \in Tasks, NEW D \in SUBSET (Tasks \ {t}), CreateTask(c, t, D)
      PROVE  LocksTrue' /\ (ReleaseAfterStop' => FileInv')
  <2> DEFINE r == [Blank("pending") EXCEPT !.blockedBy = D]
  <2>1. r \in TaskRec /\ r.status = "pending" /\ r.blockedBy = D
    BY BlankType, Zenon DEF TaskRec, Blank
  <2>2. /\ Idle(c) /\ tasks[t].status = "free" /\ LockFree(t)
        /\ tasks' = [tasks EXCEPT ![t] = r] /\ UNCHANGED <<op, work, misreleased>>
        /\ D = {} \/ (GraphFree /\ ~CycleFrom([BlockedBy EXCEPT ![t] = D], t))
    BY <1>6 DEF CreateTask
  <2> HIDE DEF r
  <2> QED
    BY <1>5, <2>1, <2>2
<1>7. ASSUME NEW t \in Tasks, NEW a \in Agents, CreateQueuedTask(c, t, a)
      PROVE  LocksTrue' /\ (ReleaseAfterStop' => FileInv')
  <2> DEFINE r == [Blank("pending") EXCEPT !.assignee = a]
  <2>1. r \in TaskRec /\ r.status = "pending" /\ r.blockedBy = {}
    BY BlankType, Zenon DEF TaskRec, Blank
  <2>2. /\ Idle(c) /\ tasks[t].status = "free" /\ LockFree(t)
        /\ tasks' = [tasks EXCEPT ![t] = r] /\ UNCHANGED <<op, work, misreleased>>
    BY <1>7 DEF CreateQueuedTask
  <2> HIDE DEF r
  <2> QED
    BY <1>5, <2>1, <2>2
<1>8. ASSUME NEW t \in Tasks, NEW D \in SUBSET (Tasks \ {t}), UpdateBlockedBy(c, t, D)
      PROVE  LocksTrue' /\ (ReleaseAfterStop' => FileInv')
  <2> DEFINE r == [tasks[t] EXCEPT !.blockedBy = D]
             n == IF Matchable(r) THEN Rematched(r) ELSE r
             o == [IdleOp EXCEPT !.kind = "edit", !.task = t, !.rec = n,
                                 !.locks = D \cup {t}, !.graph = TRUE]
  <2>1. /\ Idle(c) /\ GraphFree /\ Unclaimed(tasks[t])
        /\ \A d \in D \cup {t} : LockFree(d)
        /\ ~CycleFrom([BlockedBy EXCEPT ![t] = D], t)
        /\ op' = [op EXCEPT ![c] = o] /\ UNCHANGED <<tasks, work, misreleased>>
    BY <1>8 DEF UpdateBlockedBy
  <2>2. r \in TaskRec /\ Unclaimed(r) /\ r.blockedBy = D
    BY <1>p, <2>1 DEF TaskRec, Unclaimed
  <2>3. Unclaimed(n) /\ n.blockedBy = D
    BY <2>2, RematchedFields DEF Unclaimed
  <2>4. o.kind = "edit" /\ o.task = t /\ o.rec = n /\ o.locks = D \cup {t} /\ o.graph
    BY DEF IdleOp
  <2> HIDE DEF o, n
  <2>5. MayTake(c, o)
    BY <2>1, <2>4 DEF MayTake
  <2>6. FileInv => ~HasCycle([BlockedBy EXCEPT ![t] = D], Tasks)
    BY <1>t, <2>1, NewCycle, BlockedByType DEF FileInv
  <2>7. FileInv => OpTrue(c, o)
    BY <2>1, <2>3, <2>4, <2>6 DEF OpTrue, Executing
  <2> QED
    BY <1>0, <1>i, <2>1, <2>5, <2>7, LaunchStore
<1>9. ASSUME NEW t \in Tasks, NEW a \in Agents, AssignTask(c, t, a)
      PROVE  LocksTrue' /\ (ReleaseAfterStop' => FileInv')
  <2> DEFINE o == [IdleOp EXCEPT !.kind = "assigning", !.task = t, !.agent = a,
                                 !.rec = [Blank("free") EXCEPT !.assignee = tasks[t].assignee]]
  <2>1. Idle(c) /\ op' = [op EXCEPT ![c] = o] /\ UNCHANGED <<tasks, work, misreleased>>
    BY <1>9 DEF AssignTask
  <2>2. o.kind = "assigning" /\ o.agent # NoAgent /\ o.locks = {} /\ ~o.graph
    BY ConstantsAssumption DEF IdleOp
  <2> HIDE DEF o
  <2> QED
    BY <1>0, <1>i, <1>l, <2>1, <2>2
<1>10. ASSUME NEW t \in Tasks, NEW C \in SUBSET Agents, SetTaskCandidates(c, t, C)
      PROVE  LocksTrue' /\ (ReleaseAfterStop' => FileInv')
  <2> DEFINE r == [tasks[t] EXCEPT !.candidate_members = C, !.matching_status = "matched"]
  <2>1. /\ Idle(c) /\ LockFree(t) /\ Unclaimed(tasks[t]) /\ Stage(c, "match", t, r)
        /\ UNCHANGED <<tasks, work, misreleased>>
    BY <1>10 DEF SetTaskCandidates, Matchable
  <2>2. Unclaimed(r) /\ r.blockedBy = tasks[t].blockedBy
    BY <1>p, <2>1 DEF TaskRec, Unclaimed
  <2> HIDE DEF r
  <2> QED
    BY <1>0, <1>i, <2>1, <2>2, StageStore
<1>11. ASSUME NEW t \in Tasks, UpdateTask(c, t)
      PROVE  LocksTrue' /\ (ReleaseAfterStop' => FileInv')
  <2> DEFINE r == IF Matchable(tasks[t]) THEN Rematched(tasks[t]) ELSE tasks[t]
  <2>1. /\ Idle(c) /\ LockFree(t) /\ Unclaimed(tasks[t]) /\ Stage(c, "edit", t, r)
        /\ UNCHANGED <<tasks, work, misreleased>>
    BY <1>11 DEF UpdateTask
  <2>2. Unclaimed(r) /\ r.blockedBy = tasks[t].blockedBy
    BY <1>p, <2>1, RematchedFields DEF Unclaimed
  <2> HIDE DEF r
  <2> QED
    BY <1>0, <1>i, <2>1, <2>2, StageStore
<1>12. ASSUME NEW t \in Tasks, RequestRematch(c, t)
      PROVE  LocksTrue' /\ (ReleaseAfterStop' => FileInv')
  <2>1. /\ Idle(c) /\ LockFree(t) /\ Unclaimed(tasks[t])
        /\ Stage(c, "edit", t, Rematched(tasks[t])) /\ UNCHANGED <<tasks, work, misreleased>>
    BY <1>12 DEF RequestRematch, Matchable
  <2>2. Unclaimed(Rematched(tasks[t])) /\ Rematched(tasks[t]).blockedBy = tasks[t].blockedBy
    BY <1>p, <2>1, RematchedFields DEF Unclaimed
  <2> QED
    BY <1>0, <1>i, <2>1, <2>2, StageStore
<1>13. ASSUME NEW t \in Tasks, UnassignTask(c, t)
      PROVE  LocksTrue' /\ (ReleaseAfterStop' => FileInv')
  <2> DEFINE r == [tasks[t] EXCEPT !.assignee = NoAgent]
  <2>1. /\ Idle(c) /\ LockFree(t) /\ Unclaimed(tasks[t]) /\ Stage(c, "edit", t, Rematched(r))
        /\ UNCHANGED <<tasks, work, misreleased>>
    BY <1>13 DEF UnassignTask
  <2>2. r \in TaskRec /\ Unclaimed(r) /\ r.blockedBy = tasks[t].blockedBy
    BY <1>p, <2>1 DEF TaskRec, Unclaimed
  <2>3. Unclaimed(Rematched(r)) /\ Rematched(r).blockedBy = tasks[t].blockedBy
    BY <2>2, RematchedFields DEF Unclaimed
  <2> HIDE DEF r
  <2> QED
    BY <1>0, <1>i, <2>1, <2>3, StageStore
<1>14. ASSUME NEW t \in Tasks, ReleaseTask(c, t)
      PROVE  LocksTrue' /\ (ReleaseAfterStop' => FileInv')
  <2> DEFINE o == [IdleOp EXCEPT !.kind = "look", !.task = t, !.rec = tasks[t],
                                 !.agent = tasks[t].owner]
  <2>1. Idle(c) /\ op' = [op EXCEPT ![c] = o] /\ UNCHANGED <<tasks, work, misreleased>>
    BY <1>14 DEF ReleaseTask
  <2>2. o.kind = "look" /\ o.locks = {} /\ ~o.graph
    BY DEF IdleOp
  <2> HIDE DEF o
  <2> QED
    BY <1>0, <1>i, <1>l, <2>1, <2>2
<1>15. ASSUME NEW t \in Tasks, DeleteTask(c, t)
      PROVE  LocksTrue' /\ (ReleaseAfterStop' => FileInv')
  <2> DEFINE o == [IdleOp EXCEPT !.kind = "delete", !.task = t, !.rec = Blank("deleted"),
                                 !.locks = {t}, !.graph = TRUE]
  <2>1. /\ Idle(c) /\ Exists(t) /\ LockFree(t) /\ GraphFree /\ ~Running(t) /\ Dependents(t) = {}
        /\ op' = [op EXCEPT ![c] = o] /\ UNCHANGED <<tasks, work, misreleased>>
    BY <1>15 DEF DeleteTask
  <2>2. /\ o.kind = "delete" /\ o.task = t /\ o.rec.status = "deleted" /\ o.locks = {t}
        /\ o.graph
    BY DEF IdleOp, Blank
  <2> HIDE DEF o
  <2>3. MayTake(c, o) /\ OpTrue(c, o)
    BY <2>1, <2>2 DEF MayTake, OpTrue, Executing, Writing
  <2> QED
    BY <1>0, <1>i, <2>1, <2>3, LaunchStore
<1>16. CASE ReserveTask(c)
  <2> DEFINE t == op[c].task
             r == [tasks[t] EXCEPT !.assignee = op[c].agent]
             o == [IdleOp EXCEPT !.kind = "assign", !.task = t, !.locks = {t}, !.rec = r,
                                 !.graph = TRUE, !.agent = op[c].rec.assignee]
  <2>1. /\ op[c].kind = "assigning" /\ t \in Tasks /\ GraphFree /\ LockFree(t)
        /\ UNCHANGED <<tasks, work, misreleased>>
        /\ (Unclaimed(tasks[t]) /\ op' = [op EXCEPT ![c] = o]) \/ Finish(c)
    BY <1>16, <1>f DEF ReserveTask, Assignable
  <2>2. op[c].kind \notin Scanning
    BY <2>1 DEF Scanning
  <2>3. o.kind = "assign" /\ o.task = t /\ o.rec = r /\ o.locks = {t} /\ o.graph
    BY DEF IdleOp
  <2>4. CASE Finish(c)
    BY <1>0, <2>1, <2>2, <2>4, FinishStore
  <2>5. CASE Unclaimed(tasks[t]) /\ op' = [op EXCEPT ![c] = o]
    <3>1. Unclaimed(r) /\ r.blockedBy = tasks[t].blockedBy
      BY <1>p, <2>1, <2>5 DEF TaskRec, Unclaimed
    <3> HIDE DEF o, r
    <3>2. MayTake(c, o) /\ OpTrue(c, o)
      BY <2>1, <2>3, <2>5, <3>1 DEF MayTake, OpTrue, Executing
    <3> QED
      BY <1>0, <2>1, <2>2, <2>5, <3>2, LaunchStore
  <2> QED
    BY <2>1, <2>4, <2>5
<1>17. CASE ListTasks(c) \/ LookOnline(c)
  <2>1. /\ op[c].kind \in Looking /\ UNCHANGED <<tasks, work, misreleased>>
        /\ \/ \E k \in {"shown", "checked"} : op' = [op EXCEPT ![c] = [op[c] EXCEPT !.kind = k]]
           \/ Finish(c)
    BY <1>17 DEF ListTasks, LookOnline, Looking
  <2>2. op[c].kind \notin Scanning
    BY <2>1 DEF Scanning, Looking
  <2>3. CASE Finish(c)
    BY <1>0, <2>1, <2>2, <2>3, FinishStore
  <2>4. ASSUME NEW k \in {"shown", "checked"}, op' = [op EXCEPT ![c] = [op[c] EXCEPT !.kind = k]]
        PROVE  LocksTrue' /\ (ReleaseAfterStop' => FileInv')
    <3> DEFINE o == [op[c] EXCEPT !.kind = k]
    <3>1. o.kind = k /\ o.locks = op[c].locks /\ o.graph = op[c].graph
      BY <1>0, <1>t DEF OpsType, OpRec
    <3> HIDE DEF o
    <3>2. MayTake(c, o) /\ OpTrue(c, o)
      BY <3>1 DEF MayTake, OpTrue, Locking, Executing, Writing
    <3>3. op' = [op EXCEPT ![c] = o]
      BY <2>4 DEF o
    <3> QED
      BY <1>0, <2>1, <2>2, <3>2, <3>3, LaunchStore
  <2> QED
    BY <2>1, <2>3, <2>4
<1>18. CASE CompareRelease(c)
  <2> DEFINE t == op[c].task
             r == [tasks[t] EXCEPT !.status = "pending", !.owner = NoAgent, !.assignee = NoAgent]
             o == [op[c] EXCEPT !.kind = "release", !.locks = {t}, !.rec = Rematched(r)]
  <2>1. /\ op[c].kind = "checked" /\ t \in Tasks /\ LockFree(t)
        /\ UNCHANGED <<tasks, work, misreleased>>
        /\ op' = [op EXCEPT ![c] = o] \/ Finish(c)
    BY <1>18, <1>f DEF CompareRelease
  <2>2. op[c].kind \notin Scanning
    BY <2>1 DEF Scanning
  <2>3. r \in TaskRec /\ Matchable(r) /\ r.blockedBy = tasks[t].blockedBy
    <3>1. tasks[t] \in TaskRec
      BY <1>p, <2>1
    <3>2. r \in TaskRec
      BY <3>1, Zenon DEF TaskRec
    <3> QED
      BY <3>1, <3>2 DEF TaskRec, Matchable, Unclaimed
  <2>4. /\ Unclaimed(Rematched(r)) /\ Rematched(r).assignee = NoAgent
        /\ Rematched(r).blockedBy = tasks[t].blockedBy
    BY <2>3, RematchedFields DEF Matchable, Unclaimed
  <2> HIDE DEF r
  <2>5. /\ o.kind = "release" /\ o.task = t /\ o.rec = Rematched(r) /\ o.locks = {t}
        /\ o.graph = op[c].graph
    BY <1>0, <1>t DEF OpsType, OpRec
  <2> HIDE DEF o
  <2>6. MayTake(c, o) /\ OpTrue(c, o)
    BY <2>1, <2>4, <2>5 DEF MayTake, OpTrue, Executing
  <2> QED
    BY <1>0, <2>1, <2>2, <2>6, FinishStore, LaunchStore
<1> QED
  BY <1>1, <1>2, <1>3, <1>4, <1>6, <1>7, <1>8, <1>9, <1>10, <1>11, <1>12, <1>13, <1>14, <1>15,
     <1>16, <1>17, <1>18
  DEF ClientStep

\* A step of something else.
LEMMA StaysStore ==
    ASSUME StoreInv, UNCHANGED <<tasks, op, work, misreleased>>
    PROVE  LocksTrue' /\ (ReleaseAfterStop' => FileInv')
<1>1. LocksTrue'
  BY DEF StoreInv, LocksTrue
<1>2. ASSUME FileInv PROVE FileInv'
  <2>1. ASSUME NEW p \in Procs PROVE OpTrue(p, op[p])'
    <3>1. OpTrue(p, op[p])
      BY <1>2 DEF FileInv
    <3> QED
      BY <3>1 DEF OpTrue, Owns, Running, Ready, Exists, Stored, Dependents, BlockedBy
  <2>2. ASSUME NEW a \in Agents PROVE WorksOnOwn(a)'
    BY <1>2 DEF FileInv, WorksOnOwn, ScansFor, Owns, Running
  <2>3. /\ \A t \in Tasks : Running(t)' => Ready(t)'
        /\ ~HasCycle(BlockedBy, Tasks)'
    BY <1>2 DEF FileInv, Running, Ready, BlockedBy, Exists
  <2> QED
    BY <2>1, <2>2, <2>3 DEF FileInv
<1> QED
  BY <1>1, <1>2 DEF StoreInv, ReleaseAfterStop

\* The steps of a worker.
LEMMA WorkerStore ==
    ASSUME StoreInv, NEW a \in Agents, WorkerStep(a)
    PROVE  LocksTrue' /\ (ReleaseAfterStop' => FileInv')
<1> USE DEF ghosts
<1>0. a \in Procs
  BY DEF Procs
<1>t. TypeOK /\ OpsType
  BY DEF StoreInv, OwnerInv, TypeOK, OpsType
<1>f. /\ op[a].kind # "idle" => op[a].task \in Tasks
      /\ op[a].rec \in TaskRec
  BY <1>0, <1>t, OpFields
<1>p. ASSUME NEW t \in Tasks PROVE tasks[t] \in TaskRec
  BY <1>t DEF TypeOK
<1>i. Idle(a) => op[a].kind \notin Scanning
  BY DEF Idle, Scanning
<1>n. ASSUME NEW t \in Tasks, Owns(a, t)
      PROVE  LET r == InterruptedRec(a, tasks[t]) IN Unclaimed(r) /\ r.blockedBy = tasks[t].blockedBy
  BY <1>p DEF InterruptedRec, Unclaimed, TaskRec
\* The worker writes the task it executes, and goes on to o.
<1>w. ASSUME NEW o, op' = [op EXCEPT ![a] = o], o.locks = {}, ~o.graph, o.kind \in Passive,
             op[a].kind \in {"complete", "note", "interrupt", "mismatch"},
             tasks' = [tasks EXCEPT ![op[a].task] = op[a].rec], misreleased' = misreleased,
             \A b \in Agents \ {a} : work'[b] = work[b],
             FileInv => \A s \in Tasks :
                 work'[a] = s /\ ~(o.task = s /\ o.kind \in Scanning) => Owns(a, s)'
      PROVE  LocksTrue' /\ (ReleaseAfterStop' => FileInv')
  <2> DEFINE t == op[a].task
             r == op[a].rec
  <2>1. t \in Tasks /\ r \in TaskRec
    BY <1>f, <1>w
  <2>2. LocksTrue'
    <3>1. MayTake(a, o)
      BY <1>w DEF MayTake
    <3> QED
      BY <1>0, <1>t, <1>w, <3>1, TakeLocks DEF StoreInv, OpsType
  <2>3. ASSUME ReleaseAfterStop' PROVE FileInv'
    <3>1. FileInv
      BY <1>w, <2>3 DEF StoreInv, ReleaseAfterStop
    <3>2. OpTrue(a, op[a])
      BY <1>0, <3>1 DEF FileInv
    <3>3. Owns(a, t) /\ r.blockedBy = tasks[t].blockedBy /\ op[a].kind \in Executing
      BY <1>w, <3>2 DEF OpTrue, Locking, Executing, Writing
    <3>4. /\ tasks[t].status = "in_progress" /\ Ready(t)
          /\ r.status \in {"pending", "in_progress", "completed"}
      BY <1>w, <2>1, <3>1, <3>2, <3>3 DEF FileInv, OpTrue, Owns, Running, Unclaimed
    <3>5. ASSUME NEW q \in Procs \ {a}
          PROVE  /\ op[q].kind \in Locking /\ op[q].task = t =>
                       op[q].kind = "release" /\ r.blockedBy = tasks[t].blockedBy
                 /\ ~(op[q].kind \in Executing /\ op[q].task = t)
      BY <1>0, <3>1, <3>3, WorkerAlone
    <3>6. EdgesFit(a, t, r)
      BY <3>3, <3>4 DEF EdgesFit, Exists
    <3>7. ASSUME NEW d \in r.blockedBy PROVE d # t /\ tasks[d].status = "completed"
      BY <3>3, <3>4 DEF Ready
    <3>8. ASSUME NEW b \in Agents \ {a}
          PROVE  work'[b] = work[b] /\ (Owns(b, t) => work[b] # t)
      BY <1>w, <3>3 DEF Owns
    <3>9. /\ op' = [op EXCEPT ![a] = o] /\ tasks' = [tasks EXCEPT ![t] = r]
          /\ tasks[t].status # "completed" /\ o.kind \in Passive
      BY <1>w, <3>4
    <3>10. ASSUME NEW s \in Tasks, work'[a] = s, ~(o.task = s /\ o.kind \in Scanning)
           PROVE  Owns(a, s)'
      BY <1>w, <3>1, <3>10
    <3> HIDE DEF t, r
    <3> QED
      BY <1>0, <1>t, <2>1, <3>1, <3>5, <3>6, <3>7, <3>8, <3>9, <3>10, WriteFile
  <2> QED
    BY <2>2, <2>3
<1>1. CASE PublishClaim(a)
  <2> DEFINE t == op[a].task
             r == op[a].rec
             o == [IdleOp EXCEPT !.kind = "register", !.task = op[a].task]
  <2>1. t \in Tasks /\ r \in TaskRec /\ op' = [op EXCEPT ![a] = o]
        /\ tasks' = [tasks EXCEPT ![t] = r] /\ work' = work /\ op[a].kind = "claim"
    BY <1>1, <1>f DEF PublishClaim
  <2>2. o.kind = "register" /\ o.task = t /\ o.locks = {} /\ ~o.graph
    BY DEF IdleOp
  <2> HIDE DEF o
  <2>3. LocksTrue'
    <3>1. MayTake(a, o)
      BY <2>2 DEF MayTake
    <3> QED
      BY <1>0, <1>t, <2>1, <3>1, TakeLocks DEF StoreInv, OpsType
  <2>4. ASSUME ReleaseAfterStop' PROVE FileInv'
    <3>1. FileInv
      BY <1>1, <2>4 DEF PublishClaim, StoreInv, ReleaseAfterStop
    <3>2. OpTrue(a, op[a])
      BY <1>0, <3>1 DEF FileInv
    <3>3. /\ t \in op[a].locks /\ Unclaimed(tasks[t]) /\ Ready(t)
          /\ r.status = "in_progress" /\ r.owner = a
          /\ r.blockedBy = tasks[t].blockedBy
      BY <2>1, <3>2 DEF OpTrue, Locking, Writing
    <3>4. ASSUME NEW q \in Procs \ {a}
          PROVE  /\ ~(op[q].kind \in Locking /\ op[q].task = t)
                 /\ ~(op[q].kind \in Executing /\ op[q].task = t)
      BY <1>0, <3>1, <3>3, HolderAlone, NoneExecutes DEF StoreInv, Unclaimed, Running
    <3>5. EdgesFit(a, t, r)
      BY <3>3 DEF EdgesFit, Exists, Unclaimed
    <3>6. ASSUME NEW d \in r.blockedBy PROVE d # t /\ tasks[d].status = "completed"
      BY <3>3 DEF Ready, Unclaimed
    <3>7. tasks[t].status # "completed" /\ \A b \in Agents : ~Owns(b, t)
      BY <3>3 DEF Unclaimed, Owns, Running
    <3>8. ASSUME NEW s \in Tasks, work'[a] = s PROVE Owns(a, s)'
      <4>1. Owns(a, s)
        BY <2>1, <3>1, <3>8 DEF FileInv, WorksOnOwn, ScansFor, Scanning
      <4>2. s # t
        BY <3>7, <4>1
      <4> QED
        BY <2>1, <4>1, <4>2 DEF Owns, Running
    <3>9. ASSUME NEW q \in Procs \ {a}
          PROVE  /\ op[q].kind \in Locking /\ op[q].task = t =>
                       op[q].kind = "release" /\ r.blockedBy = tasks[t].blockedBy
                 /\ ~(op[q].kind \in Executing /\ op[q].task = t)
      BY <3>4
    <3>10. o.kind = "register" /\ a \in Agents /\ o.task = t /\ r.status = "in_progress" /\ r.owner = a
      BY <2>2, <3>3
    <3>11. \A b \in Agents \ {a} : work'[b] = work[b] /\ (Owns(b, t) => work[b] # t)
      BY <2>1, <3>7
    <3>12. tasks' = [tasks EXCEPT ![t] = r] /\ op' = [op EXCEPT ![a] = o] /\ t \in Tasks /\ r \in TaskRec
      BY <2>1
    <3>13. \A s \in Tasks : work'[a] = s /\ ~(o.task = s /\ o.kind \in Scanning) => Owns(a, s)'
      BY <3>8
    <3>14. tasks[t].status = "completed" => r.status = "completed" \/ Dependents(t) = {}
      BY <3>7
    <3>15. r.status = "in_progress" => \A d \in r.blockedBy : d # t /\ tasks[d].status = "completed"
      BY <3>6
    <3> HIDE DEF t, r
    <3> QED
      BY <1>0, <1>t, <3>1, <3>5, <3>9, <3>10, <3>11, <3>12, <3>13, <3>14, <3>15, WriteFile
  <2> QED
    BY <2>3, <2>4
<1>2. CASE RegisterClaim(a)
  <2>1. op' = [op EXCEPT ![a] = IdleOp] /\ UNCHANGED <<tasks, misreleased>>
        /\ op[a].kind = "register" /\ work' = [work EXCEPT ![a] = op[a].task]
    BY <1>2 DEF RegisterClaim, Finish
  <2>2. MayTake(a, IdleOp) /\ OpTrue(a, IdleOp)
    BY DEF MayTake, OpTrue, IdleOp, Locking, Executing, Writing
  <2>3. LocksTrue'
    BY <1>0, <1>t, <2>1, <2>2, TakeLocks DEF StoreInv, OpsType
  <2>4. ASSUME ReleaseAfterStop' PROVE FileInv'
    <3>1. FileInv
      BY <2>1, <2>4 DEF StoreInv, ReleaseAfterStop
    <3>2. Owns(a, op[a].task)
      BY <1>0, <2>1, <3>1 DEF FileInv, OpTrue, Executing
    <3>3. work'[a] = op[a].task /\ \A b \in Agents \ {a} : work'[b] = work[b]
      BY <1>t, <2>1 DEF TypeOK
    <3> QED
      BY <1>0, <1>t, <2>1, <2>2, <3>1, <3>2, <3>3, LaunchFile DEF OpsType
  <2> QED
    BY <2>3, <2>4
<1>3. CASE RejectClaim(a)
  <2>1. op[a].task \in Tasks /\ op[a].kind \notin Scanning
        /\ UNCHANGED <<tasks, work, misreleased>>
    BY <1>3, <1>f DEF RejectClaim, Scanning
  <2> QED
    BY <1>0, <1>3, <1>n, <2>1, FinishStore, StageOwnStore DEF RejectClaim
<1>4. CASE StopWorker(a)
  <2>1. CASE /\ work[a] \in Tasks /\ Owns(a, work[a])
             /\ StageUnlocked(a, "interrupt", work[a], InterruptedRec(a, tasks[work[a]]))
             /\ UNCHANGED <<tasks, work, misreleased>>
    BY <1>4, <1>i, <1>n, <2>1, StageOwnStore DEF StopWorker
  <2>2. CASE work' = [work EXCEPT ![a] = NoTask] /\ UNCHANGED <<op, tasks, misreleased>>
    <3>1. LocksTrue'
      BY <2>2 DEF StoreInv, LocksTrue
    <3>2. ASSUME ReleaseAfterStop' PROVE FileInv'
      <4>1. FileInv
        BY <2>2, <3>2 DEF StoreInv, ReleaseAfterStop
      <4>2. work'[a] = NoTask /\ \A b \in Agents \ {a} : work'[b] = work[b]
        BY <1>t, <2>2 DEF TypeOK
      <4>3. op' = [op EXCEPT ![a] = op[a]] /\ OpTrue(a, op[a])
        BY <1>0, <1>t, <2>2, <4>1 DEF OpsType, FileInv
      <4> QED
        BY <1>0, <1>t, <2>2, <4>1, <4>2, <4>3, LaunchFile, ConstantsAssumption DEF OpsType
    <3> QED
      BY <3>1, <3>2
  <2> QED
    BY <1>4, <1>t, <2>1, <2>2 DEF StopWorker, LetGo, TypeOK
<1>5. CASE NoteIntervention(a)
  <2> DEFINE t == work[a]
             o == [IdleOp EXCEPT !.kind = "note", !.task = t, !.rec = tasks[t]]
  <2>1. /\ t \in Tasks /\ Running(t) /\ Idle(a) /\ op' = [op EXCEPT ![a] = o]
        /\ UNCHANGED <<tasks, work, misreleased>>
    BY <1>5, <1>t DEF NoteIntervention, StageUnlocked, TypeOK
  <2>2. o.kind = "note" /\ o.task = t /\ o.rec = tasks[t] /\ o.locks = {} /\ ~o.graph
    BY DEF IdleOp
  <2> HIDE DEF o
  <2>3. FileInv => Owns(a, t)
    BY <2>1 DEF FileInv, WorksOnOwn, ScansFor, Scanning, Idle
  <2>4. MayTake(a, o) /\ (FileInv => OpTrue(a, o))
    BY <2>1, <2>2, <2>3 DEF MayTake, OpTrue, Locking, Owns, Running
  <2> QED
    BY <1>0, <1>i, <2>1, <2>4, LaunchStore
<1>6. CASE PublishOwn(a)
  <2>1. IdleOp.kind \in Passive /\ IdleOp.locks = {} /\ ~IdleOp.graph /\ IdleOp.kind \notin Scanning
    BY DEF IdleOp, Passive, Scanning
  <2>2. /\ op' = [op EXCEPT ![a] = IdleOp] /\ misreleased' = misreleased
        /\ tasks' = [tasks EXCEPT ![op[a].task] = op[a].rec]
        /\ op[a].kind \in {"note", "mismatch", "interrupt"}
        /\ IF op[a].kind = "note" THEN work' = work ELSE work' = [work EXCEPT ![a] = NoTask]
    BY <1>6 DEF PublishOwn, Finish, LetGo
  <2>3. \A b \in Agents \ {a} : work'[b] = work[b]
    BY <1>t, <2>2 DEF TypeOK
  <2>4. ASSUME FileInv, NEW s \in Tasks, work'[a] = s PROVE Owns(a, s)'
    <3>1. op[a].kind = "note" /\ work[a] = s
      BY <1>t, <2>2, <2>4, ConstantsAssumption DEF TypeOK
    <3>2. Owns(a, s)
      BY <2>4, <3>1 DEF FileInv, WorksOnOwn, ScansFor, Scanning
    <3>3. op[a].rec.status = "in_progress" /\ op[a].rec.owner = a /\ op[a].task \in Tasks
      BY <1>0, <1>f, <2>4, <3>1 DEF FileInv, OpTrue
    <3> QED
      BY <1>t, <2>2, <3>2, <3>3 DEF Owns, Running, TypeOK
  <2> QED
    BY <1>w, <2>1, <2>2, <2>3, <2>4
<1>7. CASE PublishComplete(a)
  <2> DEFINE t == op[a].task
             o == [IdleOp EXCEPT !.kind = "scan", !.task = op[a].task]
  <2>1. o.kind = "scan" /\ o.task = t /\ o.locks = {} /\ ~o.graph
    BY DEF IdleOp
  <2>2. /\ op' = [op EXCEPT ![a] = o] /\ UNCHANGED <<work, misreleased>>
        /\ tasks' = [tasks EXCEPT ![t] = op[a].rec]
        /\ op[a].kind = "complete" /\ t \in Tasks
    BY <1>7, <1>f DEF PublishComplete
  <2> HIDE DEF o
  <2>3. ASSUME FileInv, NEW s \in Tasks, work'[a] = s, ~(o.task = s /\ o.kind \in Scanning)
        PROVE  Owns(a, s)'
    <3>1. Owns(a, s)
      BY <2>2, <2>3 DEF FileInv, WorksOnOwn, ScansFor, Scanning
    <3>2. s # t
      BY <2>1, <2>3 DEF Scanning
    <3> QED
      BY <2>2, <3>1, <3>2 DEF Owns, Running
  <2>4. o.kind \in Passive
    BY <2>1 DEF Passive, Scanning
  <2> QED
    BY <1>w, <2>1, <2>2, <2>3, <2>4
<1>8. CASE ScanUnblocked(a)
  <2> DEFINE S == {s \in Stored : /\ tasks[s].status = "pending"
                                  /\ op[a].task \in tasks[s].blockedBy
                                  /\ Ready(s)}
             o == [op[a] EXCEPT !.kind = "unblock", !.todo = S]
  <2>1. op[a] \in OpRec /\ op[a].kind = "scan" /\ UNCHANGED <<tasks, work, misreleased>>
    BY <1>0, <1>8, <1>t DEF OpsType, ScanUnblocked
  <2>2. o.kind = "unblock" /\ o.task = op[a].task /\ o.locks = op[a].locks /\ o.graph = op[a].graph
    <3> HIDE DEF S
    <3> QED
      BY <2>1 DEF OpRec
  <2>3. op' = [op EXCEPT ![a] = o]
    BY <1>8 DEF ScanUnblocked
  <2> HIDE DEF o
  <2>4. MayTake(a, o) /\ OpTrue(a, o)
    BY <2>2 DEF MayTake, OpTrue, Locking, Executing, Writing
  <2> QED
    BY <1>0, <2>1, <2>2, <2>3, <2>4, LaunchStore DEF Scanning
<1>9. CASE CompleteDone(a)
  <2>1. /\ op' = [op EXCEPT ![a] = IdleOp] /\ UNCHANGED <<tasks, misreleased>>
        /\ op[a].kind = "unblock"
        /\ work' = [work EXCEPT ![a] = IF @ = op[a].task THEN NoTask ELSE @]
    BY <1>9 DEF CompleteDone, Finish
  <2>2. MayTake(a, IdleOp) /\ OpTrue(a, IdleOp)
    BY DEF MayTake, OpTrue, IdleOp, Locking, Executing, Writing
  <2>3. LocksTrue'
    BY <1>0, <1>t, <2>1, <2>2, TakeLocks DEF StoreInv, OpsType
  <2>4. ASSUME ReleaseAfterStop' PROVE FileInv'
    <3>1. FileInv
      BY <2>1, <2>4 DEF StoreInv, ReleaseAfterStop
    <3>2. \A b \in Agents \ {a} : work'[b] = work[b]
      BY <1>t, <2>1 DEF TypeOK
    <3>3. ASSUME NEW s \in Tasks, work'[a] = s PROVE Owns(a, s)
      BY <1>t, <2>1, <3>1, <3>3, ConstantsAssumption DEF TypeOK, FileInv, WorksOnOwn, ScansFor
    <3> QED
      BY <1>0, <1>t, <2>1, <2>2, <3>1, <3>2, <3>3, LaunchFile DEF OpsType
  <2> QED
    BY <2>3, <2>4
<1>10. ASSUME NEW t \in Tasks, ClaimTask(a, t)
       PROVE  LocksTrue' /\ (ReleaseAfterStop' => FileInv')
  <2> DEFINE r == [tasks[t] EXCEPT !.owner = a, !.status = "in_progress"]
  <2>1. /\ Idle(a) /\ LockFree(t) /\ Unclaimed(tasks[t]) /\ Ready(t) /\ Stage(a, "claim", t, r)
        /\ UNCHANGED <<tasks, work, misreleased>>
    BY <1>10 DEF ClaimTask
  <2>2. r.status = "in_progress" /\ r.owner = a /\ r.blockedBy = tasks[t].blockedBy
    BY <1>p DEF TaskRec
  <2> HIDE DEF r
  <2> QED
    BY <1>0, <1>i, <2>1, <2>2, StageStore
<1>11. ASSUME NEW t \in Tasks, ReportMismatch(a, t)
       PROVE  LocksTrue' /\ (ReleaseAfterStop' => FileInv')
  <2> DEFINE r == [tasks[t] EXCEPT !.status = "pending", !.owner = NoAgent,
                                   !.assignee = NoAgent,
                                   !.matching_status = "rematch_required"]
  <2>1. /\ Idle(a) /\ Owns(a, t) /\ StageUnlocked(a, "mismatch", t, Rematched(r))
        /\ UNCHANGED <<tasks, work, misreleased>>
    BY <1>11 DEF ReportMismatch
  <2>2. r \in TaskRec /\ Matchable(r) /\ r.blockedBy = tasks[t].blockedBy
    <3>1. tasks[t] \in TaskRec
      BY <1>p
    <3>2. r \in TaskRec
      BY <3>1, Zenon DEF TaskRec
    <3> QED
      BY <3>1, <3>2 DEF TaskRec, Matchable, Unclaimed
  <2>3. /\ Unclaimed(Rematched(r)) /\ Rematched(r).assignee = NoAgent
        /\ Rematched(r).blockedBy = tasks[t].blockedBy
    BY <2>2, RematchedFields DEF Matchable, Unclaimed
  <2> HIDE DEF r
  <2> QED
    BY <1>i, <2>1, <2>3, StageOwnStore
<1>12. ASSUME NEW t \in Tasks, CompleteTask(a, t)
       PROVE  LocksTrue' /\ (ReleaseAfterStop' => FileInv')
  <2> DEFINE r == [tasks[t] EXCEPT !.status = "completed"]
  <2>1. /\ Idle(a) /\ Owns(a, t) /\ StageUnlocked(a, "complete", t, r)
        /\ UNCHANGED <<tasks, work, misreleased>>
    BY <1>12 DEF CompleteTask
  <2>2. r.status = "completed" /\ r.blockedBy = tasks[t].blockedBy
    BY <1>p DEF TaskRec
  <2> HIDE DEF r
  <2> QED
    BY <1>i, <2>1, <2>2, StageOwnStore
<1>13. ASSUME NEW s \in Tasks, UnblockOne(a, s)
       PROVE  LocksTrue' /\ (ReleaseAfterStop' => FileInv')
  <2> DEFINE o == [op[a] EXCEPT !.todo = @ \ {s}]
             r == Rematched(tasks[s])
  <2>1. /\ op[a] \in OpRec /\ op[a].kind = "unblock" /\ LockFree(s)
        /\ UNCHANGED <<work, misreleased>> /\ op' = [op EXCEPT ![a] = o]
        /\ \/ tasks' = tasks
           \/ Unclaimed(tasks[s]) /\ tasks' = [tasks EXCEPT ![s] = r]
    BY <1>0, <1>13, <1>t DEF OpsType, UnblockOne, Matchable
  <2>2. /\ o.kind = "unblock" /\ o.task = op[a].task /\ o.locks = op[a].locks
        /\ o.graph = op[a].graph
    BY <2>1 DEF OpRec
  <2> HIDE DEF o
  <2>3. MayTake(a, o) /\ OpTrue(a, o)
    BY <2>2 DEF MayTake, OpTrue, Locking, Executing, Writing
  <2>4. CASE tasks' = tasks
    BY <1>0, <2>1, <2>2, <2>3, <2>4, LaunchStore DEF Scanning
  <2>5. CASE Unclaimed(tasks[s]) /\ tasks' = [tasks EXCEPT ![s] = r]
    <3>1. r \in TaskRec /\ Unclaimed(r) /\ r.blockedBy = tasks[s].blockedBy
      BY <1>p, <2>5, RematchedType, RematchedFields DEF Unclaimed
    <3> HIDE DEF r
    <3>2. LocksTrue'
      BY <1>0, <1>t, <2>1, <2>3, TakeLocks DEF StoreInv, OpsType
    <3>3. ASSUME ReleaseAfterStop' PROVE FileInv'
      <4>1. FileInv
        BY <2>1, <3>3 DEF StoreInv, ReleaseAfterStop
      <4>2. ASSUME NEW q \in Procs \ {a}
            PROVE  /\ ~(op[q].kind \in Locking /\ op[q].task = s)
                   /\ ~(op[q].kind \in Executing /\ op[q].task = s)
        BY <1>0, <2>1, <2>5, <4>1, HolderAlone, NoneExecutes DEF StoreInv, Unclaimed, Running
      <4>3. EdgesFit(a, s, r)
        BY <2>5, <3>1 DEF EdgesFit, Exists, Unclaimed
      <4>4. /\ tasks[s].status # "completed" /\ r.status # "in_progress"
            /\ \A b \in Agents : ~Owns(b, s)
            /\ o.kind \in Passive
        BY <2>2, <2>5, <3>1 DEF Unclaimed, Owns, Running, Passive, Scanning
      <4>5. ASSUME NEW d \in Tasks, work'[a] = d, ~(o.task = d /\ o.kind \in Scanning)
            PROVE  Owns(a, d)'
        <5>1. Owns(a, d)
          BY <2>1, <2>2, <4>1, <4>5 DEF FileInv, WorksOnOwn, ScansFor, Scanning
        <5> QED
          BY <2>5, <4>4, <5>1 DEF Owns, Running
      <4> QED
        BY <1>0, <1>t, <2>1, <2>5, <3>1, <4>1, <4>2, <4>3, <4>4, <4>5, WriteFile
    <3> QED
      BY <3>2, <3>3
  <2> QED
    BY <2>1, <2>4, <2>5
<1>14. CASE StartWorker(a) \/ AskToStop(a) \/ LeaveTeam(a)
  BY <1>14, StaysStore DEF StartWorker, AskToStop, LeaveTeam
<1> QED
  BY <1>1, <1>2, <1>3, <1>4, <1>5, <1>6, <1>7, <1>8, <1>9, <1>10, <1>11, <1>12, <1>13, <1>14
  DEF WorkerStep

LEMMA InitStore == Init => StoreInv
<1> SUFFICES ASSUME Init PROVE StoreInv
  OBVIOUS
<1>1. OwnerInv
  BY InitOwner
<1>2. /\ \A p \in Procs : op[p] = IdleOp
      /\ \A a \in Agents : work[a] = NoTask
      /\ \A t \in Tasks : tasks[t] = Blank("free")
  BY DEF Init
<1>3. LocksTrue
  BY <1>2 DEF LocksTrue, IdleOp
<1>4. ASSUME NEW p \in Procs PROVE OpTrue(p, op[p])
  BY <1>2 DEF OpTrue, IdleOp, Locking, Executing, Writing
<1>5. ASSUME NEW a \in Agents PROVE WorksOnOwn(a)
  BY <1>2, ConstantsAssumption DEF WorksOnOwn
<1>6. ASSUME NEW t \in Tasks PROVE ~Running(t) /\ BlockedBy[t] = {}
  BY <1>2 DEF Running, Blank, BlockedBy, Exists
<1>7. ~HasCycle(BlockedBy, Tasks)
  BY <1>6, Zenon DEF HasCycle
<1> QED
  BY <1>1, <1>3, <1>4, <1>5, <1>6, <1>7 DEF StoreInv, FileInv, OwnerInv

LEMMA NextStore ==
    ASSUME StoreInv, [Next]_vars
    PROVE  StoreInv'
<1>1. TypeOK' /\ (ReleaseAfterStop' => OwnerInv')
  <2>1. TypeOK'
    BY NextType DEF StoreInv
  <2>2. ReleaseAfterStop' => ReleaseAfterStop
    BY StopStays
  <2>3. FileInv => NotesOwn
    BY DEF FileInv, NotesOwn, WorksOnOwn, ScansFor, Scanning, Idle
  <2> QED
    BY <2>1, <2>2, <2>3, NextOwner DEF StoreInv
<1>2. LocksTrue' /\ (ReleaseAfterStop' => FileInv')
  <2>1. CASE \E c \in Clients : ClientStep(c)
    BY <2>1, ClientStore
  <2>2. CASE \E a \in Agents : WorkerStep(a)
    BY <2>2, WorkerStore
  <2>3. CASE UNCHANGED <<tasks, op, work, misreleased>>
    BY <2>3, StaysStore
  <2>4. CASE Crash
    <3>1. /\ \A p \in Procs : op'[p] = IdleOp
          /\ \A a \in Agents : work'[a] = NoTask
          /\ tasks' = tasks /\ misreleased' = misreleased
      BY <2>4 DEF Crash
    <3>2. LocksTrue'
      BY <3>1 DEF LocksTrue, IdleOp
    <3>3. ASSUME FileInv PROVE FileInv'
      <4>1. ASSUME NEW p \in Procs PROVE OpTrue(p, op[p])'
        BY <3>1 DEF OpTrue, IdleOp, Locking, Executing, Writing
      <4>2. ASSUME NEW a \in Agents PROVE WorksOnOwn(a)'
        BY <3>1, ConstantsAssumption DEF WorksOnOwn
      <4>3. /\ \A t \in Tasks : Running(t)' => Ready(t)'
            /\ ~HasCycle(BlockedBy, Tasks)'
        BY <3>1, <3>3 DEF FileInv, Running, Ready, BlockedBy, Exists
      <4> QED
        BY <4>1, <4>2, <4>3 DEF FileInv
    <3> QED
      BY <3>1, <3>2, <3>3 DEF StoreInv, ReleaseAfterStop
  <2> QED
    BY <2>1, <2>2, <2>3, <2>4 DEF Next, LeadReads, vars, ghosts
<1> QED
  BY <1>1, <1>2 DEF StoreInv

LEMMA AlwaysStore == Spec => []StoreInv
<1>1. Init => StoreInv
  BY InitStore
<1>2. StoreInv /\ [Next]_vars => StoreInv'
  BY NextStore
<1> QED
  BY <1>1, <1>2, PTL DEF Spec

-----------------------------------------------------------------------------
(* What a step does to one file                                            *)

\* p writes r to the file of t, as it has decided when it read the file.
Writes(p, t, r) ==
    /\ op[p].kind \in Writing \cup {"delete"} /\ op'[p].kind \notin Writing
    /\ op[p].task = t /\ op[p].rec = r
    /\ op[p].kind = "release" => Running(t)

\* A step writes one file at most: that of a new task, that of one it has unblocked,
\* or one read before.
LEMMA Written ==
    ASSUME StoreInv, Next, ReleaseAfterStop'
    PROVE  \/ tasks' = tasks
           \/ \E t \in Tasks, r \in TaskRec :
                 /\ tasks' = [tasks EXCEPT ![t] = r]
                 /\ \/ tasks[t].status = "free" /\ r.status = "pending"
                    \/ Unclaimed(tasks[t]) /\ r = Rematched(tasks[t])
                    \/ \E p \in Procs : Writes(p, t, r)
<1> USE DEF ghosts
<1>t. TypeOK /\ OpsType
  BY DEF StoreInv, TypeOK, OpsType
<1>f. ASSUME NEW p \in Procs PROVE (op[p].kind # "idle" => op[p].task \in Tasks) /\ op[p].rec \in TaskRec
  BY <1>t, OpFields
<1>p. ASSUME NEW t \in Tasks PROVE tasks[t] \in TaskRec
  BY <1>t DEF TypeOK
<1>i. IdleOp.kind \notin Writing /\ "assigned" \notin Writing /\ "register" \notin Writing
      /\ "scan" \notin Writing
  BY DEF IdleOp, Writing, Locking, Executing
<1> DEFINE Goal ==
             \/ tasks' = tasks
             \/ \E t \in Tasks, r \in TaskRec :
                   /\ tasks' = [tasks EXCEPT ![t] = r]
                   /\ \/ tasks[t].status = "free" /\ r.status = "pending"
                      \/ Unclaimed(tasks[t]) /\ r = Rematched(tasks[t])
                      \/ \E p \in Procs : Writes(p, t, r)
<1>1. ASSUME NEW t \in Tasks, NEW r \in TaskRec, tasks' = [tasks EXCEPT ![t] = r],
             tasks[t].status = "free", r.status = "pending"
      PROVE  Goal
  BY <1>1
<1>2. ASSUME NEW p \in Procs, NEW o, op' = [op EXCEPT ![p] = o], o.kind \notin Writing,
             op[p].kind \in Writing \cup {"delete"}, op[p].kind = "release" => Running(op[p].task),
             tasks' = [tasks EXCEPT ![op[p].task] = op[p].rec]
      PROVE  Goal
  <2>1. op[p].task \in Tasks /\ op[p].rec \in TaskRec
    BY <1>2, <1>f DEF Writing, Locking, Executing
  <2>2. op'[p] = o
    BY <1>2, <1>t DEF OpsType
  <2> QED
    BY <1>2, <2>1, <2>2 DEF Writes
<1>3. ASSUME NEW c \in Clients, ClientStep(c)
      PROVE  Goal
  <2>0. c \in Procs
    BY DEF Procs
  <2>1. CASE Publish(c)
    <3>1. op[c].kind = "release" => Running(op[c].task)
      BY <2>1 DEF Publish, ReleaseAfterStop
    <3>2. op[c].kind \in Writing \cup {"delete"}
      BY <2>1 DEF Publish, Writing, Locking
    <3> QED
      BY <1>2, <1>i, <2>0, <2>1, <3>1, <3>2 DEF Publish, Finish
  <2>2. CASE PublishAssign(c)
    <3> DEFINE o == [op[c] EXCEPT !.kind = "assigned", !.locks = {}, !.graph = FALSE]
    <3>1. o.kind = "assigned"
      BY <1>t, <2>0 DEF OpsType, OpRec
    <3>2. /\ op' = [op EXCEPT ![c] = o] /\ tasks' = [tasks EXCEPT ![op[c].task] = op[c].rec]
          /\ op[c].kind = "assign"
      BY <2>2 DEF PublishAssign
    <3>3. op[c].kind \in Writing
      BY <3>2 DEF Writing, Locking
    <3> HIDE DEF o
    <3> QED
      BY <1>2, <1>i, <2>0, <3>1, <3>2, <3>3
  <2>3. ASSUME NEW t \in Tasks, NEW D \in SUBSET (Tasks \ {t}), CreateTask(c, t, D) PROVE Goal
    <3>1. [Blank("pending") EXCEPT !.blockedBy = D] \in TaskRec
      BY BlankType, Zenon DEF TaskRec
    <3> QED
      BY <1>1, <2>3, <3>1 DEF CreateTask, Blank
  <2>4. ASSUME NEW t \in Tasks, NEW a \in Agents, CreateQueuedTask(c, t, a) PROVE Goal
    <3>1. [Blank("pending") EXCEPT !.assignee = a] \in TaskRec
      BY BlankType, Zenon DEF TaskRec
    <3> QED
      BY <1>1, <2>4, <3>1 DEF CreateQueuedTask, Blank
  <2>5. CASE \/ ReserveTask(c) \/ RegisterAssign(c) \/ RollbackAssign(c)
             \/ ListTasks(c) \/ LookOnline(c) \/ CompareRelease(c)
    BY <2>5 DEF ReserveTask, RegisterAssign, RollbackAssign, ListTasks, LookOnline, CompareRelease
  <2>6. ASSUME NEW t \in Tasks, NEW D, UpdateBlockedBy(c, t, D) PROVE Goal
    BY <2>6 DEF UpdateBlockedBy
  <2>7. ASSUME NEW t \in Tasks, NEW a, AssignTask(c, t, a) PROVE Goal
    BY <2>7 DEF AssignTask
  <2>8. ASSUME NEW t \in Tasks, NEW C, SetTaskCandidates(c, t, C) PROVE Goal
    BY <2>8 DEF SetTaskCandidates
  <2>9. ASSUME NEW t \in Tasks, \/ UpdateTask(c, t) \/ RequestRematch(c, t) \/ UnassignTask(c, t)
                                \/ ReleaseTask(c, t) \/ DeleteTask(c, t)
        PROVE  Goal
    BY <2>9 DEF UpdateTask, RequestRematch, UnassignTask, ReleaseTask, DeleteTask
  <2> HIDE DEF Goal
  <2> QED
    BY <1>3, <2>1, <2>2, <2>3, <2>4, <2>5, <2>6, <2>7, <2>8, <2>9 DEF ClientStep
<1>4. ASSUME NEW a \in Agents, WorkerStep(a)
      PROVE  Goal
  <2>0. a \in Procs
    BY DEF Procs
  <2>1. CASE PublishClaim(a) \/ PublishOwn(a) \/ PublishComplete(a)
    <3>1. /\ op[a].kind \in {"claim", "note", "mismatch", "interrupt", "complete"}
          /\ tasks' = [tasks EXCEPT ![op[a].task] = op[a].rec]
          /\ \E o : op' = [op EXCEPT ![a] = o] /\ o.kind \in {IdleOp.kind, "register", "scan"}
      BY <2>1 DEF PublishClaim, PublishOwn, PublishComplete, Finish, IdleOp
    <3>2. op[a].kind \in Writing /\ op[a].kind # "release"
      BY <3>1 DEF Writing, Locking, Executing
    <3> QED
      BY <1>2, <1>i, <2>0, <3>1, <3>2
  <2>2. ASSUME NEW s \in Tasks, UnblockOne(a, s) PROVE Goal
    <3>1. \/ tasks' = tasks
          \/ Unclaimed(tasks[s]) /\ tasks' = [tasks EXCEPT ![s] = Rematched(tasks[s])]
      BY <2>2 DEF UnblockOne, Matchable
    <3>2. Rematched(tasks[s]) \in TaskRec
      BY <1>p, RematchedType
    <3> QED
      BY <3>1, <3>2
  <2>3. CASE tasks' = tasks
    BY <2>3
  <2> HIDE DEF Goal
  <2> QED
    BY <1>4, <2>1, <2>2, <2>3
    DEF WorkerStep, RegisterClaim, RejectClaim, StopWorker, NoteIntervention, ScanUnblocked, CompleteDone,
        ClaimTask, ReportMismatch, CompleteTask, StartWorker, AskToStop, LeaveTeam
<1> QED
  BY <1>3, <1>4 DEF Next, LeadReads, Crash

\* What such a write turns a file into.
LEMMA WritesWhat ==
    ASSUME StoreInv, ReleaseAfterStop, NEW p \in Procs, NEW t, NEW r, Writes(p, t, r)
    PROVE  /\ r.status \in {"pending", "in_progress", "completed", "deleted"}
           /\ r.status = "in_progress" => p \in Agents /\ r.owner = p /\ op[p].kind \in {"claim", "note"}
           /\ r.status = "pending" => Unclaimed(tasks[t]) \/ Running(t)
           /\ r.status = "completed" => Running(t)
           /\ op[p].kind = "note" => Owns(p, t)
           /\ tasks[t].status \notin {"free", "deleted"}
           /\ tasks[t].status = "completed" => r.status = "deleted"
<1>1. OpTrue(p, op[p])
  BY DEF StoreInv, FileInv
<1>2. op[p].kind \in {"claim", "note"} => p \in Agents
  <2>1. op[p].rec.status = "in_progress" /\ op[p].kind \in {"claim", "note"} => p \in Agents
    BY DEF StoreInv, OwnerInv, WritesOwn, OwnWrite, Looking
  <2> QED
    BY <1>1, <2>1 DEF OpTrue
<1> QED
  BY <1>1, <1>2 DEF OpTrue, Writes, Writing, Locking, Executing, Unclaimed, Owns, Running, Exists

\* A completed task stays so until it is deleted, a deleted one stays so, a running one
\* keeps its owner as long as it runs.
LEMMA Follows ==
    ASSUME StoreInv, Next, ReleaseAfterStop', NEW t \in Tasks
    PROVE  /\ Running(t) /\ Running(t)' => tasks'[t].owner = tasks[t].owner
           /\ tasks[t].status = "completed" => tasks'[t].status \in {"completed", "deleted"}
           /\ tasks[t].status = "deleted" => tasks'[t].status = "deleted"
           /\ tasks[t].status # "free" => tasks'[t].status # "free"
<1>0. ReleaseAfterStop /\ TypeOK
  BY StopStays DEF StoreInv
<1>1. CASE tasks'[t] = tasks[t]
  BY <1>1 DEF Running
<1>2. ASSUME NEW r \in TaskRec, tasks'[t] = r, NEW p \in Procs, Writes(p, t, r)
      PROVE  /\ Running(t) /\ Running(t)' => tasks'[t].owner = tasks[t].owner
             /\ tasks[t].status = "completed" => tasks'[t].status \in {"completed", "deleted"}
             /\ tasks[t].status = "deleted" => tasks'[t].status = "deleted"
             /\ tasks[t].status # "free" => tasks'[t].status # "free"
  <2>1. op[p].kind = "claim" => ~Running(t)
    BY <1>0, <1>2 DEF StoreInv, FileInv, OpTrue, Writes, Unclaimed, Running
  <2> QED
    BY <1>0, <1>2, <2>1, WritesWhat DEF Running, Owns
<1>3. CASE tasks'[t].status = "pending" /\ tasks[t].status \in {"free", "pending"}
  BY <1>3 DEF Running
<1>4. ASSUME NEW s \in Tasks, NEW r \in TaskRec, tasks' = [tasks EXCEPT ![s] = r]
      PROVE  tasks'[t] = IF s = t THEN r ELSE tasks[t]
  BY <1>0, <1>4 DEF TypeOK
<1>5. Unclaimed(tasks[t]) => Rematched(tasks[t]).status = "pending" /\ tasks[t].status = "pending"
  BY <1>0, RematchedFields DEF TypeOK, Unclaimed
<1> QED
  BY <1>1, <1>2, <1>3, <1>4, <1>5, Written

-----------------------------------------------------------------------------
(* Matches decided too early                                               *)

\* The completion a is busy with is one that t waits for, and t is still to be seen to.
SeesTo(a, t) ==
    /\ op[a].task \in tasks[t].blockedBy
    /\ op[a].kind = "scan" \/ (op[a].kind = "unblock" /\ t \in op[a].todo)
SeenTo(t) == tasks[t].blockedBy \cap torn # {} \/ \E a \in Agents : SeesTo(a, t)

Overwritten(t) == tasks[t].matching_status = "matched" /\ verdict[t] = "overwrote"
ReadTooEarly(t) ==
    \/ ctx[t].rev = tasks[t].matching_revision /\ ~ctx[t].ready
    \/ tasks[t].matching_status = "matched" /\ verdict[t] = "stale"

\* t is ready now, but the context its match was, or is to be, decided in was not.
Parked(t) ==
    /\ Matchable(tasks[t]) /\ Ready(t) /\ Unsettled(tasks[t])
    /\ ~Overwritten(t) /\ ReadTooEarly(t)

\* What p is to write to t asks for a new match, has none, or is one for the context
\* last read.
MatchFits(p, k, t, r) ==
    \/ /\ k # "note"
       /\ r.matching_revision > tasks[t].matching_revision /\ r.matching_status # "matched"
    \/ ~Matchable(r) /\ r.matching_revision = tasks[t].matching_revision
    \/ /\ k = "match" /\ p \in Clients /\ Matchable(tasks[t])
       /\ r.blockedBy = tasks[t].blockedBy /\ ctx[t].rev = tasks[t].matching_revision
       /\ r.matching_revision = tasks[t].matching_revision /\ r.matching_status = "matched"

MatchTrue(p, o) ==
    o.kind \in Writing /\ (o.kind = "release" => Running(o.task)) =>
        MatchFits(p, o.kind, o.task, o.rec)

MatchBody ==
    /\ \A p \in Procs : MatchTrue(p, op[p])
    /\ \A t \in Tasks : tasks[t].status = "free" => ctx[t].rev = 0
    /\ \A t \in Tasks : Exists(t) => ctx[t].rev <= tasks[t].matching_revision
    /\ \A t \in Tasks : Parked(t) => SeenTo(t)

MatchInv == StoreInv /\ (ReleaseAfterStop => MatchBody)

\* Files stay; p goes on to o.
LEMMA MatchLaunch ==
    ASSUME MatchBody, op \in [Procs -> OpRec], NEW p \in Procs, NEW o, MatchTrue(p, o),
           op' = [op EXCEPT ![p] = o], UNCHANGED <<tasks, ctx, torn, verdict>>,
           \A t \in Tasks : p \in Agents /\ Parked(t) /\ SeesTo(p, t) => SeesTo(p, t)'
    PROVE  MatchBody'
<1>1. /\ op'[p] = o
      /\ \A q \in Procs \ {p} : op'[q] = op[q]
  OBVIOUS
<1>2. ASSUME NEW q \in Procs PROVE MatchTrue(q, op[q])'
  <2>1. MatchTrue(q, op'[q])
    BY <1>1 DEF MatchBody
  <2> QED
    BY <2>1 DEF MatchTrue, MatchFits, Running
<1>3. ASSUME NEW t \in Tasks, Parked(t)' PROVE SeenTo(t)'
  <2>1. Parked(t)
    BY <1>3 DEF Parked, Ready, Overwritten, ReadTooEarly
  <2>2. SeenTo(t)
    BY <2>1 DEF MatchBody
  <2>3. CASE tasks[t].blockedBy \cap torn # {}
    BY <2>3 DEF SeenTo
  <2>4. ASSUME NEW a \in Agents, SeesTo(a, t) PROVE SeesTo(a, t)'
    <3>1. CASE a = p
      BY <2>1, <2>4, <3>1
    <3>2. CASE a # p
      BY <1>1, <2>4, <3>2 DEF SeesTo, Procs
    <3> QED
      BY <3>1, <3>2
  <2> QED
    BY <2>2, <2>3, <2>4 DEF SeenTo
<1>4. ASSUME NEW t \in Tasks
      PROVE  /\ tasks'[t].status = "free" => ctx'[t].rev = 0
             /\ Exists(t)' => ctx'[t].rev <= tasks'[t].matching_revision
  BY DEF MatchBody, Exists
<1> QED
  BY <1>2, <1>3, <1>4 DEF MatchBody

\* What others are about to write for t is none the worse for p writing r.
MatchesStay(p, t, r) ==
    \A q \in Procs \ {p} : op[q].kind \in Writing /\ op[q].task = t =>
        /\ op[q].kind = "release"
        /\ r.status = "in_progress" =>
              Running(t) /\ r.matching_revision = tasks[t].matching_revision

\* p writes the file of t and goes on to o.
LEMMA MatchWrite ==
    ASSUME TypeOK, MatchBody, NEW p \in Procs, NEW o, op' = [op EXCEPT ![p] = o],
           o.kind \notin Writing,
           NEW t \in Tasks, NEW r \in TaskRec, tasks' = [tasks EXCEPT ![t] = r],
           UNCHANGED <<ctx, torn>>, \A s \in Tasks \ {t} : verdict'[s] = verdict[s],
           MatchesStay(p, t, r),
           r.status # "free", r.status # "deleted" => ctx[t].rev <= r.matching_revision,
           r.status = "completed" /\ tasks[t].status # "completed" =>
               p \in Agents /\ o.kind = "scan" /\ o.task = t,
           \A s \in Tasks \ {t} : p \in Agents /\ SeesTo(p, s) => SeesTo(p, s)',
           Parked(t)' => SeenTo(t)'
    PROVE  MatchBody'
<1>1. /\ op'[p] = o
      /\ \A q \in Procs \ {p} : op'[q] = op[q]
      /\ tasks'[t] = r
      /\ \A s \in Tasks \ {t} : tasks'[s] = tasks[s]
  BY DEF TypeOK
<1>2. ASSUME NEW q \in Procs PROVE MatchTrue(q, op[q])'
  <2>1. CASE q = p
    BY <1>1, <2>1 DEF MatchTrue
  <2>2. CASE q # p /\ op[q].kind \in Writing /\ op[q].task # t
    <3>1. op[q].task \in Tasks
      BY <2>2 DEF TypeOK, Idle, Writing, Locking, Executing
    <3>2. MatchTrue(q, op[q])
      BY DEF MatchBody
    <3> QED
      BY <1>1, <2>2, <3>1, <3>2 DEF MatchTrue, MatchFits, Running
  <2>3. CASE q # p /\ op[q].kind \in Writing /\ op[q].task = t
    <3>1. MatchTrue(q, op[q])
      BY DEF MatchBody
    <3> QED
      BY <1>1, <2>3, <3>1 DEF MatchTrue, MatchFits, MatchesStay, Running
  <2>4. CASE q # p /\ op[q].kind \notin Writing
    BY <1>1, <2>4 DEF MatchTrue
  <2> QED
    BY <2>1, <2>2, <2>3, <2>4
<1>3. ASSUME NEW s \in Tasks \ {t}, Parked(s)' PROVE SeenTo(s)'
  <2>1. tasks[s].blockedBy \in SUBSET Tasks /\ tasks'[s] = tasks[s]
    BY <1>1, Zenon DEF TypeOK, TaskRec
  <2>2. CASE Ready(s)
    <3>1. Parked(s)
      BY <1>3, <2>1, <2>2 DEF Parked, Overwritten, ReadTooEarly
    <3>2. SeenTo(s)
      BY <3>1 DEF MatchBody
    <3>3. CASE tasks[s].blockedBy \cap torn # {}
      BY <2>1, <3>3 DEF SeenTo
    <3>4. ASSUME NEW a \in Agents, SeesTo(a, s) PROVE SeesTo(a, s)'
      <4>1. CASE a = p
        BY <3>4, <4>1
      <4>2. CASE a # p
        BY <1>1, <2>1, <3>4, <4>2 DEF SeesTo, Procs
      <4> QED
        BY <4>1, <4>2
    <3> QED
      BY <3>2, <3>3, <3>4 DEF SeenTo
  <2>3. CASE ~Ready(s)
    <3>1. PICK d \in tasks[s].blockedBy : tasks[d].status # "completed"
      BY <2>3 DEF Ready
    <3>2. tasks'[d].status = "completed" /\ d \in Tasks
      BY <1>3, <2>1, <3>1 DEF Parked, Ready
    <3>3. d = t
      BY <1>1, <3>1, <3>2
    <3>4. p \in Agents /\ o.kind = "scan" /\ o.task = d
      BY <1>1, <3>1, <3>2, <3>3
    <3>5. SeesTo(p, s)'
      BY <1>1, <2>1, <3>4 DEF SeesTo
    <3> QED
      BY <3>4, <3>5 DEF SeenTo
  <2> QED
    BY <2>2, <2>3
<1>4. ASSUME NEW s \in Tasks
      PROVE  /\ tasks'[s].status = "free" => ctx'[s].rev = 0
             /\ Exists(s)' => ctx'[s].rev <= tasks'[s].matching_revision
  BY <1>1 DEF MatchBody, Exists
<1>5. ASSUME NEW s \in Tasks, Parked(s)' PROVE SeenTo(s)'
  BY <1>3, <1>5
<1> QED
  BY <1>2, <1>4, <1>5 DEF MatchBody

\* Nobody else is about to write the file that p writes, but for a release of a task
\* that p executes.
LEMMA WriterAlone ==
    ASSUME LocksTrue, FileInv, NEW p \in Procs, op[p].kind \in Writing \cup {"delete"},
           op[p].kind = "release" => \A a \in Agents : ~Executes(a, op[p].task),
           NEW q \in Procs \ {p}, op[q].task = op[p].task
    PROVE  /\ op[q].kind \notin Executing
           /\ op[q].kind \in Locking => op[q].kind = "release" /\ op[p].kind \in Executing
<1> DEFINE t == op[p].task
<1>1. OpTrue(p, op[p]) /\ OpTrue(q, op[q])
  BY DEF FileInv
<1>2. CASE op[p].kind \in Executing
  BY <1>2, WorkerAlone
<1>3. CASE op[p].kind \notin Executing
  <2>1. op[p].kind \in Locking /\ t \in op[p].locks
    BY <1>1, <1>3 DEF OpTrue, Writing, Locking
  <2>2. op[q].kind \notin Locking
    BY <2>1, HolderAlone
  <2>3. CASE op[p].kind # "release"
    <3>1. ~Running(t)
      BY <1>1, <2>1, <2>3 DEF OpTrue, Locking, Unclaimed, Running
    <3> QED
      BY <2>2, <3>1, NoneExecutes
  <2>4. CASE op[p].kind = "release"
    <3>1. op[q].kind \in Executing => q \in Agents
      BY <1>1 DEF OpTrue
    <3> QED
      BY <2>2, <2>4, <3>1 DEF Executes, Executing
  <2> QED
    BY <2>3, <2>4
<1> QED
  BY <1>2, <1>3

\* p writes what it has read and decided.
LEMMA MatchPublish ==
    ASSUME StoreInv, FileInv, MatchBody,
           NEW p \in Procs, NEW k \in Writing \cup {"delete"}, NEW t, NEW r,
           op[p].kind = k, op[p].task = t, op[p].rec = r,
           k = "release" => Running(t) /\ \A a \in Agents : ~Executes(a, t),
           NEW o, op' = [op EXCEPT ![p] = o], o.kind \notin Writing,
           k = "complete" => o.kind = "scan" /\ o.task = t,
           tasks' = [tasks EXCEPT ![t] = r], UNCHANGED <<ctx, torn>>,
           verdict' = IF k = "match" THEN [verdict EXCEPT ![t] = Verdict(t, r)] ELSE verdict
    PROVE  MatchBody'
<1>1. TypeOK /\ LocksTrue
  BY DEF StoreInv, OwnerInv
<1>2. t \in Tasks /\ r \in TaskRec
  BY <1>1 DEF TypeOK, Idle, OpRec, Writing, Locking, Executing
<1>3. OpTrue(p, op[p]) /\ MatchTrue(p, op[p])
  BY DEF FileInv, MatchBody
<1>4. /\ tasks'[t] = r /\ ctx[t].rev \in Nat
      /\ tasks[t].matching_revision \in Nat /\ r.matching_revision \in Nat
      /\ tasks[t] \in TaskRec
  BY <1>1, <1>2 DEF TypeOK, TaskRec
<1>5. k # "delete" => Exists(t)
  BY <1>3 DEF OpTrue, Writing, Locking, Executing, Exists, Unclaimed, Owns, Running
<1>6. /\ k \in {"edit", "match", "assign", "rollback", "release", "interrupt", "mismatch"} =>
             r.status = "pending"
      /\ k \in {"claim", "note"} => r.status = "in_progress"
      /\ k = "complete" => r.status = "completed" /\ p \in Agents
      /\ k = "delete" => r.status = "deleted"
  BY <1>3 DEF OpTrue, Executing, Unclaimed
<1>7. k \in {"edit", "match", "assign", "rollback", "release", "interrupt", "mismatch", "claim",
             "note", "complete", "delete"}
  BY DEF Writing, Locking, Executing
<1>8. k # "delete" => MatchFits(p, k, t, r)
  BY <1>3 DEF MatchTrue, Writing
<1>9. ASSUME NEW q \in Procs \ {p}, op[q].kind \in Writing, op[q].task = t
      PROVE  /\ op[q].kind = "release"
             /\ r.status = "in_progress" =>
                   Running(t) /\ r.matching_revision = tasks[t].matching_revision
  <2>1. op[q].kind = "release" /\ k \in Executing
    BY <1>1, <1>9, WriterAlone DEF Writing
  <2>2. Running(t)
    BY <1>3, <2>1 DEF OpTrue, Owns
  <2>3. r.status = "in_progress" => k = "note"
    BY <1>6, <1>7, <2>1 DEF Executing
  <2> QED
    BY <1>8, <2>1, <2>2, <2>3 DEF MatchFits
<1>10. r.status # "deleted" => ctx[t].rev <= r.matching_revision
  <2>1. ASSUME k # "delete" PROVE ctx[t].rev <= r.matching_revision
    <3>1. ctx[t].rev <= tasks[t].matching_revision
      BY <1>2, <1>5, <2>1 DEF MatchBody
    <3> QED
      BY <1>4, <1>8, <2>1, <3>1 DEF MatchFits
  <2> QED
    BY <1>6, <2>1
<1>11. ASSUME NEW s \in Tasks PROVE ~SeesTo(p, s)
  BY <1>7 DEF SeesTo
<1>12. ASSUME Parked(t)' PROVE SeenTo(t)'
  <2>1. /\ Matchable(r) /\ Unsettled(r) /\ Ready(t)'
        /\ ~(r.matching_status = "matched" /\ verdict'[t] = "overwrote")
        /\ \/ ctx[t].rev = r.matching_revision /\ ~ctx[t].ready
           \/ r.matching_status = "matched" /\ verdict'[t] = "stale"
    BY <1>4, <1>12 DEF Parked, Overwritten, ReadTooEarly
  <2>2. k # "delete" /\ r.status = "pending"
    BY <1>6, <2>1 DEF Matchable, Unclaimed
  <2>3. ctx[t].rev <= tasks[t].matching_revision
    BY <1>2, <1>5, <2>2 DEF MatchBody
  <2>4. /\ k = "match" /\ p \in Clients /\ Matchable(tasks[t])
        /\ r.blockedBy = tasks[t].blockedBy /\ ctx[t].rev = tasks[t].matching_revision
        /\ r.matching_revision = tasks[t].matching_revision
        /\ r.matching_status = "matched"
    BY <1>4, <1>8, <2>1, <2>2, <2>3 DEF MatchFits
  <2>5. verdict'[t] = Verdict(t, r)
    BY <1>1, <1>2, <2>4 DEF TypeOK
  <2>6. r.candidate_members = {} /\ ~ctx[t].ready
    BY <2>1, <2>4, <2>5 DEF Unsettled, Verdict
  <2>7. Unsettled(tasks[t]) /\ ~Overwritten(t)
    BY <2>1, <2>4, <2>5, <2>6 DEF Unsettled, Verdict, Overwritten
  <2>8. Ready(t)
    BY <1>1, <1>4, <2>1, <2>2, <2>4 DEF Ready, TypeOK
  <2>9. SeenTo(t)
    BY <1>2, <2>4, <2>6, <2>7, <2>8 DEF MatchBody, Parked, ReadTooEarly
  <2>10. /\ tasks'[t].blockedBy = tasks[t].blockedBy
         /\ \A a \in Agents : op'[a] = op[a]
    BY <1>4, <2>4, ConstantsAssumption DEF Procs
  <2> QED
    BY <2>9, <2>10 DEF SeenTo, SeesTo
<1>13. o.kind \notin Writing /\ r.status # "free"
       /\ (r.status = "completed" => p \in Agents /\ o.kind = "scan" /\ o.task = t)
  BY <1>6, <1>7
<1>14. \A s \in Tasks \ {t} : verdict'[s] = verdict[s]
  BY <1>1, <1>2 DEF TypeOK
<1>15. \A s \in Tasks \ {t} : p \in Agents /\ SeesTo(p, s) => SeesTo(p, s)'
  BY <1>11
<1>16. r.status = "completed" /\ tasks[t].status # "completed" =>
         p \in Agents /\ o.kind = "scan" /\ o.task = t
  BY <1>13
<1>17. o.kind \notin Writing /\ r.status # "free"
  BY <1>13
<1>18. MatchesStay(p, t, r)
  BY <1>9 DEF MatchesStay
<1> QED
  BY <1>1, <1>2, <1>10, <1>12, <1>14, <1>15, <1>16, <1>17, <1>18, MatchWrite

LEMMA MatchStage ==
    ASSUME MatchBody, OpsType, NEW p \in Procs, op[p].kind \notin Scanning,
           NEW kind, NEW t, NEW r, Stage(p, kind, t, r) \/ StageUnlocked(p, kind, t, r),
           UNCHANGED <<tasks, ctx, torn, verdict>>, MatchFits(p, kind, t, r)
    PROVE  MatchBody'
<1> DEFINE o == [IdleOp EXCEPT !.kind = kind, !.task = t, !.rec = r]
           l == [IdleOp EXCEPT !.kind = kind, !.task = t, !.rec = r, !.locks = {t}]
<1>1. /\ o.kind = kind /\ o.task = t /\ o.rec = r
      /\ l.kind = kind /\ l.task = t /\ l.rec = r
  BY DEF IdleOp
<1>2. op' = [op EXCEPT ![p] = l] \/ op' = [op EXCEPT ![p] = o]
  BY DEF Stage, StageUnlocked
<1> HIDE DEF o, l
<1>3. MatchTrue(p, o) /\ MatchTrue(p, l)
  BY <1>1 DEF MatchTrue
<1>4. \A s \in Tasks : ~SeesTo(p, s)
  BY DEF SeesTo, Scanning
<1> QED
  BY <1>2, <1>3, <1>4, MatchLaunch DEF OpsType

LEMMA MatchFinish ==
    ASSUME MatchBody, OpsType, NEW p \in Procs, op[p].kind \notin Scanning, Finish(p),
           UNCHANGED <<tasks, ctx, torn, verdict>>
    PROVE  MatchBody'
<1>1. MatchTrue(p, IdleOp)
  BY DEF MatchTrue, IdleOp, Writing, Locking, Executing
<1>2. \A s \in Tasks : ~SeesTo(p, s)
  BY DEF SeesTo, Scanning
<1> QED
  BY <1>1, <1>2, MatchLaunch DEF OpsType, Finish

\* Asking for a new match of a task, or leaving alone one that has none.
LEMMA RematchFits ==
    ASSUME NEW p, NEW k, k # "note", NEW t, tasks[t] \in TaskRec, NEW r \in TaskRec,
           r.matching_revision = tasks[t].matching_revision
    PROVE  /\ MatchFits(p, k, t, Rematched(r))
           /\ ~Matchable(r) => MatchFits(p, k, t, r)
<1>1. tasks[t].matching_revision \in Nat
  BY DEF TaskRec
<1> QED
  BY <1>1, RematchedFields DEF MatchFits

LEMMA ClientMatch ==
    ASSUME MatchInv, NEW c \in Clients, ClientStep(c), ReleaseAfterStop'
    PROVE  MatchBody'
<1> USE DEF ghosts
<1>0. c \in Procs /\ c \notin Agents
  BY ConstantsAssumption DEF Procs
<1>t. TypeOK /\ OpsType /\ StoreInv
  BY DEF MatchInv, StoreInv, OwnerInv, TypeOK, OpsType
<1>r. MatchBody /\ FileInv
  BY StopStays DEF MatchInv, StoreInv, Next
<1>f. /\ op[c].kind # "idle" => op[c].task \in Tasks
      /\ op[c].rec \in TaskRec
  BY <1>0, <1>t, OpFields
<1>p. ASSUME NEW t \in Tasks PROVE tasks[t] \in TaskRec
  BY <1>t DEF TypeOK
<1>i. Idle(c) => op[c].kind \notin Scanning
  BY DEF Idle, Scanning
\* It has only read.
<1>l. ASSUME NEW o, op' = [op EXCEPT ![c] = o], o.kind \in {"assigning", "look", "shown", "checked"},
             UNCHANGED <<tasks, ctx, torn, verdict>>
      PROVE  MatchBody'
  <2>1. MatchTrue(c, o)
    BY <1>l DEF MatchTrue, Writing, Locking, Executing
  <2> QED
    BY <1>0, <1>l, <1>t, <1>r, <2>1, MatchLaunch DEF OpsType
<1>1. CASE Publish(c)
  <2>1. PICK t, r : t = op[c].task /\ r = op[c].rec
    OBVIOUS
  <2>2. /\ op' = [op EXCEPT ![c] = IdleOp] /\ tasks' = [tasks EXCEPT ![t] = r]
        /\ UNCHANGED <<ctx, torn>>
        /\ op[c].kind \in {"edit", "match", "rollback", "release", "delete"}
        /\ verdict' = IF op[c].kind = "match" THEN [verdict EXCEPT ![t] = Verdict(t, r)]
                      ELSE verdict
    BY <1>1, <2>1 DEF Publish, Finish
  <2>3. op[c].kind = "release" => Running(t) /\ \A a \in Agents : ~Executes(a, t)
    BY <1>1, <2>1 DEF Publish, ReleaseAfterStop
  <2>4. op[c].kind \in Writing \cup {"delete"} /\ op[c].kind # "complete"
    BY <2>2 DEF Writing, Locking
  <2>5. IdleOp.kind \notin Writing
    BY DEF IdleOp, Writing, Locking, Executing
  <2> QED
    BY <1>0, <1>t, <1>r, <2>1, <2>2, <2>3, <2>4, <2>5, MatchPublish
<1>2. CASE PublishAssign(c)
  <2> DEFINE o == [op[c] EXCEPT !.kind = "assigned", !.locks = {}, !.graph = FALSE]
  <2>0. o.kind = "assigned"
    BY <1>0, <1>t DEF OpsType, OpRec
  <2>1. o.kind \notin Writing
    BY <2>0 DEF Writing, Locking, Executing
  <2>2. /\ op' = [op EXCEPT ![c] = o] /\ tasks' = [tasks EXCEPT ![op[c].task] = op[c].rec]
        /\ UNCHANGED <<ctx, torn, verdict>> /\ op[c].kind = "assign"
    BY <1>2 DEF PublishAssign
  <2>3. "assign" \in Writing \cup {"delete"}
    BY DEF Writing, Locking
  <2> HIDE DEF o
  <2> QED
    BY <1>0, <1>t, <1>r, <2>1, <2>2, <2>3, MatchPublish
<1>3. CASE RollbackAssign(c)
  <2> DEFINE t == op[c].task
             previous == op[c].agent
             back == [tasks[t] EXCEPT !.assignee = NoAgent]
             again == [tasks[t] EXCEPT !.assignee = previous]
             o(r) == [IdleOp EXCEPT !.kind = "rollback", !.task = t, !.locks = {t},
                                    !.rec = r, !.graph = previous # NoAgent,
                                    !.agent = op[c].rec.assignee]
  <2>1. /\ t \in Tasks /\ UNCHANGED <<tasks, ctx, torn, verdict>> /\ op[c].kind \notin Scanning
    BY <1>3, <1>f DEF RollbackAssign, Scanning
  <2>2. tasks[t] \in TaskRec /\ previous \in Agents \cup {NoAgent}
    BY <1>0, <1>t, <2>1, <1>p DEF OpsType, OpRec
  <2>0. ASSUME NEW r, MatchFits(c, "rollback", t, r), op' = [op EXCEPT ![c] = o(r)]
        PROVE  MatchBody'
    <3>1. o(r).kind = "rollback" /\ o(r).task = t /\ o(r).rec = r
      BY DEF IdleOp
    <3> HIDE DEF o
    <3>2. MatchTrue(c, o(r)) /\ \A s \in Tasks : c \notin Agents
      BY <1>0, <2>0, <3>1 DEF MatchTrue
    <3> QED
      BY <1>0, <1>t, <1>r, <2>0, <2>1, <3>2, MatchLaunch DEF OpsType
  <2>3. CASE op' = [op EXCEPT ![c] = o(Rematched(back))]
    <3>1. back \in TaskRec /\ back.matching_revision = tasks[t].matching_revision
      BY <2>2 DEF TaskRec
    <3>2. MatchFits(c, "rollback", t, Rematched(back))
      BY <2>2, <3>1, RematchFits
    <3> HIDE DEF o, back
    <3> QED
      BY <2>0, <2>3, <3>2
  <2>4. CASE previous # NoAgent /\ op' = [op EXCEPT ![c] = o(again)]
    <3>1. again.assignee # NoAgent /\ again.matching_revision = tasks[t].matching_revision
      BY <2>2, <2>4 DEF TaskRec
    <3>2. MatchFits(c, "rollback", t, again)
      BY <3>1 DEF MatchFits, Matchable
    <3> HIDE DEF o, again
    <3> QED
      BY <2>0, <2>4, <3>2
  <2>5. CASE Finish(c)
    BY <1>0, <1>t, <1>r, <2>1, <2>5, MatchFinish
  <2> QED
    BY <1>3, <2>3, <2>4, <2>5 DEF RollbackAssign
<1>4. CASE RegisterAssign(c)
  BY <1>0, <1>4, <1>t, <1>r, MatchFinish DEF RegisterAssign, Scanning
<1>5. ASSUME NEW t \in Tasks, NEW r \in TaskRec, Idle(c), tasks[t].status = "free", LockFree(t),
             tasks' = [tasks EXCEPT ![t] = r], UNCHANGED <<op, ctx, torn, verdict>>,
             r.status = "pending", r.matching_status = "pending", r.matching_revision = 1
      PROVE  MatchBody'
  <2>1. op' = [op EXCEPT ![c] = op[c]]
    BY <1>0, <1>5, <1>t DEF OpsType
  <2>2. ctx[t].rev = 0 /\ tasks'[t] = r
    BY <1>5, <1>r, <1>t DEF MatchBody, TypeOK
  <2>3. MatchesStay(c, t, r)
    BY <1>0, <1>5, <1>r, <1>t, HolderAlone, NoneExecutes DEF StoreInv, Running, MatchesStay, Writing
  <2>4. ~Parked(t)'
    BY <1>5, <2>2 DEF Parked, ReadTooEarly
  <2>5. op[c].kind \notin Writing
    BY <1>5 DEF Idle, Writing, Locking, Executing
  <2>6. /\ r.status # "free" /\ r.status # "completed" /\ ctx[t].rev <= r.matching_revision
        /\ \A s \in Tasks \ {t} : verdict'[s] = verdict[s]
    BY <1>5, <2>2
  <2> QED
    BY <1>0, <1>5, <1>r, <1>t, <2>1, <2>3, <2>4, <2>5, <2>6, MatchWrite
<1>6. ASSUME NEW t \in Tasks, NEW D \in SUBSET (Tasks \ {t}), CreateTask(c, t, D) PROVE MatchBody'
  <2> DEFINE r == [Blank("pending") EXCEPT !.blockedBy = D]
  <2>1. r \in TaskRec
    BY BlankType, Zenon DEF TaskRec
  <2>2. r.status = "pending" /\ r.matching_status = "pending" /\ r.matching_revision = 1
    BY DEF Blank
  <2>3. /\ Idle(c) /\ tasks[t].status = "free" /\ LockFree(t)
        /\ tasks' = [tasks EXCEPT ![t] = r] /\ UNCHANGED <<op, ctx, torn, verdict>>
    BY <1>6 DEF CreateTask
  <2> HIDE DEF r
  <2> QED
    BY <1>5, <2>1, <2>2, <2>3
<1>7. ASSUME NEW t \in Tasks, NEW a \in Agents, CreateQueuedTask(c, t, a) PROVE MatchBody'
  <2> DEFINE r == [Blank("pending") EXCEPT !.assignee = a]
  <2>1. r \in TaskRec
    BY BlankType, Zenon DEF TaskRec
  <2>2. r.status = "pending" /\ r.matching_status = "pending" /\ r.matching_revision = 1
    BY DEF Blank
  <2>3. /\ Idle(c) /\ tasks[t].status = "free" /\ LockFree(t)
        /\ tasks' = [tasks EXCEPT ![t] = r] /\ UNCHANGED <<op, ctx, torn, verdict>>
    BY <1>7 DEF CreateQueuedTask
  <2> HIDE DEF r
  <2> QED
    BY <1>5, <2>1, <2>2, <2>3
<1>8. ASSUME NEW t \in Tasks, UpdateTask(c, t) PROVE MatchBody'
  <2> DEFINE r == IF Matchable(tasks[t]) THEN Rematched(tasks[t]) ELSE tasks[t]
  <2>1. MatchFits(c, "edit", t, r)
    BY <1>p, RematchFits
  <2> QED
    BY <1>0, <1>8, <1>i, <1>t, <1>r, <2>1, MatchStage DEF UpdateTask
<1>9. ASSUME NEW t \in Tasks, NEW D \in SUBSET (Tasks \ {t}), UpdateBlockedBy(c, t, D)
      PROVE  MatchBody'
  <2> DEFINE q == [tasks[t] EXCEPT !.blockedBy = D]
             r == IF Matchable(q) THEN Rematched(q) ELSE q
             o == [IdleOp EXCEPT !.kind = "edit", !.task = t, !.rec = r,
                                 !.locks = D \cup {t}, !.graph = TRUE]
  <2>1. q \in TaskRec /\ q.matching_revision = tasks[t].matching_revision
    <3>1. tasks[t] \in TaskRec
      BY <1>p
    <3>2. q \in TaskRec
      BY <3>1, Zenon DEF TaskRec
    <3> QED
      BY <3>1, <3>2 DEF TaskRec
  <2>2. MatchFits(c, "edit", t, r)
    <3> HIDE DEF q
    <3> QED
      BY <1>p, <2>1, RematchFits
  <2>3. Idle(c) /\ op' = [op EXCEPT ![c] = o] /\ UNCHANGED <<tasks, ctx, torn, verdict>>
    BY <1>9 DEF UpdateBlockedBy
  <2>4. o.kind = "edit" /\ o.task = t /\ o.rec = r
    <3> HIDE DEF r
    <3> QED
      BY DEF IdleOp
  <2> HIDE DEF o, r
  <2>5. MatchTrue(c, o)
    BY <2>2, <2>4 DEF MatchTrue
  <2> QED
    BY <1>0, <1>t, <1>r, <2>3, <2>5, MatchLaunch DEF OpsType
<1>10. ASSUME NEW t \in Tasks, NEW a \in Agents, AssignTask(c, t, a) PROVE MatchBody'
  <2> DEFINE o == [IdleOp EXCEPT !.kind = "assigning", !.task = t, !.agent = a,
                                 !.rec = [Blank("free") EXCEPT !.assignee = tasks[t].assignee]]
  <2>1. op' = [op EXCEPT ![c] = o] /\ UNCHANGED <<tasks, ctx, torn, verdict>>
    BY <1>10 DEF AssignTask
  <2>2. o.kind = "assigning"
    BY DEF IdleOp
  <2> HIDE DEF o
  <2> QED
    BY <1>l, <2>1, <2>2
<1>11. ASSUME NEW t \in Tasks, NEW C \in SUBSET Agents, SetTaskCandidates(c, t, C) PROVE MatchBody'
  <2> DEFINE r == [tasks[t] EXCEPT !.candidate_members = C, !.matching_status = "matched"]
  <2>1. /\ r.blockedBy = tasks[t].blockedBy /\ r.matching_revision = tasks[t].matching_revision
        /\ r.matching_status = "matched"
    BY <1>p DEF TaskRec
  <2>2. /\ Idle(c) /\ Matchable(tasks[t]) /\ tasks[t].matching_revision = ctx[t].rev
        /\ Stage(c, "match", t, r) /\ UNCHANGED <<tasks, ctx, torn, verdict>>
    BY <1>11 DEF SetTaskCandidates
  <2> HIDE DEF r
  <2>3. MatchFits(c, "match", t, r)
    BY <2>1, <2>2 DEF MatchFits
  <2> QED
    BY <1>0, <1>i, <1>t, <1>r, <2>2, <2>3, MatchStage
<1>12. ASSUME NEW t \in Tasks, RequestRematch(c, t) PROVE MatchBody'
  <2>1. MatchFits(c, "edit", t, Rematched(tasks[t]))
    BY <1>p, RematchFits
  <2> QED
    BY <1>0, <1>12, <1>i, <1>t, <1>r, <2>1, MatchStage DEF RequestRematch
<1>13. ASSUME NEW t \in Tasks, UnassignTask(c, t) PROVE MatchBody'
  <2> DEFINE r == [tasks[t] EXCEPT !.assignee = NoAgent]
  <2>1. r \in TaskRec /\ r.matching_revision = tasks[t].matching_revision
    BY <1>p DEF TaskRec
  <2>2. Idle(c) /\ Stage(c, "edit", t, Rematched(r)) /\ UNCHANGED <<tasks, ctx, torn, verdict>>
    BY <1>13 DEF UnassignTask
  <2> HIDE DEF r
  <2>3. MatchFits(c, "edit", t, Rematched(r))
    BY <1>p, <2>1, RematchFits
  <2> QED
    BY <1>0, <1>i, <1>t, <1>r, <2>2, <2>3, MatchStage
<1>14. ASSUME NEW t \in Tasks, ReleaseTask(c, t) PROVE MatchBody'
  <2> DEFINE o == [IdleOp EXCEPT !.kind = "look", !.task = t, !.rec = tasks[t],
                                 !.agent = tasks[t].owner]
  <2>1. op' = [op EXCEPT ![c] = o] /\ UNCHANGED <<tasks, ctx, torn, verdict>>
    BY <1>14 DEF ReleaseTask
  <2>2. o.kind = "look"
    BY DEF IdleOp
  <2> HIDE DEF o
  <2> QED
    BY <1>l, <2>1, <2>2
<1>15. ASSUME NEW t \in Tasks, DeleteTask(c, t) PROVE MatchBody'
  <2> DEFINE o == [IdleOp EXCEPT !.kind = "delete", !.task = t, !.rec = Blank("deleted"),
                                 !.locks = {t}, !.graph = TRUE]
  <2>1. Idle(c) /\ op' = [op EXCEPT ![c] = o] /\ UNCHANGED <<tasks, ctx, torn, verdict>>
    BY <1>15 DEF DeleteTask
  <2>2. o.kind = "delete"
    BY DEF IdleOp
  <2> HIDE DEF o
  <2>3. MatchTrue(c, o)
    BY <2>2 DEF MatchTrue, Writing
  <2> QED
    BY <1>0, <1>t, <1>r, <2>1, <2>3, MatchLaunch DEF OpsType
<1>16. CASE ReserveTask(c)
  <2> DEFINE t == op[c].task
             a == op[c].agent
             r == [tasks[t] EXCEPT !.assignee = a]
             o == [IdleOp EXCEPT !.kind = "assign", !.task = t, !.locks = {t}, !.rec = r,
                                 !.graph = TRUE, !.agent = op[c].rec.assignee]
  <2>1. /\ op[c].kind = "assigning" /\ t \in Tasks /\ UNCHANGED <<tasks, ctx, torn, verdict>>
        /\ op' = [op EXCEPT ![c] = o] \/ Finish(c)
    BY <1>16, <1>f DEF ReserveTask
  <2>4. a # NoAgent
    BY <1>0, <1>r, <2>1 DEF FileInv, OpTrue
  <2>2. CASE Finish(c)
    BY <1>0, <1>t, <1>r, <2>1, <2>2, MatchFinish DEF Scanning
  <2>3. CASE op' = [op EXCEPT ![c] = o]
    <3>1. a \in Agents \cup {NoAgent} /\ tasks[t] \in TaskRec
      BY <1>0, <1>p, <1>t, <2>1 DEF OpsType, OpRec
    <3>2. r.assignee # NoAgent /\ r.matching_revision = tasks[t].matching_revision
      BY <2>4, <3>1 DEF TaskRec
    <3> HIDE DEF r
    <3>3. o.kind = "assign" /\ o.task = t /\ o.rec = r
      BY DEF IdleOp
    <3> HIDE DEF o
    <3>4. MatchTrue(c, o)
      BY <3>2, <3>3 DEF MatchTrue, MatchFits, Matchable
    <3> QED
      BY <1>0, <1>t, <1>r, <2>1, <2>3, <3>4, MatchLaunch DEF OpsType
  <2> QED
    BY <2>1, <2>2, <2>3
<1>17. CASE ListTasks(c) \/ LookOnline(c)
  <2>1. /\ op[c].kind \notin Scanning /\ UNCHANGED <<tasks, ctx, torn, verdict>>
        /\ \/ \E k \in {"shown", "checked"} : op' = [op EXCEPT ![c] = [op[c] EXCEPT !.kind = k]]
           \/ Finish(c)
    BY <1>17 DEF ListTasks, LookOnline, Scanning
  <2>2. ASSUME NEW k \in {"shown", "checked"}, op' = [op EXCEPT ![c] = [op[c] EXCEPT !.kind = k]]
        PROVE  MatchBody'
    <3> DEFINE o == [op[c] EXCEPT !.kind = k]
    <3>1. o.kind = k
      BY <1>0, <1>t DEF OpsType, OpRec
    <3>2. op' = [op EXCEPT ![c] = o]
      BY <2>2
    <3> HIDE DEF o
    <3> QED
      BY <1>l, <2>1, <3>1, <3>2
  <2> QED
    BY <1>0, <1>t, <1>r, <2>1, <2>2, MatchFinish
<1>18. CASE CompareRelease(c)
  <2> DEFINE t == op[c].task
             r == [tasks[t] EXCEPT !.status = "pending", !.owner = NoAgent, !.assignee = NoAgent]
             o == [op[c] EXCEPT !.kind = "release", !.locks = {t}, !.rec = Rematched(r)]
  <2>1. /\ op[c].kind = "checked" /\ t \in Tasks /\ UNCHANGED <<tasks, ctx, torn, verdict>>
        /\ op' = [op EXCEPT ![c] = o] \/ Finish(c)
    BY <1>18, <1>f DEF CompareRelease
  <2>2. r \in TaskRec /\ r.matching_revision = tasks[t].matching_revision
    <3>1. tasks[t] \in TaskRec
      BY <1>p, <2>1
    <3>2. r \in TaskRec
      BY <3>1, Zenon DEF TaskRec
    <3> QED
      BY <3>1, <3>2 DEF TaskRec
  <2> HIDE DEF r
  <2>3. MatchFits(c, "release", t, Rematched(r))
    BY <1>p, <2>1, <2>2, RematchFits
  <2>4. o.kind = "release" /\ o.task = t /\ o.rec = Rematched(r)
    BY <1>0, <1>t DEF OpsType, OpRec
  <2> HIDE DEF o
  <2>5. MatchTrue(c, o)
    BY <2>3, <2>4 DEF MatchTrue
  <2>6. CASE op' = [op EXCEPT ![c] = o]
    BY <1>0, <1>t, <1>r, <2>1, <2>5, <2>6, MatchLaunch DEF OpsType
  <2> QED
    BY <1>0, <1>t, <1>r, <2>1, <2>6, MatchFinish DEF Scanning
<1> QED
  BY <1>1, <1>2, <1>3, <1>4, <1>6, <1>7, <1>8, <1>9, <1>10, <1>11, <1>12, <1>13, <1>14, <1>15,
     <1>16, <1>17, <1>18
  DEF ClientStep

LEMMA WorkerMatch ==
    ASSUME MatchInv, NEW a \in Agents, WorkerStep(a), ReleaseAfterStop'
    PROVE  MatchBody'
<1> USE DEF ghosts
<1>0. a \in Procs
  BY DEF Procs
<1>t. TypeOK /\ OpsType /\ StoreInv
  BY DEF MatchInv, StoreInv, OwnerInv, TypeOK, OpsType
<1>r. MatchBody /\ FileInv
  BY StopStays DEF MatchInv, StoreInv, Next
<1>f. /\ op[a].kind # "idle" => op[a].task \in Tasks
      /\ op[a].rec \in TaskRec
  BY <1>0, <1>t, OpFields
<1>p. ASSUME NEW t \in Tasks PROVE tasks[t] \in TaskRec
  BY <1>t DEF TypeOK
<1>i. Idle(a) => op[a].kind \notin Scanning
  BY DEF Idle, Scanning
\* What a worker has read of its task is not to be matched.
<1>n. ASSUME NEW t \in Tasks, Owns(a, t), NEW k
      PROVE  /\ MatchFits(a, k, t, InterruptedRec(a, tasks[t]))
             /\ MatchFits(a, k, t, tasks[t])
             /\ MatchFits(a, k, t, [tasks[t] EXCEPT !.status = "completed"])
  <2>1. /\ InterruptedRec(a, tasks[t]).assignee # NoAgent
        /\ InterruptedRec(a, tasks[t]).matching_revision = tasks[t].matching_revision
    BY <1>p, ConstantsAssumption DEF InterruptedRec, TaskRec
  <2>2. /\ [tasks[t] EXCEPT !.status = "completed"].status # "pending"
        /\ [tasks[t] EXCEPT !.status = "completed"].matching_revision = tasks[t].matching_revision
    BY <1>p DEF TaskRec
  <2>3. tasks[t].status # "pending"
    BY <1>n DEF Owns, Running
  <2> QED
    BY <2>1, <2>2, <2>3 DEF MatchFits, Matchable, Unclaimed
\* A worker writes what it has read, and goes on to o.
<1>w. ASSUME NEW o, op' = [op EXCEPT ![a] = o], o.kind \notin Writing,
             op[a].kind \in {"claim", "complete", "note", "interrupt", "mismatch"},
             op[a].kind = "complete" => o.kind = "scan" /\ o.task = op[a].task,
             tasks' = [tasks EXCEPT ![op[a].task] = op[a].rec],
             UNCHANGED <<ctx, torn, verdict>>
      PROVE  MatchBody'
  <2>1. op[a].kind \in Writing \cup {"delete"} /\ op[a].kind \notin {"release", "match"}
    BY <1>w DEF Writing, Locking, Executing
  <2> QED
    BY <1>0, <1>r, <1>t, <1>w, <2>1, MatchPublish
<1>1. CASE PublishClaim(a)
  <2> DEFINE o == [IdleOp EXCEPT !.kind = "register", !.task = op[a].task]
  <2>1. o.kind = "register"
    BY DEF IdleOp
  <2>2. /\ op' = [op EXCEPT ![a] = o] /\ tasks' = [tasks EXCEPT ![op[a].task] = op[a].rec]
        /\ UNCHANGED <<ctx, torn, verdict>> /\ op[a].kind = "claim"
    BY <1>1 DEF PublishClaim
  <2> HIDE DEF o
  <2>3. o.kind \notin Writing
    BY <2>1 DEF Writing
  <2> QED
    BY <1>w, <2>2, <2>3
<1>2. CASE RegisterClaim(a)
  BY <1>0, <1>2, <1>t, <1>r, MatchFinish DEF RegisterClaim, Scanning
<1>3. CASE RejectClaim(a)
  <2>1. op[a].task \in Tasks /\ op[a].kind \notin Scanning /\ UNCHANGED <<tasks, ctx, torn, verdict>>
    BY <1>3, <1>f DEF RejectClaim, Scanning
  <2>2. CASE Finish(a)
    BY <1>0, <1>r, <1>t, <2>1, <2>2, MatchFinish
  <2>3. CASE /\ Owns(a, op[a].task)
             /\ StageUnlocked(a, "interrupt", op[a].task, InterruptedRec(a, tasks[op[a].task]))
    BY <1>0, <1>i, <1>n, <1>r, <1>t, <2>1, <2>3, MatchStage
  <2> QED
    BY <1>3, <2>2, <2>3 DEF RejectClaim
<1>4. CASE StopWorker(a)
  <2>1. CASE /\ work[a] \in Tasks /\ Owns(a, work[a])
             /\ StageUnlocked(a, "interrupt", work[a], InterruptedRec(a, tasks[work[a]]))
    <3>1. UNCHANGED <<tasks, ctx, torn, verdict>> /\ Idle(a)
      BY <1>4 DEF StopWorker
    <3> QED
      BY <1>0, <1>i, <1>n, <1>r, <1>t, <2>1, <3>1, MatchStage
  <2>2. CASE op' = op
    <3>1. op' = [op EXCEPT ![a] = op[a]] /\ UNCHANGED <<tasks, ctx, torn, verdict>> /\ Idle(a)
      BY <1>4, <1>t, <2>2 DEF StopWorker, OpsType
    <3>2. MatchTrue(a, op[a]) /\ \A s \in Tasks : ~SeesTo(a, s)
      BY <3>1 DEF MatchTrue, Idle, SeesTo, Writing, Locking, Executing
    <3> QED
      BY <1>0, <1>r, <1>t, <3>1, <3>2, MatchLaunch DEF OpsType
  <2> QED
    BY <1>4, <1>t, <2>1, <2>2 DEF StopWorker, TypeOK
<1>5. CASE NoteIntervention(a)
  <2> DEFINE t == work[a]
  <2>1. /\ t \in Tasks /\ Idle(a) /\ StageUnlocked(a, "note", t, tasks[t])
        /\ UNCHANGED <<tasks, ctx, torn, verdict>>
    BY <1>5, <1>t DEF NoteIntervention, TypeOK
  <2>2. Owns(a, t)
    BY <1>r, <2>1 DEF FileInv, WorksOnOwn, ScansFor, Scanning, Idle
  <2> QED
    BY <1>0, <1>i, <1>n, <1>r, <1>t, <2>1, <2>2, MatchStage
<1>6. CASE PublishOwn(a)
  <2>1. IdleOp.kind \notin Writing
    BY DEF IdleOp, Writing, Locking, Executing
  <2>2. /\ op' = [op EXCEPT ![a] = IdleOp] /\ tasks' = [tasks EXCEPT ![op[a].task] = op[a].rec]
        /\ UNCHANGED <<ctx, torn, verdict>> /\ op[a].kind \in {"note", "mismatch", "interrupt"}
    BY <1>6 DEF PublishOwn, Finish
  <2> QED
    BY <1>w, <2>1, <2>2
<1>7. CASE PublishComplete(a)
  <2> DEFINE o == [IdleOp EXCEPT !.kind = "scan", !.task = op[a].task]
  <2>1. o.kind = "scan" /\ o.task = op[a].task
    BY DEF IdleOp
  <2>2. /\ op' = [op EXCEPT ![a] = o] /\ tasks' = [tasks EXCEPT ![op[a].task] = op[a].rec]
        /\ UNCHANGED <<ctx, torn, verdict>> /\ op[a].kind = "complete"
    BY <1>7 DEF PublishComplete
  <2> HIDE DEF o
  <2>3. o.kind \notin Writing
    BY <2>1 DEF Writing, Locking, Executing
  <2> QED
    BY <1>w, <2>1, <2>2, <2>3
<1>8. CASE ScanUnblocked(a)
  <2> DEFINE S == {s \in Stored : /\ tasks[s].status = "pending"
                                  /\ op[a].task \in tasks[s].blockedBy
                                  /\ Ready(s)}
             o == [op[a] EXCEPT !.kind = "unblock", !.todo = S]
  <2>1. op[a] \in OpRec /\ op[a].kind = "scan" /\ UNCHANGED <<tasks, ctx, torn, verdict>>
    BY <1>0, <1>8, <1>t DEF OpsType, ScanUnblocked
  <2>2. o.kind = "unblock" /\ o.task = op[a].task /\ o.todo = S
    <3> HIDE DEF S
    <3> QED
      BY <2>1 DEF OpRec
  <2>3. op' = [op EXCEPT ![a] = o] /\ op'[a] = o
    BY <1>0, <1>8, <1>t DEF ScanUnblocked, OpsType
  <2>4. ASSUME NEW t \in Tasks, Parked(t), SeesTo(a, t) PROVE t \in S /\ o.task \in tasks[t].blockedBy
    BY <2>2, <2>4 DEF Parked, SeesTo, Matchable, Unclaimed, Stored, Exists
  <2> HIDE DEF o, S
  <2>5. ASSUME NEW t \in Tasks, Parked(t), SeesTo(a, t) PROVE SeesTo(a, t)'
    BY <2>1, <2>2, <2>3, <2>4, <2>5 DEF SeesTo
  <2>6. MatchTrue(a, o)
    BY <2>2 DEF MatchTrue, Writing, Locking, Executing
  <2> QED
    BY <1>0, <1>r, <1>t, <2>1, <2>3, <2>5, <2>6, MatchLaunch DEF OpsType
<1>9. CASE CompleteDone(a)
  <2>1. /\ op' = [op EXCEPT ![a] = IdleOp] /\ UNCHANGED <<tasks, ctx, torn, verdict>>
        /\ op[a].kind = "unblock" /\ op[a].todo = {}
    BY <1>9 DEF CompleteDone, Finish
  <2>2. MatchTrue(a, IdleOp) /\ \A s \in Tasks : ~SeesTo(a, s)
    BY <2>1 DEF MatchTrue, IdleOp, Writing, Locking, Executing, SeesTo
  <2> QED
    BY <1>0, <1>r, <1>t, <2>1, <2>2, MatchLaunch DEF OpsType
<1>10. ASSUME NEW t \in Tasks, ClaimTask(a, t) PROVE MatchBody'
  <2> DEFINE r == [tasks[t] EXCEPT !.owner = a, !.status = "in_progress"]
  <2>1. Idle(a) /\ Stage(a, "claim", t, r) /\ UNCHANGED <<tasks, ctx, torn, verdict>>
    BY <1>10 DEF ClaimTask
  <2>2. r.status = "in_progress" /\ r.matching_revision = tasks[t].matching_revision
    BY <1>p DEF TaskRec
  <2> HIDE DEF r
  <2>3. MatchFits(a, "claim", t, r)
    BY <2>2 DEF MatchFits, Matchable, Unclaimed
  <2> QED
    BY <1>0, <1>i, <1>r, <1>t, <2>1, <2>3, MatchStage
<1>11. ASSUME NEW t \in Tasks, ReportMismatch(a, t) PROVE MatchBody'
  <2> DEFINE r == [tasks[t] EXCEPT !.status = "pending", !.owner = NoAgent,
                                   !.assignee = NoAgent,
                                   !.matching_status = "rematch_required"]
  <2>1. Idle(a) /\ StageUnlocked(a, "mismatch", t, Rematched(r)) /\ UNCHANGED <<tasks, ctx, torn, verdict>>
    BY <1>11 DEF ReportMismatch
  <2>2. r \in TaskRec /\ r.matching_revision = tasks[t].matching_revision
    <3>1. tasks[t] \in TaskRec
      BY <1>p
    <3>2. r \in TaskRec
      BY <3>1, Zenon DEF TaskRec
    <3> QED
      BY <3>1, <3>2 DEF TaskRec
  <2> HIDE DEF r
  <2>3. MatchFits(a, "mismatch", t, Rematched(r))
    BY <1>p, <2>2, RematchFits
  <2> QED
    BY <1>0, <1>i, <1>r, <1>t, <2>1, <2>3, MatchStage
<1>12. ASSUME NEW t \in Tasks, CompleteTask(a, t) PROVE MatchBody'
  BY <1>0, <1>12, <1>i, <1>n, <1>r, <1>t, MatchStage DEF CompleteTask
<1>13. ASSUME NEW s \in Tasks, UnblockOne(a, s) PROVE MatchBody'
  <2> DEFINE o == [op[a] EXCEPT !.todo = @ \ {s}]
             r == Rematched(tasks[s])
             again == /\ Matchable(tasks[s]) /\ op[a].task \in tasks[s].blockedBy
                      /\ Unsettled(tasks[s]) /\ Ready(s)
  <2>1. /\ op[a] \in OpRec /\ op[a].kind = "unblock" /\ LockFree(s)
        /\ UNCHANGED <<ctx, torn, verdict>> /\ op' = [op EXCEPT ![a] = o]
        /\ tasks' = IF again THEN [tasks EXCEPT ![s] = r] ELSE tasks
    BY <1>0, <1>13, <1>t DEF OpsType, UnblockOne
  <2>2. o.kind = "unblock" /\ o.task = op[a].task /\ o.todo = op[a].todo \ {s}
    BY <2>1 DEF OpRec
  <2> HIDE DEF o
  <2>3. MatchTrue(a, o) /\ o.kind \notin Writing
    BY <2>2 DEF MatchTrue, Writing, Locking, Executing
  <2>4. op'[a] = o
    BY <1>0, <1>t, <2>1 DEF OpsType
  <2>5. ASSUME NEW t \in Tasks \ {s}, SeesTo(a, t), tasks'[t] = tasks[t] PROVE SeesTo(a, t)'
    BY <2>1, <2>2, <2>4, <2>5 DEF SeesTo
  <2>6. CASE ~again
    <3>1. ASSUME NEW t \in Tasks, Parked(t), SeesTo(a, t) PROVE SeesTo(a, t)'
      <4>1. t # s
        BY <2>6, <3>1 DEF Parked, SeesTo
      <4> QED
        BY <2>1, <2>5, <2>6, <3>1, <4>1
    <3> QED
      BY <1>0, <1>r, <1>t, <2>1, <2>3, <2>6, <3>1, MatchLaunch DEF OpsType
  <2>7. CASE again
    <3>1. /\ r \in TaskRec /\ r.status = "pending" /\ r.matching_status # "matched"
          /\ r.matching_revision = tasks[s].matching_revision + 1
      BY <1>p, <2>7, RematchedType, RematchedFields DEF Matchable, Unclaimed
    <3> HIDE DEF r
    <3>2. tasks' = [tasks EXCEPT ![s] = r] /\ tasks'[s] = r
      BY <1>t, <2>1, <2>7 DEF TypeOK
    <3>3. Unclaimed(tasks[s]) /\ Exists(s) /\ ~Running(s)
      BY <2>7 DEF Matchable, Unclaimed, Exists, Running
    <3>4. MatchesStay(a, s, r)
      BY <1>0, <1>r, <1>t, <2>1, <3>3, HolderAlone, NoneExecutes DEF StoreInv, MatchesStay, Writing
    <3>5. ctx[s].rev <= tasks[s].matching_revision /\ ctx[s].rev \in Nat
          /\ tasks[s].matching_revision \in Nat
      BY <1>r, <1>p, <1>t, <3>3 DEF MatchBody, TypeOK, TaskRec
    <3>6. ~Parked(s)'
      BY <2>1, <3>1, <3>2, <3>5 DEF Parked, ReadTooEarly
    <3>7. \A t \in Tasks \ {s} : a \in Agents /\ SeesTo(a, t) => SeesTo(a, t)'
      BY <2>5, <3>2
    <3>8. /\ r.status # "free" /\ r.status # "completed" /\ ctx[s].rev <= r.matching_revision
          /\ \A t \in Tasks \ {s} : verdict'[t] = verdict[t]
      BY <2>1, <3>1, <3>5
    <3> QED
      BY <1>0, <1>r, <1>t, <2>1, <2>3, <3>1, <3>2, <3>4, <3>6, <3>7, <3>8, MatchWrite
  <2> QED
    BY <2>6, <2>7
<1>14. CASE StartWorker(a) \/ AskToStop(a) \/ LeaveTeam(a)
  <2>1. op' = [op EXCEPT ![a] = op[a]] /\ UNCHANGED <<tasks, op, ctx, torn, verdict>>
    BY <1>0, <1>14, <1>t DEF StartWorker, AskToStop, LeaveTeam, OpsType
  <2>2. MatchTrue(a, op[a]) /\ \A s \in Tasks : SeesTo(a, s) => SeesTo(a, s)'
    BY <1>0, <1>r, <2>1 DEF MatchBody, SeesTo
  <2> QED
    BY <1>0, <1>r, <1>t, <2>1, <2>2, MatchLaunch DEF OpsType
<1> QED
  BY <1>1, <1>2, <1>3, <1>4, <1>5, <1>6, <1>7, <1>8, <1>9, <1>10, <1>11, <1>12, <1>13, <1>14
  DEF WorkerStep

\* The Lead reads t: a match in flight for it keeps its context.
LEMMA ReadMatch ==
    ASSUME MatchInv, NEW t \in Tasks, LeadReads(t), ReleaseAfterStop'
    PROVE  MatchBody'
<1> USE DEF ghosts
<1>1. TypeOK /\ MatchBody
  BY DEF MatchInv, StoreInv, OwnerInv, LeadReads, ReleaseAfterStop
<1>2. /\ UNCHANGED <<tasks, op, torn, verdict>> /\ Exists(t)
      /\ ctx'[t] = [rev |-> tasks[t].matching_revision, ready |-> Ready(t)]
      /\ \A s \in Tasks \ {t} : ctx'[s] = ctx[s]
      /\ \A c \in Clients : ~(op[c].kind = "match" /\ op[c].task = t)
  BY <1>1 DEF LeadReads, TypeOK
<1>3. ASSUME NEW q \in Procs PROVE MatchTrue(q, op[q])'
  <2>1. MatchTrue(q, op[q])
    BY <1>1 DEF MatchBody
  <2>2. op[q].kind \in Writing => op[q].task \in Tasks
    BY <1>1 DEF TypeOK, Idle, Writing, Locking, Executing
  <2> QED
    BY <1>2, <2>1, <2>2 DEF MatchTrue, MatchFits, Running
<1>4. ASSUME NEW s \in Tasks
      PROVE  /\ tasks'[s].status = "free" => ctx'[s].rev = 0
             /\ Exists(s)' => ctx'[s].rev <= tasks'[s].matching_revision
  <2>1. tasks[s].matching_revision \in Nat
    BY <1>1 DEF TypeOK, TaskRec
  <2> QED
    BY <1>1, <1>2, <2>1 DEF MatchBody, Exists
<1>5. ASSUME NEW s \in Tasks, Parked(s)' PROVE SeenTo(s)'
  <2>1. Parked(s)
    BY <1>2, <1>5 DEF Parked, Ready, Overwritten, ReadTooEarly
  <2> QED
    BY <1>1, <1>2, <2>1 DEF MatchBody, SeenTo, SeesTo
<1> QED
  BY <1>3, <1>4, <1>5 DEF MatchBody

\* The process dies: the completions it was busy with are torn.
LEMMA CrashMatch ==
    ASSUME MatchInv, Crash, ReleaseAfterStop'
    PROVE  MatchBody'
<1>1. TypeOK /\ MatchBody
  BY DEF MatchInv, StoreInv, OwnerInv, Crash, ReleaseAfterStop
<1>2. /\ UNCHANGED <<tasks, ctx, verdict>> /\ \A p \in Procs : op'[p] = IdleOp
      /\ torn \subseteq torn'
      /\ \A a \in Agents : op[a].kind \in {"scan", "unblock"} => op[a].task \in torn'
  BY DEF Crash
<1>3. ASSUME NEW q \in Procs PROVE MatchTrue(q, op[q])'
  BY <1>2 DEF MatchTrue, IdleOp, Writing, Locking, Executing
<1>4. ASSUME NEW s \in Tasks
      PROVE  /\ tasks'[s].status = "free" => ctx'[s].rev = 0
             /\ Exists(s)' => ctx'[s].rev <= tasks'[s].matching_revision
  BY <1>1, <1>2 DEF MatchBody, Exists
<1>5. ASSUME NEW s \in Tasks, Parked(s)' PROVE SeenTo(s)'
  <2>1. Parked(s)
    BY <1>2, <1>5 DEF Parked, Ready, Overwritten, ReadTooEarly
  <2>2. SeenTo(s)
    BY <1>1, <2>1 DEF MatchBody
  <2> QED
    BY <1>2, <2>2 DEF SeenTo, SeesTo
<1> QED
  BY <1>3, <1>4, <1>5 DEF MatchBody

LEMMA NextMatch ==
    ASSUME MatchInv, [Next]_vars
    PROVE  MatchInv'
<1>1. StoreInv'
  BY NextStore DEF MatchInv
<1>2. ASSUME ReleaseAfterStop' PROVE MatchBody'
  <2>1. CASE \E c \in Clients : ClientStep(c)
    BY <1>2, <2>1, ClientMatch
  <2>2. CASE \E a \in Agents : WorkerStep(a)
    BY <1>2, <2>2, WorkerMatch
  <2>3. CASE \E t \in Tasks : LeadReads(t)
    BY <1>2, <2>3, ReadMatch
  <2>4. CASE Crash
    BY <1>2, <2>4, CrashMatch
  <2>5. CASE UNCHANGED vars
    <3>1. MatchBody /\ UNCHANGED <<tasks, op, ctx, torn, verdict>>
      BY <1>2, <2>5 DEF MatchInv, ReleaseAfterStop, vars, ghosts
    <3>2. ASSUME NEW p \in Procs PROVE MatchTrue(p, op[p])'
      BY <3>1 DEF MatchBody, MatchTrue, MatchFits, Running
    <3>3. ASSUME NEW t \in Tasks, Parked(t)' PROVE SeenTo(t)'
      BY <3>1, <3>3 DEF MatchBody, Parked, Ready, Overwritten, ReadTooEarly, SeenTo, SeesTo
    <3> QED
      BY <3>1, <3>2, <3>3 DEF MatchBody, Exists
  <2> QED
    BY <2>1, <2>2, <2>3, <2>4, <2>5 DEF Next
<1> QED
  BY <1>1, <1>2 DEF MatchInv

LEMMA InitMatch == Init => MatchInv
<1> SUFFICES ASSUME Init PROVE MatchInv
  OBVIOUS
<1>1. StoreInv
  BY InitStore
<1>2. /\ \A p \in Procs : op[p] = IdleOp
      /\ \A t \in Tasks : tasks[t].status = "free" /\ ctx[t].rev = 0
  BY DEF Init, Blank
<1>3. \A p \in Procs : MatchTrue(p, op[p])
  BY <1>2 DEF MatchTrue, IdleOp, Writing, Locking, Executing
<1>4. \A t \in Tasks : ~Parked(t) /\ ~Exists(t)
  BY <1>2 DEF Parked, Matchable, Unclaimed, Exists
<1> QED
  BY <1>1, <1>2, <1>3, <1>4 DEF MatchInv, MatchBody

-----------------------------------------------------------------------------
(* Abandoned tasks.  A manual release reads the record, the registry and   *)
(* the record again, each at its own time.  What makes it safe: a record   *)
(* that is still, or again, as it was read, under an owner who was not     *)
(* shown at work on it, belongs to an owner who is gone for good.          *)

\* A thread that is gone has nothing in flight; a worker interrupts its task only once
\* it is told to stop.
ThreadInv ==
    \A a \in Agents :
        /\ thread[a] = "none" => Idle(a) /\ work[a] = NoTask
        /\ op[a].kind = "interrupt" => thread[a] = "stopping"

RunningOwned == \A t \in Tasks : Running(t) => tasks[t].owner \in Agents
Done(t) == tasks[t].status \in {"completed", "deleted"}
ScansDone == \A a \in Agents : op[a].kind \in Scanning => Done(op[a].task)

\* a runs t as it did when the record was read, at revision rev.
Kept(a, t, rev) == Owns(a, t) /\ tasks[t].matching_revision = rev
\* It will not run it so again, or not before it is started anew.
Lost(a, t, rev) ==
    \/ Done(t)
    \/ tasks[t].matching_revision > rev
    \/ thread[a] = "none"
    \/ thread[a] = "stopping" /\ ~Owns(a, t) /\ ~(op[a].kind = "claim" /\ op[a].task = t)

Abandoned(c) ==
    LET t == op[c].task
        a == op[c].agent
        r == op[c].rec IN
    op[c].kind \in Releasing =>
        /\ a \in Agents
        /\ tasks[t].status # "free"
        /\ op[c].kind \in Looking => r.status = "in_progress" /\ r.owner = a
        /\ op[c].kind \in {"look", "shown"} =>
              Kept(a, t, r.matching_revision) \/ Lost(a, t, r.matching_revision)
        /\ op[c].kind = "checked" => Lost(a, t, r.matching_revision)
        /\ op[c].kind = "release" => Owns(a, t) /\ thread[a] = "none"

AbandonBody ==
    /\ ReleaseAfterStop /\ RunningOwned /\ ScansDone
    /\ \A c \in Clients : Abandoned(c)
AbandonInv == MatchInv /\ ThreadInv /\ (NotOvertaken => AbandonBody)

\* The thread of one operation leaves the other operations as they are.
LEMMA ClientAlone ==
    ASSUME TypeOK, NEW c \in Clients, ClientStep(c)
    PROVE  /\ \A q \in Procs \ {c} : op'[q] = op[q]
           /\ UNCHANGED <<work, thread, overtaken>>
<1> USE DEF ghosts
<1> DEFINE Goal == /\ \A q \in Procs \ {c} : op'[q] = op[q]
                   /\ UNCHANGED <<work, thread, overtaken>>
<1>0. op \in [Procs -> OpRec] /\ c \in Procs
  BY DEF TypeOK, Procs
<1>s. ASSUME NEW o, op' = [op EXCEPT ![c] = o] \/ op' = op, UNCHANGED <<work, thread, overtaken>>
      PROVE  Goal
  BY <1>0, <1>s
<1> HIDE DEF Goal
<1>1. Publish(c) \/ RegisterAssign(c) => Goal
  BY <1>s DEF Publish, RegisterAssign, Finish
<1>2. ReserveTask(c) \/ PublishAssign(c) => Goal
  BY <1>s DEF ReserveTask, PublishAssign, Finish
<1>3. RollbackAssign(c) => Goal
  BY <1>s DEF RollbackAssign, Finish
<1>4. ListTasks(c) \/ LookOnline(c) \/ CompareRelease(c) => Goal
  BY <1>s DEF ListTasks, LookOnline, CompareRelease, Finish
<1>5. ASSUME NEW t \in Tasks, NEW D \in SUBSET (Tasks \ {t})
      PROVE  CreateTask(c, t, D) \/ UpdateBlockedBy(c, t, D) => Goal
  BY <1>s DEF CreateTask, UpdateBlockedBy
<1>6. ASSUME NEW t \in Tasks, NEW a \in Agents
      PROVE  CreateQueuedTask(c, t, a) \/ AssignTask(c, t, a) => Goal
  BY <1>s DEF CreateQueuedTask, AssignTask
<1>7. ASSUME NEW t \in Tasks, NEW C \in SUBSET Agents
      PROVE  SetTaskCandidates(c, t, C) => Goal
  BY <1>s DEF SetTaskCandidates, Stage
<1>8. ASSUME NEW t \in Tasks
      PROVE  UpdateTask(c, t) \/ RequestRematch(c, t) \/ UnassignTask(c, t)
             \/ ReleaseTask(c, t) \/ DeleteTask(c, t) => Goal
  BY <1>s DEF UpdateTask, RequestRematch, UnassignTask, ReleaseTask, DeleteTask, Stage
<1>9. Goal
  BY <1>1, <1>2, <1>3, <1>4, <1>5, <1>6, <1>7, <1>8, Zenon DEF ClientStep
<1> QED
  BY <1>9 DEF Goal

\* What a worker's step may do to its thread.
ThreadMoves(a) ==
    /\ \A q \in Procs \ {a} : op'[q] = op[q]
    /\ \A b \in Agents \ {a} : work'[b] = work[b] /\ thread'[b] = thread[b]
    /\ thread'[a] = "none" => op'[a].kind = "idle" /\ work'[a] = NoTask
    /\ op'[a].kind = "interrupt" => thread'[a] = "stopping"
    /\ thread[a] = "none" => thread'[a] = "none" \/ ReleasesOf(a) \subseteq overtaken'
    /\ thread[a] = "stopping" =>
          thread'[a] \in {"stopping", "none"} /\ (op'[a].kind = "claim" => op'[a] = op[a])
    /\ overtaken \subseteq overtaken'

LEMMA WorkerMoves ==
    ASSUME TypeOK, ThreadInv, NEW a \in Agents, WorkerStep(a)
    PROVE  ThreadMoves(a)
<1> USE DEF ghosts
<1>0. op \in [Procs -> OpRec] /\ a \in Procs
  BY DEF TypeOK, Procs
<1>n. (Idle(a) /\ work[a] = NoTask) \/ thread[a] # "none"
  BY DEF ThreadInv
<1>i. op[a].kind = "interrupt" => thread[a] = "stopping"
  BY DEF ThreadInv
\* The thread stays; the operation goes on to o.
<1>s. ASSUME NEW o, op' = [op EXCEPT ![a] = o], UNCHANGED <<thread, overtaken>>,
             work' = work \/ \E v : work' = [work EXCEPT ![a] = v],
             thread[a] # "none", o.kind = "claim" => thread[a] = "live",
             o.kind = "interrupt" => thread[a] = "stopping"
      PROVE  ThreadMoves(a)
  <2>1. op'[a] = o /\ \A q \in Procs \ {a} : op'[q] = op[q]
    BY <1>0, <1>s
  <2>2. \A b \in Agents \ {a} : work'[b] = work[b]
    BY <1>s DEF TypeOK
  <2>3. thread[a] \in {"live", "stopping"}
    BY <1>s DEF TypeOK
  <2> QED
    BY <1>s, <2>1, <2>2, <2>3 DEF ThreadMoves
\* The same for what Stage, StageUnlocked and Finish put there.
<1>g. ASSUME NEW kind, NEW t, NEW r,
             Stage(a, kind, t, r) \/ StageUnlocked(a, kind, t, r), UNCHANGED <<thread, overtaken, work>>,
             thread[a] # "none", kind = "claim" => thread[a] = "live",
             kind = "interrupt" => thread[a] = "stopping"
      PROVE  ThreadMoves(a)
  <2> DEFINE o == [IdleOp EXCEPT !.kind = kind, !.task = t, !.rec = r]
             l == [IdleOp EXCEPT !.kind = kind, !.task = t, !.rec = r, !.locks = {t}]
  <2>1. o.kind = kind /\ l.kind = kind
    BY DEF IdleOp
  <2>2. op' = [op EXCEPT ![a] = l] \/ op' = [op EXCEPT ![a] = o]
    BY <1>g DEF Stage, StageUnlocked
  <2> HIDE DEF o, l
  <2> QED
    BY <1>g, <1>s, <2>1, <2>2
<1>f. ASSUME Finish(a), UNCHANGED <<thread, overtaken>>,
             work' = work \/ \E v : work' = [work EXCEPT ![a] = v], thread[a] # "none"
      PROVE  ThreadMoves(a)
  <2>1. IdleOp.kind = "idle"
    BY DEF IdleOp
  <2> QED
    BY <1>f, <1>s, <2>1 DEF Finish
<1>1. StartWorker(a) => ThreadMoves(a)
  BY <1>0, <1>n DEF StartWorker, ThreadMoves, TypeOK, Idle, ReleasesOf
<1>2. AskToStop(a) => ThreadMoves(a)
  BY <1>0, <1>n DEF AskToStop, ThreadMoves, TypeOK
<1>3. LeaveTeam(a) => ThreadMoves(a)
  BY <1>0 DEF LeaveTeam, ThreadMoves, TypeOK, Idle
<1>4. StopWorker(a) => ThreadMoves(a)
  <2> SUFFICES ASSUME StopWorker(a) PROVE ThreadMoves(a)
    OBVIOUS
  <2>1. /\ thread'[a] = "stopping" /\ thread[a] # "none" /\ Idle(a) /\ overtaken' = overtaken
        /\ \A b \in Agents \ {a} : work'[b] = work[b] /\ thread'[b] = thread[b]
    BY <1>n DEF StopWorker, TypeOK, LetGo
  <2>2. op'[a].kind # "claim" /\ \A q \in Procs \ {a} : op'[q] = op[q]
    BY <1>0, <2>1 DEF StopWorker, StageUnlocked, IdleOp, Idle
  <2> QED
    BY <2>1, <2>2 DEF ThreadMoves
<1>5. PublishClaim(a) => ThreadMoves(a)
  <2> SUFFICES ASSUME PublishClaim(a) PROVE ThreadMoves(a)
    OBVIOUS
  <2> DEFINE o == [IdleOp EXCEPT !.kind = "register", !.task = op[a].task]
  <2>1. o.kind = "register"
    BY DEF IdleOp
  <2>2. op' = [op EXCEPT ![a] = o] /\ UNCHANGED <<work, thread, overtaken>> /\ ~Idle(a)
    BY DEF PublishClaim, Idle
  <2> HIDE DEF o
  <2> QED
    BY <1>n, <1>s, <2>1, <2>2
<1>6. RegisterClaim(a) => ThreadMoves(a)
  BY <1>f DEF RegisterClaim
<1>7. RejectClaim(a) => ThreadMoves(a)
  BY <1>f, <1>g DEF RejectClaim
<1>8. NoteIntervention(a) => ThreadMoves(a)
  BY <1>g, <1>n DEF NoteIntervention
<1>9. PublishOwn(a) => ThreadMoves(a)
  BY <1>f, <1>n DEF PublishOwn, LetGo, Idle
<1>10. PublishComplete(a) => ThreadMoves(a)
  <2> SUFFICES ASSUME PublishComplete(a) PROVE ThreadMoves(a)
    OBVIOUS
  <2> DEFINE o == [IdleOp EXCEPT !.kind = "scan", !.task = op[a].task]
  <2>1. o.kind = "scan"
    BY DEF IdleOp
  <2>2. op' = [op EXCEPT ![a] = o] /\ UNCHANGED <<work, thread, overtaken>> /\ ~Idle(a)
    BY DEF PublishComplete, Idle
  <2> HIDE DEF o
  <2> QED
    BY <1>n, <1>s, <2>1, <2>2
<1>11. ScanUnblocked(a) => ThreadMoves(a)
  <2> SUFFICES ASSUME ScanUnblocked(a) PROVE ThreadMoves(a)
    OBVIOUS
  <2> DEFINE S == {s \in Stored : /\ tasks[s].status = "pending"
                                  /\ op[a].task \in tasks[s].blockedBy
                                  /\ Ready(s)}
             o == [op[a] EXCEPT !.kind = "unblock", !.todo = S]
  <2>1. o.kind = "unblock"
    BY <1>0 DEF OpRec
  <2>2. op' = [op EXCEPT ![a] = o] /\ UNCHANGED <<work, thread, overtaken>> /\ ~Idle(a)
    BY DEF ScanUnblocked, Idle
  <2> HIDE DEF o
  <2> QED
    BY <1>n, <1>s, <2>1, <2>2
<1>12. CompleteDone(a) => ThreadMoves(a)
  BY <1>f, <1>n DEF CompleteDone, Idle
<1>13. ASSUME NEW t \in Tasks
       PROVE  ClaimTask(a, t) \/ ReportMismatch(a, t) \/ CompleteTask(a, t) => ThreadMoves(a)
  BY <1>g DEF ClaimTask, ReportMismatch, CompleteTask
<1>14. ASSUME NEW s \in Tasks PROVE UnblockOne(a, s) => ThreadMoves(a)
  <2> SUFFICES ASSUME UnblockOne(a, s) PROVE ThreadMoves(a)
    OBVIOUS
  <2> DEFINE o == [op[a] EXCEPT !.todo = @ \ {s}]
  <2>1. o.kind = "unblock"
    BY <1>0 DEF OpRec, UnblockOne
  <2>2. op' = [op EXCEPT ![a] = o] /\ UNCHANGED <<work, thread, overtaken>> /\ ~Idle(a)
    BY DEF UnblockOne, Idle
  <2> HIDE DEF o
  <2> QED
    BY <1>n, <1>s, <2>1, <2>2
<1> QED
  BY <1>1, <1>2, <1>3, <1>4, <1>5, <1>6, <1>7, <1>8, <1>9, <1>10, <1>11, <1>12, <1>13, <1>14, Zenon
  DEF WorkerStep

LEMMA NextThread ==
    ASSUME TypeOK, ThreadInv, [Next]_vars
    PROVE  ThreadInv'
<1> USE DEF ghosts
<1>1. ASSUME NEW c \in Clients, ClientStep(c) PROVE ThreadInv'
  <2>1. c \notin Agents
    BY ConstantsAssumption
  <2>2. /\ \A q \in Procs \ {c} : op'[q] = op[q]
        /\ work' = work /\ thread' = thread
    BY <1>1, ClientAlone
  <2> QED
    BY <2>1, <2>2 DEF ThreadInv, Idle, Procs
<1>2. ASSUME NEW a \in Agents, WorkerStep(a) PROVE ThreadInv'
  BY <1>2, WorkerMoves DEF ThreadMoves, ThreadInv, Idle, Procs
<1>3. CASE UNCHANGED <<op, work, thread>>
  BY <1>3 DEF ThreadInv, Idle
<1>4. CASE Crash
  BY <1>4, ConstantsAssumption DEF Crash, ThreadInv, Idle, IdleOp, Procs
<1> QED
  BY <1>1, <1>2, <1>3, <1>4 DEF Next, LeadReads, vars

\* What a step may do to a file that a release has read.
LEMMA FileMoves ==
    ASSUME MatchInv, Next, ReleaseAfterStop', NEW t \in Tasks, tasks[t].status # "free"
    PROVE  /\ Done(t)' \/ tasks'[t].matching_revision >= tasks[t].matching_revision
           /\ \A a \in Agents : Owns(a, t)' /\ ~Owns(a, t) => op[a].kind = "claim" /\ op[a].task = t
           /\ \A a \in Agents : Owns(a, t) /\ ~Owns(a, t)' =>
                 \/ Done(t)'
                 \/ tasks'[t].matching_revision > tasks[t].matching_revision
                 \/ op[a].kind = "interrupt" /\ op[a].task = t /\ op'[a].kind # "claim"
           /\ Running(t)' /\ ~Running(t) => tasks'[t].owner \in Agents
<1> DEFINE Goal ==
           /\ Done(t)' \/ tasks'[t].matching_revision >= tasks[t].matching_revision
           /\ \A a \in Agents : Owns(a, t)' /\ ~Owns(a, t) => op[a].kind = "claim" /\ op[a].task = t
           /\ \A a \in Agents : Owns(a, t) /\ ~Owns(a, t)' =>
                 \/ Done(t)'
                 \/ tasks'[t].matching_revision > tasks[t].matching_revision
                 \/ op[a].kind = "interrupt" /\ op[a].task = t /\ op'[a].kind # "claim"
           /\ Running(t)' /\ ~Running(t) => tasks'[t].owner \in Agents
<1>0. StoreInv /\ TypeOK /\ ReleaseAfterStop /\ FileInv /\ MatchBody
  BY StopStays DEF MatchInv, StoreInv
<1>n. tasks[t].matching_revision \in Nat
  <2>1. tasks[t] \in TaskRec
    BY <1>0 DEF TypeOK
  <2> QED
    BY <2>1 DEF TaskRec
<1>1. CASE tasks'[t] = tasks[t]
  BY <1>1, <1>n DEF Owns, Running
<1>2. CASE Unclaimed(tasks[t]) /\ tasks'[t] = Rematched(tasks[t])
  <2>1. tasks[t] \in TaskRec
    BY <1>0 DEF TypeOK
  <2>2. /\ tasks'[t].status = "pending" /\ ~Running(t)
        /\ tasks'[t].matching_revision = tasks[t].matching_revision + 1
    BY <1>2, <2>1, RematchedFields DEF Unclaimed, Running
  <2> QED
    BY <1>n, <2>2 DEF Owns, Running
<1>3. ASSUME NEW r \in TaskRec, tasks'[t] = r, NEW p \in Procs, Writes(p, t, r)
      PROVE  Goal
  <2>1. OpTrue(p, op[p])
    BY <1>0 DEF FileInv
  <2>2. op[p].kind # "delete" => MatchFits(p, op[p].kind, t, r)
    BY <1>0, <1>3 DEF MatchBody, MatchTrue, Writes
  <2>3. r.matching_revision \in Nat
    BY <1>3 DEF TaskRec
  <2>4. op[p].kind # "delete" => r.matching_revision >= tasks[t].matching_revision
    BY <1>n, <2>2, <2>3 DEF MatchFits
  <2>5. op[p].kind \in {"release", "mismatch"} => r.matching_revision > tasks[t].matching_revision
    BY <1>3, <2>1, <2>2 DEF MatchFits, OpTrue, Writes, Matchable
  <2>6. op[p].kind = "delete" => Done(t)'
    BY <1>3, <2>1 DEF OpTrue, Writes, Done
  <2>7. ASSUME NEW a \in Agents, Owns(a, t)', ~Owns(a, t)
        PROVE  op[a].kind = "claim" /\ op[a].task = t
    <3>1. r.status = "in_progress" /\ r.owner = a
      BY <1>3, <2>7 DEF Owns, Running
    <3>2. r.owner = p /\ op[p].kind \in {"claim", "note"} /\ (op[p].kind = "note" => Owns(p, t))
      BY <1>0, <1>3, <3>1, WritesWhat
    <3> QED
      BY <1>3, <2>7, <3>1, <3>2 DEF Writes
  <2>8. ASSUME NEW a \in Agents, Owns(a, t), ~Owns(a, t)'
        PROVE  \/ Done(t)'
               \/ tasks'[t].matching_revision > tasks[t].matching_revision
               \/ op[a].kind = "interrupt" /\ op[a].task = t /\ op'[a].kind # "claim"
    <3>1. ~Unclaimed(tasks[t]) /\ Running(t) /\ tasks[t].owner = a
      BY <2>8 DEF Owns, Running, Unclaimed
    <3>2. op[p].kind \in {"release", "complete", "note", "interrupt", "mismatch"}
      BY <1>3, <2>1, <3>1 DEF OpTrue, Writes, Writing, Locking, Executing
    <3>3. CASE op[p].kind \in {"release", "mismatch"}
      BY <1>3, <2>5, <3>3
    <3>4. CASE op[p].kind = "complete"
      BY <1>3, <2>1, <3>4 DEF OpTrue, Writes, Done
    <3>5. CASE op[p].kind \in {"note", "interrupt"}
      <4>1. p = a
        BY <1>3, <2>1, <3>1, <3>5 DEF OpTrue, Writes, Executing, Owns
      <4>2. op[p].kind = "note" => Owns(a, t)'
        BY <1>3, <2>1, <4>1 DEF OpTrue, Writes, Owns, Running
      <4> QED
        BY <1>3, <2>8, <3>5, <4>1, <4>2 DEF Writes, Writing, Locking
    <3> QED
      BY <3>2, <3>3, <3>4, <3>5
  <2>9. Running(t)' /\ ~Running(t) => tasks'[t].owner \in Agents
    BY <1>0, <1>3, WritesWhat DEF Running
  <2> QED
    BY <1>3, <2>4, <2>6, <2>7, <2>8, <2>9
<1>4. ASSUME NEW s \in Tasks, NEW r \in TaskRec, tasks' = [tasks EXCEPT ![s] = r]
      PROVE  tasks'[t] = IF s = t THEN r ELSE tasks[t]
  BY <1>0, <1>4 DEF TypeOK
<1> HIDE DEF Goal
<1>5. Goal
  <2>1. CASE tasks' = tasks
    BY <1>1, <2>1 DEF Goal
  <2>2. ASSUME NEW s \in Tasks, NEW r \in TaskRec, tasks' = [tasks EXCEPT ![s] = r],
               \/ tasks[s].status = "free" /\ r.status = "pending"
               \/ Unclaimed(tasks[s]) /\ r = Rematched(tasks[s])
               \/ \E p \in Procs : Writes(p, s, r)
        PROVE  Goal
    <3>1. CASE s # t
      BY <1>1, <1>4, <2>2, <3>1 DEF Goal
    <3>2. CASE s = t
      <4>1. tasks'[t] = r
        BY <1>4, <2>2, <3>2
      <4> QED
        BY <1>2, <1>3, <2>2, <3>2, <4>1 DEF Goal
    <3> QED
      BY <3>1, <3>2
  <2> QED
    BY <1>0, <2>1, <2>2, Written
<1> QED
  BY <1>5 DEF Goal

\* Nobody writes the file that a release has locked while its owner is gone.
LEMMA HolderKeeps ==
    ASSUME StoreInv, Next, ReleaseAfterStop', NEW c \in Procs, op[c].kind = "release",
           op'[c] = op[c], NEW a \in Agents, Owns(a, op[c].task), Idle(a)
    PROVE  tasks'[op[c].task] = tasks[op[c].task]
<1> DEFINE t == op[c].task
<1>0. TypeOK /\ FileInv /\ LocksTrue
  BY StopStays DEF StoreInv
<1>1. t \in op[c].locks /\ t \in Tasks /\ tasks[t].status = "in_progress"
  <2>1. OpTrue(c, op[c])
    BY <1>0 DEF FileInv
  <2> QED
    BY <1>0, <2>1 DEF OpTrue, Locking, Owns, Running, TypeOK, Idle
<1>2. ASSUME NEW p \in Procs, NEW r, Writes(p, t, r) PROVE FALSE
  <2>1. p # c
    BY <1>2 DEF Writes, Writing, Locking
  <2>2. op[p].kind \in Executing
    BY <1>0, <1>1, <1>2, <2>1, HolderAlone DEF Writes, Writing, Locking
  <2>3. OpTrue(p, op[p])
    BY <1>0 DEF FileInv
  <2>4. p = a
    BY <1>2, <2>2, <2>3 DEF OpTrue, Writes, Owns
  <2> QED
    BY <2>2, <2>4 DEF Idle, Executing
<1>3. ASSUME NEW s \in Tasks, NEW r, tasks' = [tasks EXCEPT ![s] = r]
      PROVE  tasks'[t] = IF s = t THEN r ELSE tasks[t]
  BY <1>0, <1>1, <1>3 DEF TypeOK
<1> QED
  BY <1>1, <1>2, <1>3, Written DEF Unclaimed

\* A thread that is gone, or told to stop, comes back by being started only.
LEMMA ThreadNext ==
    ASSUME TypeOK, ThreadInv, Next, NEW a \in Agents
    PROVE  /\ thread[a] = "none" => thread'[a] = "none" \/ ReleasesOf(a) \subseteq overtaken'
           /\ thread[a] = "stopping" =>
                 thread'[a] \in {"stopping", "none"} /\ (op'[a].kind = "claim" => op'[a] = op[a])
           /\ overtaken \subseteq overtaken'
<1> USE DEF ghosts
<1>1. ASSUME NEW c \in Clients, ClientStep(c)
      PROVE  op'[a] = op[a] /\ thread' = thread /\ overtaken' = overtaken
  <2>1. a \in Procs \ {c}
    BY ConstantsAssumption DEF Procs
  <2> QED
    BY <1>1, <2>1, ClientAlone
<1>2. ASSUME NEW b \in Agents, WorkerStep(b), a # b
      PROVE  op'[a] = op[a] /\ thread'[a] = thread[a] /\ overtaken \subseteq overtaken'
  <2>1. a \in Procs \ {b}
    BY <1>2 DEF Procs
  <2> QED
    BY <1>2, <2>1, WorkerMoves DEF ThreadMoves
<1>3. WorkerStep(a) => ThreadMoves(a)
  BY WorkerMoves
<1>4. Crash => thread'[a] = "none" /\ op'[a].kind = "idle" /\ overtaken' = overtaken
  BY DEF Crash, IdleOp, Procs
<1>5. (\E t \in Tasks : LeadReads(t)) => op' = op /\ thread' = thread /\ overtaken' = overtaken
  BY DEF LeadReads
<1> QED
  BY <1>1, <1>2, <1>3, <1>4, <1>5 DEF Next, ThreadMoves

\* A release in flight stays true while other threads move.
LEMMA StaysAbandoned ==
    ASSUME AbandonInv, AbandonBody, Next, NotOvertaken', ReleaseAfterStop',
           NEW c \in Clients, op'[c] = op[c]
    PROVE  Abandoned(c)'
<1> DEFINE t == op[c].task
           a == op[c].agent
           rev == op[c].rec.matching_revision
<1> SUFFICES ASSUME op[c].kind \in Releasing
             PROVE  Abandoned(c)'
  BY DEF Abandoned
<1>0. /\ TypeOK /\ ThreadInv /\ MatchInv /\ StoreInv
      /\ c \in Procs
  BY DEF AbandonInv, MatchInv, StoreInv, Procs
<1>1. t \in Tasks /\ rev \in Nat /\ tasks[t].matching_revision \in Nat
      /\ tasks'[t].matching_revision \in Nat
  <2>1. t \in Tasks /\ op[c].rec \in TaskRec
    BY <1>0, OpFields DEF TypeOK, OpsType, Releasing
  <2>2. tasks[t] \in TaskRec /\ tasks'[t] \in TaskRec
    BY <1>0, <2>1, NextType DEF TypeOK
  <2> QED
    BY <2>1, <2>2 DEF TaskRec
<1>2. Abandoned(c) /\ a \in Agents /\ tasks[t].status # "free"
  BY DEF AbandonBody, Abandoned
<1>3. /\ thread[a] = "none" => thread'[a] = "none"
      /\ thread[a] = "stopping" =>
            thread'[a] \in {"stopping", "none"} /\ (op'[a].kind = "claim" => op'[a] = op[a])
  <2>1. t \in ReleasesOf(a)
    BY <1>0 DEF ReleasesOf
  <2>2. ~(ReleasesOf(a) \subseteq overtaken')
    BY <2>1 DEF NotOvertaken
  <2> QED
    BY <1>0, <1>2, <2>2, ThreadNext
<1>4. /\ Done(t) => Done(t)'
      /\ tasks'[t].status # "free"
  BY <1>0, <1>1, <1>2, Follows DEF Done
<1>5. /\ Done(t)' \/ tasks'[t].matching_revision >= tasks[t].matching_revision
      /\ Owns(a, t)' /\ ~Owns(a, t) => op[a].kind = "claim" /\ op[a].task = t
      /\ Owns(a, t) /\ ~Owns(a, t)' =>
            \/ Done(t)'
            \/ tasks'[t].matching_revision > tasks[t].matching_revision
            \/ op[a].kind = "interrupt" /\ op'[a].kind # "claim"
  BY <1>0, <1>1, <1>2, FileMoves
<1>6. Lost(a, t, rev) => Lost(a, t, rev)'
  <2>1. CASE Done(t) \/ tasks[t].matching_revision > rev \/ thread[a] = "none"
    BY <1>1, <1>3, <1>4, <1>5, <2>1 DEF Lost
  <2>2. CASE thread[a] = "stopping" /\ ~Owns(a, t) /\ ~(op[a].kind = "claim" /\ op[a].task = t)
    BY <1>3, <1>5, <2>2 DEF Lost
  <2> QED
    BY <2>1, <2>2 DEF Lost
<1>7. Kept(a, t, rev) => Kept(a, t, rev)' \/ Lost(a, t, rev)'
  <2>1. op[a].kind = "interrupt" => thread[a] = "stopping"
    BY <1>0, <1>2 DEF ThreadInv
  <2> QED
    BY <1>1, <1>3, <1>5, <2>1 DEF Kept, Lost
<1>8. op[c].kind = "release" => Owns(a, t)' /\ thread'[a] = "none"
  <2> SUFFICES ASSUME op[c].kind = "release" PROVE Owns(a, t)' /\ thread'[a] = "none"
    OBVIOUS
  <2>1. Owns(a, t) /\ thread[a] = "none" /\ Idle(a)
    BY <1>0, <1>2 DEF Abandoned, ThreadInv
  <2>2. tasks'[t] = tasks[t]
    BY <1>0, <1>2, <2>1, HolderKeeps
  <2> QED
    BY <1>3, <2>1, <2>2 DEF Owns, Running
<1> QED
  BY <1>2, <1>4, <1>6, <1>7, <1>8 DEF Abandoned

\* The steps of the release itself.
LEMMA OwnAbandoned ==
    ASSUME AbandonInv, AbandonBody, NEW c \in Clients, ClientStep(c), NotOvertaken',
           ReleaseAfterStop'
    PROVE  Abandoned(c)'
<1> USE DEF ghosts
<1>0. /\ TypeOK /\ MatchInv /\ StoreInv /\ Abandoned(c)
      /\ op \in [Procs -> OpRec] /\ c \in Procs
  BY DEF AbandonInv, MatchInv, StoreInv, AbandonBody, TypeOK, Procs
<1>f. op[c].kind # "idle" => op[c].task \in Tasks
  BY <1>0 DEF TypeOK, Idle
<1>s. op'[c] = op[c] => Abandoned(c)'
  BY StaysAbandoned DEF Next
<1>n. op'[c].kind \notin Releasing => Abandoned(c)'
  BY DEF Abandoned
<1>i. IdleOp.kind \notin Releasing
  BY DEF IdleOp, Releasing
<1>p. ASSUME Finish(c) PROVE Abandoned(c)'
  BY <1>0, <1>i, <1>n, <1>p DEF Finish
<1>g. ASSUME NEW kind \in {"edit", "match"}, NEW t, NEW r, Stage(c, kind, t, r)
      PROVE  Abandoned(c)'
  BY <1>0, <1>g, <1>n DEF Stage, Releasing, IdleOp
<1>o. ASSUME NEW o, op' = [op EXCEPT ![c] = o], o.kind \notin Releasing PROVE Abandoned(c)'
  BY <1>0, <1>n, <1>o
<1>1. Publish(c) \/ RegisterAssign(c) => Abandoned(c)'
  BY <1>p DEF Publish, RegisterAssign
<1>2. CASE ReserveTask(c)
  <2> DEFINE o == [IdleOp EXCEPT !.kind = "assign", !.task = op[c].task, !.locks = {op[c].task},
                                 !.rec = [tasks[op[c].task] EXCEPT !.assignee = op[c].agent],
                                 !.graph = TRUE, !.agent = op[c].rec.assignee]
  <2>1. o.kind \notin Releasing
    BY DEF IdleOp, Releasing
  <2>2. Finish(c) \/ op' = [op EXCEPT ![c] = o]
    BY <1>2 DEF ReserveTask
  <2> HIDE DEF o
  <2> QED
    BY <1>o, <1>p, <2>1, <2>2
<1>3. CASE PublishAssign(c)
  <2> DEFINE o == [op[c] EXCEPT !.kind = "assigned", !.locks = {}, !.graph = FALSE]
  <2>1. o.kind \notin Releasing
    BY <1>0 DEF OpRec, Releasing
  <2>2. op' = [op EXCEPT ![c] = o]
    BY <1>3 DEF PublishAssign
  <2> HIDE DEF o
  <2> QED
    BY <1>o, <2>1, <2>2
<1>4. CASE RollbackAssign(c)
  <2> DEFINE o(x) == [IdleOp EXCEPT !.kind = "rollback", !.task = op[c].task,
                                    !.locks = {op[c].task}, !.rec = x,
                                    !.graph = op[c].agent # NoAgent,
                                    !.agent = op[c].rec.assignee]
             back == Rematched([tasks[op[c].task] EXCEPT !.assignee = NoAgent])
             again == [tasks[op[c].task] EXCEPT !.assignee = op[c].agent]
  <2>1. ASSUME NEW x PROVE o(x).kind \notin Releasing
    BY DEF IdleOp, Releasing
  <2>2. Finish(c) \/ op' = [op EXCEPT ![c] = o(back)] \/ op' = [op EXCEPT ![c] = o(again)]
    BY <1>4 DEF RollbackAssign
  <2>3. o(back).kind \notin Releasing /\ o(again).kind \notin Releasing
    BY <2>1
  <2> HIDE DEF o, back, again
  <2>4. CASE op' = [op EXCEPT ![c] = o(back)]
    BY <1>o, <2>3, <2>4
  <2>5. CASE op' = [op EXCEPT ![c] = o(again)]
    BY <1>o, <2>3, <2>5
  <2> QED
    BY <1>p, <2>2, <2>4, <2>5
<1>5. ASSUME NEW t \in Tasks, NEW D \in SUBSET (Tasks \ {t})
      PROVE  CreateTask(c, t, D) \/ UpdateBlockedBy(c, t, D) => Abandoned(c)'
  <2> DEFINE r == [tasks[t] EXCEPT !.blockedBy = D]
             n == IF Matchable(r) THEN Rematched(r) ELSE r
             o == [IdleOp EXCEPT !.kind = "edit", !.task = t, !.rec = n,
                                 !.locks = D \cup {t}, !.graph = TRUE]
  <2>1. o.kind \notin Releasing
    <3> HIDE DEF n
    <3> QED
      BY DEF IdleOp, Releasing
  <2>2. /\ CreateTask(c, t, D) => op' = op
        /\ UpdateBlockedBy(c, t, D) => op' = [op EXCEPT ![c] = o]
    BY DEF CreateTask, UpdateBlockedBy
  <2> HIDE DEF o
  <2> QED
    BY <1>o, <1>s, <2>1, <2>2
<1>6. ASSUME NEW t \in Tasks, NEW a \in Agents
      PROVE  CreateQueuedTask(c, t, a) \/ AssignTask(c, t, a) => Abandoned(c)'
  <2> DEFINE r == [Blank("free") EXCEPT !.assignee = tasks[t].assignee]
             o == [IdleOp EXCEPT !.kind = "assigning", !.task = t, !.agent = a, !.rec = r]
  <2>1. o.kind \notin Releasing
    BY DEF IdleOp, Releasing
  <2>2. /\ CreateQueuedTask(c, t, a) => op' = op
        /\ AssignTask(c, t, a) => op' = [op EXCEPT ![c] = o]
    BY DEF CreateQueuedTask, AssignTask
  <2> HIDE DEF o
  <2> QED
    BY <1>o, <1>s, <2>1, <2>2
<1>7. ASSUME NEW t \in Tasks, NEW C \in SUBSET Agents
      PROVE  SetTaskCandidates(c, t, C) => Abandoned(c)'
  BY <1>g DEF SetTaskCandidates
<1>8. ASSUME NEW t \in Tasks
      PROVE  UpdateTask(c, t) \/ RequestRematch(c, t) \/ UnassignTask(c, t) \/ DeleteTask(c, t)
             => Abandoned(c)'
  <2> DEFINE o == [IdleOp EXCEPT !.kind = "delete", !.task = t, !.rec = Blank("deleted"),
                                 !.locks = {t}, !.graph = TRUE]
  <2>1. o.kind \notin Releasing
    BY DEF IdleOp, Releasing
  <2>2. DeleteTask(c, t) => op' = [op EXCEPT ![c] = o]
    BY DEF DeleteTask
  <2> HIDE DEF o
  <2>3. DeleteTask(c, t) => Abandoned(c)'
    BY <1>o, <2>1, <2>2
  <2> QED
    BY <1>g, <2>3 DEF UpdateTask, RequestRematch, UnassignTask
<1>9. ASSUME NEW t \in Tasks, ReleaseTask(c, t) PROVE Abandoned(c)'
  <2>1. /\ op'[c].kind = "look" /\ op'[c].task = t /\ op'[c].rec = tasks[t]
        /\ op'[c].agent = tasks[t].owner
    BY <1>0, <1>9 DEF ReleaseTask, IdleOp
  <2>2. Running(t) /\ tasks' = tasks /\ tasks[t].owner \in Agents
    BY <1>9 DEF ReleaseTask, AbandonBody, RunningOwned
  <2>3. Kept(tasks[t].owner, t, tasks[t].matching_revision)'
    BY <2>2 DEF Kept, Owns, Running
  <2> QED
    BY <2>1, <2>2, <2>3 DEF Abandoned, Running
<1> DEFINE t == op[c].task
           a == op[c].agent
           r == op[c].rec
           rev == r.matching_revision
\* The operation goes on under another name.
<1>k. ASSUME NEW k \in {"shown", "checked"}, op' = [op EXCEPT ![c].kind = k],
             UNCHANGED <<tasks, thread>>, op[c].kind \in {"look", "shown"},
             k = "checked" => Lost(a, t, rev)
      PROVE  Abandoned(c)'
  <2>1. op'[c].kind = k /\ op'[c].task = t /\ op'[c].agent = a /\ op'[c].rec = r
    BY <1>0, <1>k DEF OpRec
  <2>2. /\ a \in Agents /\ tasks[t].status # "free" /\ r.status = "in_progress" /\ r.owner = a
        /\ Kept(a, t, rev) \/ Lost(a, t, rev)
    BY <1>0, <1>k DEF Abandoned, Releasing, Looking
  <2>3. a \in Procs /\ a # c
    BY <2>2, ConstantsAssumption DEF Procs
  <2>4. op'[a] = op[a]
    BY <1>0, <1>k, <2>3
  <2>5. /\ Kept(a, t, rev) => Kept(a, t, rev)'
        /\ Lost(a, t, rev) => Lost(a, t, rev)'
    BY <1>k, <2>4 DEF Kept, Lost, Owns, Running, Done
  <2> QED
    BY <1>k, <2>1, <2>2, <2>5 DEF Abandoned
<1>10. CASE ListTasks(c)
  <2>1. Kept(a, t, rev) \/ Lost(a, t, rev)
    BY <1>0, <1>10 DEF ListTasks, Abandoned, Releasing
  <2>2. ~Owns(a, t) => Lost(a, t, rev)
    BY <2>1 DEF Kept
  <2> QED
    BY <1>10, <1>k, <2>2 DEF ListTasks
<1>11. CASE LookOnline(c)
  <2>1. ~Online(a) => Lost(a, t, rev)
    BY DEF Online, Lost
  <2> QED
    BY <1>11, <1>k, <1>p, <2>1 DEF LookOnline
<1>12. CASE CompareRelease(c)
  <2> SUFFICES ASSUME ~Finish(c) PROVE Abandoned(c)'
    BY <1>p
  <2>1. tasks[t] = r /\ op[c].kind = "checked" /\ UNCHANGED <<tasks, thread>>
    BY <1>12 DEF CompareRelease, Unchanged
  <2>2. a \in Agents /\ r.status = "in_progress" /\ r.owner = a /\ Lost(a, t, rev)
    BY <1>0, <2>1 DEF Abandoned, Releasing, Looking
  <2>3. rev \in Nat
    <3>1. r \in TaskRec
      BY <1>0 DEF OpRec
    <3> QED
      BY <3>1 DEF TaskRec
  <2>4. Owns(a, t) /\ thread[a] = "none"
    BY <2>1, <2>2, <2>3 DEF Owns, Running, Lost, Done
  <2>5. op'[c].kind = "release" /\ op'[c].task = t /\ op'[c].agent = a
    BY <1>0, <1>12 DEF CompareRelease, OpRec
  <2> QED
    BY <2>1, <2>2, <2>4, <2>5 DEF Abandoned, Looking, Owns, Running
<1> QED
  BY <1>1, <1>2, <1>3, <1>4, <1>5, <1>6, <1>7, <1>8, <1>9, <1>10, <1>11, <1>12, Zenon
  DEF ClientStep

\* A release that writes finds no worker at the task.
LEMMA StopsFirst ==
    ASSUME AbandonInv, AbandonBody, Next
    PROVE  ReleaseAfterStop'
<1>0. /\ TypeOK /\ ThreadInv /\ FileInv /\ ReleaseAfterStop
      /\ RunningOwned /\ ScansDone
  BY DEF AbandonInv, AbandonBody, MatchInv, StoreInv
<1>1. ASSUME NEW c \in Clients, Publish(c), op[c].kind = "release"
      PROVE  Running(op[c].task) /\ \A b \in Agents : ~Executes(b, op[c].task)
  <2> DEFINE t == op[c].task
             a == op[c].agent
  <2>1. a \in Agents /\ Owns(a, t) /\ thread[a] = "none"
    BY <1>1 DEF AbandonBody, Abandoned, Releasing
  <2>2. Idle(a) /\ work[a] = NoTask /\ t \in Tasks
    BY <1>0, <1>1, <2>1 DEF ThreadInv, TypeOK, Idle, Procs
  <2>3. ASSUME NEW b \in Agents, Owns(b, t) PROVE ~Executes(b, t)
    <3>1. b = a
      BY <2>1, <2>3 DEF Owns
    <3> QED
      BY <2>2, <3>1, ConstantsAssumption DEF Executes, Idle
  <2>4. ASSUME NEW b \in Agents, Executes(b, t) PROVE Owns(b, t)
    <3>1. b \in Procs /\ OpTrue(b, op[b])
      BY <1>0 DEF FileInv, Procs
    <3>2. CASE work[b] = t
      <4>1. ~ScansFor(b, t)
        BY <1>0, <2>1 DEF ScansFor, ScansDone, Done, Owns, Running
      <4> QED
        BY <1>0, <2>2, <3>2, <4>1 DEF FileInv, WorksOnOwn
    <3>3. CASE op[b].task = t /\ op[b].kind \in Executing
      BY <3>1, <3>3 DEF OpTrue
    <3> QED
      BY <2>4, <3>2, <3>3 DEF Executes, Executing
  <2> QED
    BY <2>1, <2>3, <2>4 DEF Owns
<1>2. ASSUME NEW c \in Clients, Publish(c) PROVE misreleased' = misreleased
  BY <1>1, <1>2 DEF Publish
<1> QED
  BY <1>0, <1>2, Misreleases DEF ReleaseAfterStop

\* A completion that scans for what it unblocked has been written.
LEMMA NextScans ==
    ASSUME AbandonInv, AbandonBody, Next, ReleaseAfterStop'
    PROVE  ScansDone'
<1> USE DEF ghosts
<1>0. /\ TypeOK /\ FileInv /\ StoreInv /\ ThreadInv /\ ScansDone
      /\ op \in [Procs -> OpRec]
  BY DEF AbandonInv, AbandonBody, MatchInv, StoreInv, TypeOK
<1> SUFFICES ASSUME NEW a \in Agents, op'[a].kind \in Scanning
             PROVE  tasks'[op'[a].task].status \in {"completed", "deleted"}
  BY DEF ScansDone, Done
<1>a. a \in Procs
  BY DEF Procs
\* The completion was on its way already, and its task stays done.
<1>1. ASSUME op[a].kind \in Scanning, op'[a].task = op[a].task
      PROVE  tasks'[op'[a].task].status \in {"completed", "deleted"}
  <2>1. op[a].task \in Tasks /\ Done(op[a].task)
    BY <1>0, <1>1, <1>a DEF ScansDone, TypeOK, Idle, Scanning
  <2> QED
    BY <1>0, <1>1, <2>1, Follows DEF Done
<1>2. CASE PublishComplete(a)
  <2>1. op[a].task \in Tasks /\ op'[a].task = op[a].task /\ tasks'[op[a].task] = op[a].rec
    BY <1>0, <1>2, <1>a DEF PublishComplete, TypeOK, Idle, IdleOp
  <2>2. op[a].rec.status = "completed"
    BY <1>0, <1>2, <1>a DEF PublishComplete, FileInv, OpTrue
  <2> QED
    BY <2>1, <2>2 DEF Done
<1>3. ASSUME NEW t \in Tasks, UnblockOne(a, t)
      PROVE  tasks'[op'[a].task].status \in {"completed", "deleted"}
  <2>1. op[a].kind = "unblock" /\ op'[a].task = op[a].task
    BY <1>0, <1>3, <1>a DEF UnblockOne, OpRec
  <2> QED
    BY <1>1, <2>1 DEF Scanning
<1>4. CASE ScanUnblocked(a)
  <2>1. op[a].kind = "scan" /\ op'[a].task = op[a].task
    BY <1>0, <1>4, <1>a DEF ScanUnblocked, OpRec
  <2> QED
    BY <1>1, <2>1 DEF Scanning
<1>5. CASE op'[a] = op[a]
  BY <1>1, <1>5
<1>6. CASE op'[a] # op[a] /\ WorkerStep(a) /\ ~PublishComplete(a) /\ ~ScanUnblocked(a)
           /\ ~\E t \in Tasks : UnblockOne(a, t)
  <2>1. ASSUME NEW kind \in Kinds \ Scanning, NEW t, NEW r,
               Stage(a, kind, t, r) \/ StageUnlocked(a, kind, t, r)
        PROVE  FALSE
    BY <1>0, <1>a, <2>1 DEF Stage, StageUnlocked, IdleOp
  <2>2. Finish(a) => FALSE
    BY <1>0, <1>a DEF Finish, IdleOp, Scanning
  <2>3. ~StartWorker(a) /\ ~AskToStop(a) /\ ~LeaveTeam(a)
    BY <1>6 DEF StartWorker, AskToStop, LeaveTeam
  <2>4. ~StopWorker(a)
    BY <1>6, <2>1 DEF StopWorker, Kinds, Scanning
  <2>5. ~PublishClaim(a)
    BY <1>0, <1>a DEF PublishClaim, IdleOp, Scanning
  <2>6. ~RegisterClaim(a) /\ ~PublishOwn(a) /\ ~CompleteDone(a)
    BY <2>2 DEF RegisterClaim, PublishOwn, CompleteDone
  <2>7. ~RejectClaim(a)
    BY <2>1, <2>2 DEF RejectClaim, Kinds, Scanning
  <2>8. ~NoteIntervention(a)
    BY <2>1 DEF NoteIntervention, Kinds, Scanning
  <2>9. ASSUME NEW t \in Tasks PROVE ~ClaimTask(a, t) /\ ~ReportMismatch(a, t) /\ ~CompleteTask(a, t)
    BY <2>1 DEF ClaimTask, ReportMismatch, CompleteTask, Kinds, Scanning
  <2> QED
    BY <1>6, <2>3, <2>4, <2>5, <2>6, <2>7, <2>8, <2>9 DEF WorkerStep
<1>7. ASSUME NEW c \in Clients, ClientStep(c) PROVE op'[a] = op[a]
  <2>1. a \in Procs \ {c}
    BY <1>a, ConstantsAssumption
  <2> QED
    BY <1>0, <1>7, <2>1, ClientAlone
<1>8. ASSUME NEW b \in Agents \ {a}, WorkerStep(b) PROVE op'[a] = op[a]
  BY <1>0, <1>8, <1>a, WorkerMoves DEF ThreadMoves
<1>9. Crash => op'[a].kind \notin Scanning
  BY <1>a DEF Crash, IdleOp, Scanning
<1>10. (\E t \in Tasks : LeadReads(t)) => op' = op
  BY DEF LeadReads
<1> QED
  BY <1>2, <1>3, <1>4, <1>5, <1>6, <1>7, <1>8, <1>9, <1>10 DEF Next

\* One step, of behaviours in which no owner was started in the middle of a release.
LEMMA NextAbandon ==
    ASSUME AbandonInv, [Next]_vars
    PROVE  AbandonInv' /\ (NotOvertaken' => NotOvertaken /\ AbandonBody)
<1> USE DEF ghosts
<1>1. MatchInv' /\ ThreadInv' /\ TypeOK
  BY NextMatch, NextThread DEF AbandonInv, MatchInv, StoreInv
<1>2. overtaken \subseteq overtaken'
  <2>1. ASSUME NEW c \in Clients, ClientStep(c) PROVE overtaken \subseteq overtaken'
    BY <1>1, <2>1, ClientAlone
  <2>2. ASSUME NEW a \in Agents, WorkerStep(a) PROVE overtaken \subseteq overtaken'
    BY <1>1, <2>2, WorkerMoves DEF ThreadMoves, AbandonInv
  <2> QED
    BY <2>1, <2>2 DEF Next, Crash, LeadReads, vars
<1>3. NotOvertaken' => NotOvertaken /\ AbandonBody
  BY <1>2 DEF NotOvertaken, AbandonInv
<1>4. ASSUME NotOvertaken', Next PROVE AbandonBody'
  <2>0. AbandonBody /\ StoreInv /\ StoreInv' /\ OpsType'
    BY <1>1, <1>3, <1>4 DEF AbandonInv, MatchInv, StoreInv, TypeOK, OpsType
  <2>1. ReleaseAfterStop'
    BY <1>4, <2>0, StopsFirst
  <2>2. ScansDone'
    BY <1>4, <2>0, <2>1, NextScans
  <2>3. RunningOwned'
    <3> SUFFICES ASSUME NEW t \in Tasks, Running(t)'
                 PROVE  tasks'[t].owner \in Agents
      BY DEF RunningOwned
    <3>1. CASE tasks[t].status = "free"
      <4>1. tasks'[t].status # "in_progress"
        <5>1. ASSUME NEW p \in Procs, NEW r, Writes(p, t, r) PROVE FALSE
          BY <2>0, <2>1, <3>1, <5>1, StopStays, WritesWhat
        <5>2. ASSUME NEW s \in Tasks, NEW r, tasks' = [tasks EXCEPT ![s] = r]
              PROVE  tasks'[t] = IF s = t THEN r ELSE tasks[t]
          BY <1>1, <5>2 DEF TypeOK
        <5> QED
          BY <1>4, <2>0, <2>1, <3>1, <5>1, <5>2, Written DEF Unclaimed
      <4> QED
        BY <4>1 DEF Running
    <3>2. CASE tasks[t].status # "free" /\ ~Running(t)
      BY <1>4, <2>1, <3>2, FileMoves DEF AbandonInv
    <3>3. CASE Running(t)
      BY <1>4, <2>0, <2>1, <3>3, Follows DEF AbandonBody, RunningOwned
    <3> QED
      BY <3>1, <3>2, <3>3 DEF Running
  <2>4. ASSUME NEW c \in Clients PROVE Abandoned(c)'
    <3>0. c \in Procs
      BY DEF Procs
    <3>1. CASE ClientStep(c)
      BY <1>4, <2>0, <2>1, <3>1, OwnAbandoned
    <3>2. CASE op'[c] = op[c]
      BY <1>4, <2>0, <2>1, <3>2, StaysAbandoned
    <3>3. ASSUME NEW d \in Clients \ {c}, ClientStep(d) PROVE op'[c] = op[c]
      BY <1>1, <3>0, <3>3, ClientAlone
    <3>4. ASSUME NEW a \in Agents, WorkerStep(a) PROVE op'[c] = op[c]
      <4>1. c \in Procs \ {a}
        BY <3>0, ConstantsAssumption
      <4> QED
        BY <1>1, <3>4, <4>1, WorkerMoves DEF ThreadMoves, AbandonInv
    <3>5. CASE Crash
      BY <3>0, <3>5 DEF Crash, Abandoned, IdleOp, Releasing
    <3>6. (\E t \in Tasks : LeadReads(t)) => op' = op
      BY DEF LeadReads
    <3> QED
      BY <1>4, <3>1, <3>2, <3>3, <3>4, <3>5, <3>6 DEF Next
  <2> QED
    BY <2>1, <2>2, <2>3, <2>4 DEF AbandonBody
<1>5. ASSUME NotOvertaken', UNCHANGED vars PROVE AbandonBody'
  <2>1. AbandonBody /\ UNCHANGED <<tasks, op, thread, misreleased>>
    BY <1>3, <1>5 DEF vars
  <2>2. ASSUME NEW c \in Clients PROVE Abandoned(c)'
    <3>1. Abandoned(c)
      BY <2>1 DEF AbandonBody
    <3>2. ASSUME NEW a, NEW t, NEW rev
          PROVE  /\ Owns(a, t)' <=> Owns(a, t)
                 /\ Kept(a, t, rev)' <=> Kept(a, t, rev)
                 /\ Lost(a, t, rev)' <=> Lost(a, t, rev)
      BY <2>1, Zenon DEF Kept, Lost, Done, Owns, Running
    <3> QED
      BY <2>1, <3>1, <3>2, Zenon DEF Abandoned
  <2>3. ReleaseAfterStop' /\ RunningOwned' /\ ScansDone'
    BY <2>1 DEF AbandonBody, ReleaseAfterStop, RunningOwned, ScansDone, Done, Running
  <2> QED
    BY <2>2, <2>3 DEF AbandonBody
<1> QED
  BY <1>1, <1>3, <1>4, <1>5 DEF AbandonInv

LEMMA InitAbandon == Init => AbandonInv
<1> SUFFICES ASSUME Init PROVE AbandonInv
  OBVIOUS
<1>1. /\ \A p \in Procs : op[p] = IdleOp
      /\ \A t \in Tasks : ~Running(t)
      /\ \A a \in Agents : work[a] = NoTask
      /\ misreleased = {}
  BY DEF Init, Blank, Running
<1>2. AbandonBody
  BY <1>1 DEF AbandonBody, ReleaseAfterStop, RunningOwned, ScansDone, Abandoned, IdleOp,
              Scanning, Releasing, Procs
<1> QED
  BY <1>1, <1>2, InitMatch DEF AbandonInv, ThreadInv, Idle, IdleOp, Procs

LEMMA AlwaysAbandon == Spec => []AbandonInv
<1>1. AbandonInv /\ [Next]_vars => AbandonInv'
  BY NextAbandon
<1> QED
  BY <1>1, InitAbandon, PTL DEF Spec

-----------------------------------------------------------------------------
(* What holds of the store where no owner was started in the middle of a   *)
(* release of its task                                                     *)

\* A manual release never takes a task from under a worker: reading the record, looking
\* whether its owner is online and comparing the record under its lock are enough,
\* each at its own time, although the worker claims, registers, interrupts and writes
\* notes in between, and is stopped or crashes.
THEOREM ReleasesAbandoned == Spec => [](NotOvertaken => ReleaseAfterStop)
<1>1. AbandonInv => (NotOvertaken => ReleaseAfterStop)
  BY DEF AbandonInv, AbandonBody
<1> QED
  BY <1>1, AlwaysAbandon, PTL

\* No member owns two running tasks: a claim and the notes of one task are the only
\* writes that leave a record running, and a worker has one operation in flight.
THEOREM OneRunningTask == Spec => []OneTaskPerOwner
<1>1. AbandonInv => OneTaskPerOwner
  BY DEF AbandonInv, AbandonBody, MatchInv, StoreInv, OwnerInv, HoldsOne, Holds, OneTaskPerOwner
<1> QED
  BY <1>1, AlwaysAbandon, PTL

\* A worker executes only what is running and its own in the store: it writes without
\* a lock, and neither an edit nor a manual release writes in between.
THEOREM WorkersOwn == Spec => []ExecutesWhatItOwns
<1>1. AbandonInv => ExecutesWhatItOwns
  BY DEF AbandonInv, AbandonBody, MatchInv, StoreInv, FileInv, WorksOnOwn, ScansFor, Scanning,
         ExecutesWhatItOwns
<1> QED
  BY <1>1, AlwaysAbandon, PTL

\* A task never runs before its dependencies: between the check of a claim and
\* its write neither an edit of blockedBy nor a deletion gets in.
THEOREM RunsWhenReady == Spec => []RunningReady
<1>1. AbandonInv => RunningReady
  BY DEF AbandonInv, AbandonBody, MatchInv, StoreInv, FileInv, RunningReady
<1> QED
  BY <1>1, AlwaysAbandon, PTL

\* The stored dependencies never become cyclic, whatever writes are in flight.
THEOREM NoCycles == Spec => []AcyclicDependencies
<1>1. AbandonInv => AcyclicDependencies
  BY DEF AbandonInv, AbandonBody, MatchInv, StoreInv, FileInv, AcyclicDependencies
<1> QED
  BY <1>1, AlwaysAbandon, PTL

\* A running task changes its owner only by way of pending, and a completed one
\* stays completed until it is deleted, whoever writes what he read before.
THEOREM HandsOver == Spec => OwnerHandsOver
<1>1. ASSUME AbandonInv, [Next]_vars, NotOvertaken', NEW t \in Tasks
      PROVE  /\ Running(t) /\ Running(t)' => tasks'[t].owner = tasks[t].owner
             /\ tasks[t].status = "completed" => tasks'[t].status \in {"completed", "deleted"}
  <2>1. CASE UNCHANGED vars
    BY <2>1 DEF vars
  <2>2. CASE Next
    <3>1. StoreInv /\ ReleaseAfterStop'
      BY <1>1, NextAbandon DEF AbandonInv, AbandonBody, MatchInv
    <3> QED
      BY <2>2, <3>1, Follows
  <2> QED
    BY <1>1, <2>1, <2>2
<1>2. AbandonInv /\ [Next]_vars =>
        [NotOvertaken' => \A t \in Tasks :
            /\ Running(t) /\ Running(t)' => tasks'[t].owner = tasks[t].owner
            /\ tasks[t].status = "completed" => tasks'[t].status \in {"completed", "deleted"}]_vars
  BY <1>1
<1> QED
  BY <1>2, AlwaysAbandon, PTL DEF Spec, OwnerHandsOver

\* A match with nobody that was decided in a context read too early is decided again
\* once the task is ready, unless it overwrote confirmed candidates or the process
\* died between the completion and its scan.
THEOREM StaleMatchRepeated == Spec => []NoStaleEmptyMatch
<1>1. ASSUME MatchInv, ReleaseAfterStop, NEW t \in Tasks, verdict[t] = "stale", Stranded(t)
      PROVE  FALSE
  <2>1. Parked(t)
    BY <1>1 DEF Stranded, Parked, Unsettled, Overwritten, ReadTooEarly
  <2>2. SeenTo(t)
    BY <1>1, <2>1 DEF MatchInv, MatchBody
  <2> QED
    BY <1>1, <2>2 DEF Stranded, SeenTo, SeesTo
<1>2. AbandonInv => NoStaleEmptyMatch
  BY <1>1 DEF AbandonInv, AbandonBody, NoStaleEmptyMatch
<1> QED
  BY <1>2, AlwaysAbandon, PTL

=============================================================================
