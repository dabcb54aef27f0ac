------------------------------ MODULE TaskStore ------------------------------
(***************************************************************************)
(* The durable task store of gugugaga/tasks.py, driven by its callers: the *)
(* serial workers of the team members (claim, complete, mismatch, notes,   *)
(* interrupt on stop) and the clients of the store (the Lead's tools and   *)
(* the Web console: create, update, match, assign, release, delete).       *)
(*                                                                         *)
(* One JSON file is one record.  Every operation reads the record, decides *)
(* and writes the whole record back.  Read and write are separate steps    *)
(* here: the first one stages the new record in op[p] together with the    *)
(* file locks it holds, Publish writes it.  Clients and claims hold the    *)
(* task's lock in between; complete_task, interrupt_task,                  *)
(* report_task_mismatch and append_task_intervention hold none.            *)
(* The order of a member's queue is not modelled: a queued task            *)
(* is here one that is created with an assignee.  The matching outbox      *)
(* (matching_notified_revision) belongs to the Lead's inbox.               *)
(***************************************************************************)
EXTENDS Integers, FiniteSets

CONSTANTS
    Tasks,      \* identifiers; an identifier is never used for a second task
    Agents,     \* the team members: task owners, each with one serial worker
    Clients,    \* threads of the Lead and of the Web console
    NoTask, NoAgent,
    MaxRev,     \* bound on matching_revision
    MaxCrashes  \* bound on process crashes

ASSUME ConstantsAssumption ==
    /\ NoTask \notin Tasks
    /\ NoAgent \notin Agents
    /\ Agents \cap Clients = {}
    /\ MaxRev \in Nat \ {0}
    /\ MaxCrashes \in Nat

VARIABLES
    tasks,      \* the files below .tasks
    op,         \* the operation each thread has in flight
    work,       \* work_state["task_id"] of each worker: what it executes
    thread,     \* the worker's thread: none, live, or told to stop; the first is
                \* what list_teammate_states calls offline
    ctx,        \* what the Lead last read of each task
    crashes,
    overtaken,  \* history: its owner was started while its release was on its way
    misreleased,\* history: released while a worker was executing it
    torn,       \* history: completed, crashed before its dependents were seen to
    verdict     \* history: whether its last match found no candidate ("stale") in a
                \* context read before it was ready, and replaced candidates
                \* that were confirmed for the same revision ("overwrote")

ghosts == <<overtaken, misreleased, torn, verdict>>
vars == <<tasks, op, work, thread, ctx, crashes, ghosts>>

Procs == Agents \cup Clients

-----------------------------------------------------------------------------
(* Records                                                                 *)

TaskRec ==
    [status: {"free", "pending", "in_progress", "completed", "deleted"},
     owner: Agents \cup {NoAgent},
     assignee: Agents \cup {NoAgent},
     blockedBy: SUBSET Tasks,
     candidate_members: SUBSET Agents,
     matching_status: {"pending", "matched", "rematch_required"},
     matching_revision: Nat \ {0}]

Blank(status) ==
    [status |-> status, owner |-> NoAgent, assignee |-> NoAgent, blockedBy |-> {},
     candidate_members |-> {}, matching_status |-> "pending",
     matching_revision |-> 1]

Exists(t) == tasks[t].status \notin {"free", "deleted"}
Stored == {t \in Tasks : Exists(t)}
Running(t) == tasks[t].status = "in_progress"
Unclaimed(r) == r.status = "pending" /\ r.owner = NoAgent
Matchable(r) == Unclaimed(r) /\ r.assignee = NoAgent

\* _can_start_unlocked: every dependency exists and is completed
Ready(t) == \A d \in tasks[t].blockedBy : tasks[d].status = "completed"

Owns(a, t) == Running(t) /\ tasks[t].owner = a

\* Another running task of a; a scan that locks none of them.
OwnsAnotherFaulty(a, t) == FALSE
OwnsAnother(a, t) == \E s \in Tasks \ {t} : Owns(a, s)

\* Fault: only what still waits counts as a dependent.
DependentsFaulty(t) == {s \in Stored \ {t} : t \in tasks[s].blockedBy /\ ~Running(s)}
Dependents(t) == {s \in Stored \ {t} : t \in tasks[s].blockedBy}

\* What the completion of a dependency rematches: no confirmed candidates.
UnsettledFaulty(r) == r.matching_status # "matched"
Unsettled(r) == r.matching_status # "matched" \/ r.candidate_members = {}

\* _request_rematch_unlocked
Rematched(r) ==
    [r EXCEPT !.matching_revision = @ + 1,
              !.matching_status = IF @ = "rematch_required" THEN @ ELSE "pending"]

(* Dependency graph: find_dependency_cycle, by what it computes.           *)
BlockedBy == [t \in Tasks |-> IF Exists(t) THEN tasks[t].blockedBy ELSE {}]
ClosedUnder(g, S) == \A n \in S : g[n] \subseteq S
Reachable(g, t) ==
    {n \in Tasks : \A S \in SUBSET Tasks : t \in S /\ ClosedUnder(g, S) => n \in S}
HasCycle(g, S) ==
    \E C \in SUBSET S : C # {} /\ \A n \in C : g[n] \cap C # {}
\* Fault: the start itself is not on the path.
CycleFromFaulty(g, t) == HasCycle(g, g[t])
CycleFrom(g, t) == HasCycle(g, Reachable(g, t))

-----------------------------------------------------------------------------
(* Operations in flight                                                    *)

Kinds == {"idle", "edit", "match", "delete",
          "assigning", "assign", "assigned", "rollback",
          "look", "shown", "checked", "release",
          "claim", "register", "note", "complete", "scan", "unblock",
          "mismatch", "interrupt"}

OpRec ==
    [kind: Kinds, task: Tasks \cup {NoTask}, rec: TaskRec, locks: SUBSET Tasks,
     graph: BOOLEAN, agent: Agents \cup {NoAgent}, todo: SUBSET Tasks]

IdleOp ==
    [kind |-> "idle", task |-> NoTask, rec |-> Blank("free"), locks |-> {},
     graph |-> FALSE, agent |-> NoAgent, todo |-> {}]

Idle(p) == op[p].kind = "idle"
LockFree(t) == \A p \in Procs : t \notin op[p].locks
GraphFree == \A p \in Procs : ~op[p].graph
\* _teammate_lock is held across an assignment and across a mismatch report
TeamLockFree ==
    \A p \in Procs :
        op[p].kind \notin {"assigning", "assign", "assigned", "rollback", "mismatch"}

\* Reads under the lock, and keeps it: p is to write r to the file of t.
Stage(p, kind, t, r) ==
    op' = [op EXCEPT ![p] =
              [IdleOp EXCEPT !.kind = kind, !.task = t, !.rec = r, !.locks = {t}]]

\* Reads without a lock.
StageUnlocked(p, kind, t, r) ==
    op' = [op EXCEPT ![p] = [IdleOp EXCEPT !.kind = kind, !.task = t, !.rec = r]]

Finish(p) == op' = [op EXCEPT ![p] = IdleOp]
LetGo(a) == work' = [work EXCEPT ![a] = NoTask]

\* An assignment to a is on its way; it holds the lock a claim of a begins with.
Assigns(p, a) ==
    \/ op[p].kind \in {"assigning", "rollback"} /\ op[p].agent = a
    \/ op[p].kind \in {"assign", "assigned"} /\ op[p].rec.assignee = a

\* A release of one of a's tasks is on its way.
Releasing == {"look", "shown", "checked", "release"}
ReleasesOf(a) == {op[p].task : p \in {q \in Procs : op[q].kind \in Releasing /\ op[q].agent = a}}

\* A worker that takes itself for the one executing t.
Executes(a, t) ==
    \/ work[a] = t
    \/ op[a].task = t /\ op[a].kind \in {"register", "complete", "note", "interrupt", "mismatch"}

-----------------------------------------------------------------------------
(* Clients: structure of the store                                         *)

Init ==
    /\ tasks = [t \in Tasks |-> Blank("free")]
    /\ op = [p \in Procs |-> IdleOp]
    /\ work = [a \in Agents |-> NoTask]
    /\ thread = [a \in Agents |-> "none"]
    /\ ctx = [t \in Tasks |-> [rev |-> 0, ready |-> FALSE]]
    /\ crashes = 0
    /\ overtaken = {}
    /\ misreleased = {}
    /\ torn = {}
    /\ verdict = [t \in Tasks |-> "sound"]

\* Under the locks of t and of D, and the graph lock if D is not empty.  The
\* identifiers in D were seen by the caller, but nobody checks that they exist.
CreateTask(c, t, D) ==
    /\ Idle(c)
    /\ tasks[t].status = "free"
    /\ D \subseteq {d \in Tasks : tasks[d].status # "free"}
    /\ \A d \in D \cup {t} : LockFree(d)
    /\ D # {} => GraphFree
    /\ ~CycleFrom([BlockedBy EXCEPT ![t] = D], t)
    /\ tasks' = [tasks EXCEPT ![t] = [Blank("pending") EXCEPT !.blockedBy = D]]
    /\ UNCHANGED <<op, work, thread, ctx, crashes, ghosts>>

CreateQueuedTask(c, t, a) ==
    /\ Idle(c)
    /\ tasks[t].status = "free"
    /\ LockFree(t)
    /\ tasks' = [tasks EXCEPT ![t] = [Blank("pending") EXCEPT !.assignee = a]]
    /\ UNCHANGED <<op, work, thread, ctx, crashes, ghosts>>

\* A change of subject or description: no graph lock.
UpdateTask(c, t) ==
    /\ Idle(c)
    /\ LockFree(t)
    /\ Unclaimed(tasks[t])
    /\ tasks[t].matching_revision < MaxRev
    /\ Stage(c, "edit", t, IF Matchable(tasks[t]) THEN Rematched(tasks[t]) ELSE tasks[t])
    /\ UNCHANGED <<tasks, work, thread, ctx, crashes, ghosts>>

\* A change of blockedBy: the graph lock is held until the record is written.
UpdateBlockedBy(c, t, D) ==
    LET r == [tasks[t] EXCEPT !.blockedBy = D] IN
    /\ Idle(c)
    /\ GraphFree
    /\ \A d \in D \cup {t} : LockFree(d)
    /\ Unclaimed(tasks[t])
    /\ D \subseteq {d \in Tasks : tasks[d].status # "free"}
    /\ D # tasks[t].blockedBy
    /\ ~CycleFrom([BlockedBy EXCEPT ![t] = D], t)
    /\ tasks[t].matching_revision < MaxRev
    /\ op' = [op EXCEPT ![c] =
                 [IdleOp EXCEPT !.kind = "edit", !.task = t,
                                !.rec = IF Matchable(r) THEN Rematched(r) ELSE r,
                                !.locks = D \cup {t}, !.graph = TRUE]]
    /\ UNCHANGED <<tasks, work, thread, ctx, crashes, ghosts>>

\* Under the graph lock; Publish is the unlink.
DeleteTask(c, t) ==
    /\ Idle(c)
    /\ Exists(t)
    /\ LockFree(t)
    /\ GraphFree
    /\ ~Running(t)
    /\ Dependents(t) = {}
    /\ op' = [op EXCEPT ![c] =
                 [IdleOp EXCEPT !.kind = "delete", !.task = t, !.rec = Blank("deleted"),
                                !.locks = {t}, !.graph = TRUE]]
    /\ UNCHANGED <<tasks, work, thread, ctx, crashes, ghosts>>

-----------------------------------------------------------------------------
(* Clients: matching                                                       *)

\* request_task_rematch, and request_all_task_rematches for each of its tasks.
RequestRematch(c, t) ==
    /\ Idle(c)
    /\ LockFree(t)
    /\ Matchable(tasks[t])
    /\ tasks[t].matching_revision < MaxRev
    /\ Stage(c, "edit", t, Rematched(tasks[t]))
    /\ UNCHANGED <<tasks, work, thread, ctx, crashes, ghosts>>

\* The Lead reads the matching outbox or the tasks' context.
LeadReads(t) ==
    /\ Exists(t)
    /\ \A c \in Clients : ~(op[c].kind = "match" /\ op[c].task = t)
    /\ ctx' = [ctx EXCEPT ![t] = [rev |-> tasks[t].matching_revision, ready |-> Ready(t)]]
    /\ UNCHANGED <<tasks, op, work, thread, crashes, ghosts>>

\* expected_revision is the one the Lead read.
SetTaskCandidates(c, t, C) ==
    /\ Idle(c)
    /\ LockFree(t)
    /\ Matchable(tasks[t])
    /\ tasks[t].matching_revision = ctx[t].rev
    /\ Stage(c, "match", t,
             [tasks[t] EXCEPT !.candidate_members = C, !.matching_status = "matched"])
    /\ UNCHANGED <<tasks, work, thread, ctx, crashes, ghosts>>

-----------------------------------------------------------------------------
(* Clients: assignment and release                                         *)

\* What assign_task asks for: t is ready, a has no other task reserved or running.
Unreserved(a, t) ==
    \A s \in Stored \ {t} :
        tasks[s].status # "completed" => tasks[s].assignee # a /\ tasks[s].owner # a
Assignable(a, t) ==
    /\ Unclaimed(tasks[t])
    /\ ~CycleFrom(BlockedBy, t)
    /\ Ready(t)
    /\ Unreserved(a, t)

\* assign_task_to_teammate looks at the registry, whose lock it keeps to its end,
\* and reads the present assignee: an idle member has no claim in flight.
AssignTask(c, t, a) ==
    /\ Idle(c)
    /\ TeamLockFree
    /\ thread[a] # "none" /\ Idle(a) /\ work[a] = NoTask
    /\ Exists(t)
    /\ op' = [op EXCEPT ![c] =
                 [IdleOp EXCEPT !.kind = "assigning", !.task = t, !.agent = a,
                                !.rec = [Blank("free") EXCEPT !.assignee = tasks[t].assignee]]]
    /\ UNCHANGED <<tasks, work, thread, ctx, crashes, ghosts>>

\* assign_task up to its save, or its refusal.
ReserveTask(c) ==
    LET t == op[c].task
        a == op[c].agent
        previous == op[c].rec.assignee IN
    /\ op[c].kind = "assigning"
    /\ GraphFree /\ LockFree(t)
    /\ IF Assignable(a, t)
       THEN op' = [op EXCEPT ![c] =
                      [IdleOp EXCEPT !.kind = "assign", !.task = t, !.locks = {t},
                                     !.rec = [tasks[t] EXCEPT !.assignee = a],
                                     !.graph = TRUE, !.agent = previous]]
       ELSE Finish(c)
    /\ UNCHANGED <<tasks, work, thread, ctx, crashes, ghosts>>

PublishAssign(c) ==
    /\ op[c].kind = "assign"
    /\ tasks' = [tasks EXCEPT ![op[c].task] = op[c].rec]
    /\ op' = [op EXCEPT ![c].kind = "assigned", ![c].locks = {}, ![c].graph = FALSE]
    /\ UNCHANGED <<work, thread, ctx, crashes, ghosts>>

\* The mailbox took the notice; the registry is told, whatever the record is by now.
RegisterAssign(c) ==
    /\ op[c].kind = "assigned"
    /\ Finish(c)
    /\ UNCHANGED <<tasks, work, thread, ctx, crashes, ghosts>>

\* The mailbox failed: the reservation is removed, or goes back to the member it was
\* taken from.  Either raises if the record, or that member, has other plans by now.
RollbackAssign(c) ==
    LET t == op[c].task
        a == op[c].rec.assignee
        previous == op[c].agent
        Undo(r) == op' = [op EXCEPT ![c] =
                             [IdleOp EXCEPT !.kind = "rollback", !.task = t, !.locks = {t},
                                            !.rec = r, !.graph = previous # NoAgent,
                                            !.agent = a]] IN
    /\ op[c].kind = "assigned"
    /\ LockFree(t)
    /\ IF previous = NoAgent
       THEN IF Unclaimed(tasks[t]) /\ tasks[t].assignee # NoAgent
            THEN /\ tasks[t].matching_revision < MaxRev
                 /\ Undo(Rematched([tasks[t] EXCEPT !.assignee = NoAgent]))
            ELSE Finish(c)
       ELSE /\ GraphFree
            /\ IF Assignable(previous, t)
               THEN Undo([tasks[t] EXCEPT !.assignee = previous])
               ELSE Finish(c)
    /\ UNCHANGED <<tasks, work, thread, ctx, crashes, ghosts>>

UnassignTask(c, t) ==
    /\ Idle(c)
    /\ LockFree(t)
    /\ Unclaimed(tasks[t]) /\ tasks[t].assignee # NoAgent
    /\ tasks[t].matching_revision < MaxRev
    /\ Stage(c, "edit", t, Rematched([tasks[t] EXCEPT !.assignee = NoAgent]))
    /\ UNCHANGED <<tasks, work, thread, ctx, crashes, ghosts>>

\* The Web console's release_task reads the record, ...
ReleaseTask(c, t) ==
    /\ Idle(c)
    /\ Running(t)
    /\ tasks[t].matching_revision < MaxRev
    /\ op' = [op EXCEPT ![c] = [IdleOp EXCEPT !.kind = "look", !.task = t, !.rec = tasks[t],
                                             !.agent = tasks[t].owner]]
    /\ UNCHANGED <<tasks, work, thread, ctx, crashes, ghosts>>

\* ... lists the tasks for the current task of its owner: the one that runs, else the
\* first of its reservations, whose order is not modelled, ...
Reserved(a, t) == tasks[t].status = "pending" /\ tasks[t].assignee = a
ListTasks(c) ==
    LET t == op[c].task
        a == op[c].agent IN
    /\ op[c].kind = "look"
    /\ \/ /\ Owns(a, t) \/ (Reserved(a, t) /\ \A s \in Tasks : ~Owns(a, s))
          /\ op' = [op EXCEPT ![c].kind = "shown"]
       \/ /\ ~Owns(a, t)
          /\ Reserved(a, t) => \E s \in Tasks \ {t} : Owns(a, s) \/ Reserved(a, s)
          /\ op' = [op EXCEPT ![c].kind = "checked"]
    /\ UNCHANGED <<tasks, work, thread, ctx, crashes, ghosts>>

\* Fault: only a worker that was not told to stop counts as online.
OnlineFaulty(a) == thread[a] = "live"
Online(a) == thread[a] # "none"

\* ... refuses if that is t and the owner is online, ...
LookOnline(c) ==
    /\ op[c].kind = "shown"
    /\ TeamLockFree
    /\ IF Online(op[c].agent) THEN Finish(c) ELSE op' = [op EXCEPT ![c].kind = "checked"]
    /\ UNCHANGED <<tasks, work, thread, ctx, crashes, ghosts>>

\* Fault: any running record will do.
UnchangedFaulty(r, t) == Running(t)
\* expected_task
Unchanged(r, t) == tasks[t] = r

\* ... and calls release_task, which refuses a record that has changed meanwhile.
CompareRelease(c) ==
    LET t == op[c].task IN
    /\ op[c].kind = "checked"
    /\ LockFree(t)
    /\ IF Unchanged(op[c].rec, t)
       THEN op' = [op EXCEPT ![c].kind = "release", ![c].locks = {t},
                             ![c].rec = Rematched([tasks[t] EXCEPT !.status = "pending",
                                                                   !.owner = NoAgent,
                                                                   !.assignee = NoAgent])]
       ELSE Finish(c)
    /\ UNCHANGED <<tasks, work, thread, ctx, crashes, ghosts>>

\* Judges r, which is to replace the match of t (history only).
Verdict(t, r) ==
    IF r.candidate_members # {} \/ ctx[t].ready THEN "sound"
    ELSE IF /\ tasks[t].matching_status = "matched"
            /\ tasks[t].candidate_members # {} \/ verdict[t] = "overwrote"
         THEN "overwrote" ELSE "stale"

\* atomic_write_text, and the release of every lock the client holds.
Publish(c) ==
    LET t == op[c].task
        r == op[c].rec IN
    /\ op[c].kind \in {"edit", "match", "rollback", "release", "delete"}
    /\ tasks' = [tasks EXCEPT ![t] = r]
    /\ Finish(c)
    /\ misreleased' = IF op[c].kind = "release" /\ (~Running(t) \/ \E a \in Agents : Executes(a, t))
                      THEN misreleased \cup {t} ELSE misreleased
    /\ verdict' = IF op[c].kind = "match" THEN [verdict EXCEPT ![t] = Verdict(t, r)]
                  ELSE verdict
    /\ UNCHANGED <<work, thread, ctx, crashes, overtaken, torn>>

-----------------------------------------------------------------------------
(* Workers                                                                 *)

\* spawn_teammate_thread, under the registry's lock.
StartWorker(a) ==
    /\ thread[a] = "none"
    /\ TeamLockFree
    /\ thread' = [thread EXCEPT ![a] = "live"]
    /\ overtaken' = overtaken \cup ReleasesOf(a)
    /\ UNCHANGED <<tasks, op, work, ctx, crashes, misreleased, torn, verdict>>

\* The stop event is set, or a saved profile waits for the worker's restart.
AskToStop(a) ==
    /\ thread[a] = "live"
    /\ thread' = [thread EXCEPT ![a] = "stopping"]
    /\ UNCHANGED <<tasks, op, work, ctx, crashes, ghosts>>

Eligible(a, r) ==
    IF r.assignee # NoAgent THEN r.assignee = a
    ELSE r.matching_status = "matched" /\ a \in r.candidate_members

\* claim_task_for_teammate and claim_task up to the save, under the lock of t.
\* The cycle read before only refuses what the dependencies refuse as well.  The
\* registry's lock is taken for a moment before that, to mark the member.
ClaimTask(a, t) ==
    /\ thread[a] = "live"
    /\ Idle(a) /\ work[a] = NoTask
    /\ \A c \in Clients : ~Assigns(c, a)
    /\ LockFree(t)
    /\ Unclaimed(tasks[t])
    /\ ~OwnsAnother(a, t)
    /\ Ready(t)
    /\ Eligible(a, tasks[t])
    /\ Stage(a, "claim", t, [tasks[t] EXCEPT !.owner = a, !.status = "in_progress"])
    /\ UNCHANGED <<tasks, work, thread, ctx, crashes, ghosts>>

PublishClaim(a) ==
    LET t == op[a].task IN
    /\ op[a].kind = "claim"
    /\ tasks' = [tasks EXCEPT ![t] = op[a].rec]
    /\ op' = [op EXCEPT ![a] = [IdleOp EXCEPT !.kind = "register", !.task = t]]
    /\ UNCHANGED <<work, thread, ctx, crashes, ghosts>>

\* Back under the registry's lock: the claim is made known and work begins.
RegisterClaim(a) ==
    /\ op[a].kind = "register"
    /\ TeamLockFree
    /\ thread[a] = "live"
    /\ work' = [work EXCEPT ![a] = op[a].task]
    /\ Finish(a)
    /\ UNCHANGED <<tasks, thread, ctx, crashes, ghosts>>

\* interrupt_task: the owner keeps a reservation.
InterruptedRec(a, r) ==
    [r EXCEPT !.status = "pending", !.owner = NoAgent, !.assignee = a]

\* A stop arrived meanwhile: the claim is handed back.
RejectClaim(a) ==
    LET t == op[a].task IN
    /\ op[a].kind = "register"
    /\ TeamLockFree
    /\ thread[a] = "stopping"
    /\ IF Owns(a, t) THEN StageUnlocked(a, "interrupt", t, InterruptedRec(a, tasks[t]))
                     ELSE Finish(a)
    /\ UNCHANGED <<tasks, work, thread, ctx, crashes, ghosts>>

\* The worker ends, told to or by an error, and gives its task back.
StopWorker(a) ==
    LET t == work[a] IN
    /\ Idle(a) /\ t # NoTask
    /\ thread' = [thread EXCEPT ![a] = "stopping"]
    /\ IF Owns(a, t)
       THEN /\ StageUnlocked(a, "interrupt", t, InterruptedRec(a, tasks[t]))
            /\ UNCHANGED work
       ELSE /\ LetGo(a)
            /\ UNCHANGED op
    /\ UNCHANGED <<tasks, ctx, crashes, ghosts>>

\* It leaves the registry.
LeaveTeam(a) ==
    /\ thread[a] = "stopping"
    /\ Idle(a) /\ work[a] = NoTask
    /\ TeamLockFree
    /\ thread' = [thread EXCEPT ![a] = "none"]
    /\ UNCHANGED <<tasks, op, work, ctx, crashes, ghosts>>

\* append_task_intervention: the record is written back with one more note.
NoteIntervention(a) ==
    LET t == work[a] IN
    /\ Idle(a) /\ t # NoTask /\ Running(t)
    /\ StageUnlocked(a, "note", t, tasks[t])
    /\ UNCHANGED <<tasks, work, thread, ctx, crashes, ghosts>>

\* report_owned_task_mismatch, inside the registry's lock, of any task it owns.
ReportMismatch(a, t) ==
    /\ thread[a] # "none"
    /\ Idle(a) /\ Owns(a, t)
    /\ TeamLockFree
    /\ tasks[t].matching_revision < MaxRev
    /\ StageUnlocked(a, "mismatch", t,
                     Rematched([tasks[t] EXCEPT !.status = "pending", !.owner = NoAgent,
                                                !.assignee = NoAgent,
                                                !.matching_status = "rematch_required"]))
    /\ UNCHANGED <<tasks, work, thread, ctx, crashes, ghosts>>

\* The worker's write without a lock; a mismatch or a stop ends its work.
PublishOwn(a) ==
    /\ op[a].kind \in {"note", "mismatch", "interrupt"}
    /\ tasks' = [tasks EXCEPT ![op[a].task] = op[a].rec]
    /\ IF op[a].kind = "note" THEN UNCHANGED work ELSE LetGo(a)
    /\ Finish(a)
    /\ UNCHANGED <<thread, ctx, crashes, ghosts>>

CompleteTask(a, t) ==
    /\ thread[a] # "none"
    /\ Idle(a) /\ Owns(a, t)
    /\ StageUnlocked(a, "complete", t, [tasks[t] EXCEPT !.status = "completed"])
    /\ UNCHANGED <<tasks, work, thread, ctx, crashes, ghosts>>

PublishComplete(a) ==
    LET t == op[a].task IN
    /\ op[a].kind = "complete"
    /\ tasks' = [tasks EXCEPT ![t] = op[a].rec]
    /\ op' = [op EXCEPT ![a] = [IdleOp EXCEPT !.kind = "scan", !.task = t]]
    /\ UNCHANGED <<work, thread, ctx, crashes, ghosts>>

\* complete_task then looks for what it unblocked ...
ScanUnblocked(a) ==
    LET t == op[a].task IN
    /\ op[a].kind = "scan"
    /\ GraphFree
    /\ op' = [op EXCEPT ![a].kind = "unblock",
                        ![a].todo = {s \in Stored : /\ tasks[s].status = "pending"
                                                    /\ t \in tasks[s].blockedBy
                                                    /\ Ready(s)}]
    /\ UNCHANGED <<tasks, work, thread, ctx, crashes, ghosts>>

\* ... and rematches each, rechecked under the graph's and its own lock.
UnblockOne(a, s) ==
    LET r == tasks[s]
        again == /\ Matchable(r)
                 /\ op[a].task \in r.blockedBy
                 /\ Unsettled(r)
                 /\ Ready(s) IN
    /\ op[a].kind = "unblock"
    /\ s \in op[a].todo
    /\ GraphFree /\ LockFree(s)
    /\ again => r.matching_revision < MaxRev
    /\ tasks' = IF again THEN [tasks EXCEPT ![s] = Rematched(r)] ELSE tasks
    /\ op' = [op EXCEPT ![a].todo = @ \ {s}]
    /\ UNCHANGED <<work, thread, ctx, crashes, ghosts>>

CompleteDone(a) ==
    /\ op[a].kind = "unblock"
    /\ op[a].todo = {}
    /\ work' = [work EXCEPT ![a] = IF @ = op[a].task THEN NoTask ELSE @]
    /\ Finish(a)
    /\ UNCHANGED <<tasks, thread, ctx, crashes, ghosts>>

-----------------------------------------------------------------------------
\* The process dies: files stay, every thread and every lock is gone.
Crash ==
    /\ crashes < MaxCrashes
    /\ crashes' = crashes + 1
    /\ op' = [p \in Procs |-> IdleOp]
    /\ work' = [a \in Agents |-> NoTask]
    /\ thread' = [a \in Agents |-> "none"]
    /\ torn' = torn \cup {op[a].task : a \in {b \in Agents : op[b].kind \in {"scan", "unblock"}}}
    /\ UNCHANGED <<tasks, ctx, overtaken, misreleased, verdict>>

ClientStep(c) ==
    \/ Publish(c)
    \/ ReserveTask(c) \/ PublishAssign(c) \/ RegisterAssign(c) \/ RollbackAssign(c)
    \/ ListTasks(c) \/ LookOnline(c) \/ CompareRelease(c)
    \/ \E t \in Tasks :
          \/ \E D \in SUBSET (Tasks \ {t}) : CreateTask(c, t, D) \/ UpdateBlockedBy(c, t, D)
          \/ \E a \in Agents : CreateQueuedTask(c, t, a) \/ AssignTask(c, t, a)
          \/ \E C \in SUBSET Agents : SetTaskCandidates(c, t, C)
          \/ UpdateTask(c, t) \/ RequestRematch(c, t) \/ UnassignTask(c, t)
          \/ ReleaseTask(c, t) \/ DeleteTask(c, t)

WorkerStep(a) ==
    \/ StartWorker(a) \/ AskToStop(a) \/ StopWorker(a) \/ LeaveTeam(a)
    \/ PublishClaim(a) \/ RegisterClaim(a) \/ RejectClaim(a)
    \/ NoteIntervention(a) \/ PublishOwn(a)
    \/ PublishComplete(a) \/ ScanUnblocked(a) \/ CompleteDone(a)
    \/ \E t \in Tasks :
          ClaimTask(a, t) \/ ReportMismatch(a, t) \/ CompleteTask(a, t) \/ UnblockOne(a, t)

Next ==
    \/ \E c \in Clients : ClientStep(c)
    \/ \E a \in Agents : WorkerStep(a)
    \/ \E t \in Tasks : LeadReads(t)
    \/ Crash

Spec == Init /\ [][Next]_vars

-----------------------------------------------------------------------------
(* Properties                                                              *)

TypeOK ==
    /\ tasks \in [Tasks -> TaskRec]
    /\ op \in [Procs -> OpRec]
    /\ \A p \in Procs : ~Idle(p) => op[p].task \in Tasks
    /\ work \in [Agents -> Tasks \cup {NoTask}]
    /\ thread \in [Agents -> {"none", "live", "stopping"}]
    /\ ctx \in [Tasks -> [rev: Nat, ready: BOOLEAN]]
    /\ crashes \in Nat
    /\ overtaken \subseteq Tasks
    /\ misreleased \subseteq Tasks
    /\ torn \subseteq Tasks
    /\ verdict \in [Tasks -> {"sound", "stale", "overwrote"}]

\* The owner of a task is not started while a release of that task is on its way.
\* Nothing in the code keeps the two apart (the Web console looks whether the owner
\* is online and only then releases), so what follows is claimed of the behaviours
\* where it did not happen.
NotOvertaken == overtaken = {}

\* A manual release hits abandoned tasks only ("after its worker has stopped",
\* release_task): it is refused while the listing shows the owner at work, and if
\* the record has changed since it was read.
ReleaseAfterStop == misreleased = {}

\* No member ever owns two running tasks, although a claim only scans the
\* other tasks and locks none of them, and no lock stands for the owner.
OneTaskPerOwner ==
    NotOvertaken =>
        \A a \in Agents, s, t \in Tasks : Owns(a, s) /\ Owns(a, t) => s = t

\* What a worker executes is running and its own in the store, so that no two
\* workers execute one task, in spite of the writes without a lock and of manual
\* releases that read, look and write in between.
ExecutesWhatItOwns ==
    NotOvertaken => \A a \in Agents, t \in Tasks :
        work[a] = t /\ ~(op[a].task = t /\ op[a].kind \in {"scan", "unblock"})
            => Owns(a, t)

\* A task runs only while everything it waits for exists and is completed:
\* neither an edit of blockedBy nor a deletion slips in between check and claim.
RunningReady ==
    NotOvertaken => \A t \in Tasks : Running(t) => Ready(t)

\* blockedBy never becomes cyclic: each writer validates the graph as stored.
AcyclicDependencies == NotOvertaken => ~HasCycle(BlockedBy, Tasks)

\* t waits unmatched for ever: matched to nobody although it is ready, with no
\* completion left that would have it matched again.
Stranded(t) ==
    /\ Matchable(tasks[t]) /\ Ready(t)
    /\ tasks[t].matching_status = "matched" /\ tasks[t].candidate_members = {}
    /\ \A d \in tasks[t].blockedBy :
          /\ d \notin torn
          /\ \A a \in Agents : ~(op[a].task = d /\ op[a].kind \in {"scan", "unblock"})

\* "No candidate" decided while the task still waited for a dependency does
\* not outlive the last of its dependencies, unless the process dies between
\* the completion and the scan for what it unblocked, or it took the place of
\* candidates already confirmed for the same revision.
NoStaleEmptyMatch ==
    NotOvertaken => \A t \in Tasks : verdict[t] = "stale" => ~Stranded(t)

\* The same without the second exception, as the comment in
\* _rematch_after_dependency_completion has it: in-flight results that used
\* the stale context are rejected.
StaleContextRejected == \A t \in Tasks : verdict[t] # "sound" => ~Stranded(t)

\* A running task goes to another owner only by way of pending, and a
\* completed one stays completed until it is deleted.
OwnerHandsOver ==
    [][NotOvertaken' => \A t \in Tasks :
          /\ Running(t) /\ Running(t)' => tasks'[t].owner = tasks[t].owner
          /\ tasks[t].status = "completed" => tasks'[t].status \in {"completed", "deleted"}]_vars

=============================================================================
