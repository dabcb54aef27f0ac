------------------------------ MODULE TeamMember ------------------------------
(***************************************************************************)
(* One team member of gugugaga/teams.py: its entry in the registry, the    *)
(* worker threads that come and go under its name (spawn, stop, restart,   *)
(* reload of an edited profile, delete, closing of the application), and   *)
(* the loop of a worker: idle_poll, the rounds of a burst, its mailbox     *)
(* (MessageBus, consumed by the worker) and the plans it submits.          *)
(*                                                                         *)
(* A critical section of _teammate_lock is one step.  The lifecycle lock   *)
(* is held from the registration of a worker until its thread was started, *)
(* and throughout a deletion.  Of the task store one task is kept, as it   *)
(* looks from this member; a claim, which TaskStore splits, is one step.   *)
(***************************************************************************)
EXTENDS MessageBus, Integers, FiniteSets

CONSTANTS
    Kind,       \* the type of each message
    Plans,      \* plans that may be submitted, numbered
    Reviews,    \* the plan each plan_approval_response is about
    MaxProfile, \* bound on versions of the profile
    MaxRounds,  \* max_rounds_per_burst
    MaxSent,    \* bound on messages in one behaviour
    MaxEvents   \* bound on what befalls the member: stops, edits and deletions of its
                \* profile, closings of the application, crashes, tasks that
                \* are taken from it for another member, plans it hands in

ASSUME MemberAssumption ==
    /\ Consumers \subseteq Nat \ {0}
    /\ Kind \in [Messages -> {"message", "task_assignment", "shutdown_request",
                              "plan_approval_response"}]
    /\ Plans \subseteq Nat \ {0}
    /\ DOMAIN Reviews \subseteq Messages
    /\ \A m \in DOMAIN Reviews : Reviews[m] \in Plans
    /\ MaxProfile \in Nat \ {0} /\ MaxRounds \in Nat \ {0}
    /\ MaxSent \in Nat /\ MaxEvents \in Nat

\* Threads that run under the member's name, one after the other: their number is
\* a bound.
Workers == Consumers

VARIABLES
    profile,    \* version of the persisted profile; 0: there is none
    active,     \* name in active_teammates
    thread,     \* _teammate_threads[name]; 0: none
    event,      \* the worker whose stop event is in _teammate_stop_events; 0: none
    status,     \* _teammate_states[name]["status"]; "none": no entry
    reload,     \* name in _teammate_profile_restart_pending
    closing,    \* how far close() has come; _team_accepting while "open"
    deleting,   \* how far delete_teammate has come
    worker,     \* the threads
    stopped,    \* workers whose stop event is set
    task,       \* the task, as this member sees it
    plan,       \* ProtocolState.status of each plan
    sent,       \* history: messages sent
    unseen,     \* history: acknowledged, but neither acted upon nor shown to the model
    told,       \* history: plans a worker was told were approved
    stranded,   \* history: given back to the member when a notice to another failed
    missed,     \* history: workers that close() took for dead before they had started
    events      \* how much has befallen it

registry == <<profile, active, thread, event, status, reload>>
ghosts == <<sent, unseen, told, stranded, missed>>
vars == <<mailbox, registry, closing, deleting, worker, stopped, task, plan, ghosts, events>>

-----------------------------------------------------------------------------
Labels == {"unborn", "spawning", "registered", "entering", "poll", "pollmail", "scan",
           "top", "round", "mail", "wait", "model", "check", "unlink", "final",
           "cleanup", "restart", "dead"}
WorkerRec == [pc: Labels, conf: 0..MaxProfile, waiting: Plans \cup {0},
              rounds: 0..(MaxRounds - 1), failed: BOOLEAN]
Unborn == [pc |-> "unborn", conf |-> 0, waiting |-> 0, rounds |-> 0, failed |-> FALSE]

At(w, label) == worker[w].pc = label
Goto(w, label) == worker' = [worker EXCEPT ![w].pc = label]
\* What a burst kept is of no use any more.
Leave(w, label) == worker' = [worker EXCEPT ![w].pc = label, ![w].rounds = 0]
Gone(w) == [Unborn EXCEPT !.pc = "dead"]
Running(w) == worker[w].pc \notin {"unborn", "spawning", "registered", "restart", "dead"}
Alive(w) == Running(w) \/ At(w, "restart")
Newborn(w) == At(w, "unborn") /\ \A v \in Workers : v < w => ~At(v, "unborn")

Befalls == events < MaxEvents /\ events' = events + 1

\* Fault: the team's event, which only stop_all_teammates sets.
StopSetFaulty(w) == closing \in {"joining", "closed"}
StopSet(w) == w \in stopped

LifecycleFree ==
    /\ deleting = "no"
    /\ \A w \in Workers : ~At(w, "spawning") /\ ~At(w, "registered")
\* An assignment to another member holds _teammate_lock from end to end.
TeamFree == task # "moving"

Init ==
    /\ MailboxInit
    /\ profile = 0 /\ active = FALSE /\ thread = 0 /\ event = 0
    /\ status = "none" /\ reload = FALSE
    /\ closing = "open" /\ deleting = "no"
    /\ worker = [w \in Workers |-> Unborn]
    /\ stopped = {}
    /\ task = "none"
    /\ plan = [p \in Plans |-> "none"]
    /\ sent = {} /\ unseen = {} /\ told = {}
    /\ stranded = FALSE /\ missed = {}
    /\ events = 0

-----------------------------------------------------------------------------
(* Lifecycle                                                               *)

\* The first critical section of _spawn_teammate_thread_unlocked.
\* (Fault: the name may be taken.)
RegisterFaulty(w, version) ==
    /\ TeamFree
    /\ closing = "open"
    /\ Newborn(w)
    /\ profile' = version
    /\ active' = TRUE /\ event' = w /\ status' = "running"
    /\ UNCHANGED <<thread, reload>>
Register(w, version) ==
    /\ TeamFree
    /\ closing = "open"
    /\ ~active
    /\ Newborn(w)
    /\ profile' = version
    /\ active' = TRUE /\ event' = w /\ status' = "running"
    /\ UNCHANGED <<thread, reload>>

\* spawn_teammate persists a profile, restart_teammate reads it.
Spawn(w) ==
    /\ LifecycleFree
    /\ profile < MaxProfile
    /\ Register(w, profile + 1)
    /\ worker' = [worker EXCEPT ![w].pc = "spawning", ![w].conf = profile + 1]
    /\ UNCHANGED <<mailbox, closing, deleting, stopped, task, plan, ghosts, events>>

Restart(w) ==
    /\ LifecycleFree
    /\ profile # 0
    /\ Register(w, profile)
    /\ worker' = [worker EXCEPT ![w].pc = "spawning", ![w].conf = profile]
    /\ UNCHANGED <<mailbox, closing, deleting, stopped, task, plan, ghosts, events>>

RegisterThread(w) ==
    /\ TeamFree
    /\ At(w, "spawning")
    /\ thread' = w
    /\ Goto(w, "registered")
    /\ UNCHANGED <<mailbox, profile, active, event, status, reload, closing, deleting,
                   stopped, task, plan, ghosts, events>>

Start(w) ==
    /\ At(w, "registered")
    /\ Goto(w, "entering")
    /\ UNCHANGED <<mailbox, registry, closing, deleting, stopped, task, plan, ghosts, events>>

StopTeammate ==
    /\ TeamFree
    /\ reload' = FALSE
    /\ active /\ thread # 0 /\ event # 0
    /\ status' = "stopping"
    /\ stopped' = stopped \cup {event}
    /\ Befalls
    /\ UNCHANGED <<mailbox, profile, active, thread, event, closing, deleting, worker,
                   task, plan, ghosts>>

\* An active member is marked for a reload, and stopped at once if it is idle.
UpdateProfile ==
    LET now == status = "idle" /\ task # "owned" /\ event # 0 IN
    /\ LifecycleFree /\ TeamFree
    /\ profile \in 1..(MaxProfile - 1)
    /\ profile' = profile + 1
    /\ reload' = (reload \/ active)
    /\ status' = IF active /\ now THEN "restarting" ELSE status
    /\ stopped' = IF active /\ now THEN stopped \cup {event} ELSE stopped
    /\ Befalls
    /\ UNCHANGED <<mailbox, active, thread, event, closing, deleting, worker, task, plan, ghosts>>

\* delete_teammate: first the registry, then the tasks, then the deletion.
DeleteCheck ==
    /\ LifecycleFree /\ TeamFree
    /\ profile # 0
    /\ ~active /\ thread = 0 /\ status \notin {"running", "stopping"}
    /\ deleting' = "tasks"
    /\ Befalls
    /\ UNCHANGED <<mailbox, registry, closing, worker, stopped, task, plan, ghosts>>

Bound == task \in {"assigned", "owned"}

DeleteTasks ==
    /\ deleting = "tasks"
    /\ deleting' = IF Bound THEN "no" ELSE "commit"
    /\ UNCHANGED <<mailbox, registry, closing, worker, stopped, task, plan, ghosts, events>>

DeleteCommit ==
    /\ TeamFree
    /\ deleting = "commit"
    /\ deleting' = "no"
    /\ profile' = 0 /\ reload' = FALSE /\ status' = "none"
    /\ thread' = 0 /\ event' = 0 /\ active' = FALSE
    /\ UNCHANGED <<mailbox, closing, worker, stopped, task, plan, ghosts, events>>

\* close(): stop_all_teammates, in its three critical sections ...
StopAccepting ==
    /\ TeamFree
    /\ closing = "open"
    /\ closing' = "refusing"
    /\ reload' = FALSE
    /\ Befalls
    /\ UNCHANGED <<mailbox, profile, active, thread, event, status, deleting, worker, stopped,
                   task, plan, sent, unseen, told, stranded, missed>>

StopAll ==
    /\ TeamFree
    /\ closing = "refusing"
    /\ closing' = "joining"
    /\ stopped' = stopped \cup ({event} \ {0})
    /\ UNCHANGED <<mailbox, registry, deleting, worker, task, plan, ghosts, events>>

\* ... the last of which, when the join has ended or timed out, removes a thread
\* that is not alive: one that has not been started yet is not.
Joined ==
    LET gone == thread # 0 /\ ~Alive(thread) IN
    /\ TeamFree
    /\ closing = "joining"
    /\ closing' = "closed"
    /\ IF gone
       THEN /\ thread' = 0 /\ event' = 0 /\ active' = FALSE /\ status' = "stopped"
            /\ missed' = missed \cup {thread}
       ELSE UNCHANGED <<thread, event, active, status, missed>>
    /\ UNCHANGED <<mailbox, profile, reload, deleting, worker, stopped, task, plan,
                   sent, unseen, told, stranded, events>>

\* The console builds a new application: set_team_provider.
Reopen ==
    /\ closing = "closed"
    /\ closing' = "open"
    /\ UNCHANGED <<mailbox, registry, deleting, worker, stopped, task, plan, ghosts, events>>

-----------------------------------------------------------------------------
(* What others send and assign                                             *)

Online == active /\ TeamFree

Post(m) == m \notin sent /\ Cardinality(sent) < MaxSent /\ SendTo(m) /\ sent' = sent \cup {m}

\* run_send_message, run_request_shutdown
SendMessage(m) ==
    /\ Online
    /\ Kind[m] \in {"message", "shutdown_request"}
    /\ Post(m)
    /\ UNCHANGED <<registry, closing, deleting, worker, stopped, task, plan,
                   unseen, told, stranded, missed, events>>

\* run_review_plan
ReviewPlan(m, approve) ==
    /\ m \in DOMAIN Reviews
    /\ plan[Reviews[m]] = "pending"
    /\ Post(m)
    /\ plan' = [plan EXCEPT ![Reviews[m]] = IF approve THEN "approved" ELSE "rejected"]
    /\ UNCHANGED <<registry, closing, deleting, worker, stopped, task,
                   unseen, told, stranded, missed, events>>

\* assign_task_to_teammate
AssignTask(m) ==
    /\ Online
    /\ status = "idle"
    /\ task = "none"
    /\ Kind[m] = "task_assignment"
    /\ Post(m)
    /\ task' = "assigned"
    /\ UNCHANGED <<registry, closing, deleting, worker, stopped, plan,
                   unseen, told, stranded, missed, events>>

\* create_queued_task, for a member that has a profile
\* (Fault: without the lifecycle lock.)
QueueTaskFaulty ==
    /\ profile # 0
    /\ task = "none"
    /\ task' = "assigned"
    /\ UNCHANGED <<mailbox, registry, closing, deleting, worker, stopped, plan, ghosts, events>>
QueueTask ==
    /\ LifecycleFree /\ TeamFree
    /\ profile # 0
    /\ task = "none"
    /\ task' = "assigned"
    /\ UNCHANGED <<mailbox, registry, closing, deleting, worker, stopped, plan, ghosts, events>>

\* The task is assigned to another member; if the notice cannot be sent the
\* assignment is given back to this one.
MoveTask ==
    /\ task = "assigned"
    /\ task' = "moving"
    /\ Befalls
    /\ UNCHANGED <<mailbox, registry, closing, deleting, worker, stopped, plan, ghosts>>

MoveDone ==
    /\ task = "moving"
    /\ \/ task' = "none" /\ UNCHANGED stranded
       \/ task' = "assigned" /\ stranded' = (stranded \/ deleting = "commit")
    /\ UNCHANGED <<mailbox, registry, closing, deleting, worker, stopped, plan,
                   sent, unseen, told, missed, events>>

\* Unassigned, deleted; or released, after its worker has stopped.
WithdrawTask ==
    /\ \/ task = "assigned"
       \/ task = "owned" /\ ~\E w \in Workers : Running(w)
    /\ task' = "none"
    /\ UNCHANGED <<mailbox, registry, closing, deleting, worker, stopped, plan, ghosts, events>>

-----------------------------------------------------------------------------
(* idle_poll                                                               *)

Claimable ==
    /\ TeamFree
    /\ active /\ status \in {"idle", "running"} /\ ~reload
    /\ event # 0 /\ event \notin stopped
    /\ task = "assigned"

Enter(w) ==
    /\ TeamFree
    /\ At(w, "entering")
    /\ status' = IF status = "none" THEN "none" ELSE "idle"
    /\ Goto(w, "poll")
    /\ UNCHANGED <<mailbox, profile, active, thread, event, reload, closing, deleting,
                   stopped, task, plan, ghosts, events>>

Poll(w) ==
    /\ At(w, "poll")
    /\ IF StopSet(w) THEN Goto(w, "final") /\ UNCHANGED mailbox
                        ELSE ClaimInbox(w) /\ Goto(w, "pollmail")
    /\ UNCHANGED <<registry, closing, deleting, stopped, task, plan, ghosts, events>>

First(batch, kinds) ==
    LET hits == {i \in DOMAIN batch : Kind[batch[i]] \in kinds} IN
    IF hits = {} THEN 0 ELSE CHOOSE i \in hits : \A j \in hits : i <= j

Batch(w) == IF held[w] = NoFile THEN <<>> ELSE held[w]

\* In order: a shutdown ends the loop, and so does an assignment that can be
\* claimed; the rest of the batch is acknowledged with it.  Otherwise the batch
\* goes to the model, and wakes it if it holds an ordinary message or there is
\* a task already.
PollMail(w) ==
    LET batch == Batch(w)
        takes == IF Claimable THEN {"shutdown_request", "task_assignment"}
                              ELSE {"shutdown_request"}
        i == First(batch, takes)
        ordinary == \E j \in DOMAIN batch : Kind[batch[j]] = "message" IN
    /\ At(w, "pollmail")
    /\ AckInbox(w)
    /\ IF i # 0
       THEN /\ unseen' = unseen \cup {batch[j] : j \in DOMAIN batch \ {i}}
            /\ IF Kind[batch[i]] = "shutdown_request"
               THEN Goto(w, "final") /\ UNCHANGED <<task, status>>
               ELSE Goto(w, "top") /\ task' = "owned" /\ status' = "running"
       ELSE /\ UNCHANGED <<task, status, unseen>>
            /\ Goto(w, IF batch # <<>> /\ (ordinary \/ task = "owned") THEN "top" ELSE "scan")
    /\ UNCHANGED <<profile, active, thread, event, reload, closing, deleting, stopped, plan,
                   sent, told, stranded, missed, events>>

\* consume: a message whose handling raises (an answer cannot be sent, a record or the
\* protocol's file cannot be read) returns the whole batch and ends the worker.  What
\* the messages before it did to this worker goes with it.  (A record that cannot be
\* read right after it was claimed is left out, here and in Scan.)
MayRaise(w) ==
    IF At(w, "pollmail") THEN {"shutdown_request", "task_assignment"}
                         ELSE {"shutdown_request", "plan_approval_response"}

MailFails(w) ==
    /\ At(w, "pollmail") \/ At(w, "mail")
    /\ First(Batch(w), MayRaise(w)) # 0
    /\ NackWrite(w)
    /\ worker' = [worker EXCEPT ![w].pc = "unlink", ![w].rounds = 0, ![w].failed = TRUE]
    /\ UNCHANGED <<registry, closing, deleting, stopped, task, plan, ghosts, events>>

Unlink(w) ==
    /\ At(w, "unlink")
    /\ NackUnlink(w)
    /\ Goto(w, "final")
    /\ UNCHANGED <<registry, closing, deleting, stopped, task, plan, ghosts, events>>

\* Work that waits in the store; then the pause, which a stop ends.
Scan(w) ==
    /\ At(w, "scan")
    /\ IF Claimable
       THEN Goto(w, "top") /\ task' = "owned" /\ status' = "running"
       ELSE /\ Goto(w, IF StopSet(w) THEN "final" ELSE "poll")
            /\ UNCHANGED <<task, status>>
    /\ UNCHANGED <<mailbox, profile, active, thread, event, reload, closing, deleting, stopped,
                   plan, ghosts, events>>

-----------------------------------------------------------------------------
(* A burst                                                                 *)

Top(w) ==
    /\ TeamFree
    /\ At(w, "top")
    /\ IF StopSet(w)
       THEN Goto(w, "final") /\ UNCHANGED status
       ELSE /\ status' = IF status = "none" THEN "none" ELSE "running"
            /\ worker' = [worker EXCEPT ![w].pc = "round", ![w].rounds = 0]
    /\ UNCHANGED <<mailbox, profile, active, thread, event, reload, closing, deleting, stopped,
                   task, plan, ghosts, events>>

Round(w) ==
    /\ At(w, "round")
    /\ IF StopSet(w) THEN Goto(w, "final") /\ UNCHANGED mailbox
                        ELSE ClaimInbox(w) /\ Goto(w, "mail")
    /\ UNCHANGED <<registry, closing, deleting, stopped, task, plan, ghosts, events>>

\* handle_inbox_message: a response counts for the plan the worker waits for only.
\* (Fault: for whatever it waits for.)
AnswersFaulty(w, m) ==
    m \in DOMAIN Reviews /\ worker[w].waiting # 0
Answers(w, m) ==
    m \in DOMAIN Reviews /\ worker[w].waiting = Reviews[m]
        /\ plan[Reviews[m]] \in {"approved", "rejected"}

Mail(w) ==
    LET batch == Batch(w)
        i == First(batch, {"shutdown_request"})
        last == IF i = 0 THEN Len(batch) ELSE i
        answers == {batch[j] : j \in {k \in 1..last : Answers(w, batch[k])}} IN
    /\ At(w, "mail")
    /\ AckInbox(w)
    /\ IF i # 0
       THEN /\ Goto(w, "final")
            /\ unseen' = unseen \cup {batch[j] : j \in DOMAIN batch \ {i}}
            /\ UNCHANGED told
       ELSE /\ worker' = [worker EXCEPT
                   ![w].waiting = IF answers # {} THEN 0 ELSE @,
                   ![w].pc = IF answers = {} /\ worker[w].waiting # 0 THEN "wait" ELSE "model"]
            /\ told' = told \cup {worker[w].waiting : m \in {a \in answers : plan[Reviews[a]] = "approved"}}
            /\ UNCHANGED unseen
    /\ UNCHANGED <<registry, closing, deleting, stopped, task, plan,
                   sent, stranded, missed, events>>

\* PLAN_APPROVAL_TIMEOUT has passed: a plan that is still pending expires.
PlanTimeout(w) ==
    LET p == worker[w].waiting IN
    /\ At(w, "wait")
    /\ plan' = [plan EXCEPT ![p] = IF @ = "pending" THEN "expired" ELSE @]
    /\ worker' = [worker EXCEPT ![w].waiting = 0, ![w].pc = "model"]
    /\ UNCHANGED <<mailbox, registry, closing, deleting, stopped, task, ghosts, events>>

Wait(w) ==
    /\ At(w, "wait")
    /\ Goto(w, IF StopSet(w) THEN "final" ELSE "round")
    /\ UNCHANGED <<mailbox, registry, closing, deleting, stopped, task, plan, ghosts, events>>

NextRound(w) ==
    LET n == worker[w].rounds + 1 IN
    IF n = MaxRounds
    THEN worker' = [worker EXCEPT ![w].pc = "final", ![w].rounds = 0, ![w].failed = TRUE]
    ELSE worker' = [worker EXCEPT ![w].pc = "round", ![w].rounds = n]

\* One call of the model with the tools it asks for: none that matters here, or
\* it completes its task, claims one, gives it up, hands in a plan, or has done.
Model(w) ==
    /\ At(w, "model")
    /\ ~StopSet(w)
    /\ \/ NextRound(w) /\ UNCHANGED <<task, status, plan, events>>
       \/ task = "owned" /\ task' = "none" /\ NextRound(w) /\ UNCHANGED <<status, plan, events>>
       \/ Claimable /\ task' = "owned" /\ status' = "running" /\ NextRound(w) /\ UNCHANGED <<plan, events>>
       \/ task = "owned" /\ task' = "none" /\ Leave(w, "check") /\ UNCHANGED <<status, plan, events>>
       \/ \E p \in Plans :
             /\ plan[p] = "none" /\ \A q \in Plans : q < p => plan[q] # "none"
             /\ plan' = [plan EXCEPT ![p] = "pending"]
             /\ worker' = [worker EXCEPT ![w].waiting = p, ![w].pc = "top"]
             /\ Befalls
             /\ UNCHANGED <<task, status>>
       \/ Leave(w, "check") /\ UNCHANGED <<task, status, plan, events>>
    /\ UNCHANGED <<mailbox, profile, active, thread, event, reload, closing, deleting, stopped,
                   ghosts>>

\* Stopped while the model or a tool ran, or the provider failed.
ModelEnds(w) ==
    /\ At(w, "model")
    /\ worker' = [worker EXCEPT ![w].pc = "final", ![w].rounds = 0,
                                ![w].failed = ~StopSet(w)]
    /\ UNCHANGED <<mailbox, registry, closing, deleting, stopped, task, plan, ghosts, events>>

\* A reload that was asked for during the burst, unless a task is still held.
Check(w) ==
    /\ TeamFree
    /\ At(w, "check")
    /\ IF reload /\ task # "owned"
       THEN stopped' = stopped \cup {w} /\ Goto(w, "final")
       ELSE UNCHANGED stopped /\ Goto(w, "entering")
    /\ UNCHANGED <<mailbox, registry, closing, deleting, task, plan, ghosts, events>>

-----------------------------------------------------------------------------
(* The end of a worker                                                     *)

\* interrupt_task keeps the reservation.
Final(w) ==
    /\ At(w, "final")
    /\ task' = IF task = "owned" THEN "assigned" ELSE task
    /\ Goto(w, "cleanup")
    /\ UNCHANGED <<mailbox, registry, closing, deleting, stopped, plan, ghosts, events>>

\* The entries go by name.
Cleanup(w) ==
    /\ TeamFree
    /\ At(w, "cleanup")
    /\ worker' = [worker EXCEPT ![w] = [Gone(w) EXCEPT !.pc =
           IF reload /\ ~worker[w].failed /\ closing = "open" THEN "restart" ELSE "dead"]]
    /\ stopped' = stopped \ {w}
    /\ reload' = FALSE
    /\ active' = FALSE /\ thread' = 0 /\ event' = 0
    /\ status' = IF status = "none" THEN "none"
                 ELSE IF worker[w].failed THEN "error" ELSE "stopped"
    /\ UNCHANGED <<mailbox, profile, closing, deleting, task, plan, ghosts, events>>

\* restart_teammate, called by the worker that has ended.
RestartSelf(w) ==
    /\ At(w, "restart")
    /\ LifecycleFree /\ TeamFree
    /\ IF active \/ profile = 0 \/ closing # "open" \/ \A v \in Workers : ~At(v, "unborn")
       THEN Goto(w, "dead") /\ UNCHANGED registry
       ELSE \E v \in Workers :
               /\ Register(v, profile)
               /\ worker' = [worker EXCEPT ![w].pc = "dead",
                                           ![v].pc = "spawning", ![v].conf = profile]
    /\ UNCHANGED <<mailbox, closing, deleting, stopped, task, plan, ghosts, events>>

Crash ==
    /\ MailboxCrash
    /\ active' = FALSE /\ thread' = 0 /\ event' = 0 /\ status' = "none" /\ reload' = FALSE
    /\ closing' = "open" /\ deleting' = "no"
    /\ worker' = [w \in Workers |-> IF At(w, "unborn") THEN Unborn ELSE Gone(w)]
    /\ stopped' = {}
    /\ task' = IF task = "moving" THEN "none" ELSE task
    /\ Befalls
    /\ UNCHANGED <<profile, plan, sent, unseen, told, stranded, missed>>

-----------------------------------------------------------------------------
LoopStep(w) ==
    \/ RegisterThread(w) \/ Start(w) \/ Enter(w) \/ Poll(w) \/ PollMail(w) \/ Scan(w)
    \/ Top(w) \/ Round(w) \/ Mail(w) \/ PlanTimeout(w) \/ Wait(w)
    \/ Model(w) \/ ModelEnds(w) \/ Check(w) \/ MailFails(w) \/ Unlink(w)
    \/ Final(w) \/ Cleanup(w) \/ RestartSelf(w)

Next ==
    \/ \E w \in Workers : Spawn(w) \/ Restart(w) \/ LoopStep(w)
    \/ StopTeammate \/ UpdateProfile \/ DeleteCheck \/ DeleteTasks \/ DeleteCommit
    \/ StopAccepting \/ StopAll \/ Joined \/ Reopen
    \/ \E m \in Messages :
          SendMessage(m) \/ AssignTask(m) \/ (\E approve \in BOOLEAN : ReviewPlan(m, approve))
    \/ QueueTask \/ MoveTask \/ MoveDone \/ WithdrawTask
    \/ Crash

Spec == Init /\ [][Next]_vars

\* Threads go on: a worker (the model answers, its tools return) and an operation
\* that holds a lock.
FairSpec ==
    /\ Spec
    /\ \A w \in Workers : WF_vars(LoopStep(w))
    /\ WF_vars(DeleteTasks \/ DeleteCommit \/ MoveDone)

-----------------------------------------------------------------------------
(* Properties                                                              *)

TypeOK ==
    /\ MailboxType
    /\ profile \in 0..MaxProfile
    /\ active \in BOOLEAN /\ reload \in BOOLEAN /\ stranded \in BOOLEAN
    /\ thread \in Workers \cup {0} /\ event \in Workers \cup {0}
    /\ status \in {"none", "running", "idle", "stopping", "restarting", "stopped", "error"}
    /\ closing \in {"open", "refusing", "joining", "closed"}
    /\ deleting \in {"no", "tasks", "commit"}
    /\ worker \in [Workers -> WorkerRec]
    /\ stopped \subseteq Workers /\ missed \subseteq Workers
    /\ task \in {"none", "assigned", "owned", "moving"}
    /\ plan \in [Plans -> {"none", "pending", "approved", "rejected", "expired"}]
    /\ sent \subseteq Messages /\ unseen \subseteq Messages /\ told \subseteq Plans
    /\ events \in Nat

\* A worker that runs is the one the registry shows, so that a stop reaches it
\* and no second one is started under its name, and an edit reaches it too: with
\* an outdated profile it is marked for a reload or stopped.  Through restarts,
\* reloads, a deletion and the closing of the application.  (missed: the closing
\* takes a thread that is registered but not started yet for a dead one.)
Stoppable(w) == active /\ thread = w /\ event = w
Outdated(w) == worker[w].conf # profile
EveryWorkerReached ==
    missed = {} => \A w \in Workers : Running(w) =>
        /\ Stoppable(w)
        /\ Outdated(w) => reload \/ w \in stopped \/ closing = "refusing"

\* A task that waits for a member waits for one that exists: delete_teammate looks
\* at the tasks without a lock that would keep them as they are.  (stranded: unless
\* a failed notice gave the task back in between.)
KnownAssignee == Bound /\ ~stranded => profile # 0

\* A worker goes on with a plan only when that very plan was approved: responses
\* to plans that timed out, or of a worker before it, do not count.
ApprovedMeansApproved == \A p \in told : plan[p] = "approved"

\* The member's mailbox keeps its promise to all workers there are under its name, one
\* after the other, through batches that are returned in two file operations and crashes
\* anywhere.
Box == INSTANCE Mailbox WITH Readers <- Workers, waiting <- Waiting, taken <- Taken,
                             returning <- Returning, left <- LeftBehind
ImplementsMailbox == Box!Spec

\* A stopped worker ends, whatever it was doing.
StoppedWorkerEnds == \A w \in Workers : w \in stopped /\ Alive(w) ~> At(w, "dead")

\* An edited profile is taken up in the end.
ReloadHappens == reload ~> ~reload

\* What is acknowledged was acted upon or shown to the model.
MailSeen == \A m \in unseen : Kind[m] \notin {"message", "shutdown_request"}

=============================================================================
