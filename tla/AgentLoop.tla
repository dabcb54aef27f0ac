------------------------------- MODULE AgentLoop -------------------------------
(***************************************************************************)
(* The turns of the Lead (agent.py): run_turn for the user and for what    *)
(* the user queued, run_pending_lead_inbox for the mail of the team, and   *)
(* agent_loop within them: provider calls, recovery, tools, sub-agents,    *)
(* the user's interventions.  One turn at a time holds _lead_turn_lock; pc *)
(* says where it is.  Users, sub-agents and crashes go on beside it.       *)
(***************************************************************************)
EXTENDS Interactions

CONSTANTS
  MaxRetries,    \* MAX_RECOVERY_RETRIES, 2 in the code
  MaxFaults      \* how many exceptions escape from turns, or crashes there are

VARIABLES
  turn,       \* the turn that holds the lock
  jobs,       \* its sub-agents: none, some active, or ended with results to collect
  lingering,  \* sub-agents that were told to stop, of turns that are over, still work
  batch,      \* it holds mail of the Lead's inbox
  torn,       \* interventions a turn held when an exception ended it
  faults

turnVars == <<turn, jobs, lingering, batch, torn, faults>>
vars == <<brokerVars, turnVars>>

\* Where a turn is; within agent_loop first.
InLoop == {"top", "stopping", "inject", "prepare", "llm", "barrier", "tools", "after", "final"}
Places == InLoop \cup {"idle", "start", "returned", "settle", "leaving"}

TurnRec == [pc : Places, kind : {"none", "user", "queue", "inbox"}, next : {"top", "prepare", "stopping"},
            reactive : BOOLEAN, escalated : BOOLEAN, retries : 0..MaxRetries]

NoTurn == [pc |-> "idle", kind |-> "none", next |-> "top", reactive |-> FALSE,
           escalated |-> FALSE, retries |-> 0]

Init ==
  /\ BrokerInit
  /\ turn = NoTurn
  /\ jobs = "none" /\ lingering = FALSE /\ batch = FALSE
  /\ torn = {}
  /\ faults = 0

At(pc) == turn.pc = pc
Goto(pc) == turn' = [turn EXCEPT !.pc = pc]
\* What a turn that is over, but for its queue or its end, still knows.
Over(pc) == turn' = [NoTurn EXCEPT !.pc = pc, !.kind = turn.kind]

\* The interventions the turn has taken and not finished.
Held(status) == {i \in Items : item[i].status = status} \ torn

\* cancel_turn: the sub-agents of the turn are told to stop.  What waits for its start
\* ends at once; what is at work ends later, on its own, and the turn does not wait.
CancelsJobs ==
  /\ jobs' = "none"
  /\ lingering' \in IF jobs = "active" THEN {lingering, TRUE} ELSE {lingering}

Others == UNCHANGED <<torn, faults>>
LoopOnly == UNCHANGED <<batch, torn, faults>>
JobsOnly == UNCHANGED <<lingering, batch, torn, faults>>

-----------------------------------------------------------------------------
\* Turns.

\* run_turn: a stop from before the turn does not count.
UserTurn ==
  /\ At("idle")
  /\ turn' = [NoTurn EXCEPT !.pc = "start", !.kind = "user"]
  /\ phase' = "llm_running" /\ cancelled' = FALSE
  /\ UNCHANGED <<item, jobs, lingering, batch>> /\ Others

\* run_pending_lead_inbox: there is mail, or none (any more).
InboxTurn ==
  /\ At("idle")
  /\ \E mail \in BOOLEAN :
       /\ batch' = mail
       /\ turn' = [NoTurn EXCEPT !.pc = IF mail THEN "start" ELSE "leaving", !.kind = "inbox"]
  /\ SetPhase("llm_running")
  /\ UNCHANGED <<item, jobs, lingering>> /\ Others

\* _run_turn_locked: mail is claimed, and the turn is recorded.
Starts ==
  /\ At("start")
  /\ batch' \in IF turn.kind = "inbox" THEN {batch} ELSE BOOLEAN
  /\ Goto("top")
  /\ UNCHANGED <<brokerVars, jobs, lingering>> /\ Others

\* The claim or start_turn raises: outside of the try that gives mail back, so mail
\* stays claimed by a turn that is gone, until the process starts again.
StartFails ==
  /\ At("start") /\ faults < MaxFaults
  /\ faults' = faults + 1
  /\ batch' = FALSE
  /\ Update(Held("running"), "failed") /\ torn' = torn \cup Held("running")
  /\ Over("leaving")
  /\ UNCHANGED <<phase, cancelled, jobs, lingering>>

\* What an intervention becomes when the turn has applied it.
Applied == IF turn.next = "stopping" THEN "completed" ELSE "injected"

\* An exception escapes from agent_loop, or from what records or acknowledges its
\* end: the disk, a hook, a tool, reactive_recover, an interrupt.  The sub-agents are
\* told to stop, the mail is given back, or stays claimed if that fails too.  Some of
\* the interventions the loop had taken are applied; the others stay as they are.
Raises ==
  /\ turn.pc \in InLoop \cup {"returned"} /\ faults < MaxFaults
  /\ faults' = faults + 1
  /\ CancelsJobs
  /\ batch' = FALSE
  /\ \E applied \in SUBSET Held("injecting"),
        end \in IF At("returned") THEN {"failed", "completed"} ELSE {"failed"} :
       item' = [i \in Items |-> IF i \in applied THEN [item[i] EXCEPT !.status = Applied]
                                ELSE IF i \in Held("running") THEN [item[i] EXCEPT !.status = end]
                                ELSE item[i]]
  /\ torn' = torn \cup Held("injecting") \cup Held("running")
  /\ Over("leaving")
  /\ UNCHANGED <<phase, cancelled>>

\* agent_loop has returned: the mail is acknowledged, or given back if the answer is
\* an error (LeadInbox tells the two apart).
Returned ==
  /\ At("returned")
  /\ batch' = FALSE
  /\ Update(Held("running"), "completed")
  /\ Over(IF turn.kind = "inbox" THEN "leaving" ELSE "settle")
  /\ UNCHANGED <<phase, cancelled, jobs, lingering>> /\ Others

\* run_turn: the next queued item becomes a turn of its own.
Settles ==
  /\ At("settle")
  /\ IF Pending({"queue"})
     THEN Consume({"queue"}) /\ turn' = [NoTurn EXCEPT !.pc = "start", !.kind = "queue"]
     ELSE UNCHANGED item /\ Goto("leaving")
  /\ UNCHANGED <<phase, cancelled, jobs, lingering, batch>> /\ Others

\* run_turn: the item is taken, but the broker's file cannot be written.
SettleFails ==
  /\ At("settle") /\ Pending({"queue"}) /\ faults < MaxFaults
  /\ faults' = faults + 1
  /\ Consume({"queue"}) /\ torn' = torn \cup Chosen({"queue"})
  /\ Goto("leaving")
  /\ UNCHANGED <<phase, cancelled, jobs, lingering, batch>>

\* The finally clauses: the Lead is idle.
Leaves ==
  /\ At("leaving")
  /\ SetPhase("idle")
  /\ turn' = NoTurn
  /\ UNCHANGED <<item, jobs, lingering, batch>> /\ Others

-----------------------------------------------------------------------------
\* agent_loop.

\* _inject_runtime_interactions, first half: the turn takes interventions and, when
\* they are applied, goes on at "next".
Injects(actions, next) ==
  /\ Consume(actions)
  /\ turn' = [turn EXCEPT !.pc = "inject", !.next = next]

\* Second half, and that of the top of the loop for a stop.
Injected ==
  /\ At("inject")
  /\ Update(Held("injecting"), Applied)
  /\ turn' = [turn EXCEPT !.pc = turn.next, !.next = "top"]
  /\ UNCHANGED <<phase, cancelled, jobs>> /\ JobsOnly

\* The top of the loop: a stop is taken.
Stops ==
  /\ At("top") /\ cancelled
  /\ Injects({"stop"}, "stopping")
  /\ UNCHANGED <<phase, cancelled, jobs>> /\ JobsOnly

\* Fault: the sub-agents of the turn are left alone.
StoppedFaulty ==
  /\ At("stopping")
  /\ SetPhase("stopped")
  /\ Goto("returned")
  /\ UNCHANGED <<item, jobs>> /\ JobsOnly

\* The Lead shows itself as stopped, and its sub-agents are told to stop.
Stopped ==
  /\ At("stopping")
  /\ SetPhase("stopped")
  /\ CancelsJobs
  /\ Goto("returned")
  /\ UNCHANGED item /\ LoopOnly

\* Fault: a stop is looked for after a response only.
GoesOnFaulty ==
  /\ At("top")
  /\ jobs' = IF jobs = "ended" THEN "none" ELSE jobs
  /\ IF Pending({"redirect", "steer"}) THEN Injects({"redirect", "steer"}, "prepare")
     ELSE UNCHANGED item /\ Goto("prepare")
  /\ UNCHANGED <<phase, cancelled>> /\ JobsOnly

\* The top of the loop: results and interventions are added to the messages.
GoesOn ==
  /\ At("top") /\ ~cancelled
  /\ jobs' = IF jobs = "ended" THEN "none" ELSE jobs
  /\ IF Pending({"redirect", "steer"}) THEN Injects({"redirect", "steer"}, "prepare")
     ELSE UNCHANGED item /\ Goto("prepare")
  /\ UNCHANGED <<phase, cancelled>> /\ JobsOnly

\* prepare_request, or once in a turn reactive_recover instead.
Prepares ==
  /\ At("prepare")
  /\ \E recovers \in {FALSE, ~turn.reactive} :
       turn' = [turn EXCEPT !.pc = "llm", !.reactive = @ \/ recovers]
  /\ SetPhase("llm_running")
  /\ UNCHANGED <<item, jobs>> /\ JobsOnly

\* The turn ends with an error for an answer.
EndsWithError ==
  /\ CancelsJobs
  /\ Goto("returned")
  /\ UNCHANGED item

PrepareFails ==
  /\ At("prepare") /\ turn.reactive
  /\ EndsWithError
  /\ UNCHANGED <<phase, cancelled>> /\ LoopOnly

\* The provider refuses the request for its length: once it is rebuilt.
Overflows ==
  /\ At("llm")
  /\ \/ /\ ~turn.reactive
        /\ turn' = [turn EXCEPT !.pc = "top", !.reactive = TRUE]
        /\ UNCHANGED <<item, jobs, lingering>>
     \/ turn.reactive /\ EndsWithError
  /\ UNCHANGED <<phase, cancelled>> /\ LoopOnly

\* with_retry gives up.
ProviderFails ==
  /\ At("llm")
  /\ EndsWithError
  /\ UNCHANGED <<phase, cancelled>> /\ LoopOnly

\* A response came too late: the user has stopped or redirected the turn.
Discards ==
  /\ At("llm")
  /\ IF cancelled THEN UNCHANGED item /\ Goto("top")
     ELSE Pending({"redirect"}) /\ Injects({"redirect"}, "top")
  /\ UNCHANGED <<phase, cancelled, jobs>> /\ JobsOnly

\* A response is used.
Answered == At("llm") /\ ~cancelled /\ ~Pending({"redirect"})

\* The response is cut off: more tokens, then continuations, then the end.
CutOff ==
  /\ Answered
  /\ \/ /\ ~turn.escalated
        /\ turn' = [turn EXCEPT !.pc = "top", !.escalated = TRUE]
        /\ UNCHANGED <<item, jobs, lingering>>
     \/ /\ turn.escalated /\ turn.retries < MaxRetries
        /\ turn' = [turn EXCEPT !.pc = "top", !.retries = @ + 1]
        /\ UNCHANGED <<item, jobs, lingering>>
     \/ turn.escalated /\ turn.retries = MaxRetries /\ EndsWithError
  /\ UNCHANGED <<phase, cancelled>> /\ LoopOnly

\* The response is a text, asks for tools, or for a compaction, which is done at once.
Answers ==
  /\ Answered
  /\ \E pc \in {"barrier", "tools", "top"} :
       turn' = [turn EXCEPT !.pc = pc, !.escalated = FALSE]
  /\ UNCHANGED <<brokerVars, jobs>> /\ JobsOnly

\* wait_for_subagent_barrier has notes, or waited long enough.
BarrierHolds ==
  /\ At("barrier") /\ jobs # "none"
  /\ jobs' = IF jobs = "ended" THEN "none" ELSE jobs
  /\ Goto("top")
  /\ UNCHANGED brokerVars /\ JobsOnly

\* The turn may end, unless the user has asked for more.  (A job that ends within
\* the barrier may be overlooked, see BarrierHolds of Subagents.)
Finalizes ==
  /\ At("barrier") /\ jobs # "active"
  /\ SetPhase("finalizing")
  /\ IF Pending({"redirect", "steer"}) THEN Injects({"redirect", "steer"}, "top")
     ELSE UNCHANGED item /\ Goto("final")
  /\ UNCHANGED jobs /\ JobsOnly

\* The Stop hooks, and memory.
Ends ==
  /\ At("final")
  /\ Goto("returned")
  /\ UNCHANGED <<brokerVars, jobs>> /\ JobsOnly

\* A tool runs, is denied, or goes on in the background; it may spawn sub-agents,
\* wait for them or cancel them.
ToolRuns ==
  /\ At("tools")
  /\ SetPhase("tool_running")
  /\ jobs' \in {jobs, "active", "none"}
  /\ Goto("after")
  /\ UNCHANGED item /\ JobsOnly

\* The next tool of the response, if the user has not stopped or redirected the turn.
NextTool ==
  /\ At("after") /\ ~cancelled /\ ~Pending({"redirect"})
  /\ Goto("tools")
  /\ UNCHANGED <<brokerVars, jobs>> /\ JobsOnly

\* All tools were run or skipped; the results are added to the messages.
ToolsDone ==
  /\ At("after")
  /\ IF ~cancelled /\ Pending({"redirect", "steer"}) THEN Injects({"redirect", "steer"}, "top")
     ELSE UNCHANGED item /\ Goto("top")
  /\ UNCHANGED <<phase, cancelled, jobs>> /\ JobsOnly

-----------------------------------------------------------------------------
\* The last sub-agent of the turn ends, or of those that were told to stop.
JobsEnd ==
  \/ /\ jobs = "active"
     /\ jobs' = "ended"
     /\ UNCHANGED <<brokerVars, turn>> /\ JobsOnly
  \/ /\ lingering
     /\ lingering' = FALSE
     /\ UNCHANGED <<brokerVars, turn, jobs>> /\ LoopOnly

\* What the file has of the interventions of a turn that an exception ended is not
\* followed: it may lack the last update of any of them.
Crash ==
  /\ faults < MaxFaults
  /\ faults' = faults + 1
  /\ \E lagging \in SUBSET torn : BrokerCrash(lagging)
  /\ turn' = NoTurn /\ jobs' = "none" /\ lingering' = FALSE
  /\ batch' = FALSE /\ torn' = {}

Submit ==
  /\ \E i \in Items : Store(i) \/ \E action \in Actions : Check(i, action)
  /\ UNCHANGED turnVars

TurnStep ==
  \/ Starts \/ Returned \/ Settles \/ Leaves \/ Injected \/ Stops \/ Stopped \/ GoesOn
  \/ Prepares \/ PrepareFails \/ Overflows \/ ProviderFails \/ Discards \/ CutOff \/ Answers
  \/ BarrierHolds \/ Finalizes \/ Ends \/ ToolRuns \/ NextTool \/ ToolsDone

Next ==
  \/ UserTurn \/ InboxTurn \/ TurnStep \/ StartFails \/ Raises \/ SettleFails
  \/ JobsEnd \/ Crash \/ Submit

Spec == Init /\ [][Next]_vars

\* The thread of a turn goes on (the provider answers or times out, tools return,
\* the barrier waits for 30 seconds at most), and a user who comes back gets the
\* lock between two turns for the mail.
Fairness == WF_vars(TurnStep) /\ SF_vars(UserTurn)

FairSpec == Spec /\ Fairness

-----------------------------------------------------------------------------
TypeOK ==
  /\ BrokerType
  /\ turn \in TurnRec
  /\ jobs \in {"none", "active", "ended"}
  /\ lingering \in BOOLEAN /\ batch \in BOOLEAN
  /\ torn \subseteq Items
  /\ faults \in 0..MaxFaults

\* However a turn ended (answer, stop, error, exhausted retries, an exception at any
\* of its places, failed recording, crash): every sub-agent still at work was told to
\* stop, no mail is held for the turn (but what a failed recording left claimed, see
\* StartFails), the phase invites no interventions, and what was taken from the user was
\* applied, unless an exception came while it was.
TurnLeavesNothing ==
  turn.pc = "idle" =>
    /\ jobs # "active" /\ ~batch
    /\ \A i \in Items \ torn : item[i].status \notin InFlight
    /\ phase = "idle"

\* A stop ends the turn it finds at work, wherever that is: within a call, between
\* two tools, in the barrier, while other interventions are applied.
StopEndsTurn == cancelled /\ turn.pc \in InLoop ~> turn.pc \notin InLoop

\* What the user asked of a running Lead is applied in the end, if turns end: also
\* what was stored when the turn was about to end, or taken when the process died.
\* What an exception caught half applied waits for the next start of the process.
EveryItemServed ==
  []<>(turn.pc = "idle") =>
    \A i \in Items :
      item[i].status \in Waiting /\ item[i].action # "stop"
        ~> i \in torn \/ item[i].status \in {"injected", "completed", "failed"}
===============================================================================
