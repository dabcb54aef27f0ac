---------------------------- MODULE AgentLoopProofs ----------------------------
(***************************************************************************)
(* However a turn of the Lead ends, it leaves nothing at work that was not *)
(* told to stop: for any number of interventions, retries, exceptions and  *)
(* crashes.                                                                *)
(***************************************************************************)
EXTENDS AgentLoop, TLAPS

Turns == [pc : Places, kind : {"none", "user", "queue", "inbox"},
          next : {"top", "prepare", "stopping"}, reactive : BOOLEAN, escalated : BOOLEAN, retries : Nat]

\* What waits is stored as its action asks for.
ItemsStored ==
  /\ item \in [Items -> [action : Actions, status : Statuses]]
  /\ \A i \in Items : /\ item[i].status = "queued" => item[i].action = "queue"
                      /\ item[i].status = "pending" => item[i].action # "queue"

\* The places of a turn whose sub-agents may be at work, and of one that holds mail.
MayHaveJobs == InLoop \ {"final"}
MayHaveMail == Places \ {"idle", "settle", "leaving"}

\* Unless an exception came between: an intervention is being injected only while the
\* loop does so, and is a running turn only while this is its turn.  Sub-agents are
\* told to stop, and mail goes, before the turn does.
LoopInv ==
  /\ ItemsStored
  /\ turn \in Turns /\ torn \subseteq Items
  /\ \A i \in Items \ torn :
       /\ item[i].status = "injecting" => turn.pc = "inject"
       /\ item[i].status = "running" => turn.kind = "queue" /\ turn.pc \in MayHaveMail
  /\ jobs = "active" => turn.pc \in MayHaveJobs
  /\ batch => turn.pc \in MayHaveMail
  /\ turn.pc = "idle" => phase = "idle"

-----------------------------------------------------------------------------
\* What the broker's operations do to the interventions.

LEMMA UpdateItems ==
  ASSUME ItemsStored, NEW held \in SUBSET Items,
         NEW to \in {"injected", "completed", "failed"}, Update(held, to)
  PROVE  /\ ItemsStored'
         /\ \A i \in Items : item'[i].status = IF i \in held THEN to ELSE item[i].status
<1>1. \A i \in Items : item'[i] = IF i \in held THEN [item[i] EXCEPT !.status = to]
                                  ELSE item[i]
  BY Zenon DEF Update
<1>2. to \in Statuses
  BY DEF Statuses, Waiting
<1>3. ASSUME NEW i \in Items
      PROVE  /\ item'[i] \in [action : Actions, status : Statuses]
             /\ item'[i].action = item[i].action
             /\ item'[i].status = IF i \in held THEN to ELSE item[i].status
  <2>1. item[i] \in [action : Actions, status : Statuses]
    BY DEF ItemsStored
  <2>. QED  BY <1>1, <1>2, <2>1
<1>4. item' = [i \in Items |-> item'[i]]
  BY Zenon DEF Update
<1>5. item' \in [Items -> [action : Actions, status : Statuses]]
  BY <1>3, <1>4
<1>. QED  BY <1>3, <1>5 DEF ItemsStored

\* What consume takes was waiting, and had one of the actions.
LEMMA ChosenWaits ==
  ASSUME NEW actions, NEW i \in Chosen(actions)
  PROVE  i \in Items /\ item[i].action \in actions /\ item[i].status \in Waiting
BY DEF Chosen

LEMMA ConsumeItems ==
  ASSUME ItemsStored, NEW actions, Consume(actions)
  PROVE  /\ ItemsStored'
         /\ \A i \in Items :
              \/ item'[i].status = item[i].status
              \/ item[i].action = "queue" /\ "queue" \in actions /\ item'[i].status = "running"
              \/ /\ item[i].action # "queue" /\ (actions \ {"queue"}) # {}
                 /\ item'[i].status = "injecting"
<1>1. ASSUME NEW i \in Items
      PROVE  /\ item'[i] \in [action : Actions, status : Statuses]
             /\ item'[i].action = item[i].action
             /\ \/ item'[i].status = item[i].status
                \/ item[i].action = "queue" /\ "queue" \in actions /\ item'[i].status = "running"
                \/ /\ item[i].action # "queue" /\ (actions \ {"queue"}) # {}
                   /\ item'[i].status = "injecting"
  <2>1. item[i] \in [action : Actions, status : Statuses]
    BY DEF ItemsStored
  <2>2. item[i].status = "queued" => item[i].action = "queue"
    BY DEF ItemsStored
  <2>3. item[i].status = "pending" => item[i].action # "queue"
    BY DEF ItemsStored
  <2>4. CASE i \in Chosen(actions)
    <3>1. item[i].action \in actions /\ item[i].status \in {"pending", "queued"}
      BY <2>4, ChosenWaits DEF Waiting
    <3>2. item'[i] = [item[i] EXCEPT !.status = IF @ = "queued" THEN "running" ELSE "injecting"]
      BY <2>4, Zenon DEF Consume
    <3>3. /\ item'[i].action = item[i].action
          /\ item'[i].status = IF item[i].status = "queued" THEN "running" ELSE "injecting"
          /\ item'[i] \in [action : Actions, status : Statuses]
      BY <2>1, <3>2 DEF Statuses, Waiting
    <3>. QED  BY <2>2, <2>3, <3>1, <3>3
  <2>5. CASE i \notin Chosen(actions)
    <3>1. item'[i] = item[i]
      BY <2>5, Zenon DEF Consume
    <3>. QED  BY <2>1, <3>1
  <2>. QED  BY <2>4, <2>5
<1>2. item' = [i \in Items |-> item'[i]]
  BY Zenon DEF Consume
<1>3. item' \in [Items -> [action : Actions, status : Statuses]]
  BY <1>1, <1>2
<1>. QED  BY <1>1, <1>3 DEF ItemsStored

\* The user submits an intervention.
LEMMA SubmitItems ==
  ASSUME ItemsStored, Submit
  PROVE  /\ ItemsStored'
         /\ \A i \in Items : item'[i].status \in {"injecting", "running"} =>
                               item'[i].status = item[i].status
<1>1. PICK i \in Items, action \in Actions : Store(i) \/ Check(i, action)
  BY DEF Submit, Actions
<1>2. item[i] \in [action : Actions, status : Statuses]
  BY DEF ItemsStored
<1>3. CASE Store(i)
  <2>1. item' = [item EXCEPT ![i].status = Stored(item[i].action)]
    BY <1>3 DEF Store
  <2>2. Stored(item[i].action) \in {"queued", "pending"}
        /\ (Stored(item[i].action) = "queued" <=> item[i].action = "queue")
    BY DEF Stored
  <2>3. item'[i] \in [action : Actions, status : Statuses]
        /\ item'[i].status = Stored(item[i].action) /\ item'[i].action = item[i].action
    BY <1>2, <2>1, <2>2 DEF ItemsStored, Statuses, Waiting
  <2>. QED  BY <2>1, <2>2, <2>3 DEF ItemsStored
<1>4. CASE Check(i, action)
  <2>1. item' = [item EXCEPT ![i] = [action |-> action, status |-> "checked"]]
    BY <1>4 DEF Check
  <2>2. [action |-> action, status |-> "checked"] \in [action : Actions, status : Statuses]
    BY DEF Statuses
  <2>. QED  BY <2>1, <2>2 DEF ItemsStored
<1>. QED  BY <1>1, <1>3, <1>4

\* The process starts again.
LEMMA ReloadItems ==
  ASSUME ItemsStored, NEW lagging, item' = Reloaded(lagging)
  PROVE  ItemsStored' /\ \A i \in Items : item'[i].status \notin {"injecting", "running"}
<1>1. ASSUME NEW i \in Items
      PROVE  /\ item'[i] \in [action : Actions, status : Statuses]
             /\ item'[i].status = "queued" => item'[i].action = "queue"
             /\ item'[i].status = "pending" => item'[i].action # "queue"
             /\ item'[i].status \notin {"injecting", "running"}
  <2>1. /\ item[i] \in [action : Actions, status : Statuses]
        /\ item[i].status = "queued" => item[i].action = "queue"
    BY DEF ItemsStored
  <2>2. Stored(item[i].action) \in {"queued", "pending"}
        /\ (Stored(item[i].action) = "queued" <=> item[i].action = "queue")
    BY DEF Stored
  <2>3. item'[i] = IF item[i].status = "checked" THEN [item[i] EXCEPT !.status = "failed"]
                   ELSE IF item[i].status \in InFlight \/ i \in lagging
                   THEN [item[i] EXCEPT !.status = Stored(item[i].action)]
                   ELSE item[i]
    BY Zenon DEF Reloaded
  <2>4. CASE item[i].status = "checked"
    <3>1. item'[i] = [item[i] EXCEPT !.status = "failed"]
      BY <2>3, <2>4
    <3>. QED  BY <2>1, <3>1 DEF Statuses
  <2>5. CASE item[i].status # "checked" /\ (item[i].status \in InFlight \/ i \in lagging)
    <3>1. item'[i] = [item[i] EXCEPT !.status = Stored(item[i].action)]
      BY <2>3, <2>5
    <3>. QED  BY <2>1, <2>2, <3>1 DEF Statuses, Waiting
  <2>6. CASE /\ item[i].status # "checked"
             /\ item[i].status \notin InFlight /\ i \notin lagging
    <3>1. item'[i] = item[i]
      BY <2>3, <2>6
    <3>. QED  BY <2>1, <2>6, <3>1 DEF ItemsStored, InFlight
  <2>. QED  BY <2>4, <2>5, <2>6
<1>2. item' = [i \in Items |-> item'[i]]
  BY Zenon DEF Reloaded
<1>3. item' \in [Items -> [action : Actions, status : Statuses]]
  BY <1>1, <1>2
<1>. QED  BY <1>1, <1>3 DEF ItemsStored

-----------------------------------------------------------------------------
\* The steps, by what they do to the interventions.

\* Where nothing is done to them, the place and the kind of the turn decide.
LEMMA KeepsItems ==
  ASSUME LoopInv, UNCHANGED <<item, torn>>, turn' \in Turns,
         turn.pc = "inject" => turn'.pc = "inject",
         turn.kind = "queue" /\ turn.pc \in MayHaveMail =>
           \/ turn'.kind = "queue" /\ turn'.pc \in MayHaveMail
           \/ \A i \in Items \ torn : item[i].status # "running",
         jobs' = "active" => turn'.pc \in MayHaveJobs,
         batch' => turn'.pc \in MayHaveMail,
         turn'.pc = "idle" => phase' = "idle"
  PROVE  LoopInv'
<1>1. ItemsStored'
  BY DEF LoopInv, ItemsStored
<1>. QED  BY <1>1 DEF LoopInv

\* A turn that takes interventions, or goes on at once.
LEMMA InjectsKeeps ==
  ASSUME LoopInv, NEW actions, actions \subseteq {"redirect", "steer", "stop"}, turn.pc # "inject",
         NEW next \in {"top", "prepare", "stopping"}, Injects(actions, next), turn.pc \in InLoop,
         jobs' = "active" => jobs = "active" \/ turn.pc \in MayHaveJobs,
         UNCHANGED <<batch, torn>>
  PROVE  LoopInv'
<1>1. /\ ItemsStored'
      /\ \A i \in Items :
           \/ item'[i].status = item[i].status
           \/ item'[i].status = "injecting"
  BY ConsumeItems DEF Injects, LoopInv
<1>2. turn' \in Turns /\ turn'.pc = "inject" /\ turn'.kind = turn.kind
  BY DEF Injects, LoopInv, Turns, Places, InLoop
<1>3. turn'.pc \in MayHaveJobs /\ turn'.pc \in MayHaveMail /\ turn'.pc # "idle"
  BY <1>2 DEF MayHaveJobs, MayHaveMail, Places, InLoop
<1>. QED  BY <1>1, <1>2, <1>3 DEF LoopInv

\* Turns start and end.
LEMMA TurnBoundary ==
  ASSUME LoopInv, UserTurn \/ InboxTurn \/ Starts \/ Leaves
  PROVE  LoopInv'
<1>. USE DEF At, Goto, NoTurn, Others, Turns, Places, InLoop, MayHaveJobs, MayHaveMail
<1>1. CASE UserTurn
  BY <1>1, KeepsItems DEF UserTurn, LoopInv
<1>2. CASE InboxTurn
  <2>1. PICK mail \in BOOLEAN :
          /\ batch' = mail
          /\ turn' = [NoTurn EXCEPT !.pc = IF mail THEN "start" ELSE "leaving", !.kind = "inbox"]
    BY <1>2 DEF InboxTurn
  <2>2. turn.pc = "idle" /\ UNCHANGED <<item, jobs, torn>>
    BY <1>2 DEF InboxTurn
  <2>3. CASE mail
    BY <2>1, <2>2, <2>3, KeepsItems DEF LoopInv
  <2>4. CASE ~mail
    BY <2>1, <2>2, <2>4, KeepsItems DEF LoopInv
  <2>. QED  BY <2>3, <2>4
<1>3. CASE Starts
  BY <1>3, KeepsItems DEF Starts, LoopInv, brokerVars
<1>4. CASE Leaves
  BY <1>4, KeepsItems DEF Leaves, SetPhase, LoopInv
<1>. QED  BY <1>1, <1>2, <1>3, <1>4

\* A turn that is over has no intervention that runs.
LEMMA OverKeeps ==
  ASSUME LoopInv, ItemsStored', torn' \subseteq Items,
         \A i \in Items \ torn' : item'[i].status \notin {"injecting", "running"},
         NEW pc \in {"settle", "leaving"}, turn' \in Turns, turn'.pc = pc,
         jobs' # "active", ~batch'
  PROVE  LoopInv'
BY DEF LoopInv

LEMMA OverIs ==
  ASSUME LoopInv, NEW pc \in {"settle", "leaving"}, Over(pc)
  PROVE  turn' \in Turns /\ turn'.pc = pc
BY DEF Over, NoTurn, LoopInv, Turns, Places, InLoop

\* The intervention of a turn that is over, outside of agent_loop.
LEMMA ItemOver ==
  ASSUME LoopInv, NEW status \in {"completed", "failed"}, Update(Held("running"), status),
         turn.pc # "inject"
  PROVE  ItemsStored' /\ \A i \in Items \ torn : item'[i].status \notin {"injecting", "running"}
<1>1. Held("running") \in SUBSET Items
  BY DEF Held
<1>2. /\ ItemsStored'
      /\ \A i \in Items :
           item'[i].status = IF i \in Held("running") THEN status ELSE item[i].status
  BY <1>1, UpdateItems DEF LoopInv
<1>. QED  BY <1>2 DEF LoopInv, Held

LEMMA RaisesKeeps ==
  ASSUME LoopInv, Raises
  PROVE  LoopInv'
<1>1. PICK applied \in SUBSET Held("injecting"), end \in {"failed", "completed"} :
        item' = [i \in Items |-> IF i \in applied THEN [item[i] EXCEPT !.status = Applied]
                                 ELSE IF i \in Held("running") THEN [item[i] EXCEPT !.status = end]
                                 ELSE item[i]]
  BY DEF Raises
<1>2. Applied \in {"injected", "completed"}
  BY DEF Applied
<1>3. ASSUME NEW i \in Items
      PROVE  /\ item'[i] \in [action : Actions, status : Statuses]
             /\ item'[i].action = item[i].action
             /\ item'[i].status \in {"injected", "completed", "failed", item[i].status}
  <2>1. item[i] \in [action : Actions, status : Statuses]
    BY DEF LoopInv, ItemsStored
  <2>. QED  BY <1>1, <1>2, <2>1 DEF Statuses, Waiting
<1>4. item' = [i \in Items |-> item'[i]]
  BY <1>1, Zenon
<1>5. item' \in [Items -> [action : Actions, status : Statuses]]
  BY <1>3, <1>4
<1>6. ItemsStored'
  BY <1>3, <1>5 DEF LoopInv, ItemsStored
<1>7. torn' = torn \cup Held("injecting") \cup Held("running")
  BY DEF Raises
<1>8. /\ torn' \subseteq Items
      /\ \A i \in Items \ torn' : item'[i].status \notin {"injecting", "running"}
  BY <1>3, <1>7 DEF Held, LoopInv
<1>9. turn' \in Turns /\ turn'.pc = "leaving"
  BY OverIs DEF Raises
<1>10. jobs' # "active" /\ ~batch'
  BY DEF Raises, CancelsJobs
<1>. QED  BY <1>6, <1>8, <1>9, <1>10, OverKeeps

LEMMA TurnOver ==
  ASSUME LoopInv, StartFails \/ Returned
  PROVE  LoopInv'
<1>. USE DEF At, MayHaveJobs, InLoop
<1>1. CASE StartFails
  <2>1. jobs' # "active" /\ ~batch'
    BY <1>1 DEF StartFails, LoopInv
  <2>2. ItemsStored' /\ \A i \in Items \ torn : item'[i].status \notin {"injecting", "running"}
    BY <1>1, ItemOver DEF StartFails
  <2>3. torn' = torn \cup Held("running") /\ torn \subseteq Items
    BY <1>1 DEF StartFails, LoopInv
  <2>4. turn' \in Turns /\ turn'.pc = "leaving"
    BY <1>1, OverIs DEF StartFails
  <2>. QED  BY <2>1, <2>2, <2>3, <2>4, OverKeeps DEF Held
<1>2. CASE Returned
  <2>1. jobs' # "active" /\ ~batch'
    BY <1>2 DEF Returned, LoopInv
  <2>2. ItemsStored' /\ \A i \in Items \ torn : item'[i].status \notin {"injecting", "running"}
    BY <1>2, ItemOver DEF Returned
  <2>3. torn' = torn /\ torn \subseteq Items
    BY <1>2 DEF Returned, Others, LoopInv
  <2>4. PICK pc \in {"settle", "leaving"} : Over(pc)
    BY <1>2 DEF Returned
  <2>5. turn' \in Turns /\ turn'.pc = pc
    BY <2>4, OverIs
  <2>. QED  BY <2>1, <2>2, <2>3, <2>5, OverKeeps
<1>. QED  BY <1>1, <1>2

\* The next intervention of the queue cannot be taken as it should.
LEMMA SettleFailsKeeps ==
  ASSUME LoopInv, SettleFails
  PROVE  LoopInv'
<1>1. turn.pc = "settle" /\ UNCHANGED <<phase, jobs, batch>>
  BY DEF SettleFails, At
<1>2. Consume({"queue"}) /\ torn' = torn \cup Chosen({"queue"})
  BY DEF SettleFails
<1>3. /\ ItemsStored'
      /\ \A i \in Items \ Chosen({"queue"}) : item'[i] = item[i]
  <2>1. \A i \in Items \ Chosen({"queue"}) : item'[i] = item[i]
    BY <1>2, Zenon DEF Consume
  <2>. QED  BY <1>2, <2>1, ConsumeItems DEF LoopInv
<1>4. torn' \subseteq Items
  BY <1>2, ChosenWaits DEF LoopInv
<1>5. \A i \in Items \ torn' : item'[i].status \notin {"injecting", "running"}
  BY <1>1, <1>2, <1>3 DEF LoopInv, MayHaveMail
<1>6. turn' \in Turns /\ turn'.pc = "leaving"
  BY DEF SettleFails, Goto, LoopInv, Turns, Places
<1>7. jobs' # "active" /\ ~batch'
  BY <1>1 DEF LoopInv, MayHaveJobs, MayHaveMail, InLoop
<1>. QED  BY <1>3, <1>4, <1>5, <1>6, <1>7, OverKeeps

\* The next intervention of the queue.
LEMMA SettlesKeeps ==
  ASSUME LoopInv, Settles
  PROVE  LoopInv'
<1>. USE DEF At, Goto, NoTurn, Others, Turns, Places, InLoop, MayHaveJobs, MayHaveMail
<1>1. turn.pc = "settle" /\ UNCHANGED <<phase, cancelled, jobs, batch, torn>>
  BY DEF Settles
<1>2. CASE Pending({"queue"})
  <2>1. Consume({"queue"}) /\ turn' = [NoTurn EXCEPT !.pc = "start", !.kind = "queue"]
    BY <1>2 DEF Settles
  <2>2. /\ ItemsStored'
        /\ \A i \in Items :
             item'[i].status = item[i].status \/ item'[i].status = "running"
    <3>1. {"queue"} \ {"queue"} = {}
      OBVIOUS
    <3>. QED  BY <2>1, <3>1, ConsumeItems DEF LoopInv
  <2>3. turn' \in Turns /\ turn'.pc = "start" /\ turn'.kind = "queue"
    BY <2>1
  <2>. QED  BY <1>1, <2>2, <2>3 DEF LoopInv
<1>3. CASE ~Pending({"queue"})
  BY <1>1, <1>3, KeepsItems DEF Settles, LoopInv
<1>. QED  BY <1>2, <1>3

\* agent_loop: interventions that were taken have been added to the messages, or a
\* stop is taken.
LEMMA InjectedAndStops ==
  ASSUME LoopInv, Injected \/ Stops
  PROVE  LoopInv'
<1>. USE DEF At, Goto, LoopOnly, JobsOnly, Turns, Places, InLoop, MayHaveJobs, MayHaveMail
<1>1. CASE Injected
  <2>1. Held("injecting") \in SUBSET Items /\ Applied \in {"injected", "completed", "failed"}
    BY DEF Held, Applied
  <2>2. /\ ItemsStored'
        /\ \A i \in Items :
             item'[i].status = IF i \in Held("injecting") THEN Applied ELSE item[i].status
    BY <1>1, <2>1, UpdateItems DEF Injected, LoopInv
  <2>3. turn' \in Turns /\ turn'.pc \in {"top", "prepare", "stopping"} /\ turn'.kind = turn.kind
    BY <1>1 DEF Injected, LoopInv
  <2>4. turn.pc = "inject" /\ UNCHANGED <<jobs, batch, torn>>
    BY <1>1 DEF Injected
  <2>5. \A i \in Items \ torn' :
          /\ item'[i].status # "injecting"
          /\ item'[i].status = "running" => item[i].status = "running"
    BY <2>1, <2>2, <2>4 DEF Held
  <2>6. ItemsStored' /\ torn' = torn
    BY <2>2, <2>4
  <2>7. (jobs' = "active" => turn'.pc \in MayHaveJobs) /\ turn'.pc # "idle"
    BY <2>3
  <2>8. \A i \in Items \ torn' :
          /\ item'[i].status # "injecting"
          /\ item'[i].status = "running" => turn'.kind = "queue" /\ turn'.pc \in MayHaveMail
    <3>1. turn'.pc \in MayHaveMail
      BY <2>3
    <3>. SUFFICES ASSUME NEW i \in Items \ torn'
                  PROVE  /\ item'[i].status # "injecting"
                         /\ item'[i].status = "running" => turn'.kind = "queue"
      BY <3>1
    <3>2. item[i].status = "running" => turn.kind = "queue"
      BY <2>4 DEF LoopInv
    <3>. QED  BY <2>3, <2>5, <3>2
  <2>. QED  BY <2>3, <2>4, <2>6, <2>7, <2>8 DEF LoopInv
<1>2. CASE Stops
  <2>1. turn.pc = "top" /\ UNCHANGED <<jobs, batch, torn>> /\ Injects({"stop"}, "stopping")
    BY <1>2 DEF Stops
  <2>. QED  BY <2>1, InjectsKeeps
<1>. QED  BY <1>1, <1>2

\* agent_loop: the steps that leave the interventions alone.
LEMMA LoopPlain ==
  ASSUME LoopInv,
         \/ Stopped \/ Prepares \/ PrepareFails \/ Overflows \/ ProviderFails \/ CutOff
         \/ Answers \/ BarrierHolds \/ Ends \/ ToolRuns \/ NextTool
  PROVE  LoopInv'
<1>. USE KeepsItems DEF At, Goto, LoopOnly, JobsOnly, CancelsJobs, EndsWithError, SetPhase,
                        brokerVars, LoopInv, Turns, Places, InLoop, MayHaveJobs, MayHaveMail
<1>1. CASE Stopped
  BY <1>1 DEF Stopped
<1>2. CASE Prepares
  BY <1>2 DEF Prepares
<1>3. CASE PrepareFails
  BY <1>3 DEF PrepareFails
<1>4. CASE Overflows
  <2>1. turn.pc = "llm" /\ UNCHANGED <<phase, batch, torn>>
    BY <1>4 DEF Overflows
  <2>2. CASE turn' = [turn EXCEPT !.pc = "top", !.reactive = TRUE] /\ UNCHANGED <<item, jobs>>
    BY <2>1, <2>2
  <2>3. CASE jobs' = "none" /\ Goto("returned") /\ UNCHANGED item
    BY <2>1, <2>3
  <2>. QED  BY <1>4, <2>2, <2>3 DEF Overflows
<1>5. CASE ProviderFails
  BY <1>5 DEF ProviderFails
<1>6. CASE CutOff
  <2>1. turn.pc = "llm" /\ UNCHANGED <<phase, batch, torn>>
    BY <1>6 DEF CutOff, Answered
  <2>2. CASE /\ turn' = [turn EXCEPT !.pc = "top", !.escalated = TRUE]
             /\ UNCHANGED <<item, jobs, lingering>>
    BY <2>1, <2>2
  <2>3. CASE /\ turn' = [turn EXCEPT !.pc = "top", !.retries = @ + 1]
             /\ UNCHANGED <<item, jobs, lingering>>
    <3>1. turn.retries + 1 \in Nat
      OBVIOUS
    <3>. QED  BY <2>1, <2>3, <3>1
  <2>4. CASE jobs' = "none" /\ Goto("returned") /\ UNCHANGED item
    BY <2>1, <2>4
  <2>. QED  BY <1>6, <2>2, <2>3, <2>4 DEF CutOff
<1>7. CASE Answers
  BY <1>7 DEF Answers, Answered
<1>8. CASE BarrierHolds
  BY <1>8 DEF BarrierHolds
<1>9. CASE Ends
  BY <1>9 DEF Ends
<1>10. CASE ToolRuns
  BY <1>10 DEF ToolRuns
<1>11. CASE NextTool
  BY <1>11 DEF NextTool
<1>. QED
  BY <1>1, <1>2, <1>3, <1>4, <1>5, <1>6, <1>7, <1>8, <1>9, <1>10, <1>11

\* agent_loop: the steps that may take interventions.
LEMMA LoopInjects ==
  ASSUME LoopInv, GoesOn \/ Discards \/ Finalizes \/ ToolsDone
  PROVE  LoopInv'
<1>. USE DEF At, Goto, LoopOnly, JobsOnly, SetPhase, Turns, Places, InLoop, MayHaveJobs, MayHaveMail
<1>1. CASE GoesOn
  <2>1. turn.pc = "top" /\ UNCHANGED <<batch, torn>> /\ (jobs' = "active" => jobs = "active")
    BY <1>1 DEF GoesOn
  <2>2. \/ Injects({"redirect", "steer"}, "prepare")
        \/ UNCHANGED item /\ Goto("prepare")
    BY <1>1 DEF GoesOn
  <2>3. CASE Injects({"redirect", "steer"}, "prepare")
    BY <2>1, <2>3, InjectsKeeps
  <2>4. CASE UNCHANGED item /\ Goto("prepare")
    BY <2>1, <2>4, KeepsItems DEF LoopInv
  <2>. QED  BY <2>2, <2>3, <2>4
<1>2. CASE Discards
  <2>1. turn.pc = "llm" /\ UNCHANGED <<batch, jobs, torn>>
    BY <1>2 DEF Discards
  <2>2. Injects({"redirect"}, "top") \/ (UNCHANGED item /\ Goto("top"))
    BY <1>2 DEF Discards
  <2>3. CASE Injects({"redirect"}, "top")
    BY <2>1, <2>3, InjectsKeeps
  <2>4. CASE UNCHANGED item /\ Goto("top")
    BY <2>1, <2>4, KeepsItems DEF LoopInv
  <2>. QED  BY <2>2, <2>3, <2>4
<1>3. CASE Finalizes
  <2>1. turn.pc = "barrier" /\ jobs # "active" /\ UNCHANGED <<batch, jobs, torn>>
    BY <1>3 DEF Finalizes
  <2>2. Injects({"redirect", "steer"}, "top") \/ (UNCHANGED item /\ Goto("final"))
    BY <1>3 DEF Finalizes
  <2>3. CASE Injects({"redirect", "steer"}, "top")
    BY <2>1, <2>3, InjectsKeeps
  <2>4. CASE UNCHANGED item /\ Goto("final")
    BY <2>1, <2>4, KeepsItems DEF LoopInv
  <2>. QED  BY <2>2, <2>3, <2>4
<1>4. CASE ToolsDone
  <2>1. turn.pc = "after" /\ UNCHANGED <<batch, jobs, torn>>
    BY <1>4 DEF ToolsDone
  <2>2. Injects({"redirect", "steer"}, "top") \/ (UNCHANGED item /\ Goto("top"))
    BY <1>4 DEF ToolsDone
  <2>3. CASE Injects({"redirect", "steer"}, "top")
    BY <2>1, <2>3, InjectsKeeps
  <2>4. CASE UNCHANGED item /\ Goto("top")
    BY <2>1, <2>4, KeepsItems DEF LoopInv
  <2>. QED  BY <2>2, <2>3, <2>4
<1>. QED  BY <1>1, <1>2, <1>3, <1>4

\* What goes on beside the turn.
LEMMA Beside ==
  ASSUME LoopInv, JobsEnd \/ Crash \/ Submit
  PROVE  LoopInv'
<1>1. CASE JobsEnd
  BY <1>1, KeepsItems DEF JobsEnd, brokerVars, LoopOnly, JobsOnly, LoopInv
<1>2. CASE Crash
  <2>1. ItemsStored' /\ \A i \in Items : item'[i].status \notin {"injecting", "running"}
    <3>1. PICK lagging \in SUBSET torn : BrokerCrash(lagging)
      BY <1>2 DEF Crash
    <3>. QED  BY <3>1, ReloadItems DEF BrokerCrash, LoopInv
  <2>2. turn' \in Turns
    BY <1>2 DEF Crash, NoTurn, Turns, Places
  <2>. QED  BY <1>2, <2>1, <2>2 DEF Crash, BrokerCrash, LoopInv
<1>3. CASE Submit
  <2>1. /\ ItemsStored'
        /\ \A i \in Items : item'[i].status \in {"injecting", "running"} =>
                              item'[i].status = item[i].status
    BY <1>3, SubmitItems DEF LoopInv
  <2>2. UNCHANGED <<turn, jobs, batch, torn, phase>>
    BY <1>3 DEF Submit, turnVars, Store, Check
  <2>. QED  BY <2>1, <2>2 DEF LoopInv
<1>. QED  BY <1>1, <1>2, <1>3

-----------------------------------------------------------------------------
LEMMA LoopInvInit == Init => LoopInv
<1>. SUFFICES ASSUME Init  PROVE  LoopInv
  OBVIOUS
<1>1. ItemsStored /\ \A i \in Items : item[i].status = "new"
  BY DEF Init, BrokerInit, ItemsStored, Actions, Statuses
<1>2. turn \in Turns /\ turn.pc = "idle"
  BY DEF Init, NoTurn, Turns, Places
<1>3. jobs = "none" /\ ~batch /\ phase = "idle" /\ torn \subseteq Items
  BY DEF Init, BrokerInit
<1>. QED  BY <1>1, <1>2, <1>3 DEF LoopInv

LEMMA LoopInvNext == LoopInv /\ [Next]_vars => LoopInv'
<1>. SUFFICES ASSUME LoopInv, [Next]_vars  PROVE  LoopInv'
  OBVIOUS
<1>1. CASE Next
  BY <1>1, TurnBoundary, TurnOver, RaisesKeeps, SettlesKeeps, SettleFailsKeeps, InjectedAndStops, LoopPlain, LoopInjects, Beside
     DEF Next, TurnStep
<1>2. CASE UNCHANGED vars
  BY <1>2, KeepsItems DEF vars, brokerVars, turnVars, LoopInv
<1>. QED  BY <1>1, <1>2

LEMMA LoopInvLeavesNothing == LoopInv => TurnLeavesNothing
BY DEF LoopInv, TurnLeavesNothing, InFlight, MayHaveJobs, MayHaveMail, Places, InLoop

\* A turn of the Lead that is over (agent.py run_turn, run_pending_lead_inbox),
\* whatever ended it, leaves no sub-agent at work but those cancel_turn has told to
\* stop, no intervention half applied but those an exception caught in between, no mail
\* held for it and a phase that takes stops only.
THEOREM AgentLoopTurnLeavesNothing == Spec => []TurnLeavesNothing
<1>1. Spec => []LoopInv
  BY LoopInvInit, LoopInvNext, PTL DEF Spec
<1>. QED  BY <1>1, LoopInvLeavesNothing, PTL
================================================================================
