----------------------------- MODULE Interactions -----------------------------
(***************************************************************************)
(* InteractionBroker (interactions.py) for the target "main": what the     *)
(* user asks of a running Lead (steer, queue, redirect, stop), the phase   *)
(* the Lead shows, and its cancel event.  The items are on disk, for the   *)
(* broker writes its file before it lets its lock go (a write that fails   *)
(* raises, and the file lags behind); phase and event are not.  submit() looks at the phase and stores the item in two steps.     *)
(***************************************************************************)
EXTENDS Naturals

CONSTANTS
  MaxItems   \* how many interventions are submitted

Items == 1..MaxItems    \* in the order of created_at

VARIABLES
  item,        \* _items
  phase,       \* _phases["main"]
  cancelled    \* _cancel_events["main"]

brokerVars == <<item, phase, cancelled>>

Actions == {"stop", "redirect", "steer", "queue"}
Quiet == {"idle", "stopped"}
Phases == Quiet \cup {"llm_running", "tool_running", "finalizing"}
Waiting == {"pending", "queued"}
Statuses == Waiting \cup {"new", "checked", "injecting", "running", "injected",
                          "completed", "failed"}

BrokerInit ==
  /\ item = [i \in Items |-> [action |-> "stop", status |-> "new"]]
  /\ phase = "idle"
  /\ cancelled = FALSE

Stored(action) == IF action = "queue" THEN "queued" ELSE "pending"

-----------------------------------------------------------------------------
\* submit, and submit_interaction of its callers: the phase is read.  A quiet
\* Lead takes a stop only.
Check(i, action) ==
  /\ item[i].status = "new" /\ \A j \in 1..(i - 1) : item[j].status # "new"
  /\ action # "stop" => phase \notin Quiet
  /\ item' = [item EXCEPT ![i] = [action |-> action, status |-> "checked"]]
  /\ UNCHANGED <<phase, cancelled>>

\* submit: the item is stored, and a stop sets the event.
Store(i) ==
  /\ item[i].status = "checked"
  /\ item' = [item EXCEPT ![i].status = Stored(item[i].action)]
  /\ cancelled' = (cancelled \/ item[i].action = "stop")
  /\ UNCHANGED phase

\* set_phase, which clears the event of a Lead that becomes quiet.
SetPhase(value) ==
  /\ phase' = value
  /\ cancelled' = (cancelled /\ value \notin Quiet)

\* pending
Pending(actions) == \E i \in Items : item[i].action \in actions /\ item[i].status \in Waiting

Priority == [stop |-> 0, redirect |-> 1, steer |-> 2, queue |-> 3]

Before(i, j) ==
  LET p == Priority[item[i].action] q == Priority[item[j].action] IN
  p < q \/ (p = q /\ i < j)

\* consume: the first in the order of priority and age, or all steers.
Chosen(actions) ==
  LET candidates == {i \in Items : item[i].action \in actions /\ item[i].status \in Waiting}
      first == {i \in candidates : \A j \in candidates \ {i} : Before(i, j)} IN
  IF \E i \in first : item[i].action = "steer"
  THEN {i \in candidates : item[i].action = "steer"} ELSE first

\* consume
Consume(actions) ==
  item' = [i \in Items |->
    IF i \in Chosen(actions)
    THEN [item[i] EXCEPT !.status = IF @ = "queued" THEN "running" ELSE "injecting"]
    ELSE item[i]]

\* update, of the items the Lead holds.
Update(held, to) ==
  item' = [i \in Items |-> IF i \in held THEN [item[i] EXCEPT !.status = to] ELSE item[i]]

InFlight == {"injecting", "running"}

\* Fault: what was in flight is left as it was.
ReloadedFaulty(lagging) == item

\* _load: work in flight goes back to a safe boundary, and for the file so are the
\* items whose last update it lacks.  An item that was not stored is gone (the
\* numbers are only an order, so it may be submitted anew).
Reloaded(lagging) ==
  [i \in Items |->
     IF item[i].status = "checked" THEN [item[i] EXCEPT !.status = "failed"]
     ELSE IF item[i].status \in InFlight \/ i \in lagging
     THEN [item[i] EXCEPT !.status = Stored(item[i].action)]
     ELSE item[i]]

\* The process dies and starts again.
BrokerCrash(lagging) ==
  /\ item' = Reloaded(lagging)
  /\ phase' = "idle"
  /\ cancelled' = FALSE

BrokerType ==
  /\ item \in [Items -> [action : Actions, status : Statuses]]
  /\ phase \in Phases
  /\ cancelled \in BOOLEAN
===============================================================================
