------------------------------- MODULE LeadInbox -------------------------------
(***************************************************************************)
(* How the Lead is woken and what it acknowledges: claim_lead_inbox,       *)
(* ack_lead_inbox and nack_lead_inbox of gugugaga/teams.py around one      *)
(* mailbox (MessageBus), the event _lead_inbox_event, the inbox loop of    *)
(* GugugagaApp, the turns of SourceRuntime, and the outbox of matching     *)
(* requests that the task records are.                                     *)
(*                                                                         *)
(* Of a task record only what the outbox reads is kept here (TaskStore has *)
(* the rest).  The consumers are "turn", the Lead's turn, and "tool", the  *)
(* check_inbox tool that a turn may call while it holds a batch itself.    *)
(***************************************************************************)
EXTENDS MessageBus, Integers, FiniteSets

CONSTANTS
    Waking,     \* messages whose type is in _LEAD_WAKE_MESSAGE_TYPES
    Tasks,      \* tasks with a record
    MaxRev,     \* bound on matching_revision
    MaxFailures,\* bound on failed turns
    MaxCrashes  \* bound on process crashes

ASSUME LeadAssumption ==
    /\ Waking \subseteq Messages
    /\ Consumers = {"turn", "tool"}
    /\ MaxRev \in Nat \ {0} /\ MaxFailures \in Nat /\ MaxCrashes \in Nat

VARIABLES
    wake,       \* _lead_inbox_event
    ringing,    \* threads between a durable change and wake.set()
    booted,     \* the inbox loop has looked at what was left unread
    pc,         \* where each consumer is
    versions,   \* the matching requests each consumer's batch carries
    record,     \* the outbox: what the task records say of matching
    sent,       \* history: messages in the mailbox's file at some time
    handled,    \* history: messages of a batch that was acknowledged
    failures, crashes

leadVars == <<wake, ringing, booted, pc, versions, record, sent, handled, failures, crashes>>
vars == <<mailbox, leadVars>>

-----------------------------------------------------------------------------
Record ==
    [state: {"open", "assigned", "owned"},  \* pending, pending with an assignee, owned
     settled: BOOLEAN,                      \* matching_status = "matched"
     rev: 1..MaxRev, notified: 0..MaxRev]

\* pending_matching_requests
Unresolved(r) == r.state = "open" /\ ~r.settled
PendingRequests == {t \in Tasks : Unresolved(record[t]) /\ record[t].rev > record[t].notified}

\* _lead_inbox_has_pending
HasPending == PendingRequests # {} \/ HasUnread

Rematched(r) == [r EXCEPT !.rev = @ + 1, !.settled = FALSE]

Init ==
    /\ MailboxInit
    /\ wake = FALSE
    /\ ringing = 0
    /\ booted = FALSE
    /\ pc = [c \in Consumers |-> "idle"]
    /\ versions = [c \in Consumers |-> [t \in Tasks |-> 0]]
    /\ record = [t \in Tasks |-> [state |-> "open", settled |-> FALSE, rev |-> 1, notified |-> 0]]
    /\ sent = {}
    /\ handled = {}
    /\ failures = 0
    /\ crashes = 0

-----------------------------------------------------------------------------
(* Senders, and changes of the task records                                *)

\* BUS.send: the line is on disk before the event is set.
Send(m) ==
    /\ m \notin sent
    /\ SendTo(m)
    /\ sent' = sent \cup {m}
    /\ ringing' = IF m \in Waking THEN ringing + 1 ELSE ringing
    /\ UNCHANGED <<wake, booted, pc, versions, record, handled, failures, crashes>>

\* Requirements change, a member is edited, a dependency completes.
RequestRematch(t) ==
    /\ record[t].state = "open"
    /\ record[t].rev < MaxRev
    /\ record' = [record EXCEPT ![t] = Rematched(@)]
    /\ ringing' = ringing + 1
    /\ UNCHANGED <<mailbox, wake, booted, pc, versions, sent, handled, failures, crashes>>

Ring ==
    /\ ringing > 0
    /\ ringing' = ringing - 1
    /\ wake' = TRUE
    /\ UNCHANGED <<mailbox, booted, pc, versions, record, sent, handled, failures, crashes>>

\* Assigned by hand; or claimed, by the assignee or by a matched candidate.
TakeOver(t) ==
    /\ \/ /\ record[t].state = "open"
          /\ record' = [record EXCEPT ![t].state = "assigned"]
       \/ /\ record[t].state = "assigned" \/ (record[t].state = "open" /\ record[t].settled)
          /\ record' = [record EXCEPT ![t].state = "owned"]
    /\ UNCHANGED <<mailbox, wake, ringing, booted, pc, versions, sent, handled, failures, crashes>>

\* Unassigned, released, or given back as a mismatch.
GiveBack(t) ==
    /\ record[t].state # "open"
    /\ record[t].rev < MaxRev
    /\ record' = [record EXCEPT ![t] = [Rematched(@) EXCEPT !.state = "open"]]
    /\ ringing' = ringing + 1
    /\ UNCHANGED <<mailbox, wake, booted, pc, versions, sent, handled, failures, crashes>>

-----------------------------------------------------------------------------
(* claim_lead_inbox                                                        *)

Goto(c, label) == pc' = [pc EXCEPT ![c] = label]

\* start_lead_inbox_loop: signal_pending_lead_inbox comes first.
Boot ==
    /\ ~booted
    /\ booted' = TRUE
    /\ wake' = (wake \/ HasPending)
    /\ UNCHANGED <<mailbox, ringing, pc, versions, record, sent, handled, failures, crashes>>

\* The loop was woken and the Lead is idle: run_pending_lead_inbox.
LoopTurn ==
    /\ booted /\ wake
    /\ pc["turn"] = "idle"
    /\ Goto("turn", "clear")
    /\ UNCHANGED <<mailbox, wake, ringing, booted, versions, record, sent, handled, failures, crashes>>

\* The user's turn takes the inbox along.
UserTurn ==
    /\ pc["turn"] = "idle"
    /\ Goto("turn", "clear")
    /\ UNCHANGED <<mailbox, wake, ringing, booted, versions, record, sent, handled, failures, crashes>>

\* The turn's model calls check_inbox.
CheckInbox ==
    /\ pc["turn"] = "run" /\ pc["tool"] = "idle"
    /\ Goto("tool", "clear")
    /\ UNCHANGED <<mailbox, wake, ringing, booted, versions, record, sent, handled, failures, crashes>>

ClearEvent(c) ==
    /\ pc[c] = "clear"
    /\ wake' = FALSE
    /\ Goto(c, "claim")
    /\ UNCHANGED <<mailbox, ringing, booted, versions, record, sent, handled, failures, crashes>>

\* BUS.claim_inbox("lead"): what was left behind first.
Recover(c) ==
    /\ pc[c] = "claim"
    /\ CollectLeft(c) \/ WriteRecovered(c)
    /\ UNCHANGED leadVars

Claim(c) ==
    /\ pc[c] = "claim"
    /\ ClaimRecovered(c)
    /\ Goto(c, "requests")
    /\ UNCHANGED <<wake, ringing, booted, versions, record, sent, handled, failures, crashes>>

\* The pending requests become one more message of the batch.
ReadRequests(c) ==
    /\ pc[c] = "requests"
    /\ versions' = [versions EXCEPT ![c] =
                       [t \in Tasks |-> IF t \in PendingRequests THEN record[t].rev ELSE 0]]
    /\ Goto(c, "recheck")
    /\ UNCHANGED <<mailbox, wake, ringing, booted, record, sent, handled, failures, crashes>>

Recheck(c) ==
    /\ pc[c] = "recheck"
    /\ wake' = (wake \/ HasPending)
    /\ Goto(c, "run")
    /\ UNCHANGED <<mailbox, ringing, booted, versions, record, sent, handled, failures, crashes>>

-----------------------------------------------------------------------------
(* The turn, and its end                                                   *)

\* set_task_candidates with the revision of the batch, in the turn.
Match(t) ==
    /\ pc["turn"] = "run"
    /\ record[t].state = "open"
    /\ \E c \in Consumers : versions[c][t] = record[t].rev
    /\ record' = [record EXCEPT ![t].settled = TRUE, ![t].notified = record[t].rev]
    /\ UNCHANGED <<mailbox, wake, ringing, booted, pc, versions, sent, handled, failures, crashes>>

\* A turn ends after the tools it called; check_inbox has nothing to wait for.
MayEnd(c) == pc[c] = "run" /\ (c = "turn" => pc["tool"] = "idle")

\* ack_lead_inbox: the mail first.
AckMail(c) ==
    /\ MayEnd(c)
    /\ AckInbox(c)
    /\ handled' = handled \cup Content(held[c])
    /\ Goto(c, "compare")
    /\ UNCHANGED <<wake, ringing, booted, versions, record, sent, failures, crashes>>

\* Then it compares each request with the record, read without a lock: one that
\* is still unresolved in the same revision is not acknowledged.
\* (Fault: whatever the turn was shown counts as done.)
KeepsFaulty(r, revision) == FALSE
Keeps(r, revision) == Unresolved(r) /\ r.rev = revision

CompareRequests(c) ==
    /\ pc[c] = "compare"
    /\ versions' = [versions EXCEPT ![c] =
                       [t \in Tasks |-> IF Keeps(record[t], @[t]) THEN 0 ELSE @[t]]]
    /\ Goto(c, "notified")
    /\ UNCHANGED <<mailbox, wake, ringing, booted, record, sent, handled, failures, crashes>>

\* ack_matching_requests, one record under its lock; nothing is written into a
\* record that is owned.
Acked(r, revision) ==
    LET n == IF revision < r.rev THEN revision ELSE r.rev IN
    IF r.state # "owned" /\ n > r.notified THEN [r EXCEPT !.notified = n] ELSE r

AckRequest(c, t) ==
    /\ pc[c] = "notified"
    /\ versions[c][t] # 0
    /\ record' = [record EXCEPT ![t] = Acked(@, versions[c][t])]
    /\ versions' = [versions EXCEPT ![c][t] = 0]
    /\ UNCHANGED <<mailbox, wake, ringing, booted, pc, sent, handled, failures, crashes>>

\* signal_pending_lead_inbox
Signal(c) ==
    /\ pc[c] = "notified"
    /\ \A t \in Tasks : versions[c][t] = 0
    /\ wake' = (wake \/ HasPending)
    /\ Goto(c, "idle")
    /\ UNCHANGED <<mailbox, ringing, booted, versions, record, sent, handled, failures, crashes>>

Carries(c) ==
    Content(held[c]) # {} \/ \E t \in Tasks : versions[c][t] # 0

\* The turn raised, or reported that its provider failed: nack_lead_inbox.  Or the
\* routing of the batch raised, before the turn began: nack_inbox in the claim.  (What
\* raises between the two, as start_turn may, leaves the batch claimed until the next
\* start and is left out.)
Fail(c) ==
    /\ MayEnd(c) \/ pc[c] = "recheck"
    /\ Carries(c)
    /\ failures < MaxFailures
    /\ failures' = failures + 1
    /\ \/ held[c] = NoFile /\ Goto(c, "requeued") /\ UNCHANGED mailbox
       \/ NackWrite(c) /\ Goto(c, "unlink")
    /\ UNCHANGED <<wake, ringing, booted, versions, record, sent, handled, crashes>>

Unlink(c) ==
    /\ pc[c] = "unlink"
    /\ NackUnlink(c)
    /\ Goto(c, "requeued")
    /\ UNCHANGED <<wake, ringing, booted, versions, record, sent, handled, failures, crashes>>

\* Fault: the event is not set again.
RequeuedFaulty(c) ==
    /\ pc[c] = "requeued"
    /\ versions' = [versions EXCEPT ![c] = [t \in Tasks |-> 0]]
    /\ Goto(c, "idle")
    /\ UNCHANGED <<mailbox, wake, ringing, booted, record, sent, handled, failures, crashes>>
Requeued(c) ==
    /\ pc[c] = "requeued"
    /\ wake' = TRUE
    /\ versions' = [versions EXCEPT ![c] = [t \in Tasks |-> 0]]
    /\ Goto(c, "idle")
    /\ UNCHANGED <<mailbox, ringing, booted, record, sent, handled, failures, crashes>>

Crash ==
    /\ crashes < MaxCrashes
    /\ crashes' = crashes + 1
    /\ MailboxCrash
    /\ wake' = FALSE
    /\ ringing' = 0
    /\ booted' = FALSE
    /\ pc' = [c \in Consumers |-> "idle"]
    /\ versions' = [c \in Consumers |-> [t \in Tasks |-> 0]]
    /\ UNCHANGED <<record, sent, handled, failures>>

ConsumerStep(c) ==
    \/ ClearEvent(c) \/ Recover(c) \/ Claim(c) \/ ReadRequests(c) \/ Recheck(c)
    \/ AckMail(c) \/ CompareRequests(c) \/ (\E t \in Tasks : AckRequest(c, t)) \/ Signal(c)
    \/ Unlink(c) \/ Requeued(c)

Next ==
    \/ \E m \in Messages : Send(m)
    \/ \E t \in Tasks : RequestRematch(t) \/ TakeOver(t) \/ GiveBack(t) \/ Match(t)
    \/ Ring \/ Boot \/ LoopTurn \/ UserTurn \/ CheckInbox
    \/ \E c \in Consumers : ConsumerStep(c) \/ Fail(c)
    \/ Crash

\* The threads go on: those that are to set the event, the inbox loop, and a turn
\* that has begun.  Of the model it is asked that it ends its turns instead of
\* calling check_inbox for ever (agent_loop has no bound on rounds); nothing is
\* asked of the user, and up to MaxFailures turns fail.
Fairness ==
    /\ WF_vars(Ring) /\ WF_vars(Boot) /\ WF_vars(LoopTurn)
    /\ \A c \in Consumers : WF_vars(ConsumerStep(c))
    /\ SF_vars(AckMail("turn"))

Spec == Init /\ [][Next]_vars
FairSpec == Spec /\ Fairness

-----------------------------------------------------------------------------
(* Properties                                                              *)

TypeOK ==
    /\ MailboxType
    /\ wake \in BOOLEAN /\ booted \in BOOLEAN
    /\ ringing \in Nat /\ failures \in Nat /\ crashes \in Nat
    /\ pc \in [Consumers -> {"idle", "clear", "claim", "requests", "recheck", "run",
                             "compare", "notified", "unlink", "requeued"}]
    /\ versions \in [Consumers -> [Tasks -> 0..MaxRev]]
    /\ record \in [Tasks -> Record]
    /\ sent \subseteq Messages /\ handled \subseteq Messages

\* Whatever was sent is in a file, or in the hands of the claim that recovers it, until
\* it was handled by a turn that ended well or is a dead letter; wherever the process
\* dies, unless a claim had collected it then, which takes a second death.  And a
\* handled message is in no file any more, although a turn and its check_inbox hold two
\* batches at once, and a nack that was cut off leaves a message in two files.
DeliveredOnce ==
    /\ sent \subseteq Unread \cup Range(recovered) \cup handled \cup dead \cup lost
    /\ handled \cap (Unread \cup Range(recovered)) = {}
    /\ lost # {} => crashes > 1

\* As the README has it ("at least once"), and the start-up that recovers what was left
\* behind: without the exception.
AtLeastOnce ==
    sent \subseteq Unread \cup Range(recovered) \cup handled \cup dead

\* The files of the mailbox keep its promise, for a turn and its check_inbox, through
\* nacks and recoveries in several steps and crashes anywhere; and the Lead, which
\* collects all that was left behind, takes nothing twice.
Box == INSTANCE Mailbox WITH Readers <- Consumers, waiting <- Waiting, taken <- Taken,
                             returning <- Returning, left <- LeftBehind, doubled <- {}
ImplementsMailbox == Box!Spec

\* The outbox: a request is never acknowledged in the revision that still needs
\* the Lead, although ack_lead_inbox compares the record without its lock.
UnresolvedStaysPending == \A t \in Tasks : Unresolved(record[t]) => t \in PendingRequests

\* A message of a waking type is handled in the end, or lost as DeliveredOnce allows,
\* through failed turns, crashes and messages that arrive while a batch is being claimed.
WakingMailHandled ==
    \A m \in Waking \ Malformed : m \in sent ~> m \in handled \cup lost

=============================================================================
