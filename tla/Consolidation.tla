---------------------------- MODULE Consolidation ----------------------------
(***************************************************************************)
(* How exchanges become memory: the workers of gugugaga/memory/service.py  *)
(* that claim a batch, have a model look at it, and commit or release it   *)
(* (gugugaga/memory/repository.py; the tables are ConsolidationTables).    *)
(*                                                                         *)
(* A method of the repository is one transaction and one step.  Between    *)
(* the claim and the commit of a batch the model is at work, and nothing   *)
(* but the batch's lease tells the others.  There is one worker for each   *)
(* MemoryService; the one of a service that was closed goes on with what   *)
(* it has begun, beside the worker of the next service.                    *)
(***************************************************************************)
EXTENDS ConsolidationTables

CONSTANTS
    Workers,     \* 1..n, in the order in which they are started
    MaxFailures, \* bound on failures of the model and of the database
    MaxCrashes   \* bound on process crashes

ASSUME ConsolidationAssumption ==
    /\ Workers \subseteq Nat
    /\ MaxFailures \in Nat /\ MaxCrashes \in Nat

VARIABLES
    worker,      \* the worker threads
    closing,     \* workers whose service was closed: _stop is set
    failures, crashes

vars == <<chat, batch, worker, closing, saved, reset, failures, crashes>>

-----------------------------------------------------------------------------
\* batch, exchanges: the Batch the worker was handed by its claim
WorkerRec == [pc: {"unborn", "wait", "claim", "model", "failing", "dead"},
              batch: Batches \cup {NoBatch}, exchanges: SUBSET Exchanges]
Unborn == [pc |-> "unborn", batch |-> NoBatch, exchanges |-> {}]

Init ==
    /\ chat = [e \in Exchanges |->
                  [status |-> "incomplete", batch |-> NoBatch, due |-> TRUE, error |-> FALSE]]
    /\ batch = [b \in Batches |-> [status |-> "none", lease |-> "null"]]
    /\ worker = [w \in Workers |-> Unborn]
    /\ closing = {}
    /\ saved = [e \in Exchanges |-> 0]
    /\ reset = {}
    /\ failures = 0
    /\ crashes = 0

At(w, label) == worker[w].pc = label
Goto(w, label) == worker' = [worker EXCEPT ![w].pc = label]
LetGo(w, label) == worker' = [worker EXCEPT ![w] = [Unborn EXCEPT !.pc = label]]
Serving(w) == worker[w].pc \notin {"unborn", "dead"} /\ w \notin closing
Fails == failures < MaxFailures /\ failures' = failures + 1

-----------------------------------------------------------------------------
(* The user, and the time that passes                                      *)

\* The final answer was recorded: both rows are pending.
Complete(e) ==
    /\ chat[e].status = "incomplete"
    /\ \A d \in Exchanges : d < e => chat[d].status # "incomplete"
    /\ chat' = [chat EXCEPT ![e].status = "pending"]
    /\ UNCHANGED <<batch, worker, closing, saved, reset, failures, crashes>>

RetryFailed ==
    /\ \E e \in Exchanges : chat[e].status = "pending" /\ chat[e].error /\ ~chat[e].due
    /\ chat' = [e \in Exchanges |->
                   IF chat[e].status = "pending" /\ chat[e].error
                   THEN [chat[e] EXCEPT !.due = TRUE] ELSE chat[e]]
    /\ UNCHANGED <<batch, worker, closing, saved, reset, failures, crashes>>

BackoffEnds(e) ==
    /\ ~chat[e].due
    /\ chat' = [chat EXCEPT ![e].due = TRUE]
    /\ UNCHANGED <<batch, worker, closing, saved, reset, failures, crashes>>

Abandoned(b) == \A w \in Workers : worker[w].batch # b
\* A worker is slower than its lease only now and then: its calls have timeouts that
\* are shorter, but the machine may have slept.
LeaseExpires(b) ==
    /\ batch[b].lease = "running"
    /\ IF Abandoned(b) THEN UNCHANGED failures ELSE Fails
    /\ batch' = [batch EXCEPT ![b].lease = "expired"]
    /\ UNCHANGED <<chat, worker, closing, saved, reset, crashes>>

\* A new MemoryService, once the one before it was closed.
Start(w) ==
    /\ At(w, "unborn")
    /\ \A v \in Workers : (v < w => ~At(v, "unborn")) /\ ~Serving(v)
    /\ Goto(w, "wait")
    /\ UNCHANGED <<chat, batch, closing, saved, reset, failures, crashes>>

\* close: the worker is waited for a second at most.
Close(w) ==
    /\ Serving(w)
    /\ closing' = closing \cup {w}
    /\ UNCHANGED <<chat, batch, worker, saved, reset, failures, crashes>>

Crash ==
    /\ crashes < MaxCrashes
    /\ crashes' = crashes + 1
    /\ worker' = [w \in Workers |->
                     IF At(w, "unborn") THEN Unborn ELSE [Unborn EXCEPT !.pc = "dead"]]
    /\ closing' = {}
    /\ UNCHANGED <<chat, batch, saved, reset, failures>>

-----------------------------------------------------------------------------
(* The worker: _worker_loop and process_pending                            *)

\* The wait ends once a second at the latest.
Stop(w) ==
    /\ At(w, "wait") /\ w \in closing
    /\ Goto(w, "dead")
    /\ UNCHANGED <<chat, batch, closing, saved, reset, failures, crashes>>

\* recover_expired_leases: the batches are marked as failed.
Recover(w) ==
    /\ At(w, "wait") /\ w \notin closing
    /\ chat' = GivenBack(Expired, TRUE)
    /\ batch' = [b \in Batches |->
                    IF batch[b].status = "processing" /\ Held(b) \cap Expired # {}
                    THEN [batch[b] EXCEPT !.status = "failed"] ELSE batch[b]]
    /\ Goto(w, "claim")
    /\ UNCHANGED <<closing, saved, reset, failures, crashes>>

Oldest(S, n) == {e \in S : Cardinality({d \in S : d < e}) < n}

\* (Fault: whatever their lease.)
ClaimableFaulty ==
    {e \in Exchanges : (chat[e].status = "pending" /\ chat[e].due) \/ chat[e].status = "processing"}
\* What can be claimed: what is due, and what a lease no longer protects.
Claimable == {e \in Exchanges : chat[e].status = "pending" /\ chat[e].due} \cup Expired

\* claim_oldest_batch: the exchanges of expired leases are given back first, but
\* their batches stay as they are.
Claim(w) ==
    LET mine == Oldest(Claimable, Size)
        b == CHOOSE c \in Batches : batch[c].status = "none"
                                    /\ \A d \in Batches : d < c => batch[d].status # "none" IN
    /\ At(w, "claim")
    /\ Cardinality(Claimable) >= Size
    /\ \E c \in Batches : batch[c].status = "none"
    /\ chat' = [e \in Exchanges |->
                   IF e \in mine
                   THEN [status |-> "processing", batch |-> b, due |-> TRUE, error |-> FALSE]
                   ELSE GivenBack(Expired, TRUE)[e]]
    /\ batch' = [batch EXCEPT ![b] = [status |-> "processing", lease |-> "running"]]
    /\ worker' = [worker EXCEPT ![w] = [pc |-> "model", batch |-> b, exchanges |-> mine]]
    /\ reset' = reset \cup {chat[e].batch : e \in Expired}
    /\ UNCHANGED <<closing, saved, failures, crashes>>

\* Too few: the transaction is rolled back.
ClaimNothing(w) ==
    /\ At(w, "claim")
    /\ Cardinality(Claimable) < Size
    /\ Goto(w, "wait")
    /\ UNCHANGED <<chat, batch, closing, saved, reset, failures, crashes>>

\* (Fault: the result is taken whatever became of the batch.)
LeaseHeldFaulty(b) == TRUE
\* The check before a commit: lease and ownership.
LeaseHeld(b) == batch[b].lease = "running" /\ Cardinality(Held(b)) >= Size

\* commit_batch: facts and progress in one transaction.
Commit(w) ==
    LET b == worker[w].batch IN
    /\ At(w, "model")
    /\ LeaseHeld(b)
    /\ chat' = [e \in Exchanges |->
                   IF e \in Held(b)
                   THEN [chat[e] EXCEPT !.status = "consolidated", !.error = FALSE] ELSE chat[e]]
    /\ batch' = [batch EXCEPT ![b] = [status |-> "consolidated", lease |-> "null"]]
    /\ saved' = [e \in Exchanges |-> saved[e] + IF e \in worker[w].exchanges THEN 1 ELSE 0]
    /\ LetGo(w, "claim")
    /\ UNCHANGED <<closing, reset, failures, crashes>>

\* The lease was lost.
CommitRefused(w) ==
    /\ At(w, "model")
    /\ ~LeaseHeld(worker[w].batch)
    /\ Goto(w, "failing")
    /\ UNCHANGED <<chat, batch, closing, saved, reset, failures, crashes>>

\* The provider failed or timed out, its output was no good, or the store changed
\* under the review: whatever ends in an exception.
Fail(w) ==
    /\ At(w, "model")
    /\ Fails
    /\ Goto(w, "failing")
    /\ UNCHANGED <<chat, batch, closing, saved, reset, crashes>>

\* (Fault: the batch keeps what it has.)
ReleaseFaulty(w) ==
    LET b == worker[w].batch IN
    /\ At(w, "failing")
    /\ batch' = [batch EXCEPT ![b] = [status |-> "failed", lease |-> "null"]]
    /\ LetGo(w, "wait")
    /\ UNCHANGED <<chat, closing, saved, reset, failures, crashes>>
\* release_failed_batch: the batch fails whatever it has still.
Release(w) ==
    LET b == worker[w].batch IN
    /\ At(w, "failing")
    /\ chat' = GivenBack(Held(b), FALSE)
    /\ batch' = [batch EXCEPT ![b] = [status |-> "failed", lease |-> "null"]]
    /\ LetGo(w, "wait")
    /\ UNCHANGED <<closing, saved, reset, failures, crashes>>

\* The database fails: the release is skipped, or, like everywhere else, the thread ends.
DatabaseFails(w) ==
    /\ worker[w].pc \in {"wait", "claim", "failing"}
    /\ Fails
    /\ \/ At(w, "failing") /\ LetGo(w, "wait")
       \/ LetGo(w, "dead")
    /\ UNCHANGED <<chat, batch, closing, saved, reset, crashes>>

-----------------------------------------------------------------------------
Step(w) ==
    \/ Stop(w) \/ Recover(w) \/ Claim(w) \/ ClaimNothing(w)
    \/ Commit(w) \/ CommitRefused(w) \/ Release(w)

Next ==
    \/ \E e \in Exchanges : Complete(e) \/ BackoffEnds(e)
    \/ RetryFailed
    \/ \E b \in Batches : LeaseExpires(b)
    \/ \E w \in Workers : Start(w) \/ Close(w) \/ Step(w) \/ Fail(w) \/ DatabaseFails(w)
    \/ Crash

Spec == Init /\ [][Next]_vars

-----------------------------------------------------------------------------
(* Properties                                                              *)

TypeOK ==
    /\ chat \in [Exchanges -> ExchangeRec]
    /\ \A e \in Exchanges :
          chat[e].batch = NoBatch <=> chat[e].status \in {"incomplete", "pending"}
    /\ batch \in [Batches -> BatchRec]
    /\ worker \in [Workers -> WorkerRec]
    /\ closing \subseteq Workers /\ reset \subseteq Batches
    /\ saved \in [Exchanges -> Nat] /\ failures \in Nat /\ crashes \in Nat

\* A full batch does not wait for ever while there is a service: it is committed or
\* tried again, whoever failed or died with it.
Backlog ==
    Cardinality({e \in Exchanges : chat[e].status \in {"pending", "processing"}}) >= Size
BacklogDrains == <>[](\E w \in Workers : Serving(w)) => []<>~Backlog

=============================================================================
