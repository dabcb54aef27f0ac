----------------------------- MODULE VectorIndex -----------------------------
(***************************************************************************)
(* The vector index of the memory, and how it follows the facts and the    *)
(* evidence (gugugaga/memory/repository.py, process_index_pending of       *)
(* service.py; the tables are IndexTables).                                *)
(*                                                                         *)
(* A change of a fact is noted in the outbox by a trigger, in the same     *)
(* transaction.  A worker claims what is due, has the texts embedded by a  *)
(* provider and stores the vectors; all of its jobs fail together.         *)
(* There is one worker for each MemoryService; the one of a service that   *)
(* was closed goes on with what it has begun, beside that of the next.     *)
(* (A database that fails ends the thread: Consolidation has that.)        *)
(***************************************************************************)
EXTENDS IndexTables

CONSTANTS
    Workers,     \* 1..n, in the order in which they are started
    MaxChanges,  \* bound on changes of facts and of the hot window
    MaxFailures, \* bound on rounds whose jobs fail
    MaxCrashes   \* bound on process crashes

ASSUME IndexersAssumption ==
    /\ Workers \subseteq Nat
    /\ MaxChanges \in Nat /\ MaxFailures \in Nat /\ MaxCrashes \in Nat

VARIABLES
    indexer,     \* the worker threads, as far as they serve the index
    retired,     \* workers whose service was closed
    changes, faults, outages

vars == <<live, vector, outbox, indexer, retired, contended, changes, faults, outages>>

-----------------------------------------------------------------------------
\* jobs: for each key what claim_index_jobs made of its entry
Jobs == [operation: Operations \cup {"none"}, attempts: 0..MaxAttempts]
NoJob == [operation |-> "none", attempts |-> 0]
IndexerRec == [pc: {"unborn", "preparing", "wait", "round", "embed", "dead"},
               jobs: [Items -> Jobs]]
Unborn == [pc |-> "unborn", jobs |-> [i \in Items |-> NoJob]]

Init ==
    /\ live = {}
    /\ vector = {}
    /\ outbox = [i \in Items |-> NoEntry]
    /\ indexer = [w \in Workers |-> Unborn]
    /\ retired = {}
    /\ contended = {}
    /\ changes = 0
    /\ faults = 0
    /\ outages = 0

Known(i) == outbox[i].status # "none"
At(w, label) == indexer[w].pc = label
Goto(w, label) == indexer' = [indexer EXCEPT ![w] = [Unborn EXCEPT !.pc = label]]
Serving(w) == indexer[w].pc \notin {"unborn", "dead"} /\ w \notin retired
Carries(w, i) == indexer[w].jobs[i] # NoJob

-----------------------------------------------------------------------------
(* What the index follows                                                  *)

\* trg_memory_chat_insert, and the insertion of an active fact.
Insert(i) ==
    /\ ~Known(i)
    /\ live' = live \cup {i}
    /\ outbox' = [outbox EXCEPT ![i] = Fresh("upsert")]
    /\ UNCHANGED <<vector, indexer, retired, contended, changes, faults, outages>>

\* trg_memory_fact_update: a fact is disputed, superseded or forgotten, or released.
ChangeFact(f) ==
    LET active == f \notin live IN
    /\ Known(f)
    /\ changes < MaxChanges
    /\ changes' = changes + 1
    /\ live' = IF active THEN live \cup {f} ELSE live \ {f}
    /\ outbox' = [outbox EXCEPT ![f] = Fresh(IF active THEN "upsert" ELSE "delete")]
    /\ UNCHANGED <<vector, indexer, retired, contended, faults, outages>>

\* reconcile_evidence_lifecycle: lines leave the hot window, or come back to it when it
\* was widened.  Called after a commit, and by every service and dashboard at its start.
Reconcile(hot) ==
    LET cold == (live \cap Chats) \ hot IN
    /\ hot \subseteq {c \in Chats : Known(c)}
    /\ hot # live \cap Chats
    /\ changes < MaxChanges
    /\ changes' = changes + 1
    /\ live' = (live \cap IndexedFacts) \cup hot
    /\ vector' = vector \ cold
    /\ outbox' = [i \in Items |-> IF i \in hot \ live THEN Fresh("upsert")
                                  ELSE IF i \in cold THEN Fresh("delete") ELSE outbox[i]]
    /\ UNCHANGED <<indexer, retired, contended, faults, outages>>

-----------------------------------------------------------------------------
(* Services                                                                *)

Start(w) ==
    /\ At(w, "unborn")
    /\ \A v \in Workers : (v < w => ~At(v, "unborn")) /\ ~Serving(v)
    /\ Goto(w, "preparing")
    /\ UNCHANGED <<live, vector, outbox, retired, contended, changes, faults, outages>>

\* prepare_embedding_model: whatever the full-text index has and the vectors lack.
Prepare(w) ==
    /\ At(w, "preparing")
    /\ outbox' = [i \in Items |->
           IF Known(i) /\ i \in (live \cup Chats) \ vector THEN Fresh("upsert") ELSE outbox[i]]
    /\ Goto(w, "wait")
    /\ UNCHANGED <<live, vector, retired, contended, changes, faults, outages>>

Close(w) ==
    /\ Serving(w) /\ ~At(w, "preparing")
    /\ retired' = retired \cup {w}
    /\ UNCHANGED <<live, vector, outbox, indexer, contended, changes, faults, outages>>

Crash ==
    /\ outages < MaxCrashes
    /\ outages' = outages + 1
    /\ indexer' = [w \in Workers |->
                      IF At(w, "unborn") THEN Unborn ELSE [Unborn EXCEPT !.pc = "dead"]]
    /\ retired' = {}
    /\ UNCHANGED <<live, vector, outbox, contended, changes, faults>>

BackoffEnds(i) ==
    /\ ~outbox[i].due
    /\ outbox' = [outbox EXCEPT ![i].due = TRUE]
    /\ UNCHANGED <<live, vector, indexer, retired, contended, changes, faults, outages>>

\* The lease of a worker that is slow, or gone.
LeaseExpires(i) ==
    /\ outbox[i].status = "processing" /\ ~outbox[i].expired
    /\ outbox' = [outbox EXCEPT ![i].expired = TRUE]
    /\ UNCHANGED <<live, vector, indexer, retired, contended, changes, faults, outages>>

\* retry_failed_index_jobs
RetryFailed ==
    /\ \E i \in Items : outbox[i].status = "failed"
    /\ outbox' = [i \in Items |->
           IF outbox[i].status = "failed" THEN Fresh(outbox[i].operation) ELSE outbox[i]]
    /\ UNCHANGED <<live, vector, indexer, retired, contended, changes, faults, outages>>

-----------------------------------------------------------------------------
(* The worker: process_index_pending                                       *)

\* _stop is looked at between two waits only.
Wake(w) ==
    /\ At(w, "wait")
    /\ Goto(w, IF w \in retired THEN "dead" ELSE "round")
    /\ UNCHANGED <<live, vector, outbox, retired, contended, changes, faults, outages>>

\* (Fault: the expired leases are taken back after the choice.)
ClaimableLateFaulty ==
    {i \in Items : /\ outbox[i].attempts < MaxAttempts
                   /\ outbox[i].status = "pending" /\ outbox[i].due}
Claimable ==
    {i \in Items : /\ outbox[i].attempts < MaxAttempts
                   /\ i \in Lapsed \/ (outbox[i].status = "pending" /\ outbox[i].due)}

\* claim_index_jobs
Claim(w) ==
    /\ At(w, "round")
    /\ Claimable # {}
    /\ outbox' = [i \in Items |->
           IF i \in Claimable
           THEN [outbox[i] EXCEPT !.status = "processing", !.attempts = @ + 1,
                                  !.due = TRUE, !.expired = FALSE]
           ELSE IF i \in Lapsed
           THEN [outbox[i] EXCEPT !.status = "pending", !.expired = FALSE]
           ELSE outbox[i]]
    /\ indexer' = [indexer EXCEPT ![w] =
           [pc |-> "embed",
            jobs |-> [i \in Items |->
                IF i \in Claimable
                THEN [operation |-> Operation(i), attempts |-> outbox[i].attempts + 1]
                ELSE NoJob]]]
    /\ contended' = contended \cup {i \in Claimable : \E v \in Workers \ {w} : Carries(v, i)}
    /\ UNCHANGED <<live, vector, retired, changes, faults, outages>>

\* Nothing is due: rolled back.
ClaimNothing(w) ==
    /\ At(w, "round")
    /\ Claimable = {}
    /\ Goto(w, "wait")
    /\ UNCHANGED <<live, vector, outbox, retired, contended, changes, faults, outages>>

\* (Fault: whatever became of the entry in between.)
CompleteFaulty(w) ==
    /\ At(w, "embed")
    /\ vector' = {i \in Items : IF Carries(w, i) THEN indexer[w].jobs[i].operation = "upsert"
                                ELSE i \in vector}
    /\ outbox' = [i \in Items |->
           IF Carries(w, i)
           THEN [outbox[i] EXCEPT !.status = "completed", !.due = TRUE, !.expired = FALSE]
           ELSE outbox[i]]
    /\ Goto(w, "round")
    /\ UNCHANGED <<live, retired, contended, changes, faults, outages>>
\* complete_index_jobs: an entry that was replaced in the meantime is not touched.
Complete(w) ==
    /\ At(w, "embed")
    /\ vector' = {i \in Items : IF Carries(w, i) THEN indexer[w].jobs[i].operation = "upsert"
                                ELSE i \in vector}
    /\ outbox' = [i \in Items |->
           IF Carries(w, i) /\ outbox[i].status = "processing"
           THEN [outbox[i] EXCEPT !.status = "completed", !.due = TRUE, !.expired = FALSE]
           ELSE outbox[i]]
    /\ Goto(w, "round")
    /\ UNCHANGED <<live, retired, contended, changes, faults, outages>>

\* fail_index_jobs: the entries are set back, whatever they are by now.
Fail(w) ==
    /\ At(w, "embed")
    /\ faults < MaxFailures
    /\ faults' = faults + 1
    /\ outbox' = [i \in Items |->
           IF ~Carries(w, i) THEN outbox[i]
           ELSE IF indexer[w].jobs[i].attempts >= MaxAttempts
           THEN [outbox[i] EXCEPT !.status = "failed", !.due = TRUE, !.expired = FALSE]
           ELSE [outbox[i] EXCEPT !.status = "pending", !.due = FALSE, !.expired = FALSE]]
    /\ Goto(w, "wait")
    /\ UNCHANGED <<live, vector, retired, contended, changes, outages>>

-----------------------------------------------------------------------------
Step(w) == Prepare(w) \/ Wake(w) \/ Claim(w) \/ ClaimNothing(w) \/ Complete(w)

Next ==
    \/ \E i \in Items : Insert(i) \/ BackoffEnds(i) \/ LeaseExpires(i)
    \/ \E f \in IndexedFacts : ChangeFact(f)
    \/ \E hot \in SUBSET Chats : Reconcile(hot)
    \/ \E w \in Workers : Start(w) \/ Close(w) \/ Step(w) \/ Fail(w)
    \/ RetryFailed
    \/ Crash

Spec == Init /\ [][Next]_vars

-----------------------------------------------------------------------------
(* Properties                                                              *)

TypeOK ==
    /\ live \subseteq Items /\ vector \subseteq Items /\ contended \subseteq Items
    /\ outbox \in [Items -> Entry]
    /\ indexer \in [Workers -> IndexerRec]
    /\ retired \subseteq Workers
    /\ changes \in Nat /\ faults \in Nat /\ outages \in Nat

\* An entry whose last attempt was claimed, and never ended: no claim takes it again,
\* and no explicit retry finds it.
Stuck(i) == outbox[i].attempts = MaxAttempts /\ (outbox[i].status = "pending" \/ i \in Lapsed)

\* README: an entry is tried a few times, then it has failed and waits for an
\* explicit retry.  So it is, while there is a service, unless it got stuck.
JobsEndUnlessStuck ==
    \A i \in Items : <>[](\E w \in Workers : Serving(w)) =>
        []<>(outbox[i].status \in {"none", "completed", "failed"} \/ Stuck(i))

=============================================================================
