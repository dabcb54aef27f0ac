----------------------------- MODULE IndexTables -----------------------------
(***************************************************************************)
(* The tables of the vector index: memory_embeddings, and the outbox       *)
(* memory_index_outbox, which triggers fill in the transaction that        *)
(* changes a fact or a line of chat (gugugaga/memory/repository.py).       *)
(* VectorIndex adds the workers that empty it.                             *)
(***************************************************************************)
EXTENDS Integers, FiniteSets

CONSTANTS
    IndexedFacts,\* live while active
    Chats,       \* final lines of chat_log, live while "hot"
    MaxAttempts  \* max_attempts

ASSUME IndexAssumption == IndexedFacts \cap Chats = {} /\ MaxAttempts \in Nat \ {0}

VARIABLES
    live,        \* what search should find: active, or hot
    vector,      \* the keys of memory_embeddings
    outbox,      \* memory_index_outbox
    contended    \* history: keys two workers had jobs for at once

-----------------------------------------------------------------------------
Items == IndexedFacts \cup Chats
Operations == {"upsert", "delete"}
Entry == [status: {"none", "pending", "processing", "completed", "failed"},
          operation: Operations, attempts: 0..MaxAttempts,
          due: BOOLEAN,         \* next_retry_at is NULL or has passed
          expired: BOOLEAN]     \* lease_expires_at has passed
NoEntry == [status |-> "none", operation |-> "upsert", attempts |-> 0,
            due |-> TRUE, expired |-> FALSE]

\* INSERT OR REPLACE: an entry begins anew, whatever became of the one before it.
Fresh(operation) == [NoEntry EXCEPT !.status = "pending", !.operation = operation]

Lapsed == {i \in Items : outbox[i].status = "processing" /\ outbox[i].expired}

\* What is to be done now, whatever the entry was made for.
Operation(i) == IF i \in live THEN outbox[i].operation ELSE "delete"

-----------------------------------------------------------------------------
(* Properties                                                              *)

\* status(): what the console calls synced has no entry left to be done.
Synced == \A i \in Items : outbox[i].status \in {"none", "completed"}

\* What is synced is: the vectors are those of the active facts and of the hot
\* evidence, although jobs are carried out long after they were claimed.
\* (contended: two workers at one key may end in the wrong order.)
SyncedIsTrue ==
    Synced => \A i \in Items \ contended : i \in vector <=> i \in live

=============================================================================
