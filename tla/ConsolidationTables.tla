------------------------- MODULE ConsolidationTables -------------------------
(***************************************************************************)
(* The columns of chat_log that schedule consolidation and the table       *)
(* consolidation_batches (gugugaga/memory/repository.py), and what has to  *)
(* hold between them.  Consolidation adds the workers that change them.    *)
(***************************************************************************)
EXTENDS Integers, FiniteSets

CONSTANTS
    Exchanges,   \* 1..n, in the order in which they are completed
    Size,        \* threshold: exchanges in a batch
    MaxBatches   \* bound on batches

ASSUME ExchangesAssumption ==
    /\ Exchanges \subseteq Nat /\ IsFiniteSet(Exchanges)
    /\ Size \in Nat \ {0}
    /\ MaxBatches \in Nat

VARIABLES
    chat,        \* chat_log: the two rows of an exchange change together
    batch,       \* consolidation_batches
    saved,       \* history: how often the content of an exchange was committed
    reset        \* history: batches whose exchanges a claim took away

-----------------------------------------------------------------------------
Batches == 1..MaxBatches
NoBatch == 0

ExchangeRec ==
    [status: {"incomplete", "pending", "processing", "consolidated"},
     batch: Batches \cup {NoBatch},
     due: BOOLEAN,          \* next_retry_at is NULL or has passed
     error: BOOLEAN]        \* last_error_code is set
\* lease: lease_expires_at lies ahead, lies in the past, or is NULL
BatchRec == [status: {"none", "processing", "consolidated", "failed"},
             lease: {"running", "expired", "null"}]

\* The exchanges batch b still has.
Held(b) == {e \in Exchanges : chat[e].status = "processing" /\ chat[e].batch = b}
Expired == {e \in Exchanges : chat[e].status = "processing" /\ batch[chat[e].batch].lease = "expired"}

\* chat_log after the exchanges of set S were given back.
GivenBack(S, due) ==
    [e \in Exchanges |->
        IF e \in S
        THEN [status |-> "pending", batch |-> NoBatch, due |-> due, error |-> TRUE]
        ELSE chat[e]]

-----------------------------------------------------------------------------
(* Properties                                                              *)

\* No exchange is made into memory twice, and none is marked without it: through
\* leases that end while the model is at work, two workers and crashes.
SavedOnce ==
    \A e \in Exchanges : saved[e] = IF chat[e].status = "consolidated" THEN 1 ELSE 0

\* What is being processed belongs to a batch that is, all of its exchanges with it:
\* only then does a lease give every one of them back.
Intact(b) ==
    Held(b) # {} => batch[b].status = "processing" /\ Cardinality(Held(b)) = Size

\* README: whoever takes an expired batch back marks it as failed.  A batch that is
\* "processing" has its exchanges.  (reset: a claim that takes exchanges back forgets
\* the batch, which says "processing" for ever if its worker is gone.)
ProcessingIsKnown(b) ==
    b \notin reset /\ batch[b].status = "processing" => Held(b) # {}

\* Both of every batch: the rows of the chat log and those of the batches agree
\* through failures, leases that end during a review, overlapping workers and crashes.
BatchAgrees == \A b \in Batches : Intact(b) /\ ProcessingIsKnown(b)

=============================================================================
