----------------------------- MODULE MCVectorIndex -----------------------------
(* VectorIndex with the fairness of its workers and of the clock.          *)
EXTENDS VectorIndex

\* The worker of a service is scheduled, and what becomes of its jobs is decided;
\* retries fall due and leases run out.
Fairness ==
    /\ \A w \in Workers : WF_vars(Step(w))
    /\ \A i \in Items : WF_vars(BackoffEnds(i)) /\ WF_vars(LeaseExpires(i))

FairSpec == Spec /\ Fairness
=============================================================================
