---------------------------- MODULE MCConsolidation ----------------------------
(* Consolidation with the fairness of its workers and of the clock.        *)
EXTENDS Consolidation

\* The worker of a service is scheduled; a retry falls due; the lease of a
\* batch whose worker is gone runs out.
Fairness ==
    /\ \A w \in Workers : WF_vars(Step(w))
    /\ \A e \in Exchanges : WF_vars(BackoffEnds(e))
    /\ \A b \in Batches : WF_vars(Abandoned(b) /\ LeaseExpires(b))

FairSpec == Spec /\ Fairness
=============================================================================
