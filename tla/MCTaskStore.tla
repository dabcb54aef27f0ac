----------------------------- MODULE MCTaskStore -----------------------------
(* TaskStore on small sets of tasks and members.                           *)
EXTENDS TaskStore, TLC

\* Nothing is claimed of what comes after a state that is not NotOvertaken; and one
\* client at a time is at work after a crash, and during a release.
Releases(c) == op[c].kind \in {"look", "shown", "checked", "release"}
OneClient ==
    \A c, d \in Clients : c # d /\ (crashes > 0 \/ Releases(c)) => Idle(c) \/ Idle(d)
Bounded == NotOvertaken /\ OneClient

Symmetry == Permutations(Tasks) \cup Permutations(Agents) \cup Permutations(Clients)
=============================================================================
