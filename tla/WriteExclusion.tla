---------------------------- MODULE WriteExclusion ----------------------------
(***************************************************************************)
(* What the mutation lock promises: the files that two writers may change  *)
(* at the same time are never the same.  footprint[w] is the set of paths  *)
(* writer w may change now; a writer that was not let in has none.         *)
(***************************************************************************)
CONSTANTS Writers, Paths

VARIABLE footprint

Disjoint == \A v, w \in Writers : v # w => footprint[v] \cap footprint[w] = {}

Init == footprint = [w \in Writers |-> {}]

\* Writer w is let in, for files nobody else may change.
Begin(w) ==
  \E paths \in SUBSET Paths :
    /\ footprint[w] = {}
    /\ \A v \in Writers \ {w} : footprint[v] \cap paths = {}
    /\ footprint' = [footprint EXCEPT ![w] = paths]

End(w) == footprint' = [footprint EXCEPT ![w] = {}]

Next == \E w \in Writers : Begin(w) \/ End(w)

Spec == Init /\ [][Next]_footprint
===============================================================================
