\* Two tasks: a match decided before a dependency completed, stored after it.
SPECIFICATION Spec
CONSTANTS
    Tasks = {t1, t2}
    Agents = {a1}
    Clients = {c1}
    NoTask = NoTask
    NoAgent = NoAgent
    MaxRev = 2
    MaxCrashes = 0
SYMMETRY Symmetry
CONSTRAINT NotOvertaken
INVARIANT StaleContextRejected
CHECK_DEADLOCK FALSE
