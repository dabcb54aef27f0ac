\* Two tasks, one member, two client threads, one crash: dependencies, claims, matching
\* and releases.
SPECIFICATION Spec
CONSTANTS
    Tasks = {t1, t2}
    Agents = {a1}
    Clients = {c1, c2}
    NoTask = NoTask
    NoAgent = NoAgent
    MaxRev = 2
    MaxCrashes = 1
SYMMETRY Symmetry
CONSTRAINT Bounded
INVARIANTS
    RunningReady
    AcyclicDependencies
    OneTaskPerOwner
    NoStaleEmptyMatch
CHECK_DEADLOCK FALSE
