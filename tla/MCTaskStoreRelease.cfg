\* One task, one member: the owner is started while the Web console releases its task.
SPECIFICATION Spec
CONSTANTS
    Tasks = {t1}
    Agents = {a1}
    Clients = {c1}
    NoTask = NoTask
    NoAgent = NoAgent
    MaxRev = 3
    MaxCrashes = 0
SYMMETRY Symmetry
INVARIANT ReleaseAfterStop
CHECK_DEADLOCK FALSE
