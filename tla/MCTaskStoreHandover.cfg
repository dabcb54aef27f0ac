\* One task, two members, two client threads, one crash: who executes the task.
SPECIFICATION Spec
CONSTANTS
    Tasks = {t1}
    Agents = {a1, a2}
    Clients = {c1, c2}
    NoTask = NoTask
    NoAgent = NoAgent
    MaxRev = 3
    MaxCrashes = 1
SYMMETRY Symmetry
\* Nothing is claimed of what comes after a state that is not NotOvertaken.
CONSTRAINT NotOvertaken
INVARIANT ExecutesWhatItOwns
PROPERTY OwnerHandsOver
CHECK_DEADLOCK FALSE
