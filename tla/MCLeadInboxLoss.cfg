\* One waking message: lost by the second crash, while a claim recovers it.
SPECIFICATION Spec
CONSTANTS
    Messages = {result}
    Malformed = {}
    Waking = {result}
    Consumers <- Lead
    NoFile = NoFile
    Tasks = {t1}
    MaxRev = 1
    MaxFailures = 0
    MaxCrashes = 2
INVARIANT AtLeastOnce
CHECK_DEADLOCK FALSE
