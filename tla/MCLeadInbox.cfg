\* One waking and one malformed message, one request in two revisions, a failure, two crashes.
SPECIFICATION FairSpec
CONSTANTS
    Messages = {result, garbled}
    Malformed = {garbled}
    Waking = {result}
    Consumers <- Lead
    NoFile = NoFile
    Tasks = {t1}
    MaxRev = 2
    MaxFailures = 1
    MaxCrashes = 2
INVARIANTS DeliveredOnce UnresolvedStaysPending
PROPERTIES WakingMailHandled ImplementsMailbox
CHECK_DEADLOCK FALSE
