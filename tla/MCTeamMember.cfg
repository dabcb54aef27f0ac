\* Two worker threads, a profile edited once, two plans, two messages.
SPECIFICATION FairSpec
CONSTANTS
    chat = chat
    halt = halt
    assign = assign
    verdict = verdict
    Messages = {assign, verdict, halt}
    Malformed = {}
    Consumers <- Threads
    NoFile = NoFile
    Plans = {1, 2}
    Kind <- KindOf
    Reviews <- PlanOf
    MaxProfile = 2
    MaxRounds = 2
    MaxSent = 2
    MaxEvents = 2
INVARIANTS
    EveryWorkerReached
    KnownAssignee
    ApprovedMeansApproved
PROPERTIES StoppedWorkerEnds ImplementsMailbox
CHECK_DEADLOCK FALSE
