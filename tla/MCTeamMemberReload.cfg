\* A profile edited once, and nothing else happens to the member.
SPECIFICATION FairSpec
CONSTANTS
    chat = chat
    halt = halt
    assign = assign
    verdict = verdict
    Messages = {}
    Malformed = {}
    Consumers <- Threads
    NoFile = NoFile
    Plans = {}
    Kind <- KindOf
    Reviews <- PlanOf
    MaxProfile = 2
    MaxRounds = 2
    MaxSent = 1
    MaxEvents = 1
PROPERTY ReloadHappens
CHECK_DEADLOCK FALSE
