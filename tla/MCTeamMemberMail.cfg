\* An ordinary message and an assignment for an idle member.
SPECIFICATION FairSpec
CONSTANTS
    chat = chat
    halt = halt
    assign = assign
    verdict = verdict
    Messages = {chat, assign}
    Malformed = {}
    Consumers <- Threads
    NoFile = NoFile
    Plans = {}
    Kind <- KindOf
    Reviews <- PlanOf
    MaxProfile = 2
    MaxRounds = 2
    MaxSent = 2
    MaxEvents = 0
INVARIANT MailSeen
CHECK_DEADLOCK FALSE
