\* One fact and one line of chat, two workers, a crash, a failure, one change.
SPECIFICATION FairSpec
CONSTANTS
    IndexedFacts = {f1}
    Chats = {h1}
    Workers = {1, 2}
    MaxAttempts = 2
    MaxChanges = 1
    MaxFailures = 1
    MaxCrashes = 1
INVARIANTS
    SyncedIsTrue
PROPERTY JobsEndUnlessStuck
CHECK_DEADLOCK FALSE
