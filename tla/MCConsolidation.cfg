\* Three exchanges in batches of two, three workers one after the other.
SPECIFICATION FairSpec
CONSTANTS
    Exchanges = {1, 2, 3}
    Workers = {1, 2, 3}
    Size = 2
    MaxBatches = 5
    MaxFailures = 2
    MaxCrashes = 1
INVARIANTS
    SavedOnce
    BatchAgrees
PROPERTY BacklogDrains
CHECK_DEADLOCK FALSE
