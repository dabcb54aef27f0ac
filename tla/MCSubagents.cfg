SPECIFICATION FairSpec
CONSTANTS
  MaxJobs = 2
  MaxConcurrent = 1
  None = None
  Others = {m}
  Writers = {1, 2, m}
  Paths = {f}
  Asked <- MCAsked
INVARIANTS OutcomeIsTrue GraceIsFinal BarrierHolds
PROPERTY EveryJobEnds
CHECK_DEADLOCK FALSE
