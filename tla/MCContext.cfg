SPECIFICATION Spec
CONSTANTS
  MaxMessages = 8
  Costs = {1, 3}
  SummaryCosts = {1, 2}
  Trigger = 6
  HeadKeep = 1
  SnipAt = 4
  KeepResults = 1
  ResultBudget = 2
  TailBudget = 2
  PiKeep = 3
  PiTarget = 5
  RecoverKeep = 2
INVARIANTS HistoryCovered
PROPERTY OnlySummariesFail
CHECK_DEADLOCK FALSE
