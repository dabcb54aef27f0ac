SPECIFICATION Spec
CONSTANTS
  None = None
  Writers = {Lead, s1, s2}
  HashWriters = {s1, s2}
  Paths = {f1, f2}
INVARIANT NoLostUpdate
PROPERTY ImplementsExclusion
PROPERTY EveryRequestServed
CHECK_DEADLOCK FALSE
