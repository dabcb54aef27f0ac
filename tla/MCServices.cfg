SPECIFICATION FairSpec
CONSTANTS
  once = once
  daily = daily
  Jobs = {once, daily}
  OneShot = {once}
  Durable = {once, daily}
  MaxQueued = 1
  MaxTasks = 2
  MaxRuntimes = 2
INVARIANTS ResultOfItsCommand CancelSticks
PROPERTY FiredIsTaken
CHECK_DEADLOCK FALSE
