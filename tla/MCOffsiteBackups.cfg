SPECIFICATION Spec
CONSTANTS
  Limit = 5
  TxLimit = 1
  Promise = 6
  Interval = 2
  Attempt = 1
  Newest = 2
  KeepDays = 2
  DayLength = 3
  Steps <- SmallSteps
  MaxSteps = 1
  MaxFaults = 3
  MaxTime = 8
INVARIANTS
  LossBounded
  WritesFlow
  DaysKept
CHECK_DEADLOCK FALSE
