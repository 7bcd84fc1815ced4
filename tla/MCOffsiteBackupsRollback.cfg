SPECIFICATION Spec
CONSTANTS
  Limit = 6
  TxLimit = 1
  Promise = 7
  Interval = 2
  Attempt = 1
  Newest = 2
  KeepDays = 2
  DayLength = 12
  Steps <- Back
  MaxSteps = 1
  MaxFaults = 0
  MaxTime = 9
INVARIANT CoverageIsStored
CHECK_DEADLOCK FALSE
