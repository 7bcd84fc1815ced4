SPECIFICATION Spec
CONSTANTS
  Stores = {s1}
  Commands <- AllCommands
  Submissions <- MostSubmissions
  Start <- FoundStart
  MaxEntries = 5
INVARIANT RetriedBatchAnswered
CHECK_DEADLOCK FALSE
