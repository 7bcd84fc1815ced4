SPECIFICATION Spec
CONSTANTS
  Stores = {s1}
  Commands <- SeasonCommands
  Submissions <- SeasonSubmissions
  Start <- FoundStart
  MaxEntries = 6
INVARIANT CapturedStays
CHECK_DEADLOCK FALSE
