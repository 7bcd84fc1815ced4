SPECIFICATION FairSpec
CONSTANTS
  Leagues <- TwoLeagues
  Items <- TwoItems
  Kinds <- WaiverThenDraft
  Skips = {"draft"}
  Closings = {"draft"}
  Reconcile = 2
  Retry = 1
  Stand = 1
  Skews <- Ahead
  MaxTime = 2
  MaxChanges = 2
INVARIANTS
  NeverOversleeps
PROPERTIES
  RecordedWhenDue
  DueIsRecorded
CHECK_DEADLOCK FALSE
