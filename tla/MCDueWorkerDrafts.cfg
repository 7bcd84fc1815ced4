\* A finished draft is restored between the worker's scan and its closing.
SPECIFICATION Spec
CONSTANTS
  Leagues <- OneLeague
  Items <- OneDraft
  Kinds <- OnlyDraft
  Skips = {"draft"}
  Closings = {"draft"}
  Reconcile = 2
  Retry = 1
  Stand = 1
  Skews <- Exact
  MaxTime = 2
  MaxChanges = 1
PROPERTIES
  ClosesOnlyFinished
CHECK_DEADLOCK FALSE
