\* The recovery of a lost activation reply, as the instructions give it.
SPECIFICATION Spec
CONSTANTS
  Database = {a1, b1, c1}
  Origin = a1
  Event = {e0}
  Founding = e0
  Content = {f1, f2}
  Seed = {0}
  None = None
  MaxMoves = 2
  MaxInFlight = 1
INVARIANT RetryFinishesRetirement
CHECK_DEADLOCK FALSE
