SPECIFICATION Spec
CONSTANTS
  a = a
  b = b
  Franchises = {a, b}
  Players = {p1, p2}
  Rounds = 1
  Owner <- OneRoundOwner
  MaximumPicks = 2
  Snake = TRUE
  Clock = 1
  Start = 1
  Orders <- TwoOrders
  FirstOrder <- AB
  Durations = {1}
  MaxTime = 2
  MaxEntries = 4
  MaxPicks = 4
SYMMETRY Interchangeable
INVARIANTS
  CursorDivides
  ReadableUnlessRevived
PROPERTIES
  TurnUndisturbed
  UsedStaysUsed
  RestoreReturns
  TimeOnlyExpires
CHECK_DEADLOCK FALSE
