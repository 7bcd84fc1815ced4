SPECIFICATION Spec
CONSTANTS
  a = a
  b = b
  Franchises = {a, b}
  Players = {p1, p2}
  Rounds = 1
  Owner <- OneRoundOwner
  MaximumPicks = 2
  Snake = TRUE
  Clock = 2
  Start = 1
  Orders <- TwoOrders
  FirstOrder <- AB
  Durations = {1}
  MaxTime = 4
  MaxEntries = 4
  MaxPicks = 4
SYMMETRY Interchangeable
INVARIANT PicksNamedOnce
CHECK_DEADLOCK FALSE
