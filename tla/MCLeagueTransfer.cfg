\* Safety with three databases, four seals: a move, its reverse and an
\* onward move, with aborts and crashes anywhere and two seal commands in
\* flight; and refinement of LeagueAuthority.
SPECIFICATION Spec
CONSTANTS
  Database = {a1, b1, c1}
  Origin = a1
  Event = {e0, e1}
  Founding = e0
  Content = {f1, f2}
  Seed = {0}
  None = None
  MaxMoves = 4
  MaxInFlight = 2
SYMMETRY Interchangeable
INVARIANTS
  AtMostOneWritable
  WritableHoldsLedger
  OneOutcome
PROPERTIES
  SourceFollowsDestination
  ReadOnlyCopiesAreFrozen
  ImplementsAuthority
CHECK_DEADLOCK FALSE
