\* A pause ends if the operator keeps retrying: a move, its reverse and a
\* second move between two databases.  No symmetry: it is unsound here.
SPECIFICATION FairSpec
CONSTANTS
  Database = {a1, b1}
  Origin = a1
  Event = {e0, e1}
  Founding = e0
  Content = {f1, f2}
  Seed = {0}
  None = None
  MaxMoves = 3
  MaxInFlight = 1
PROPERTY PauseEnds
CHECK_DEADLOCK FALSE
