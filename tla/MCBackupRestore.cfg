\* Three failures anywhere in restores and recoveries of two databases.
\* No symmetry: it is unsound for RestoreEnds.
SPECIFICATION FairSpec
CONSTANTS
  Name = {main, history}
  Absent = Absent
  None = None
  MaxContent = 2
  MaxFailures = 3
INVARIANTS
  RollbackPossible
  AppSeesWholeProfile
PROPERTIES
  NoProfileLost
  ImplementsAtomicRestore
  RestoreEnds
CHECK_DEADLOCK FALSE
