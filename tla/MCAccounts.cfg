SPECIFICATION Spec
CONSTANTS
  Users = {"ann", "bob"}
  Founder = "ann"
  Privileged = {"ann"}
  InviteLife = 5
  SetupLife = 2
  RecentLife = 2
  RestoreTime = 3
  MaxSecrets = 7
  MaxRequests = 1
  MaxOf <- Few
  MaxTime = 4
PROPERTIES
  OnlyOnce
  EndedAreRefused
  ProofsAreRecent
CHECK_DEADLOCK FALSE
