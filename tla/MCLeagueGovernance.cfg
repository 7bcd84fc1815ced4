\* The people of a league: roles, deputies and succession with takeovers,
\* while people are invited, replaced and removed and a franchise is given up
\* and added again.
SPECIFICATION Spec
CONSTANTS
  Principal = {p1, p2, p3}
  None = None
  MinTeams = 1
  MaxTeams = 2
  MaxGrants = 3
  MaxSeatings = 1
  MaxInvites = 1
  MaxVotes = 0
  Minded = {1, 2}
  Watched = {p1}
SYMMETRY Interchangeable
INVARIANTS
  SuccessionConsistent
  DeputiesInOrder
  OneSeatEach
  FranchisesAccounted
PROPERTIES
  TurnsMoveOn
