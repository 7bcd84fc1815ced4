\* The target of a vote-out revokes the roles that could close it.
SPECIFICATION Spec
CONSTANTS
  Principal = {p1, p2}
  None = None
  MinTeams = 2
  MaxTeams = 2
  MaxGrants = 2
  MaxSeatings = 2
  MaxInvites = 0
  MaxVotes = 1
  Minded = {}
  Watched = {}
SYMMETRY Interchangeable
INVARIANTS
  NobodyEntrenches
