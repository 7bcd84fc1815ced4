\* An election in which nobody voted is said to be ready to close.
SPECIFICATION Spec
CONSTANTS
  Principal = {p1, p2}
  None = None
  MinTeams = 2
  MaxTeams = 2
  MaxGrants = 1
  MaxSeatings = 0
  MaxInvites = 0
  MaxVotes = 1
  Minded = {}
  Watched = {}
SYMMETRY Interchangeable
INVARIANTS
  ReadyMeansClosable
