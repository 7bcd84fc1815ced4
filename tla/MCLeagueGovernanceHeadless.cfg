\* The creator of a league steps down alone, and nobody may open an election.
SPECIFICATION Spec
CONSTANTS
  Principal = {p1, p2}
  None = None
  MinTeams = 2
  MaxTeams = 2
  MaxGrants = 0
  MaxSeatings = 0
  MaxInvites = 0
  MaxVotes = 1
  Minded = {}
  Watched = {}
SYMMETRY Interchangeable
INVARIANTS
  SomebodyCanElect
