\* The outgoing commissioner may be elected, and then nobody leads.
SPECIFICATION Spec
CONSTANTS
  Principal = {p1, p2}
  None = None
  MinTeams = 2
  MaxTeams = 2
  MaxGrants = 1
  MaxSeatings = 2
  MaxInvites = 0
  MaxVotes = 1
  Minded = {}
  Watched = {}
SYMMETRY Interchangeable
INVARIANTS
  LeagueCanBeLed
