\* Vote-outs and elections among three people: two may tie in a runoff while
\* the third judges, and roles change at any moment of it.
SPECIFICATION Spec
CONSTANTS
  Principal = {p1, p2, p3}
  None = None
  MinTeams = 2
  MaxTeams = 2
  MaxGrants = 4
  MaxSeatings = 2
  MaxInvites = 0
  MaxVotes = 1
  Minded = {}
  Watched = {}
SYMMETRY Interchangeable
PROPERTIES
  StaysGoverned
  ElectionDecides
