SPECIFICATION Spec
CONSTANTS
  Replicas = {r1, r2}
  Snapshots = 2
  Ids = {1, 2, 3}
  Sources = {osm, other}
  Headers <- MCHeaders
  MaxLimit = 2
  Width = 4
  Limits = {0, 1, 2, 3}
  Offsets = {0, 5}
  Asked <- MCAsked
  Datetimes = {None}
  WithPlus = {}
  Invalid = Invalid
  None = None
  osm = osm
  other = other
  d1 = d1
  d2 = d2
INVARIANTS PagesAscend NoneMissed NeverWidens
PROPERTY WalkEnds
