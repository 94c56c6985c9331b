SPECIFICATION Spec
CONSTANTS
  Replicas = {r1}
  Snapshots = 1
  Ids = {1, 2}
  Sources = {osm, other}
  Headers <- MCHeaders
  MaxLimit = 2
  Width = 4
  Limits = {1, 2}
  Offsets = {0, 1}
  Asked <- MCAsked
  Datetimes = {None, d1, d2}
  WithPlus = {d2}
  Invalid = Invalid
  None = None
  osm = osm
  other = other
  d1 = d1
  d2 = d2
PROPERTY WalkEnds
