\* Builds, an index run and a reader at once; every name is unique.
SPECIFICATION Spec
CONSTANTS
  b1 = b1
  b2 = b2
  b3 = b3
  x1 = x1
  r1 = r1
  r2 = r2
  o1 = o1
  o2 = o2
  n1 = n1
  n2 = n2
  n3 = n3
  c1 = c1
  c2 = c2
  None = None
  Builds = {b1, b2, b3}
  Reindexes = {x1}
  Outs = {o1, o2}
  Names = {n1, n2, n3, c1, c2}
  Readers = {r1}
  Tree <- RaceTree
  Files <- RaceFiles
  Out <- Paths
  Inserted <- FirstInsert
  Last <- Snapshots
  After <- Together
  StatFails = {}
INVARIANTS
  PublishedWhole
  ServedIndexMatches
PROPERTIES
  PinsLast
CHECK_DEADLOCK FALSE
