SPECIFICATION Spec
CONSTANTS
  N = 2
  Antimeridian = 2
  Pole = 1
  RowSets <- MCRowSets
  Roundings <- MCRoundings
  None = None
INVARIANT OnlyTheRimIsLost
