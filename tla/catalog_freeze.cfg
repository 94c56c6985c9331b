\* A catalog that other clients change while servers start on it.
SPECIFICATION Spec
CONSTANTS
  Ids = {1, 2}
  Rows = {1, 2, 3}
  Bound = 5
  Columns = {1, 2}
  Built <- MCBuilt
  First <- MCFirst
INVARIANTS
  ServesPinned
  CleanIsFrozen
