SPECIFICATION Spec
CONSTANTS
  Calls = {c1}
  Tickets <- MCTickets
  Columns = {"id", "geometry", "x"}
  Default <- MCDefault
  DefaultLimit = 3
  MaxLimit = 4
  BatchRows = 2
  Window = 1
  MaxRows = 5
  None = None
INVARIANTS NeverTruncated RetriesAreSafe
PROPERTY StreamsEnd
CHECK_DEADLOCK FALSE
