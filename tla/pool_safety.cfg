\* A bulk lane of one token beside a pool of two connections.
SPECIFICATION FairSpec
CONSTANTS
  Interactive = {i1, i2}
  Heavy = {h1, h2}
  Streams = {s1}
  Conns = {c1, c2}
  BulkLimit = 1
  MaxWaiters = 2
  NoConn = NoConn
INVARIANTS
  LeaseExclusive
  PermitFindsConn
  SendsHaveRoom
  NoStandOff
  InteractiveReserve
  NothingLost
  Accounting
PROPERTIES
  ImplementsLeases
  BulkReturns
