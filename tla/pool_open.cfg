\* The default flags: the bulk lane is as wide as the pool, so there is none.
SPECIFICATION FairSpec
CONSTANTS
  Interactive = {i1}
  Heavy = {h1}
  Streams = {s1, s2}
  Conns = {c1, c2}
  BulkLimit = 2
  MaxWaiters = 1
  NoConn = NoConn
PROPERTY InteractiveReturns
