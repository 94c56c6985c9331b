SPECIFICATION FairSpec
CONSTANTS
  a = a
  b = b
  c = c
  Contents = {a, b, c}
  Unread = {c}
  Inputs <- MCInputs
  Minutes = 3
  Jobs = 2
  Tries = 1
INVARIANTS
  NamesAreContent
  CatalogsComplete
  RefIsComplete
PROPERTIES
  PublishedWhole
  CatalogsAreKept
  BucketIsStore
  NextJobRepairs
CHECK_DEADLOCK FALSE
