SPECIFICATION Spec
CONSTANTS
  a = a
  b = b
  c = c
  Contents = {a, b, c}
  Unread = {c}
  Inputs <- MCInputs
  Minutes = 3
  Jobs = 2
  Tries = 1
INVARIANT RefIsReadable
CHECK_DEADLOCK FALSE
