\* A message lost on the way to one honest validator.
SPECIFICATION Spec
CONSTANTS
  MaxPrepares = 9
  N = 4
  MaxView = 2
  MaxRestarts = 0
  ChanCap = 1
  Payloads = {TRUE}
INVARIANT NoMismatchAmongHonest
CHECK_DEADLOCK FALSE
