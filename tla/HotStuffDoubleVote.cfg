\* A validator restarts and votes a second time.
SPECIFICATION Spec
CONSTANTS
  MaxPrepares = 9
  N = 4
  MaxView = 1
  MaxRestarts = 1
  ChanCap = 1
  Payloads = {TRUE}
INVARIANT CertsHaveQuorums
CHECK_DEADLOCK FALSE
