\* One validator whose handlePrepare is at most one view behind its Run.
SPECIFICATION Spec
CONSTANTS
  MaxPrepares = 99
  N = 1
  MaxView = 5
  MaxRestarts = 0
  ChanCap = 10
  Payloads = {TRUE}
INVARIANT NoConflictingCommits
ACTION_CONSTRAINT OneViewBehind
CHECK_DEADLOCK FALSE
