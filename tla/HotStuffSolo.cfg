\* One validator (the default SingleNode deployment): every interleaving of
\* its three goroutines, with one crash and restart.
SPECIFICATION FairSpec
CONSTANTS
  N = 1
  MaxView = 3
  MaxRestarts = 1
  ChanCap = 2
  Payloads = {TRUE, FALSE}
  MaxPrepares = 99
INVARIANTS
  TypeOK
  CertNamesResult
  CommitsAreTwoChains
  CommitsAreDistinct
  LockFollowsCommits

  
CHECK_DEADLOCK FALSE
