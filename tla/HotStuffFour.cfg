\* Four validators: votes lost or misrouted, proposals and prepares lost,
\* delayed or reordered, timeouts, leaders that fail.
SPECIFICATION Spec
CONSTANTS
  N = 4
  MaxView = 2
  MaxRestarts = 0
  ChanCap = 1
  Payloads = {TRUE}
  MaxPrepares = 3
INVARIANTS
  CertsHaveQuorums
  CertifiedStatesLinear
  CommitsAreTwoChains
CONSTRAINT FewPrepares
ACTION_CONSTRAINT OnlyLeadersWait
CHECK_DEADLOCK FALSE
