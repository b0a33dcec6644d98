\* Every sequence of placed and cancelled orders over two prices,
\* with IDs used again while they rest.
SPECIFICATION FairSpec
CONSTANTS
  Price = {1, 2}
  Id = {"a", "b"}
  Qty = {1, 2}
  MinOrderSize = 1
  MaxOrderSize = 2
  MinNotional = 2
  MaxResting = 3
INVARIANTS
  TypeOK
  HeapsMatchLevels
  IndexMatchesLevels
  NotCrossed
PROPERTIES
  PriceTimePriority
  PlaceReturns
