\* Two IDs on two prices: an ID is used again while it rests.
SPECIFICATION Spec
CONSTANTS
  Price = {1, 2}
  Id = {"trader_0_o1", "trader_1_o1"}
  Qty = {1}
  MinOrderSize = 1
  MaxOrderSize = 1
  MinNotional = 1
  MaxResting = 2
INVARIANT RestingIsIndexed
