\* Every sequence of fills of one position, without money: openings,
\* increases, reductions, closings and flips, and liquidations between them.
SPECIFICATION Spec
CONSTANTS
  Addr = {"alice"}
  Symbol = {"BTC-USDT"}
  Amount = {}
  Fee = {}
  Price = {1, 3}
  Lots = {1, 2, 3}
  MaxDeposit = 0
  MaxGain = 0
  MaxDebt = 0
  MaxSize = 3
  MaxMargin = 0
  MaxCash = 6
  MaxRounding = 2
INVARIANTS
  FillsAccounted
