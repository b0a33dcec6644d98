\* Every sequence of calls on one account with one position, with crashes,
\* failed saves and failed reads.
SPECIFICATION Spec
CONSTANTS
  Addr = {"alice"}
  Symbol = {"BTC-USDT"}
  Amount = {1}
  Fee = {1}
  Price = {1, 2}
  Lots = {1}
  MaxDeposit = 1
  MaxGain = 1
  MaxDebt = 1
  MaxSize = 1
  MaxMargin = 1
  MaxCash = 1
  MaxRounding = 0
INVARIANTS
  TypeOK
  MarginsLocked
  BalancesCovered
