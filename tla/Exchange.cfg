\* Two blocks of two transactions on two replicas, with one API call or tick.
SPECIFICATION Spec
CONSTANTS
  alice = alice
  bob = bob
  agent = agent
  Replica = {r1, r2}
  Addr = {alice, bob}
  Symbol = {"BTC-USDT", "ETH-USDT"}
  Market = "BTC-USDT"
  Price = {1, 2}
  MinOrderSize = 1
  MaxOrderSize = 3
  MinNotional = 1
  MaxPosition = 3
  MaxLeverage = 3
  InitialMarginBps = 5
  TakerFeeBps = 5
  MakerRebateBps = 3
  Bps = 10
  Word = 128
  Funds <- MCFunds
  Delegation <- MCDelegation
  Tx <- MCTx
  Parts <- MCParts
  Pushed <- MCPushed
  MaxTxBytes = 4
  MaxBlocks = 2
  MaxPushes = 2
  MaxLocal = 1
SYMMETRY Symmetry
INVARIANTS
  TradedWithinOrdered
  RejectedStaysRejected
  SignedOrdersCancellable
  SameTransactionsSameState
  AppHashAgrees
  ListedSymbolsAreSafe
CHECK_DEADLOCK FALSE
