\* Every order in which seven transactions can come, over and over, with blocks
\* of two bytes.
SPECIFICATION Spec
CONSTANTS
  Tx <- MCTx
  Parts <- MCParts
  MaxTxBytes = 2
INVARIANTS
  TypeOK
  BlocksFit
PROPERTIES
  FirstInFirstOut
  OrdersBeforeApiCancels
  CancelsServed
  OrdersServed
