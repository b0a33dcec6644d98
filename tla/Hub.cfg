\* Clients that come, break and come again while trades and order books are
\* broadcast.
SPECIFICATION FairSpec
CONSTANTS
  Client = {c1, c2}
  Broadcaster = {"trades"}
  Cap = 2
INVARIANTS
  TypeOK
  NoSendOnClosed
  FramesComplete
PROPERTIES
  BroadcastReturns
  DeadClientsLeave
