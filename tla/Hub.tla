-------------------------------- MODULE Hub --------------------------------
(***************************************************************************)
(* The WebSocket hub of pkg/api/websocket.go: the goroutine of Hub.Run,    *)
(* the two pumps of each client and the calls of BroadcastToChannel, which *)
(* the goroutines of the consensus engine make at a trade and at a commit. *)
(*                                                                         *)
(* A message is a place in a buffer.  A client is a slot: once its         *)
(* goroutines ended, the slot stands for the next connection.  A           *)
(* connection is down when the peer left, when it did not answer within    *)
(* the deadlines (60 s for a read, 10 s for a write) or when a pump closed *)
(* it; whether a write to a peer that left fails is not certain.           *)
(*                                                                         *)
(* Nothing sends to the channel broadcast of the hub, so its branch in Run *)
(* is left out.                                                            *)
(***************************************************************************)
EXTENDS Naturals, FiniteSets

CONSTANTS
  Client,       \* slots for clients
  Broadcaster,  \* goroutines that broadcast, each to a channel of its own
  Cap           \* capacity of a send buffer, 256 in the code

ASSUME CapAssumption == Cap \in Nat \ {0}

VARIABLES
  clients,  \* hub.clients
  pending,  \* the request Run has received and wants the lock for, or NoRequest
  conn,     \* conn[c]: "none", "up" or "down"
  handler,  \* handler[c]: where handleWebSocket is
  reader,   \* reader[c]: where readPump is
  writer,   \* writer[c]: where writePump is
  left,     \* left[c]: queued messages writePump has still to add to its frame
  send,     \* send[c]: number of messages in c.send
  closed,   \* closed[c]: c.send is closed
  subs,     \* subs[c]: subscribed channels
  cast,     \* cast[b]: where BroadcastToChannel is
  todo      \* todo[b]: the clients its loop has left

connVars == <<conn, handler, reader, subs>>
bufVars == <<writer, left, send>>
castVars == <<cast, todo>>
vars == <<clients, pending, connVars, bufVars, closed, castVars>>

Request(c) == [op : {"register", "unregister"}, client : {c}]
NoRequest == [op |-> "none"]

Init ==
  /\ clients = {}
  /\ pending = NoRequest
  /\ conn = [c \in Client |-> "none"]
  /\ handler = [c \in Client |-> "off"]
  /\ reader = [c \in Client |-> "off"]
  /\ writer = [c \in Client |-> "off"]
  /\ left = [c \in Client |-> 0]
  /\ send = [c \in Client |-> 0]
  /\ closed = [c \in Client |-> FALSE]
  /\ subs = [c \in Client |-> {}]
  /\ cast = [b \in Broadcaster |-> "off"]
  /\ todo = [b \in Broadcaster |-> {}]

-----------------------------------------------------------------------------
\* Nothing of an earlier connection of the slot is left.
Gone(c) ==
  /\ handler[c] = "off" /\ reader[c] = "off" /\ writer[c] = "off"
  /\ c \notin clients
  /\ pending \notin Request(c)

Upgrade(c) ==
  /\ Gone(c)
  /\ conn' = [conn EXCEPT ![c] = "up"]
  /\ handler' = [handler EXCEPT ![c] = "registering"]
  /\ subs' = [subs EXCEPT ![c] = {}]
  /\ send' = [send EXCEPT ![c] = 0]
  /\ closed' = [closed EXCEPT ![c] = FALSE]
  /\ UNCHANGED <<clients, pending, reader, writer, left, castVars>>

Break(c) ==
  /\ conn[c] = "up"
  /\ conn' = [conn EXCEPT ![c] = "down"]
  /\ UNCHANGED <<clients, pending, handler, reader, subs, bufVars, closed, castVars>>

\* The registration was received; it may not have been carried out yet.
StartPumps(c) ==
  /\ handler[c] = "registered"
  /\ handler' = [handler EXCEPT ![c] = "off"]
  /\ reader' = [reader EXCEPT ![c] = "reading"]
  /\ writer' = [writer EXCEPT ![c] = "select"]
  /\ UNCHANGED <<clients, pending, conn, subs, left, send, closed, castVars>>

Subscribe(c, channels) ==
  /\ reader[c] = "reading" /\ conn[c] = "up"
  /\ subs' = [subs EXCEPT ![c] = @ \cup channels]
  /\ UNCHANGED <<clients, pending, conn, handler, reader, bufVars, closed, castVars>>

Unsubscribe(c, channels) ==
  /\ reader[c] = "reading" /\ conn[c] = "up"
  /\ subs' = [subs EXCEPT ![c] = @ \ channels]
  /\ UNCHANGED <<clients, pending, conn, handler, reader, bufVars, closed, castVars>>

ReadError_leaks(c) == \* mutant: readPump returns without its deferred call
  /\ reader[c] = "reading" /\ conn[c] = "down"
  /\ reader' = [reader EXCEPT ![c] = "off"]
  /\ UNCHANGED <<clients, pending, conn, handler, subs, bufVars, closed, castVars>>

ReadError(c) ==
  /\ reader[c] = "reading" /\ conn[c] = "down"
  /\ reader' = [reader EXCEPT ![c] = "unregistering"]
  /\ UNCHANGED <<clients, pending, conn, handler, subs, bufVars, closed, castVars>>

-----------------------------------------------------------------------------
(***************************************************************************)
(* Run.  register and unregister are unbuffered: the sender goes on when   *)
(* Run receives.                                                           *)
(***************************************************************************)
ReceiveRegister(c) ==
  /\ pending = NoRequest
  /\ handler[c] = "registering"
  /\ handler' = [handler EXCEPT ![c] = "registered"]
  /\ pending' = [op |-> "register", client |-> c]
  /\ UNCHANGED <<clients, conn, reader, subs, bufVars, closed, castVars>>

ReceiveUnregister(c) ==
  /\ pending = NoRequest
  /\ reader[c] = "unregistering"
  /\ reader' = [reader EXCEPT ![c] = "off"]
  /\ pending' = [op |-> "unregister", client |-> c]
  /\ UNCHANGED <<clients, conn, handler, subs, bufVars, closed, castVars>>

\* mutant: the channel of a client is closed without the lock
Unlocked_always == TRUE
Unlocked == \A b \in Broadcaster : cast[b] # "loop"

Register ==
  /\ pending.op = "register"
  /\ Unlocked
  /\ clients' = clients \cup {pending.client}
  /\ pending' = NoRequest
  /\ UNCHANGED <<connVars, bufVars, closed, castVars>>

Unregister ==
  /\ pending.op = "unregister"
  /\ Unlocked
  /\ clients' = clients \ {pending.client}
  /\ closed' = [closed EXCEPT ![pending.client] = @ \/ pending.client \in clients]
  /\ pending' = NoRequest
  /\ UNCHANGED <<connVars, bufVars, castVars>>

-----------------------------------------------------------------------------
(***************************************************************************)
(* BroadcastToChannel.  A request that Run has received waits for Lock,    *)
(* and a sync.RWMutex lets no new reader in while a writer waits.          *)
(***************************************************************************)
Broadcast(b) ==
  /\ cast[b] = "off"
  /\ cast' = [cast EXCEPT ![b] = "lock"]
  /\ UNCHANGED <<clients, pending, connVars, bufVars, closed, todo>>

RLock(b) ==
  /\ cast[b] = "lock"
  /\ pending = NoRequest
  /\ cast' = [cast EXCEPT ![b] = "loop"]
  /\ todo' = [todo EXCEPT ![b] = clients]
  /\ UNCHANGED <<clients, pending, connVars, bufVars, closed>>

Blocks_full(c) == send[c] = Cap   \* mutant: a full buffer is waited for
Blocks(c) == FALSE                \* the default case: a full buffer is skipped

Sent_over(c) == [send EXCEPT ![c] = @ + 1]   \* mutant: the buffer has no limit
Sent(c) == IF send[c] < Cap THEN [send EXCEPT ![c] = @ + 1] ELSE send

\* One iteration, over a map in any order.
Visit(b, c) ==
  /\ cast[b] = "loop"
  /\ c \in todo[b]
  /\ todo' = [todo EXCEPT ![b] = @ \ {c}]
  /\ IF b \notin subs[c] THEN UNCHANGED send
     ELSE /\ ~Blocks(c)
          /\ send' = Sent(c)
  /\ UNCHANGED <<clients, pending, connVars, writer, left, closed, cast>>

RUnlock(b) ==
  /\ cast[b] = "loop"
  /\ todo[b] = {}
  /\ cast' = [cast EXCEPT ![b] = "off"]
  /\ UNCHANGED <<clients, pending, connVars, bufVars, closed, todo>>

-----------------------------------------------------------------------------
(***************************************************************************)
(* writePump.  It is the only receiver of c.send.                          *)
(***************************************************************************)
ExitWriter(c) ==
  /\ writer' = [writer EXCEPT ![c] = "off"]
  /\ conn' = [conn EXCEPT ![c] = "down"]

Queued_before(c) == send[c]   \* mutant: n is read before the first message is taken
Queued(c) == send[c] - 1

\* A message is received; NextWriter succeeds and the queue is measured, or it
\* fails and the message is lost.
Take(c) ==
  /\ writer[c] = "select"
  /\ send[c] > 0
  /\ send' = [send EXCEPT ![c] = @ - 1]
  /\ \/ /\ writer' = [writer EXCEPT ![c] = "frame"]
        /\ left' = [left EXCEPT ![c] = Queued(c)]
        /\ UNCHANGED conn
     \/ /\ conn[c] = "down"
        /\ ExitWriter(c)
        /\ UNCHANGED left
  /\ UNCHANGED <<clients, pending, handler, reader, subs, closed, castVars>>

\* One queued message more in the frame; from a closed channel that is empty
\* the receive returns at once, without a message.
Drain(c) ==
  /\ writer[c] = "frame"
  /\ left[c] > 0
  /\ send[c] > 0 \/ closed[c]
  /\ left' = [left EXCEPT ![c] = @ - 1]
  /\ send' = IF send[c] > 0 THEN [send EXCEPT ![c] = @ - 1] ELSE send
  /\ UNCHANGED <<clients, pending, connVars, writer, closed, castVars>>

Flush(c) ==
  /\ writer[c] = "frame"
  /\ left[c] = 0
  /\ \/ /\ writer' = [writer EXCEPT ![c] = "select"]
        /\ UNCHANGED conn
     \/ /\ conn[c] = "down"
        /\ ExitWriter(c)
  /\ UNCHANGED <<clients, pending, handler, reader, left, send, subs, closed, castVars>>

\* The channel is closed and empty, or a ping cannot be written.
EndWriter(c) ==
  /\ writer[c] = "select"
  /\ \/ send[c] = 0 /\ closed[c]
     \/ conn[c] = "down"
  /\ ExitWriter(c)
  /\ UNCHANGED <<clients, pending, handler, reader, left, send, subs, closed, castVars>>

WritePump(c) == Take(c) \/ Drain(c) \/ Flush(c) \/ EndWriter(c)

Next ==
  \/ \E c \in Client :
       \/ Upgrade(c) \/ Break(c) \/ StartPumps(c)
       \/ \E channels \in SUBSET Broadcaster : Subscribe(c, channels) \/ Unsubscribe(c, channels)
       \/ ReadError(c) \/ ReceiveRegister(c) \/ ReceiveUnregister(c)
       \/ Take(c) \/ Drain(c) \/ Flush(c) \/ EndWriter(c)
  \/ Register \/ Unregister
  \/ \E b \in Broadcaster :
       \/ Broadcast(b) \/ RLock(b) \/ RUnlock(b)
       \/ \E c \in Client : Visit(b, c)

Spec == Init /\ [][Next]_vars

\* Goroutines run on.  Receives are strongly fair: blocked senders queue up in
\* order and select chooses at random.  RLock is: Unlock lets the readers in
\* that wait.
Fairness ==
  /\ WF_vars(Register \/ Unregister)
  /\ \A c \in Client :
       /\ WF_vars(StartPumps(c)) /\ WF_vars(ReadError(c)) /\ WF_vars(WritePump(c))
       /\ SF_vars(ReceiveRegister(c)) /\ SF_vars(ReceiveUnregister(c))
  /\ \A b \in Broadcaster :
       /\ SF_vars(RLock(b))
       /\ WF_vars(RUnlock(b) \/ \E c \in Client : Visit(b, c))

FairSpec == Spec /\ Fairness

-----------------------------------------------------------------------------
(***************************************************************************)
(* Properties                                                              *)
(***************************************************************************)

\* Every variable holds values of its type; buffers stay within capacity.
TypeOK ==
  /\ clients \subseteq Client
  /\ pending \in [op : {"register", "unregister"}, client : Client] \cup {NoRequest}
  /\ conn \in [Client -> {"none", "up", "down"}]
  /\ handler \in [Client -> {"off", "registering", "registered"}]
  /\ reader \in [Client -> {"off", "reading", "unregistering"}]
  /\ writer \in [Client -> {"off", "select", "frame"}]
  /\ left \in [Client -> 0..Cap]
  /\ send \in [Client -> 0..Cap]
  /\ closed \in [Client -> BOOLEAN]
  /\ subs \in [Client -> SUBSET Broadcaster]
  /\ cast \in [Broadcaster -> {"off", "lock", "loop"}]
  /\ todo \in [Broadcaster -> SUBSET Client]

\* A broadcast never sends to a closed channel, which would be a panic of the
\* whole node: whoever its loop has left is open, and so is every member.
NoSendOnClosed ==
  /\ \A c \in clients : ~closed[c]
  /\ \A b \in Broadcaster : \A c \in todo[b] : ~closed[c]

\* writePump never waits for, or makes up, a message in the middle of a frame:
\* what it counted is still there.
FramesComplete == \A c \in Client : writer[c] = "frame" => left[c] <= send[c]

\* A broadcast returns, whatever its clients do or leave undone: the commit or
\* the trade that makes it is not held up.
BroadcastReturns == \A b \in Broadcaster : cast[b] # "off" ~> cast[b] = "off"

\* When a connection goes down, the client leaves the hub and its goroutines
\* end: none of them waits for another forever.
DeadClientsLeave == \A c \in Client : conn[c] = "down" ~> Gone(c)
=============================================================================
