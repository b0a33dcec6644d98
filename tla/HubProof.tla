------------------------------ MODULE HubProof ------------------------------
(***************************************************************************)
(* No broadcast sends to a closed channel, and writePump never waits for a *)
(* message in the middle of a frame: proved for any number of clients and  *)
(* broadcasts and any capacity.                                            *)
(***************************************************************************)
EXTENDS Hub, TLAPS

\* A member of the hub is open.
MembersOpen == \A c \in clients : ~closed[c]

\* A loop visits members; the write lock keeps members from leaving meanwhile.
LoopsVisitMembers ==
  \A b \in Broadcaster : todo[b] \subseteq clients /\ (cast[b] # "loop" => todo[b] = {})

\* The pumps start when the handler ends.
PumpsFollowHandler ==
  \A c \in Client : handler[c] # "off" => reader[c] = "off" /\ writer[c] = "off"

\* A client that waits for its registration is open and not known to Run.
RegisteringIsNew ==
  \A c \in Client :
    handler[c] = "registering" => ~closed[c] /\ c \notin clients /\ pending \notin Request(c)

\* What Run is about to register is open.
PendingIsOpen == \A c \in Client : pending = [op |-> "register", client |-> c] => ~closed[c]

IInv ==
  /\ TypeOK
  /\ MembersOpen
  /\ LoopsVisitMembers
  /\ PumpsFollowHandler
  /\ RegisteringIsNew
  /\ PendingIsOpen
  /\ FramesComplete

-----------------------------------------------------------------------------
LEMMA RequestsAreOfOneClient ==
  \A c \in Client : \A r :
    /\ r \in Request(c) <=> \/ r = [op |-> "register", client |-> c]
                            \/ r = [op |-> "unregister", client |-> c]
    /\ NoRequest \notin Request(c)
  BY SMT DEF Request, NoRequest

LEMMA InitIsInductive == Init => IInv
<1> SUFFICES ASSUME Init PROVE IInv
  OBVIOUS
<1>1. TypeOK
  BY CapAssumption DEF Init, TypeOK
<1>2. /\ MembersOpen /\ LoopsVisitMembers /\ PumpsFollowHandler
      /\ RegisteringIsNew /\ FramesComplete
  BY DEF Init, MembersOpen, LoopsVisitMembers, PumpsFollowHandler, RegisteringIsNew, FramesComplete
<1>3. PendingIsOpen
  BY DEF Init, PendingIsOpen
<1> QED
  BY <1>1, <1>2, <1>3 DEF IInv

LEMMA StepIsInductive == IInv /\ [Next]_vars => IInv'
<1> SUFFICES ASSUME IInv, [Next]_vars PROVE IInv'
  OBVIOUS
<1> USE CapAssumption, RequestsAreOfOneClient
<1> USE DEF IInv, TypeOK, MembersOpen, LoopsVisitMembers, PumpsFollowHandler,
  RegisteringIsNew, PendingIsOpen, FramesComplete, connVars, bufVars, castVars
<1>1. ASSUME NEW c \in Client, Upgrade(c) PROVE IInv'
  BY <1>1 DEF Upgrade, Gone
<1>2. ASSUME NEW c \in Client, Break(c) PROVE IInv'
  BY <1>2 DEF Break
<1>3. ASSUME NEW c \in Client, StartPumps(c) PROVE IInv'
  BY <1>3 DEF StartPumps
<1>4. ASSUME NEW c \in Client, ReadError(c) PROVE IInv'
  BY <1>4 DEF ReadError
<1>5. ASSUME NEW c \in Client, ReceiveRegister(c) PROVE IInv'
  BY <1>5 DEF ReceiveRegister
<1>6. ASSUME NEW c \in Client, ReceiveUnregister(c) PROVE IInv'
  BY <1>6 DEF ReceiveUnregister
<1>7. ASSUME NEW c \in Client, Take(c) PROVE IInv'
  BY <1>7 DEF Take, ExitWriter, Queued
<1>8. ASSUME NEW c \in Client, Drain(c) PROVE IInv'
  BY <1>8 DEF Drain
<1>9. ASSUME NEW c \in Client, Flush(c) PROVE IInv'
  BY <1>9 DEF Flush, ExitWriter
<1>10. ASSUME NEW c \in Client, EndWriter(c) PROVE IInv'
  BY <1>10 DEF EndWriter, ExitWriter
<1>11. ASSUME NEW c \in Client, NEW channels \in SUBSET Broadcaster, Subscribe(c, channels) PROVE IInv'
  BY <1>11 DEF Subscribe
<1>12. ASSUME NEW c \in Client, NEW channels \in SUBSET Broadcaster, Unsubscribe(c, channels) PROVE IInv'
  BY <1>12 DEF Unsubscribe
<1>13. ASSUME Register PROVE IInv'
  <2>1. PICK c \in Client : pending = [op |-> "register", client |-> c]
    BY <1>13 DEF Register, NoRequest
  <2>2. pending \in Request(c) /\ c \notin {d \in Client : handler[d] = "registering"}
    BY <2>1
  <2>3. /\ clients' = clients \cup {c} /\ pending' = NoRequest
        /\ UNCHANGED <<conn, handler, reader, subs, writer, left, send, closed, cast, todo>>
    BY <1>13, <2>1 DEF Register
  <2>4. ~closed[c] /\ \A b \in Broadcaster : cast[b] # "loop"
    BY <1>13, <2>1 DEF Register, Unlocked
  <2>5. TypeOK' /\ MembersOpen' /\ LoopsVisitMembers' /\ PumpsFollowHandler' /\ FramesComplete'
    BY <2>3, <2>4
  <2>6. RegisteringIsNew' /\ PendingIsOpen'
    BY <2>2, <2>3 DEF NoRequest
  <2> QED
    BY <2>5, <2>6
<1>14. ASSUME Unregister PROVE IInv'
  <2>1. PICK c \in Client : pending = [op |-> "unregister", client |-> c]
    BY <1>14 DEF Unregister, NoRequest
  <2>2. pending \in Request(c) /\ c \notin {d \in Client : handler[d] = "registering"}
    BY <2>1
  <2>3. /\ clients' = clients \ {c} /\ pending' = NoRequest
        /\ closed' = [closed EXCEPT ![c] = @ \/ c \in clients]
        /\ UNCHANGED <<conn, handler, reader, subs, writer, left, send, cast, todo>>
    BY <1>14, <2>1 DEF Unregister
  <2>4. \A b \in Broadcaster : cast[b] # "loop" /\ todo[b] = {}
    BY <1>14 DEF Unregister, Unlocked
  <2>5. \A d \in Client : d # c => closed'[d] = closed[d]
    BY <2>3
  <2>6. TypeOK'
    BY <2>3
  <2>7. MembersOpen' /\ LoopsVisitMembers' /\ PumpsFollowHandler' /\ FramesComplete'
    BY <2>3, <2>4, <2>5
  <2>8. RegisteringIsNew' /\ PendingIsOpen'
    BY <2>2, <2>3, <2>5 DEF NoRequest
  <2> QED
    BY <2>6, <2>7, <2>8
<1>15. ASSUME NEW b \in Broadcaster, Broadcast(b) PROVE IInv'
  BY <1>15 DEF Broadcast
<1>16. ASSUME NEW b \in Broadcaster, RLock(b) PROVE IInv'
  BY <1>16 DEF RLock
<1>17. ASSUME NEW b \in Broadcaster, RUnlock(b) PROVE IInv'
  BY <1>17 DEF RUnlock
<1>18. ASSUME NEW b \in Broadcaster, NEW c \in Client, Visit(b, c) PROVE IInv'
  BY <1>18 DEF Visit, Sent, Blocks
<1> HIDE DEF IInv, TypeOK, MembersOpen, LoopsVisitMembers, PumpsFollowHandler,
  RegisteringIsNew, PendingIsOpen, FramesComplete
<1>19. CASE Next
  BY <1>19, <1>1, <1>2, <1>3, <1>4, <1>5, <1>6, <1>7, <1>8, <1>9, <1>10, <1>11, <1>12, <1>13,
     <1>14, <1>15, <1>16, <1>17, <1>18, Zenon DEF Next
<1>20. CASE UNCHANGED vars
  <2>1. UNCHANGED <<clients, pending, conn, handler, reader, writer, left, send, closed, subs, cast, todo>>
    BY <1>20, Zenon DEF vars
  <2>2. TypeOK'
    BY <2>1 DEF IInv, TypeOK
  <2>3. MembersOpen' /\ LoopsVisitMembers' /\ PumpsFollowHandler'
    BY <2>1 DEF IInv, MembersOpen, LoopsVisitMembers, PumpsFollowHandler
  <2>4. RegisteringIsNew' /\ PendingIsOpen' /\ FramesComplete'
    BY <2>1 DEF IInv, RegisteringIsNew, PendingIsOpen, FramesComplete
  <2> QED
    BY <2>2, <2>3, <2>4 DEF IInv
<1> QED
  BY <1>19, <1>20
-----------------------------------------------------------------------------
LEMMA IInvHolds == Spec => []IInv
  BY InitIsInductive, StepIsInductive, PTL DEF Spec

\* The state of the hub and its goroutines has its type; no buffer exceeds its
\* capacity.
THEOREM HubTypeCorrect == Spec => []TypeOK
<1>1. IInv => TypeOK
  BY DEF IInv
<1> QED
  BY <1>1, IInvHolds, PTL

\* A broadcast never sends to a closed channel, however connections come and go.
THEOREM HubNeverSendsOnClosed == Spec => []NoSendOnClosed
<1>1. IInv => NoSendOnClosed
  BY DEF IInv, MembersOpen, LoopsVisitMembers, NoSendOnClosed
<1> QED
  BY <1>1, IInvHolds, PTL

\* writePump finds every message it counted for its frame.
THEOREM HubFramesComplete == Spec => []FramesComplete
<1>1. IInv => FramesComplete
  BY DEF IInv
<1> QED
  BY <1>1, IInvHolds, PTL
=============================================================================
