------------------------------ MODULE Proposer ------------------------------
(***************************************************************************)
(* A validator that is pushed transactions and proposes blocks: the        *)
(* mempool between App.PushTx, called by HTTP handlers and the feeder, and *)
(* Bridge.PreparePayload, called when the validator leads.                 *)
(*                                                                         *)
(* An element of Tx is one submission; it can be made again once it has    *)
(* left the pool.  Equal transactions submitted twice are two elements.    *)
(* A cancel, signed or not, names the order it cancels by its field id.    *)
(***************************************************************************)
EXTENDS Mempool

VARIABLES
  pool,
  selected,  \* the transactions of the latest proposal
  block,     \* its payload, as validators split it
  behind     \* <<cancel, order>>: the order was pending when the cancel came

vars == <<pool, selected, block, behind>>

Holds(queue, tx) == \E i \in 1..Len(queue) : queue[i] = tx
IsPending(tx) == Holds(pool[ClassifyRaw(tx)], tx)

Init ==
  /\ pool = NewMempool
  /\ selected = <<>>
  /\ block = <<>>
  /\ behind = {}

\* A piece of tx cancels the order.
Cancels(tx, order) ==
  /\ order.kind \in {"order", "O"}
  /\ \E i \in DOMAIN Parts[tx] : Parts[tx][i].kind \in {"cancel", "C"} /\ Parts[tx][i].id = order.id

PushTx(tx) ==
  /\ ~IsPending(tx)
  /\ pool' = PushRaw(pool, tx)
  /\ behind' = behind \cup {<<tx, order>> : order \in {o \in Tx : Cancels(tx, o) /\ IsPending(o)}}
  /\ UNCHANGED <<selected, block>>

\* Who pushes: the API a signed order as it was posted, and a cancel without
\* its signature; the feeder a batch of its own orders and cancels.  Signed
\* cancels come from other users of the application, which has no endpoint
\* for them.
SubmitOrder(tx) == tx.kind = "order" /\ PushTx(tx)
CancelOrder(tx) == tx.kind = "C" /\ PushTx(tx)
Feed(tx) == tx.kind \in {"O", "C"} /\ PushTx(tx)
SubmitCancel(tx) == tx.kind = "cancel" /\ PushTx(tx)

Propose ==
  /\ pool' = Unselected(pool)
  /\ selected' = SelectForProposal(pool)
  /\ block' = SplitPayload(PreparePayload(selected'))
  /\ behind' = {pair \in behind : ~Holds(selected', pair[1]) /\ ~Holds(selected', pair[2])}

Next ==
  \/ \E tx \in Tx : SubmitOrder(tx) \/ CancelOrder(tx) \/ Feed(tx) \/ SubmitCancel(tx)
  \/ Propose

\* A validator that runs on leads again and again: the leader rotates with the
\* view, and no round waits forever (RunGoesOn of HotStuff).
Spec == Init /\ [][Next]_vars /\ WF_vars(Propose)

-----------------------------------------------------------------------------
(***************************************************************************)
(* Properties                                                              *)
(***************************************************************************)

\* Every bucket holds transactions of its class, each once.
TypeOK ==
  /\ pool \in [Bucket -> Seq(Tx)]
  /\ \A b \in Bucket : IsInjective(pool[b]) /\ \A i \in 1..Len(pool[b]) : ClassifyRaw(pool[b][i]) = b
  /\ selected \in Seq(Tx)
  /\ block \in Seq(Tx)
  /\ behind \subseteq Tx \X Tx

\* The transactions of a block stay within the limit; its payload exceeds it
\* by a delimiter for each of them (bridge.go:44).
BlocksFit == Bytes(selected) <= MaxTxBytes

\* README.md of pkg/app/core, "Within each bucket: FIFO": what leaves the pool is
\* proposed, each transaction once and in the order it came, the transactions of
\* a bucket together; and validators get the pieces of each, in that order, and
\* nothing else.
FirstInFirstOut ==
  [][/\ \A b \in Bucket :
          \/ IsPrefix(pool[b], pool'[b])
          \/ \E m \in 1..Len(selected') + 1, n \in 0..Len(selected') :
               /\ pool[b] = SubSeq(selected', m, n) \o pool'[b]
               /\ \A i \in 1..Len(selected') : ClassifyRaw(selected'[i]) = b <=> i \in m..n
     /\ UNCHANGED <<selected, block>> \/ block' = Pieces(selected')]_vars

\* A cancel that is not JSON, which is what the API's cancel endpoint makes,
\* never overtakes the order it cancels.  (A signed cancel does.)
OrdersBeforeApiCancels ==
  [][\A pair \in behind :
       pair[1].kind = "C" /\ ~Holds(pool'[ClassifyRaw(pair[1])], pair[1]) =>
         \E i, j \in 1..Len(selected') : i < j /\ selected'[i] = pair[2] /\ selected'[j] = pair[1]]_vars

\* The oldest transaction of a bucket is no larger than a block.
HeadFits(b) == pool[b] # <<>> /\ Head(pool[b]).bytes <= MaxTxBytes
Served(b) == \E i \in 1..Len(selected) : ClassifyRaw(selected[i]) = b

\* Signed cancels are served again and again, unless the oldest one is too large
\* for any block, which then waits forever and all behind it.
CancelsServed == []<>(HeadFits("cancel") => Served("cancel"))

\* So are orders once no more cancels come: cancels fill blocks first and can
\* keep orders waiting, but a cancel that is too large for a block does not.
CancelsCease == <>[][~\E tx \in Tx : SubmitCancel(tx)]_vars
OrdersServed == CancelsCease => []<>(HeadFits("orders") => Served("orders"))
=============================================================================
