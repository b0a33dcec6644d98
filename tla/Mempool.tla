------------------------------ MODULE Mempool ------------------------------
(***************************************************************************)
(* The mempool of pkg/app/core/mempool and the payload of pkg/abci: what a *)
(* proposer does with the transactions it was given.  A pool is a function *)
(* from buckets to queues; every method holds m.mu and is an operator on   *)
(* the pool.                                                               *)
(*                                                                         *)
(* A transaction is a record with its kind and its length in bytes; what   *)
(* else it has belongs to the application.  The payload separates          *)
(* transactions by 0x00.  JSON text has no such byte, nor have the orders  *)
(* the feeder formats; a legacy cancel is formatted from an ID that nobody *)
(* checks (server.go:366) and may have some.  Parts[tx] is what stands     *)
(* between them: <<tx>> for a transaction without.                         *)
(***************************************************************************)
EXTENDS Integers, Sequences, SequencesExt, FiniteSetsExt

CONSTANTS
  Tx,          \* transactions: records with at least kind and bytes
  Parts,       \* Parts[tx]: the pieces of tx between bytes 0x00
  MaxTxBytes   \* the limit the bridge asks for

ASSUME LimitAssumption == MaxTxBytes \in Nat /\ \A tx \in Tx : tx.bytes \in Nat \ {0}

Bucket == {"nonOrder", "cancel", "orders"}

\* mutant: every cancel is one
ClassifyRaw_cancels(tx) == IF tx.kind \in {"cancel", "C"} THEN "cancel" ELSE "orders"

\* Only a JSON envelope of type cancel is one: whatever is not JSON, legacy
\* cancels among it, and every other type is taken for an order.
ClassifyRaw(tx) == IF tx.kind = "cancel" THEN "cancel" ELSE "orders"

NewMempool == [b \in Bucket |-> <<>>]

\* mutant: one queue for all
PushRaw_orders(pool, tx) == [pool EXCEPT !["orders"] = Append(@, tx)]

PushRaw(pool, tx) == [pool EXCEPT ![ClassifyRaw(tx)] = Append(@, tx)]

\* Len, which the API reports as the size of the mempool.
Pending(pool) == Len(pool["nonOrder"]) + Len(pool["cancel"]) + Len(pool["orders"])

Bytes(txs) == SumFunction([i \in DOMAIN txs |-> txs[i].bytes])

\* The closure pull: from the head of a queue as many as still fit.
Pull(queue, used) ==
  SubSeq(queue, 1, Cardinality({n \in 1..Len(queue) : used + Bytes(SubSeq(queue, 1, n)) <= MaxTxBytes}))

Pulled_unlimited(pool) == \* mutant: every bucket has the whole limit
  [b \in Bucket |-> Pull(pool[b], 0)]

Pulled_reversed(pool) == \* mutant: orders come before cancels
  LET orders == Pull(pool["orders"], 0)
      cancel == Pull(pool["cancel"], Bytes(orders))
  IN  [nonOrder |-> <<>>, cancel |-> cancel, orders |-> orders]

Pulled_stops(pool) == \* mutant: what does not fit ends the selection
  LET cancel == Pull(pool["cancel"], 0)
      orders == IF cancel = pool["cancel"] THEN Pull(pool["orders"], Bytes(cancel)) ELSE <<>>
  IN  [nonOrder |-> <<>>, cancel |-> cancel, orders |-> orders]

\* What SelectForProposal takes from each bucket; the bytes used so far go
\* from one bucket to the next.
Pulled(pool) ==
  LET nonOrder == Pull(pool["nonOrder"], 0)
      cancel == Pull(pool["cancel"], Bytes(nonOrder))
      orders == Pull(pool["orders"], Bytes(nonOrder) + Bytes(cancel))
  IN  [nonOrder |-> nonOrder, cancel |-> cancel, orders |-> orders]

SelectForProposal(pool) ==
  LET p == Pulled(pool) IN p["nonOrder"] \o p["cancel"] \o p["orders"]

\* A selected transaction has left the pool, whatever becomes of the block.
Unselected(pool) ==
  LET p == Pulled(pool) IN [b \in Bucket |-> SubSeq(pool[b], Len(p[b]) + 1, Len(pool[b]))]

-----------------------------------------------------------------------------
(***************************************************************************)
(* A payload is a sequence of transactions and delimiters.                 *)
(***************************************************************************)
Delimiter == [kind |-> "0x00"]
Garbled == [kind |-> "garbled"]   \* several transactions without a delimiter between them

ASSUME DelimiterAssumption == Delimiter \notin Tx /\ Garbled \notin Tx

ASSUME PartsAssumption ==
  /\ Parts \in [Tx -> Seq(Tx)]
  /\ \A tx \in Tx : tx.kind # "C" => Parts[tx] = <<tx>>

PreparePayload_joined(txs) == txs   \* mutant: no delimiters

PreparePayload(txs) ==
  [i \in 1..2 * Len(txs) |-> IF i % 2 = 1 THEN txs[(i + 1) \div 2] ELSE Delimiter]

Split(pieces, x) == pieces \o (IF x = Garbled THEN <<x>> ELSE Parts[x])

\* The pieces of some transactions, one after the other.
Pieces(txs) == FoldLeft(Split, <<>>, txs)

\* What stands between delimiters, and between the 0x00 of each, if it is anything.
SplitPayload(p) ==
  LET starts == {i \in 1..Len(p) : p[i] # Delimiter /\ (i > 1 => p[i - 1] = Delimiter)}
      start(n) == CHOOSE i \in starts : Cardinality({j \in starts : j <= i}) = n
      piece(i) == IF i = Len(p) \/ p[i + 1] = Delimiter THEN p[i] ELSE Garbled
  IN  Pieces([n \in 1..Cardinality(starts) |-> piece(start(n))])
=============================================================================
