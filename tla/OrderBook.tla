----------------------------- MODULE OrderBook -----------------------------
(***************************************************************************)
(* One order book of pkg/app/core/orderbook: Place and Cancel over price   *)
(* levels, a heap of prices for each side and an index from order IDs to   *)
(* prices.                                                                 *)
(*                                                                         *)
(* Both methods hold ob.mu.  Cancel is one action; the loop of Place is    *)
(* one action per iteration, and taker # NoOrder says that Place holds the *)
(* mutex, so that nothing else runs between its iterations.                *)
(*                                                                         *)
(* A price without a level is one whose queue is empty: the code deletes   *)
(* the map entry with the last order.  A heap is the number of times it    *)
(* holds each price; how container/heap arranges its slice is external.    *)
(* Nothing in the book asks for a fresh ID: the feeder of every node, and  *)
(* of every start of it, counts its IDs from 1 (txgen.go).  reused records *)
(* which IDs came to rest while they rested already.                       *)
(***************************************************************************)
EXTENDS Integers, Sequences, FiniteSets, SequencesExt

CONSTANTS
  Price,         \* prices in ticks
  Id,            \* order IDs
  Qty,           \* quantities an order is placed with, in lots
  MinOrderSize, MaxOrderSize, MinNotional,  \* of the market
  MaxResting     \* bound: resting orders when another one is placed

\* Prices are positive integers of a bounded width.
ASSUME PriceAssumption == Price \subseteq Nat \ {0} /\ \E max \in Price : \A p \in Price : p <= max
ASSUME QtyAssumption == Qty \subseteq Nat
ASSUME MarketAssumption ==
  MinOrderSize \in Nat \ {0} /\ MaxOrderSize \in Nat /\ MinNotional \in Nat
ASSUME BoundAssumption == MaxResting \in Nat

Side == {"buy", "sell"}
Type == {"GTC", "IOC", "ALO"}
Order == [id : Id, side : Side, price : Price, qty : Nat, type : Type]
NoOrder == [id |-> "none", side |-> "buy", price |-> 0, qty |-> 0, type |-> "IOC"]

\* An order in a queue; its side and price are those of the queue.
RestingOrder == [id : Id, qty : Nat \ {0}]

VARIABLES
  level,       \* bids and asks: level[s][p] is the FIFO queue of side s at p
  heap,        \* bidHeap and askHeap: heap[s][p] is how often s holds p
  orderIndex,  \* orderIndex[id]: the price the ID was added at, 0 if absent
  lastPrice,
  taker,       \* the order Place is matching, or NoOrder
  reused       \* history: IDs that were added while they rested

vars == <<level, heap, orderIndex, lastPrice, taker, reused>>

Opposite(s) == IF s = "buy" THEN "sell" ELSE "buy"

\* bestBid and bestAsk: the top of the heap of side s is p.
Better(s, p, q) == IF s = "buy" THEN p > q ELSE p < q
IsBest(s, p) == heap[s][p] > 0 /\ \A q \in Price \ {p} : heap[s][q] > 0 => Better(s, p, q)

Crosses_strict(o, p) == IF o.side = "buy" THEN p < o.price ELSE p > o.price   \* mutant: < for <=
Crosses(o, p) == IF o.side = "buy" THEN p <= o.price ELSE p >= o.price

\* market.ValidateOrder of an active market.
ValidateOrder(price, qty) ==
  qty >= MinOrderSize /\ qty <= MaxOrderSize /\ price * qty >= MinNotional

Submitted == {o \in [id : Id, side : Side, price : Price, qty : Qty, type : Type] :
                ValidateOrder(o.price, o.qty)}

Init ==
  /\ level = [s \in Side |-> [p \in Price |-> <<>>]]
  /\ heap = [s \in Side |-> [p \in Price |-> 0]]
  /\ orderIndex = [id \in Id |-> 0]
  /\ lastPrice = 0
  /\ taker = NoOrder
  /\ reused = {}

\* The orders of an ID in a queue, and whether it rests at a price.
At(s, p, id) == {i \in 1..Len(level[s][p]) : level[s][p][i].id = id}
RestsAt(id, p) == \E s \in Side : At(s, p, id) # {}

-----------------------------------------------------------------------------
\* heap.Push of a level that is new, and removeFromBidHeap/removeFromAskHeap of
\* one that is empty (the first occurrence, if there is one).
PushPrice_always(s, p) == [heap EXCEPT ![s][p] = @ + 1]   \* mutant: every order pushes its price
PushPrice(s, p) == IF level[s][p] = <<>> THEN [heap EXCEPT ![s][p] = @ + 1] ELSE heap

RemovePrice_never(s, p) == heap   \* mutant: an emptied level stays in the heap
RemovePrice(s, p) == IF heap[s][p] > 0 THEN [heap EXCEPT ![s][p] = @ - 1] ELSE heap

\* Place takes the mutex and the order passes the market's checks.  (One that
\* does not changes nothing.)
Place(o) ==
  /\ taker = NoOrder
  /\ SumFunction([x \in Side \X Price |-> Len(level[x[1]][x[2]])]) < MaxResting
  /\ taker' = o
  /\ UNCHANGED <<level, heap, orderIndex, lastPrice, reused>>

\* The head of a level and the taker trade the smaller of their quantities.
Smaller(a, b) == IF a < b THEN a ELSE b

\* mutant: a filled maker leaves its level but not the index
Unindexed_never(id) == orderIndex
Unindexed(id) == [orderIndex EXCEPT ![id] = 0]

\* One iteration of the loop of Place: the best opposite price is acceptable.
\* Its level is never empty (HeapsMatchLevels); the code cleans up if it is.
Match(s, p) ==
  /\ taker # NoOrder
  /\ taker.qty > 0
  /\ s = Opposite(taker.side)
  /\ IsBest(s, p)
  /\ Crosses(taker, p)
  /\ IF level[s][p] = <<>>
     THEN /\ heap' = RemovePrice(s, p)
          /\ UNCHANGED <<level, orderIndex, lastPrice, taker>>
     ELSE LET maker == Head(level[s][p])
              match == Smaller(taker.qty, maker.qty)
              queue == IF match = maker.qty THEN Tail(level[s][p])
                       ELSE [level[s][p] EXCEPT ![1].qty = @ - match]
          IN  /\ taker' = [taker EXCEPT !.qty = @ - match]
              /\ level' = [level EXCEPT ![s][p] = queue]
              /\ orderIndex' = IF match = maker.qty THEN Unindexed(maker.id) ELSE orderIndex
              /\ heap' = IF queue = <<>> THEN RemovePrice(s, p) ELSE heap
              /\ lastPrice' = p
  /\ UNCHANGED reused

Rests_zero(o) == o.type = "GTC"   \* mutant: a filled order rests with quantity 0
Rests(o) == o.qty > 0 /\ o.type = "GTC"

\* The loop ends; what is left of a GTC order rests (addBid, addAsk).
Return ==
  /\ taker # NoOrder
  /\ \/ taker.qty = 0
     \/ \A p \in Price : IsBest(Opposite(taker.side), p) => ~Crosses(taker, p)
  /\ IF Rests(taker)
     THEN /\ heap' = PushPrice(taker.side, taker.price)
          /\ level' = [level EXCEPT ![taker.side][taker.price] =
                         Append(@, [id |-> taker.id, qty |-> taker.qty])]
          /\ orderIndex' = [orderIndex EXCEPT ![taker.id] = taker.price]
          /\ reused' = IF \E p \in Price : RestsAt(taker.id, p) THEN reused \cup {taker.id} ELSE reused
     ELSE UNCHANGED <<level, heap, orderIndex, reused>>
  /\ taker' = NoOrder
  /\ UNCHANGED lastPrice

-----------------------------------------------------------------------------
\* mutant: the last order takes the place of the i-th
Without_swap(queue, i) ==
  SubSeq([queue EXCEPT ![i] = queue[Len(queue)]], 1, Len(queue) - 1)

\* The queue without its i-th order.
Without(queue, i) == RemoveAt(queue, i)

\* Cancel takes the first order of that ID at the indexed price, bids before
\* asks.  Cancelling an ID that is not indexed changes nothing.
Cancel(id) ==
  /\ taker = NoOrder
  /\ orderIndex[id] # 0
  /\ LET p == orderIndex[id] IN
       \E s \in Side : \E i \in At(s, p, id) :
         LET queue == Without(level[s][p], i) IN
           /\ s = "sell" => At("buy", p, id) = {}
           /\ \A j \in At(s, p, id) : i <= j
           /\ level' = [level EXCEPT ![s][p] = queue]
           /\ heap' = IF queue = <<>> THEN RemovePrice(s, p) ELSE heap
  /\ orderIndex' = Unindexed(id)
  /\ UNCHANGED <<lastPrice, taker, reused>>

Next ==
  \/ \E o \in Submitted : Place(o)
  \/ \E s \in Side, p \in Price : Match(s, p)
  \/ Return
  \/ \E id \in Id : Cancel(id)

Spec == Init /\ [][Next]_vars

\* A call of Place runs on: nothing in it waits.
Fairness == WF_vars(Return \/ \E s \in Side, p \in Price : Match(s, p))

FairSpec == Spec /\ Fairness

-----------------------------------------------------------------------------
(***************************************************************************)
(* Properties                                                              *)
(***************************************************************************)

\* Every variable holds values of its type.
TypeOK ==
  /\ level \in [Side -> [Price -> Seq(RestingOrder)]]
  /\ heap \in [Side -> [Price -> Nat]]
  /\ orderIndex \in [Id -> Price \cup {0}]
  /\ lastPrice \in Price \cup {0}
  /\ taker \in Order \cup {NoOrder}
  /\ reused \subseteq Id

\* Each heap holds exactly the prices that have resting orders, each once: the
\* best price is never stale, and no level is out of reach of the matching.
HeapsMatchLevels ==
  \A s \in Side, p \in Price : heap[s][p] = IF level[s][p] = <<>> THEN 0 ELSE 1

\* Where the index names a price an order of that ID rests there, so that Cancel
\* finds one, whatever IDs are used.  A resting order is where the index says,
\* unless its ID was reused.
IndexMatchesLevels ==
  \A id \in Id, p \in Price :
    /\ orderIndex[id] = p => RestsAt(id, p)
    /\ id \notin reused /\ RestsAt(id, p) => orderIndex[id] = p

\* README.md of pkg/app/core, "Orderbook Integrity": best bid below best ask.
\* It holds during Place as well: what is left of the taker rests only once
\* nothing acceptable is left on the other side.
NotCrossed ==
  \A p, q \in Price : level["buy"][p] # <<>> /\ level["sell"][q] # <<>> => p < q

\* README.md:127 of pkg/app/core: "Cancel(id string) bool: Remove resting order".
\* What rests has an entry in the index, without which Cancel returns false.
\* (README.md:65 calls an order ID unique; see the run order_id.)
RestingIsIndexed ==
  \A id \in Id, p \in Price : RestsAt(id, p) => orderIndex[id] # 0

\* Place returns: the loop consumes the taker or runs out of acceptable prices.
PlaceReturns == taker # NoOrder ~> taker = NoOrder
=============================================================================
