--------------------------- MODULE OrderBookProof ---------------------------
(***************************************************************************)
(* Theorems about OrderBook, for every set of prices, IDs and quantities.  *)
(*                                                                         *)
(* The inductive invariant adds to the properties the runs check that an   *)
(* ID which was never reused occurs once in all queues together.           *)
(*                                                                         *)
(* That OrderBook implements PriceTime is shown from the state in the      *)
(* middle of Place: what the closed form says of the levels and the        *)
(* quantity left is not changed by an iteration of the loop, and when the  *)
(* loop ends it says what Place does last.                                 *)
(***************************************************************************)
EXTENDS OrderBookPriority, Induction, SequenceTheorems

Ids(q) == {q[i].id : i \in 1..Len(q)}

Once(q, id) == \A i, j \in 1..Len(q) : q[i].id = id /\ q[j].id = id => i = j

\* The queue r is q without one order of the ID x.
Drops(q, r, x) ==
  /\ r \in Seq(RestingOrder)
  /\ Ids(r) \subseteq Ids(q)
  /\ Ids(q) \subseteq Ids(r) \cup {x}
  /\ \A id \in Id : Once(q, id) => Once(r, id)
  /\ Once(q, x) => x \notin Ids(r)

\* An ID that was not reused rests once: the index tells the prices apart, and
\* no price has both bids and asks of it.
OrdersRestOnce ==
  \A id \in Id \ reused :
    /\ \A s \in Side, p \in Price : Once(level[s][p], id)
    /\ \A p \in Price : id \in Ids(level["buy"][p]) => id \notin Ids(level["sell"][p])

Indexed ==
  \A id \in Id, p \in Price :
    /\ orderIndex[id] = p => \E s \in Side : id \in Ids(level[s][p])
    /\ id \notin reused => \A s \in Side : id \in Ids(level[s][p]) => orderIndex[id] = p

BookInv == TypeOK /\ HeapsMatchLevels /\ Indexed /\ OrdersRestOnce /\ NotCrossed

-----------------------------------------------------------------------------
(***************************************************************************)
(* Queues                                                                  *)
(***************************************************************************)

LEMMA IdsInId == ASSUME NEW q \in Seq(RestingOrder) PROVE Ids(q) \subseteq Id
<1>1. \A i \in 1..Len(q) : q[i] \in RestingOrder
  OBVIOUS
<1>2. QED
  BY <1>1 DEF Ids, RestingOrder

\* What an iteration of the loop does to the queue it trades with: a filled
\* maker is dropped (level[1:]), a partly filled one keeps its place.
LEMMA TailIds ==
  ASSUME NEW q \in Seq(RestingOrder), q # <<>>
  PROVE  Drops(q, Tail(q), Head(q).id)
<1>1. Tail(q) \in Seq(RestingOrder) /\ Len(Tail(q)) = Len(q) - 1 /\ Len(q) \in Nat /\ Len(q) > 0
  OBVIOUS
<1>2. \A i \in 1..Len(Tail(q)) : Tail(q)[i] = q[i + 1] /\ i + 1 \in 1..Len(q)
  BY <1>1
<1>3. ASSUME NEW id \in Id, Once(q, id) PROVE Once(Tail(q), id)
  BY <1>1, <1>2, <1>3 DEF Once
<1>4. Ids(Tail(q)) \subseteq Ids(q)
  BY <1>2 DEF Ids
<1>5. Once(q, Head(q).id) => Head(q).id \notin Ids(Tail(q))
  <2>1. SUFFICES ASSUME Once(q, Head(q).id), NEW i \in 1..Len(Tail(q)), Tail(q)[i].id = Head(q).id PROVE FALSE
    BY DEF Ids
  <2>2. q[i + 1].id = Head(q).id /\ i + 1 \in 1..Len(q) /\ i + 1 # 1 /\ 1 \in 1..Len(q) /\ Head(q) = q[1]
    BY <1>1, <1>2, <2>1
  <2>3. QED
    BY <2>1, <2>2 DEF Once
<1>6. Ids(q) \subseteq Ids(Tail(q)) \cup {Head(q).id}
  <2>1. SUFFICES ASSUME NEW i \in 1..Len(q), q[i].id # Head(q).id PROVE q[i].id \in Ids(Tail(q))
    BY DEF Ids
  <2>2. i # 1
    BY <2>1
  <2>3. i - 1 \in 1..Len(Tail(q)) /\ Tail(q)[i - 1] = q[i]
    BY <1>1, <1>2, <2>2
  <2>4. QED
    BY <2>3 DEF Ids
<1>7. QED
  BY <1>1, <1>3, <1>4, <1>5, <1>6 DEF Drops

LEMMA ReducedIds ==
  ASSUME NEW q \in Seq(RestingOrder), q # <<>>,
         NEW match \in Nat, match < Head(q).qty
  PROVE  LET r == [q EXCEPT ![1].qty = @ - match] IN
         /\ r \in Seq(RestingOrder)
         /\ \A id \in Id : Once(q, id) => Once(r, id)
         /\ Ids(r) = Ids(q)
         /\ r # <<>>
<1> DEFINE r == [q EXCEPT ![1].qty = @ - match]
<1>1. Len(q) \in Nat /\ Len(q) > 0 /\ q[1] = Head(q) /\ q[1] \in RestingOrder
  OBVIOUS
<1>2. [q[1] EXCEPT !.qty = @ - match] \in RestingOrder
  BY <1>1 DEF RestingOrder
<1>3. r \in Seq(RestingOrder) /\ Len(r) = Len(q)
  BY <1>1, <1>2
<1>4. \A i \in 1..Len(q) : r[i].id = q[i].id
  BY <1>1, <1>2, <1>3 DEF RestingOrder
<1>5. Ids(r) = Ids(q)
  BY <1>3, <1>4 DEF Ids
<1>6. \A id \in Id : Once(q, id) => Once(r, id)
  BY <1>3, <1>4 DEF Once
<1>7. r # <<>>
  BY <1>1, <1>3
<1>8. QED
  BY <1>3, <1>5, <1>6, <1>7

\* addBid and addAsk append to the queue.
LEMMA AppendIds ==
  ASSUME NEW q \in Seq(RestingOrder), NEW x \in RestingOrder
  PROVE  /\ Append(q, x) \in Seq(RestingOrder)
         /\ \A id \in Id : Once(q, id) /\ ~(id = x.id /\ id \in Ids(q)) => Once(Append(q, x), id)
         /\ Ids(Append(q, x)) = Ids(q) \cup {x.id}
         /\ Append(q, x) # <<>>
<1> DEFINE r == Append(q, x)
<1>1. r \in Seq(RestingOrder) /\ Len(r) = Len(q) + 1 /\ Len(q) \in Nat
  OBVIOUS
<1>2. \A i \in 1..Len(q) : r[i] = q[i]
  OBVIOUS
<1>3. r[Len(q) + 1] = x /\ 1..Len(r) = 1..Len(q) \cup {Len(q) + 1}
  BY <1>1
<1> HIDE DEF r
<1>4. Ids(r) = Ids(q) \cup {x.id}
  BY <1>1, <1>2, <1>3 DEF Ids
<1>5. ASSUME NEW id \in Id, Once(q, id), ~(id = x.id /\ id \in Ids(q)) PROVE Once(r, id)
  <2>1. CASE id = x.id
    <3>1. \A i \in 1..Len(q) : r[i].id # id
      BY <1>2, <1>5, <2>1 DEF Ids
    <3>2. QED
      BY <1>3, <3>1 DEF Once
  <2>2. CASE id # x.id
    BY <1>2, <1>3, <1>5, <2>2 DEF Once
  <2>3. QED
    BY <2>1, <2>2
<1>6. r # <<>>
  BY <1>1
<1>7. QED
  BY <1>1, <1>4, <1>5, <1>6 DEF r

\* Cancel removes one order and keeps the rest in their places.
LEMMA WithoutIds ==
  ASSUME NEW q \in Seq(RestingOrder), NEW i \in 1..Len(q)
  PROVE  Drops(q, Without(q, i), q[i].id)
<1> DEFINE r == Without(q, i)
           front == SubSeq(q, 1, i - 1)
           back == SubSeq(q, i + 1, Len(q))
<1>1. Len(q) \in Nat /\ i \in Nat /\ 1 <= i /\ i <= Len(q)
  OBVIOUS
<1>2. front \in Seq(RestingOrder) /\ Len(front) = i - 1 /\ \A k \in 1..(i - 1) : front[k] = q[k]
  BY <1>1
<1>3. back \in Seq(RestingOrder) /\ Len(back) = Len(q) - i /\ \A k \in 1..(Len(q) - i) : back[k] = q[k + i]
  BY <1>1
<1>4. r = front \o back
  BY DEF Without, RemoveAt
<1> HIDE DEF front, back, r
<1>5. r \in Seq(RestingOrder) /\ Len(r) = Len(q) - 1
  BY <1>1, <1>2, <1>3, <1>4
<1>6. \A k \in 1..Len(r) : r[k] = IF k < i THEN q[k] ELSE q[k + 1]
  <2>1. SUFFICES ASSUME NEW k \in 1..Len(r) PROVE r[k] = IF k < i THEN q[k] ELSE q[k + 1]
    OBVIOUS
  <2>2. CASE k < i
    BY <1>1, <1>2, <1>3, <1>4, <1>5, <2>2
  <2>3. CASE ~(k < i)
    <3>1. k - (i - 1) \in 1..(Len(q) - i) /\ k - (i - 1) + i = k + 1
      BY <1>1, <1>5, <2>3
    <3>2. r[k] = back[k - (i - 1)]
      BY <1>1, <1>2, <1>3, <1>4, <1>5, <2>3
    <3>3. QED
      BY <1>3, <2>3, <3>1, <3>2
  <2>4. QED
    BY <2>2, <2>3
<1>7. ASSUME NEW id \in Id, Once(q, id) PROVE Once(r, id)
  BY <1>1, <1>5, <1>6, <1>7 DEF Once
<1>8. \A k \in 1..Len(r) : \E j \in 1..Len(q) : r[k] = q[j] /\ j # i
  BY <1>1, <1>5, <1>6
<1>9. Ids(r) \subseteq Ids(q)
  BY <1>8 DEF Ids
<1>10. Once(q, q[i].id) => q[i].id \notin Ids(r)
  BY <1>8 DEF Once, Ids
<1>11. Ids(q) \subseteq Ids(r) \cup {q[i].id}
  <2>1. SUFFICES ASSUME NEW j \in 1..Len(q), q[j].id # q[i].id PROVE q[j].id \in Ids(r)
    BY DEF Ids
  <2>2. j # i
    BY <2>1
  <2>3. PICK k \in 1..Len(r) : r[k] = q[j]
    <3>1. CASE j < i
      BY <1>1, <1>5, <1>6, <3>1
    <3>2. CASE j > i
      <4>1. j - 1 \in 1..Len(r) /\ ~(j - 1 < i) /\ (j - 1) + 1 = j
        BY <1>1, <1>5, <3>2
      <4>2. QED
        BY <1>6, <4>1
    <3>3. QED
      BY <2>2, <3>1, <3>2
  <2>4. QED
    BY <2>3 DEF Ids
<1>12. QED
  BY <1>5, <1>7, <1>9, <1>10, <1>11 DEF r, Drops

-----------------------------------------------------------------------------
(***************************************************************************)
(* The book                                                                *)
(***************************************************************************)

LEMMA NoOrderFacts ==
  /\ NoOrder \notin Order
  /\ \A o \in Order : o.side \in Side /\ o.price \in Price /\ o.price > 0 /\ o.id \in Id /\ o.qty \in Nat
<1>1. \A o \in Order : o.side \in Side /\ o.price \in Price /\ o.id \in Id /\ o.qty \in Nat
  BY DEF Order
<1>2. NoOrder.price = 0 /\ \A p \in Price : p > 0
  BY PriceAssumption DEF NoOrder
<1>3. QED
  BY <1>1, <1>2

\* A queue that loses an order, in Match or Cancel, with its index entry.
LEMMA Shrink ==
  ASSUME BookInv, NEW s \in Side, NEW p \in Price, NEW q, NEW id,
         id \in Ids(level[s][p]), Drops(level[s][p], q, id),
         level' = [level EXCEPT ![s][p] = q],
         orderIndex' = [orderIndex EXCEPT ![id] = 0],
         heap' = IF q = <<>> THEN RemovePrice(s, p) ELSE heap,
         reused' = reused
  PROVE  /\ level' \in [Side -> [Price -> Seq(RestingOrder)]]
         /\ heap' \in [Side -> [Price -> Nat]]
         /\ orderIndex' \in [Id -> Price \cup {0}]
         /\ HeapsMatchLevels' /\ Indexed' /\ OrdersRestOnce' /\ NotCrossed'
<1> USE DEF BookInv
<1>1. \A t \in Side, r \in Price : level'[t][r] = IF t = s /\ r = p THEN q ELSE level[t][r]
  BY DEF TypeOK
<1>2. id \in Id /\ level[s][p] # <<>> /\ 0 \notin Price
  BY IdsInId, PriceAssumption DEF TypeOK, Ids
<1>3. heap[s][p] = 1
  BY <1>2 DEF HeapsMatchLevels
<1>4. \A t \in Side, r \in Price :
        heap'[t][r] = IF t = s /\ r = p THEN (IF q = <<>> THEN 0 ELSE 1) ELSE heap[t][r]
  BY <1>3 DEF RemovePrice, TypeOK
<1>5. heap' \in [Side -> [Price -> Nat]]
  BY <1>3 DEF RemovePrice, TypeOK
<1>6. level' \in [Side -> [Price -> Seq(RestingOrder)]]
  BY DEF TypeOK, Drops
<1>7. orderIndex' \in [Id -> Price \cup {0}]
  BY DEF TypeOK
<1>8. HeapsMatchLevels'
  BY <1>1, <1>4 DEF HeapsMatchLevels
<1>9. \A t \in Side, r \in Price :
        /\ Ids(level'[t][r]) \subseteq Ids(level[t][r])
        /\ Ids(level[t][r]) \subseteq Ids(level'[t][r]) \cup {id}
        /\ \A i \in Id : Once(level[t][r], i) => Once(level'[t][r], i)
  BY <1>1 DEF Drops
<1>10. id \notin reused => \A t \in Side, r \in Price : id \notin Ids(level'[t][r])
  <2>1. SUFFICES ASSUME id \notin reused, NEW t \in Side, NEW r \in Price PROVE id \notin Ids(level'[t][r])
    OBVIOUS
  <2>2. CASE r = p /\ t = s
    <3>1. Once(level[s][p], id)
      BY <1>2, <2>1 DEF OrdersRestOnce
    <3>2. QED
      BY <1>1, <2>2, <3>1 DEF Drops
  <2>3. CASE r = p /\ t # s
    <3>1. id \notin Ids(level[t][p])
      BY <1>2, <2>1, <2>3 DEF OrdersRestOnce, Side
    <3>2. QED
      BY <1>9, <2>3, <3>1
  <2>4. CASE r # p
    <3>1. orderIndex[id] = p
      BY <1>2, <2>1 DEF Indexed
    <3>2. id \notin Ids(level[t][r])
      BY <1>2, <2>1, <2>4, <3>1 DEF Indexed
    <3>3. QED
      BY <1>9, <3>2
  <2>5. QED
    BY <2>2, <2>3, <2>4
<1>11. Indexed'
  <2>1. SUFFICES ASSUME NEW i \in Id, NEW r \in Price
                 PROVE  /\ orderIndex'[i] = r => \E t \in Side : i \in Ids(level'[t][r])
                        /\ i \notin reused => \A t \in Side : i \in Ids(level'[t][r]) => orderIndex'[i] = r
    BY DEF Indexed
  <2>2. CASE i = id
    <3>1. orderIndex'[i] = 0
      BY <1>2, <2>2 DEF TypeOK
    <3>2. QED
      BY <1>2, <1>10, <2>2, <3>1
  <2>3. CASE i # id
    <3>1. orderIndex'[i] = orderIndex[i]
      BY <2>3 DEF TypeOK
    <3>2. \A t \in Side : i \in Ids(level'[t][r]) <=> i \in Ids(level[t][r])
      BY <1>9, <2>3
    <3>3. QED
      BY <3>1, <3>2 DEF Indexed
  <2>4. QED
    BY <2>2, <2>3
<1>12. OrdersRestOnce'
  <2>1. SUFFICES ASSUME NEW i \in Id \ reused
                 PROVE  /\ \A t \in Side, r \in Price : Once(level'[t][r], i)
                        /\ \A r \in Price : i \in Ids(level'["buy"][r]) => i \notin Ids(level'["sell"][r])
    BY DEF OrdersRestOnce
  <2>2. \A t \in Side, r \in Price : Once(level'[t][r], i)
    BY <1>9 DEF OrdersRestOnce
  <2>3. ASSUME NEW r \in Price PROVE i \in Ids(level'["buy"][r]) => i \notin Ids(level'["sell"][r])
    <3>1. i \in Ids(level["buy"][r]) => i \notin Ids(level["sell"][r])
      BY DEF OrdersRestOnce
    <3>2. Ids(level'["buy"][r]) \subseteq Ids(level["buy"][r]) /\ Ids(level'["sell"][r]) \subseteq Ids(level["sell"][r])
      BY <1>9 DEF Side
    <3>3. QED
      BY <3>1, <3>2
  <2>4. QED
    BY <2>2, <2>3
<1>13. NotCrossed'
  <2>1. \A t \in Side, r \in Price : level'[t][r] # <<>> => level[t][r] # <<>>
    BY <1>1, <1>2
  <2>2. QED
    BY <2>1 DEF NotCrossed, Side
<1>14. QED
  BY <1>5, <1>6, <1>7, <1>8, <1>11, <1>12, <1>13

LEMMA InitBook == Init => BookInv
<1> SUFFICES ASSUME Init PROVE BookInv
  OBVIOUS
<1>1. \A s \in Side, p \in Price : level[s][p] = <<>> /\ Ids(level[s][p]) = {} /\ \A id \in Id : Once(level[s][p], id)
  BY DEF Init, Ids, Once
<1>2. TypeOK
  BY DEF Init, TypeOK
<1>3. 0 \notin Price
  BY PriceAssumption
<1>4. HeapsMatchLevels /\ NotCrossed /\ Indexed
  BY <1>1, <1>3 DEF Init, HeapsMatchLevels, NotCrossed, Indexed, Side
<1>5. OrdersRestOnce
  BY <1>1 DEF OrdersRestOnce, Side
<1>6. QED
  BY <1>2, <1>4, <1>5 DEF BookInv

LEMMA PlaceBook == ASSUME BookInv, NEW o \in Submitted, Place(o) PROVE BookInv'
<1>1. o \in Order
  BY QtyAssumption DEF Submitted, Order
<1>2. TypeOK'
  BY <1>1 DEF Place, BookInv, TypeOK
<1>3. HeapsMatchLevels' /\ Indexed' /\ OrdersRestOnce' /\ NotCrossed'
  BY DEF Place, BookInv, HeapsMatchLevels, Indexed, OrdersRestOnce, NotCrossed
<1>4. QED
  BY <1>2, <1>3 DEF BookInv

\* The best price of a side has resting orders: the clean-up branch is dead.
LEMMA MatchBook == ASSUME BookInv, NEW s \in Side, NEW p \in Price, Match(s, p) PROVE BookInv'
<1> USE DEF BookInv
<1> DEFINE maker == Head(level[s][p])
           match == Smaller(taker.qty, maker.qty)
           queue == IF match = maker.qty THEN Tail(level[s][p])
                    ELSE [level[s][p] EXCEPT ![1].qty = @ - match]
<1>1. level[s][p] # <<>> /\ level[s][p] \in Seq(RestingOrder)
  BY DEF Match, IsBest, HeapsMatchLevels, TypeOK
<1>2. maker \in RestingOrder /\ maker.id \in Ids(level[s][p])
  <2>1. maker = level[s][p][1] /\ 1 \in 1..Len(level[s][p])
    BY <1>1
  <2>2. QED
    BY <1>1, <2>1 DEF Ids
<1>3. /\ taker' = [taker EXCEPT !.qty = @ - match]
      /\ level' = [level EXCEPT ![s][p] = queue]
      /\ orderIndex' = IF match = maker.qty THEN Unindexed(maker.id) ELSE orderIndex
      /\ heap' = IF queue = <<>> THEN RemovePrice(s, p) ELSE heap
      /\ lastPrice' = p
      /\ reused' = reused
  BY <1>1 DEF Match
<1>4. taker \in Order
  BY DEF Match, TypeOK
<1>5. match \in Nat /\ match <= taker.qty /\ match <= maker.qty
  BY <1>2, <1>4, NoOrderFacts DEF Smaller, RestingOrder
<1> HIDE DEF match, queue, maker
<1>6. taker' \in Order
  BY <1>3, <1>4, <1>5 DEF Order
<1>7. lastPrice' \in Price
  BY <1>3
<1>8. CASE match = maker.qty
  <2>1. queue = Tail(level[s][p])
    BY <1>8 DEF queue
  <2>2. Drops(level[s][p], queue, maker.id)
    BY <1>1, <2>1, TailIds DEF maker
  <2>3. orderIndex' = [orderIndex EXCEPT ![maker.id] = 0]
    BY <1>3, <1>8 DEF Unindexed
  <2>4. PICK q, id : q = queue /\ id = maker.id
    OBVIOUS
  <2>5. /\ id \in Ids(level[s][p]) /\ Drops(level[s][p], q, id)
        /\ level' = [level EXCEPT ![s][p] = q]
        /\ orderIndex' = [orderIndex EXCEPT ![id] = 0]
        /\ heap' = IF q = <<>> THEN RemovePrice(s, p) ELSE heap
        /\ reused' = reused
    BY <1>2, <1>3, <2>2, <2>3, <2>4
  <2>6. /\ level' \in [Side -> [Price -> Seq(RestingOrder)]]
        /\ heap' \in [Side -> [Price -> Nat]]
        /\ orderIndex' \in [Id -> Price \cup {0}]
        /\ HeapsMatchLevels' /\ Indexed' /\ OrdersRestOnce' /\ NotCrossed'
    BY <2>5, Shrink
  <2>7. QED
    BY <1>3, <1>6, <1>7, <2>6 DEF TypeOK
<1>9. CASE match # maker.qty
  <2>1. queue = [level[s][p] EXCEPT ![1].qty = @ - match]
    BY <1>9 DEF queue
  <2>2. match < maker.qty
    BY <1>2, <1>5, <1>9 DEF RestingOrder
  <2>3. /\ queue \in Seq(RestingOrder) /\ Ids(queue) = Ids(level[s][p]) /\ queue # <<>>
        /\ \A id \in Id : Once(level[s][p], id) => Once(queue, id)
    BY <1>1, <1>5, <2>1, <2>2, ReducedIds DEF maker
  <2>4. UNCHANGED <<orderIndex, heap, reused>>
    BY <1>3, <1>9, <2>3
  <2>5. \A t \in Side, r \in Price : level'[t][r] = IF t = s /\ r = p THEN queue ELSE level[t][r]
    BY <1>3 DEF TypeOK
  <2>6. \A t \in Side, r \in Price :
          /\ Ids(level'[t][r]) = Ids(level[t][r])
          /\ \A id \in Id : Once(level[t][r], id) => Once(level'[t][r], id)
          /\ level'[t][r] = <<>> <=> level[t][r] = <<>>
    BY <1>1, <2>3, <2>5
  <2>7. TypeOK'
    BY <1>3, <1>6, <1>7, <2>3, <2>4 DEF TypeOK
  <2>8. HeapsMatchLevels' /\ NotCrossed'
    BY <2>4, <2>6 DEF HeapsMatchLevels, NotCrossed, Side
  <2>9. Indexed'
    BY <2>4, <2>6 DEF Indexed
  <2>10. OrdersRestOnce'
    BY <2>4, <2>6 DEF OrdersRestOnce, Side
  <2>11. QED
    BY <2>7, <2>8, <2>9, <2>10
<1>10. QED
  BY <1>8, <1>9

LEMMA CancelBook == ASSUME BookInv, NEW id \in Id, Cancel(id) PROVE BookInv'
<1> USE DEF BookInv
<1>1. PICK p \in Price : p = orderIndex[id]
  BY DEF Cancel, TypeOK
<1>2. PICK s \in Side : \E i \in At(s, p, id) :
        /\ level' = [level EXCEPT ![s][p] = Without(level[s][p], i)]
        /\ heap' = IF Without(level[s][p], i) = <<>> THEN RemovePrice(s, p) ELSE heap
  BY <1>1 DEF Cancel
<1>3. PICK i \in 1..Len(level[s][p]) :
        /\ level[s][p][i].id = id
        /\ level' = [level EXCEPT ![s][p] = Without(level[s][p], i)]
        /\ heap' = IF Without(level[s][p], i) = <<>> THEN RemovePrice(s, p) ELSE heap
  BY <1>2 DEF At
<1>4. level[s][p] \in Seq(RestingOrder) /\ id \in Ids(level[s][p])
  BY <1>3 DEF TypeOK, Ids
<1>5. PICK q : q = Without(level[s][p], i)
  OBVIOUS
<1>6. Drops(level[s][p], q, id)
  BY <1>3, <1>4, <1>5, WithoutIds
<1>7. orderIndex' = [orderIndex EXCEPT ![id] = 0] /\ reused' = reused
  BY DEF Cancel, Unindexed
<1>8. level' = [level EXCEPT ![s][p] = q] /\ heap' = IF q = <<>> THEN RemovePrice(s, p) ELSE heap
  BY <1>3, <1>5
<1>9. /\ level' \in [Side -> [Price -> Seq(RestingOrder)]]
      /\ heap' \in [Side -> [Price -> Nat]]
      /\ orderIndex' \in [Id -> Price \cup {0}]
      /\ HeapsMatchLevels' /\ Indexed' /\ OrdersRestOnce' /\ NotCrossed'
  BY <1>4, <1>6, <1>7, <1>8, Shrink
<1>10. QED
  BY <1>9 DEF Cancel, TypeOK

-----------------------------------------------------------------------------
(***************************************************************************)
(* The best price, and the end of Place                                    *)
(***************************************************************************)

LEMMA Greatest ==
  ASSUME NEW T, T \subseteq Nat, T # {}, NEW max \in Nat, \A y \in T : y <= max
  PROVE  \E x \in T : \A y \in T : y <= x
<1> DEFINE D == {max - y : y \in T}
<1>1. D \subseteq Nat /\ D # {}
  <2>1. \A y \in T : max - y \in Nat
    OBVIOUS
  <2>2. QED
    BY <2>1
<1> HIDE DEF D
<1>2. PICK d \in D : \A e \in D : d <= e
  BY <1>1, NatMin
<1>3. PICK x \in T : d = max - x
  BY DEF D
<1>4. \A y \in T : d <= max - y
  BY <1>2 DEF D
<1>5. QED
  BY <1>3, <1>4

\* The top of a heap exists and is the best price with resting orders.
LEMMA BestExists ==
  ASSUME TypeOK, HeapsMatchLevels, NEW s \in Side, NEW r \in Price, level[s][r] # <<>>
  PROVE  \E p \in Price : IsBest(s, p) /\ (p = r \/ Better(s, p, r))
<1> DEFINE T == {q \in Price : level[s][q] # <<>>}
<1>1. T \subseteq Nat /\ T # {} /\ r \in T
  BY PriceAssumption
<1>2. \A q \in Price : heap[s][q] > 0 <=> q \in T
  BY DEF HeapsMatchLevels
<1>3. PICK max \in Nat : \A y \in T : y <= max
  BY PriceAssumption
<1> HIDE DEF T
<1>4. CASE s = "buy"
  <2>1. PICK p \in T : \A y \in T : y <= p
    BY <1>1, <1>3, Greatest
  <2>2. p \in Price /\ p \in Nat /\ heap[s][p] > 0
    BY <1>1, <1>2, <2>1 DEF T
  <2>3. ASSUME NEW q \in Price \ {p}, heap[s][q] > 0 PROVE p > q
    <3>1. q \in T /\ q \in Nat
      BY <1>1, <1>2, <2>3
    <3>2. QED
      BY <2>1, <2>2, <2>3, <3>1
  <2>4. IsBest(s, p)
    BY <1>4, <2>2, <2>3 DEF IsBest, Better
  <2>5. QED
    BY <1>1, <1>4, <2>1, <2>2, <2>4 DEF Better
<1>5. CASE s = "sell"
  <2>1. PICK p \in T : \A y \in T : p <= y
    BY <1>1, NatMin
  <2>2. p \in Price /\ p \in Nat /\ heap[s][p] > 0
    BY <1>1, <1>2, <2>1 DEF T
  <2>3. ASSUME NEW q \in Price \ {p}, heap[s][q] > 0 PROVE p < q
    <3>1. q \in T /\ q \in Nat
      BY <1>1, <1>2, <2>3
    <3>2. QED
      BY <2>1, <2>2, <2>3, <3>1
  <2>4. IsBest(s, p)
    BY <1>5, <2>2, <2>3 DEF IsBest, Better
  <2>5. QED
    BY <1>1, <1>5, <2>1, <2>2, <2>4 DEF Better
<1>6. QED
  BY <1>4, <1>5 DEF Side

\* When the loop ends with quantity left, no opposite price is acceptable.
LEMMA NothingAcceptable ==
  ASSUME BookInv, Return, taker.qty # 0, NEW r \in Price, level[Opposite(taker.side)][r] # <<>>
  PROVE  ~Crosses(taker, r)
<1>1. taker \in Order /\ taker.price \in Nat /\ taker.side \in Side
  BY NoOrderFacts, PriceAssumption DEF BookInv, TypeOK, Return
<1>2. Opposite(taker.side) \in Side
  BY DEF Opposite, Side
<1>3. PICK p \in Price : IsBest(Opposite(taker.side), p) /\ (p = r \/ Better(Opposite(taker.side), p, r))
  BY <1>2, BestExists DEF BookInv
<1>4. ~Crosses(taker, p)
  BY <1>1, <1>3 DEF Return
<1>5. p \in Nat /\ r \in Nat
  BY PriceAssumption
<1>6. QED
  BY <1>1, <1>3, <1>4, <1>5 DEF Crosses, Better, Opposite, Side

\* What is left of the taker rests at its price: nothing on the other side
\* accepts it any more, so the book stays uncrossed.
LEMMA ReturnBook == ASSUME BookInv, Return PROVE BookInv'
<1> USE DEF BookInv
<1> DEFINE s == taker.side
           p == taker.price
           x == [id |-> taker.id, qty |-> taker.qty]
<1>1. taker \in Order
  BY DEF Return, TypeOK
<1>2. s \in Side /\ p \in Price /\ p # 0 /\ taker.id \in Id /\ 0 \notin Price
  BY <1>1, NoOrderFacts, PriceAssumption
<1>3. CASE ~Rests(taker)
  <2>1. UNCHANGED <<level, heap, orderIndex, lastPrice, reused>> /\ taker' = NoOrder
    BY <1>3 DEF Return
  <2>2. TypeOK' /\ HeapsMatchLevels' /\ NotCrossed'
    BY <2>1 DEF TypeOK, HeapsMatchLevels, NotCrossed
  <2>3. Indexed' /\ OrdersRestOnce'
    BY <2>1 DEF Indexed, OrdersRestOnce
  <2>4. QED
    BY <2>2, <2>3
<1>4. CASE Rests(taker)
  <2>1. /\ heap' = PushPrice(s, p)
        /\ level' = [level EXCEPT ![s][p] = Append(@, x)]
        /\ orderIndex' = [orderIndex EXCEPT ![taker.id] = p]
        /\ reused' = IF \E r \in Price : RestsAt(taker.id, r) THEN reused \cup {taker.id} ELSE reused
        /\ taker' = NoOrder
        /\ lastPrice' = lastPrice
    BY <1>4 DEF Return
  <2>2. x \in RestingOrder
    BY <1>1, <1>4, NoOrderFacts DEF Rests, RestingOrder
  <2>3. /\ reused \subseteq reused' /\ reused' \subseteq Id
        /\ taker.id \notin reused' => \A t \in Side, r \in Price : taker.id \notin Ids(level[t][r])
    BY <1>2, <2>1 DEF RestsAt, At, Ids, TypeOK
  <2>4. level[s][p] \in Seq(RestingOrder)
    BY <1>2 DEF TypeOK
  <2>5. PICK q \in Seq(RestingOrder) :
          /\ q = Append(level[s][p], x) /\ q # <<>> /\ Ids(q) = Ids(level[s][p]) \cup {taker.id}
          /\ \A id \in Id : Once(level[s][p], id) /\ ~(id = taker.id /\ id \in Ids(level[s][p])) => Once(q, id)
    <3>1. PICK e \in RestingOrder : e = x
      BY <2>2
    <3>2. e.id = taker.id
      BY <3>1
    <3>3. PICK t \in Seq(RestingOrder) : t = level[s][p]
      BY <2>4
    <3>4. PICK q : q = Append(t, e)
      OBVIOUS
    <3>5. /\ q \in Seq(RestingOrder) /\ q # <<>> /\ Ids(q) = Ids(t) \cup {taker.id}
          /\ \A id \in Id : Once(t, id) /\ ~(id = taker.id /\ id \in Ids(t)) => Once(q, id)
      BY <3>2, <3>4, AppendIds
    <3>6. QED
      BY <3>1, <3>3, <3>4, <3>5
  <2> HIDE DEF s, p, x
  <2>6. \A t \in Side, r \in Price : level'[t][r] = IF t = s /\ r = p THEN q ELSE level[t][r]
    BY <1>2, <2>1, <2>5 DEF TypeOK
  <2>7. heap[s][p] = IF level[s][p] = <<>> THEN 0 ELSE 1
    BY <1>2 DEF HeapsMatchLevels
  <2>8. \A t \in Side, r \in Price : heap'[t][r] = IF t = s /\ r = p THEN 1 ELSE heap[t][r]
    BY <1>2, <2>1, <2>7 DEF PushPrice, TypeOK
  <2>9. TypeOK'
    <3>1. heap' \in [Side -> [Price -> Nat]]
      BY <1>2, <2>1, <2>7 DEF PushPrice, TypeOK
    <3>2. level' \in [Side -> [Price -> Seq(RestingOrder)]]
      BY <1>2, <2>1, <2>5 DEF TypeOK
    <3>3. orderIndex' \in [Id -> Price \cup {0}]
      BY <1>2, <2>1 DEF TypeOK
    <3>4. QED
      BY <2>1, <2>3, <3>1, <3>2, <3>3 DEF TypeOK
  <2>10. HeapsMatchLevels'
    <3>1. SUFFICES ASSUME NEW t \in Side, NEW r \in Price
                   PROVE  heap'[t][r] = IF level'[t][r] = <<>> THEN 0 ELSE 1
      BY DEF HeapsMatchLevels
    <3>2. CASE t = s /\ r = p
      BY <2>5, <2>6, <2>8, <3>2
    <3>3. CASE ~(t = s /\ r = p)
      BY <2>6, <2>8, <3>3 DEF HeapsMatchLevels
    <3>4. QED
      BY <3>2, <3>3
  <2>11. Indexed'
    <3>1. SUFFICES ASSUME NEW i \in Id, NEW r \in Price
                   PROVE  /\ orderIndex'[i] = r => \E t \in Side : i \in Ids(level'[t][r])
                          /\ i \notin reused' => \A t \in Side : i \in Ids(level'[t][r]) => orderIndex'[i] = r
      BY DEF Indexed
    <3>2. CASE i = taker.id
      <4>1. orderIndex'[i] = p
        BY <1>2, <2>1, <3>2 DEF TypeOK
      <4>2. i \in Ids(level'[s][p])
        BY <1>2, <2>5, <2>6, <3>2
      <4>3. i \notin reused' => \A t \in Side : i \in Ids(level'[t][r]) => r = p
        BY <2>3, <2>6, <3>2
      <4>4. QED
        BY <1>2, <4>1, <4>2, <4>3
    <3>3. CASE i # taker.id
      <4>1. orderIndex'[i] = orderIndex[i]
        BY <2>1, <3>3 DEF TypeOK
      <4>2. \A t \in Side : i \in Ids(level'[t][r]) <=> i \in Ids(level[t][r])
        BY <2>5, <2>6, <3>3
      <4>3. QED
        BY <2>3, <4>1, <4>2 DEF Indexed
    <3>4. QED
      BY <3>2, <3>3
  <2>12. OrdersRestOnce'
    <3>1. SUFFICES ASSUME NEW i \in Id \ reused'
                   PROVE  /\ \A t \in Side, r \in Price : Once(level'[t][r], i)
                          /\ \A r \in Price : i \in Ids(level'["buy"][r]) => i \notin Ids(level'["sell"][r])
      BY DEF OrdersRestOnce
    <3>2. i \in Id /\ i \notin reused /\ (i = taker.id => \A t \in Side, r \in Price : i \notin Ids(level[t][r]))
      BY <2>3
    <3>3. \A t \in Side, r \in Price : Once(level[t][r], i)
      BY <3>2 DEF OrdersRestOnce
    <3>4. ASSUME NEW t \in Side, NEW r \in Price PROVE Once(level'[t][r], i)
      BY <2>5, <2>6, <3>2, <3>3
    <3>5. ASSUME NEW r \in Price, i \in Ids(level'["buy"][r]) PROVE i \notin Ids(level'["sell"][r])
      <4>1. i \in Ids(level["buy"][r]) => i \notin Ids(level["sell"][r])
        BY <3>2 DEF OrdersRestOnce
      <4>2. CASE i # taker.id
        BY <2>5, <2>6, <3>5, <4>1, <4>2 DEF Side
      <4>3. CASE i = taker.id
        BY <2>5, <2>6, <3>2, <3>5, <4>3 DEF Side
      <4>4. QED
        BY <4>2, <4>3
    <3>6. QED
      BY <3>4, <3>5
  <2>13. NotCrossed'
    <3>1. \A r \in Price : level[Opposite(s)][r] # <<>> => ~Crosses(taker, r)
      BY <1>4, NothingAcceptable DEF s, Rests
    <3>2. \A r \in Price : r \in Nat
      BY PriceAssumption
    <3>3. CASE s = "buy"
      <4>1. \A r \in Price : level["sell"][r] # <<>> => p < r
        BY <1>2, <3>1, <3>2, <3>3 DEF Opposite, Crosses, s, p
      <4>2. QED
        BY <2>6, <3>3, <4>1 DEF NotCrossed, Side
    <3>4. CASE s = "sell"
      <4>1. \A r \in Price : level["buy"][r] # <<>> => r < p
        BY <1>2, <3>1, <3>2, <3>4 DEF Opposite, Crosses, s, p
      <4>2. QED
        BY <2>6, <3>4, <4>1 DEF NotCrossed, Side
    <3>5. QED
      BY <1>2, <3>3, <3>4 DEF Side
  <2>14. QED
    BY <2>9, <2>10, <2>11, <2>12, <2>13
<1>5. QED
  BY <1>3, <1>4

LEMMA NextBook == BookInv /\ [Next]_vars => BookInv'
<1>1. ASSUME BookInv, UNCHANGED vars PROVE BookInv'
  <2>1. TypeOK'
    BY <1>1 DEF vars, BookInv, TypeOK
  <2>2. HeapsMatchLevels' /\ Indexed' /\ OrdersRestOnce' /\ NotCrossed'
    BY <1>1 DEF vars, BookInv, HeapsMatchLevels, Indexed, OrdersRestOnce, NotCrossed
  <2>3. QED
    BY <2>1, <2>2 DEF BookInv
<1>2. QED
  BY <1>1, PlaceBook, MatchBook, ReturnBook, CancelBook DEF Next

LEMMA BookInvariant == Spec => []BookInv
BY InitBook, NextBook, PTL DEF Spec

\* Every variable keeps its type; in particular nothing rests with quantity 0.
THEOREM BookTypeCorrect == Spec => []TypeOK
BY BookInvariant, PTL DEF BookInv

\* The heaps hold the prices with resting orders, each once, at every point of
\* Place and Cancel: the clean-up of an empty level in Place is dead code.
THEOREM HeapsCorrect == Spec => []HeapsMatchLevels
BY BookInvariant, PTL DEF BookInv

\* Where the index names a price, Cancel finds an order of that ID there; and a
\* resting order whose ID was never reused is where the index says.
THEOREM IndexCorrect == Spec => []IndexMatchesLevels
<1>1. BookInv => IndexMatchesLevels
  BY DEF BookInv, Indexed, IndexMatchesLevels, RestsAt, At, Ids
<1>2. QED
  BY <1>1, BookInvariant, PTL

\* The best bid stays below the best ask, whatever is placed and cancelled.
THEOREM BookNeverCrossed == Spec => []NotCrossed
BY BookInvariant, PTL DEF BookInv

-----------------------------------------------------------------------------
(***************************************************************************)
(* The closed form of matching                                             *)
(***************************************************************************)
\* The levels, and what PriceTime takes from the library.
LevelMap == [Side -> [Price -> Seq(RestingOrder)]]

LEMMA PriceFinite == IsFiniteSet(Price) /\ Price \subseteq Nat \ {0}
<1>1. PICK max : max \in Price /\ \A p \in Price : p <= max
  BY PriceAssumption
<1>2. Price \subseteq 1..max /\ max \in Int
  BY <1>1, PriceAssumption
<1>3. IsFiniteSet(1..max)
  BY <1>2, FiniteInterval
<1>4. QED
  BY <1>2, <1>3, PriceAssumption, FS_Subset

LEMMA PromiseSums ==
  ASSUME NEW f, NEW S PROVE Promise!SumFunctionOnSet(f, S) = SumFunctionOnSet(f, S)
BY DEF Promise!SumFunctionOnSet, SumFunctionOnSet, Promise!FoldFunctionOnSet, FoldFunctionOnSet,
       Promise!MapThenFoldSet, MapThenFoldSet

LEMMA SameSides == Promise!Side = Side /\ \A s \in Side : Promise!Opposite(s) = Opposite(s)
BY DEF Promise!Side, Side, Promise!Opposite, Opposite

LEMMA PromiseTotals == ASSUME NEW s PROVE Promise!Total(s) = Quantity(s)
BY PromiseSums DEF Promise!Total, Promise!SumFunction, Quantity, SumFunction

LEMMA EntryTotals ==
  ASSUME NEW s \in Seq(RestingOrder)
  PROVE  /\ \A m \in 0..Len(s) : Upto(s, m) \in Nat
         /\ Upto(s, 0) = 0
         /\ \A m \in 1..Len(s) : Upto(s, m) = Upto(s, m - 1) + s[m].qty
         /\ \A k \in 0..Len(s) : \A m \in k..Len(s) : Upto(s, k) <= Upto(s, m)
         /\ Promise!Total(s) = Upto(s, Len(s))
<1>1. \A i \in 1..Len(s) : s[i] \in RestingOrder
  OBVIOUS
<1>2. \A i \in 1..Len(s) : s[i].qty \in Nat
  BY <1>1 DEF RestingOrder
<1>3. QED
  BY <1>2, PromiseTotals, QueueTotals

LEMMA Sides ==
  ASSUME NEW s \in Side
  PROVE  Opposite(s) \in Side /\ Opposite(s) # s /\ Side = {s, Opposite(s)}
BY DEF Side, Opposite

LEMMA Depths ==
  ASSUME NEW q \in LevelMap, NEW s \in Side
  PROVE  \A p \in Price : /\ q[Opposite(s)][p] \in Seq(RestingOrder)
                         /\ Promise!Depth(q, s)[p] = Promise!Total(q[Opposite(s)][p])
                         /\ Promise!Depth(q, s)[p] \in Nat
<1> SUFFICES ASSUME NEW p \in Price
             PROVE  /\ q[Opposite(s)][p] \in Seq(RestingOrder)
                    /\ Promise!Depth(q, s)[p] = Promise!Total(q[Opposite(s)][p])
                    /\ Promise!Depth(q, s)[p] \in Nat
  OBVIOUS
<1>1. q[Opposite(s)][p] \in Seq(RestingOrder)
  BY Sides DEF LevelMap
<1>2. Promise!Depth(q, s)[p] = Promise!Total(q[Opposite(s)][p])
  BY SameSides DEF Promise!Depth
<1> DEFINE t == q[Opposite(s)][p]
<1>3. Len(t) \in 0..Len(t)
  BY <1>1
<1>4. Promise!Total(t) \in Nat
  BY <1>1, <1>3, EntryTotals
<1>5. QED
  BY <1>1, <1>2, <1>4

\* What o may still take after any set of prices.
LEMMA DepthOfPrices ==
  ASSUME NEW q \in LevelMap, NEW s \in Side, NEW P \in SUBSET Price
  PROVE  /\ IsFiniteSet(P)
         /\ SumFunctionOnSet(Promise!Depth(q, s), P) \in Nat
         /\ Promise!SumFunctionOnSet(Promise!Depth(q, s), P) = SumFunctionOnSet(Promise!Depth(q, s), P)
<1>1. IsFiniteSet(P)
  BY PriceFinite, FS_Subset
<1> DEFINE d == Promise!Depth(q, s)
<1>2. \A p \in P : d[p] \in Nat
  BY Depths
<1> HIDE DEF d
<1>3. SumFunctionOnSet(d, P) \in Nat
  BY <1>1, <1>2, SumNat
<1>4. QED
  BY <1>1, <1>3, PromiseSums DEF d

LEMMA LeftAtIsInt ==
  ASSUME NEW q \in LevelMap, NEW o \in Order, NEW p \in Price
  PROVE  Promise!LeftAt(q, o, p) \in Int
<1>1. {r \in Price : Promise!Ahead(o, r, p)} \in SUBSET Price /\ o.side \in Side /\ o.qty \in Int
  BY DEF Order
<1>2. Promise!SumFunctionOnSet(Promise!Depth(q, o.side), {r \in Price : Promise!Ahead(o, r, p)}) \in Nat
  BY <1>1, DepthOfPrices
<1>3. QED
  BY <1>1, <1>2 DEF Promise!LeftAt

\* A resting order loses at most what it has, and all of it if o still wants as
\* much as the queue holds up to it.
LEMMA TakenFacts ==
  ASSUME NEW q \in LevelMap, NEW o \in Order, NEW p \in Price,
         NEW s, s = q[Opposite(o.side)][p], NEW i \in 1..Len(s)
  PROVE  /\ Promise!Taken(q, o, p, i) = Promise!Clamp(Promise!LeftAt(q, o, p) - Upto(s, i - 1), 0, s[i].qty)
         /\ Promise!Taken(q, o, p, i) \in 0..s[i].qty
         /\ Promise!Taken(q, o, p, i) = s[i].qty <=> Promise!LeftAt(q, o, p) >= Upto(s, i)
<1>1. Promise!Taken(q, o, p, i) = Promise!Clamp(Promise!LeftAt(q, o, p) - Upto(s, i - 1), 0, s[i].qty)
  BY PromiseTotals, SameSides DEF Promise!Taken, Upto, Order
<1>2. s \in Seq(RestingOrder)
  BY Depths DEF Order
<1>3. s[i].qty \in Nat \ {0} /\ i - 1 \in 0..Len(s)
  <2>1. s[i] \in RestingOrder /\ Len(s) \in Nat
    BY <1>2
  <2>2. QED
    BY <2>1 DEF RestingOrder
<1>4. Upto(s, i) = Upto(s, i - 1) + s[i].qty /\ Upto(s, i - 1) \in Nat
  BY <1>2, <1>3, EntryTotals
<1>5. Promise!LeftAt(q, o, p) \in Int
  BY LeftAtIsInt
<1>6. ASSUME NEW x \in Int, NEW u \in Nat, NEW r \in Nat \ {0}
      PROVE  Promise!Clamp(x - u, 0, r) \in 0..r /\ (Promise!Clamp(x - u, 0, r) = r <=> x >= u + r)
  BY DEF Promise!Clamp
<1>7. /\ Promise!Clamp(Promise!LeftAt(q, o, p) - Upto(s, i - 1), 0, s[i].qty) \in 0..s[i].qty
      /\ Promise!Clamp(Promise!LeftAt(q, o, p) - Upto(s, i - 1), 0, s[i].qty) = s[i].qty
           <=> Promise!LeftAt(q, o, p) >= Upto(s, i - 1) + s[i].qty
  BY <1>3, <1>4, <1>5, <1>6
<1>8. QED
  BY <1>1, <1>4, <1>7

\* The k oldest orders are exhausted, the others stay with what is left of them.
IsServed(q, o, p, s, k) ==
  /\ k \in 0..Len(s)
  /\ \A i \in 1..Len(s) : i <= k <=> Promise!Taken(q, o, p, i) = s[i].qty
  /\ Promise!Served(q, o, p) \in Seq(RestingOrder)
  /\ Len(Promise!Served(q, o, p)) = Len(s) - k
  /\ \A j \in 1..(Len(s) - k) :
       /\ j + k \in 1..Len(s)
       /\ Promise!Served(q, o, p)[j].id = s[j + k].id
       /\ Promise!Served(q, o, p)[j].qty = s[j + k].qty - Promise!Taken(q, o, p, j + k)

LEMMA ServedFacts ==
  ASSUME NEW q \in LevelMap, NEW o \in Order, NEW p \in Price
  PROVE  \E k : IsServed(q, o, p, q[Opposite(o.side)][p], k)
<1> DEFINE s == q[Opposite(o.side)][p]
           n == Len(s)
           taken(i) == Promise!Taken(q, o, p, i)
           reduced == [i \in 1..n |-> [s[i] EXCEPT !.qty = @ - taken(i)]]
           E == {i \in 1..n : taken(i) = s[i].qty}
           k == Cardinality(E)
<1>1. s \in Seq(RestingOrder) /\ n \in Nat
  BY Depths DEF Order
<1>2. \A i \in 1..n : s[i] \in RestingOrder /\ s[i].qty \in Nat \ {0} /\ s[i].id \in Id
  <2>1. \A i \in 1..n : s[i] \in RestingOrder
    BY <1>1
  <2>2. QED
    BY <2>1 DEF RestingOrder
<1>3. \A i \in 1..n : taken(i) \in 0..s[i].qty /\ (taken(i) = s[i].qty <=> Promise!LeftAt(q, o, p) >= Upto(s, i))
  BY TakenFacts
<1>4. \A i, j \in 1..n : j \in E /\ i <= j => i \in E
  <2>1. ASSUME NEW i \in 1..n, NEW j \in 1..n, j \in E, i <= j PROVE i \in E
    <3>1. i \in 0..n /\ j \in 0..n /\ j \in i..n
      BY <1>1, <2>1
    <3>2. Upto(s, i) \in Nat /\ Upto(s, j) \in Nat /\ Upto(s, i) <= Upto(s, j)
      BY <1>1, <3>1, EntryTotals
    <3>3. Promise!LeftAt(q, o, p) >= Upto(s, j)
      BY <1>3, <2>1
    <3>4. Promise!LeftAt(q, o, p) >= Upto(s, i)
      BY <3>2, <3>3, LeftAtIsInt
    <3>5. QED
      BY <1>3, <3>4
  <2>2. QED
    BY <2>1
<1>5. E \in SUBSET (1..n)
  OBVIOUS
<1>6. E = 1..k /\ k \in 0..n
  <2> HIDE DEF E
  <2>1. QED
    BY <1>1, <1>4, <1>5, Downward
<1>7. \A i \in 1..n : i <= k <=> taken(i) = s[i].qty
  <2>1. \A i \in 1..n : i \in 1..k <=> taken(i) = s[i].qty
    BY <1>6
  <2> HIDE DEF k
  <2>2. QED
    BY <1>6, <2>1
<1>8. Promise!Served(q, o, p) = SubSeq(reduced, k + 1, n)
  <2>1. Promise!Opposite(o.side) = Opposite(o.side)
    BY SameSides DEF Order
  <2>2. Promise!Cardinality(E) = k
    BY DEF Promise!Cardinality, Cardinality
  <2>3. Promise!Served(q, o, p) = SubSeq(reduced, Promise!Cardinality(E) + 1, n)
    BY <2>1 DEF Promise!Served
  <2>4. QED
    BY <2>2, <2>3
<1> HIDE DEF k, E
<1>9. \A i \in 1..n : reduced[i].id = s[i].id /\ reduced[i].qty = s[i].qty - taken(i) /\ DOMAIN reduced[i] = {"id", "qty"}
  BY <1>2 DEF RestingOrder
<1>10. \A i \in (k + 1)..n : reduced[i] \in RestingOrder
  <2>1. ASSUME NEW i \in (k + 1)..n PROVE reduced[i] \in RestingOrder
    <3>1. i \in 1..n /\ ~(i <= k)
      BY <1>1, <1>6, <2>1
    <3>2. taken(i) # s[i].qty
      BY <1>7, <3>1
    <3>3. s[i].qty - taken(i) \in Nat \ {0}
      BY <1>2, <1>3, <3>1, <3>2
    <3>4. reduced[i] = [id |-> s[i].id, qty |-> s[i].qty - taken(i)]
      BY <1>2, <3>1 DEF RestingOrder
    <3>5. QED
      BY <1>2, <3>1, <3>3, <3>4 DEF RestingOrder
  <2>2. QED
    BY <2>1
<1> HIDE DEF reduced
<1>11. k + 1 \in Int /\ n \in Int
  BY <1>1, <1>6
<1>12. /\ SubSeq(reduced, k + 1, n) \in Seq(RestingOrder)
       /\ Len(SubSeq(reduced, k + 1, n)) = IF k + 1 <= n THEN n - (k + 1) + 1 ELSE 0
       /\ \A j \in 1..(n - (k + 1) + 1) : SubSeq(reduced, k + 1, n)[j] = reduced[(k + 1) + j - 1]
  BY <1>10, <1>11, SubSeqProperties
<1>13. /\ Len(Promise!Served(q, o, p)) = n - k
       /\ \A j \in 1..(n - k) : Promise!Served(q, o, p)[j] = reduced[j + k]
  <2>1. n - (k + 1) + 1 = n - k /\ \A j \in 1..(n - k) : (k + 1) + j - 1 = j + k
    BY <1>1, <1>6
  <2>2. (IF k + 1 <= n THEN n - (k + 1) + 1 ELSE 0) = n - k
    BY <1>1, <1>6
  <2>3. QED
    BY <1>8, <1>12, <2>1, <2>2
<1>14. \A j \in 1..(n - k) : j + k \in 1..n
  BY <1>1, <1>6
<1>15. IsServed(q, o, p, s, k)
  BY <1>6, <1>7, <1>8, <1>9, <1>12, <1>13, <1>14 DEF IsServed
<1>16. QED
  BY <1>15

-----------------------------------------------------------------------------
(***************************************************************************)
(* An iteration of the loop                                                *)
(***************************************************************************)
\* Opposite prices are ranked alike by the heap and by PriceTime.
LEMMA SameRanking ==
  ASSUME NEW o \in Order, NEW p \in Price, NEW r \in Price
  PROVE  /\ Promise!Accepts(o, p) <=> Crosses(o, p)
         /\ Promise!Ahead(o, p, r) <=> Better(Opposite(o.side), p, r)
         /\ ~(Promise!Ahead(o, p, r) /\ (Promise!Ahead(o, r, p) \/ p = r))
<1>1. o.side \in Side /\ p \in Nat /\ r \in Nat
  BY PriceFinite DEF Order
<1>2. CASE o.side = "buy"
  BY <1>1, <1>2 DEF Promise!Accepts, Crosses, Promise!Ahead, Better, Opposite
<1>3. CASE o.side = "sell"
  BY <1>1, <1>3 DEF Promise!Accepts, Crosses, Promise!Ahead, Better, Opposite
<1>4. QED
  BY <1>1, <1>2, <1>3 DEF Side

LEMMA RestingFacts ==
  ASSUME NEW v \in Seq(RestingOrder)
  PROVE  /\ Len(v) \in Nat
         /\ \A i \in 1..Len(v) : /\ v[i] \in RestingOrder /\ v[i].id \in Id /\ v[i].qty \in Nat \ {0}
                                 /\ v[i] = [id |-> v[i].id, qty |-> v[i].qty]
<1>1. \A i \in 1..Len(v) : v[i] \in RestingOrder
  OBVIOUS
<1>2. QED
  BY <1>1 DEF RestingOrder

\* The maker is filled: what is behind it moves up.
LEMMA TailTotals ==
  ASSUME NEW v \in Seq(RestingOrder), v # <<>>, NEW w, w = Tail(v)
  PROVE  /\ w \in Seq(RestingOrder) /\ Len(w) = Len(v) - 1
         /\ \A i \in 1..Len(w) : i + 1 \in 1..Len(v) /\ w[i] = v[i + 1]
         /\ \A i \in 0..Len(w) : Upto(w, i) = Upto(v, i + 1) - v[1].qty
         /\ Quantity(w) = Quantity(v) - v[1].qty
<1>1. Len(v) \in Nat /\ 1 \in 1..Len(v) /\ w \in Seq(RestingOrder) /\ Len(w) = Len(v) - 1 /\ Len(w) \in Nat
  OBVIOUS
<1>2. \A i \in 1..Len(w) : i + 1 \in 1..Len(v) /\ w[i] = v[i + 1]
  BY <1>1
<1> DEFINE A == {i \in Nat : i <= Len(w) => Upto(w, i) = Upto(v, i + 1) - v[1].qty}
<1>3. /\ \A i \in 0..Len(w) : Upto(w, i) \in Nat
      /\ Upto(w, 0) = 0
      /\ \A i \in 1..Len(w) : Upto(w, i) = Upto(w, i - 1) + w[i].qty
      /\ Quantity(w) = Upto(w, Len(w))
  BY <1>1, EntryTotals, PromiseTotals
<1>4. /\ \A i \in 0..Len(v) : Upto(v, i) \in Nat
      /\ Upto(v, 0) = 0
      /\ \A i \in 1..Len(v) : Upto(v, i) = Upto(v, i - 1) + v[i].qty
      /\ Quantity(v) = Upto(v, Len(v))
  BY EntryTotals, PromiseTotals
<1>5. v[1].qty \in Nat /\ \A i \in 1..Len(v) : v[i].qty \in Nat
  BY <1>1, RestingFacts
<1>6. 0 \in A
  <2>1. Upto(v, 1) = Upto(v, 1 - 1) + v[1].qty /\ 1 - 1 = 0
    BY <1>1, <1>4
  <2>2. QED
    BY <1>3, <1>4, <1>5, <2>1
<1>7. ASSUME NEW k \in Nat, k < Len(w), k \in A PROVE k + 1 \in A
  <2>1. PICK i \in Nat : i = k + 1
    OBVIOUS
  <2>2. i \in 1..Len(w) /\ i + 1 \in 1..Len(v) /\ i \in 0..Len(v) /\ i - 1 = k /\ (i + 1) - 1 = i
    BY <1>1, <1>7, <2>1
  <2>3. Upto(w, k) = Upto(v, i) - v[1].qty
    BY <1>1, <1>7, <2>1
  <2>4. Upto(w, i) = Upto(w, i - 1) + w[i].qty
    BY <1>3, <2>2
  <2>5. Upto(v, i + 1) = Upto(v, (i + 1) - 1) + v[i + 1].qty
    BY <1>4, <2>2
  <2>6. w[i].qty = v[i + 1].qty /\ w[i].qty \in Nat
    BY <1>2, <1>5, <2>2
  <2>7. Upto(v, i) \in Nat
    BY <1>4, <2>2
  <2>8. Upto(w, i) = Upto(v, i + 1) - v[1].qty
    BY <1>5, <2>2, <2>3, <2>4, <2>5, <2>6, <2>7
  <2>9. QED
    BY <2>1, <2>8
<1> HIDE DEF A
<1>8. \A i \in 0..Len(w) : i \in A
  BY <1>1, <1>6, <1>7, UpTo
<1>9. \A i \in 0..Len(w) : Upto(w, i) = Upto(v, i + 1) - v[1].qty
  BY <1>8 DEF A
<1>10. Quantity(w) = Quantity(v) - v[1].qty
  <2>1. Len(w) \in 0..Len(w) /\ Len(w) + 1 = Len(v)
    BY <1>1
  <2>2. QED
    BY <1>3, <1>4, <1>9, <2>1
<1>11. QED
  BY <1>1, <1>2, <1>9, <1>10

\* The maker is filled in part and keeps its place.
LEMMA ReducedTotals ==
  ASSUME NEW v \in Seq(RestingOrder), v # <<>>, NEW m \in Nat, m < v[1].qty,
         NEW w, w = [v EXCEPT ![1].qty = @ - m]
  PROVE  /\ w \in Seq(RestingOrder) /\ Len(w) = Len(v)
         /\ w[1] = [id |-> v[1].id, qty |-> v[1].qty - m]
         /\ \A i \in 2..Len(v) : w[i] = v[i]
         /\ Quantity(w) = Quantity(v) - m
<1>1. Len(v) \in Nat /\ Len(v) > 0 /\ 1 \in 1..Len(v)
  OBVIOUS
<1>2. v[1].qty \in Nat /\ v[1].id \in Id /\ \A i \in 1..Len(v) : v[i].qty \in Nat
  BY <1>1, RestingFacts
<1>3. [v[1] EXCEPT !.qty = @ - m] = [id |-> v[1].id, qty |-> v[1].qty - m]
  <2>1. v[1] \in RestingOrder
    BY <1>1
  <2>2. QED
    BY <2>1 DEF RestingOrder
<1>4. [id |-> v[1].id, qty |-> v[1].qty - m] \in RestingOrder
  BY <1>2 DEF RestingOrder
<1>5. w \in Seq(RestingOrder) /\ Len(w) = Len(v) /\ w[1] = [id |-> v[1].id, qty |-> v[1].qty - m]
  BY <1>1, <1>3, <1>4
<1>6. \A i \in 2..Len(v) : w[i] = v[i]
  BY <1>1
<1>7. /\ \A i \in 0..Len(w) : Upto(w, i) \in Nat
      /\ Upto(w, 0) = 0
      /\ \A i \in 1..Len(w) : Upto(w, i) = Upto(w, i - 1) + w[i].qty
      /\ Quantity(w) = Upto(w, Len(w))
  BY <1>5, EntryTotals, PromiseTotals
<1>8. /\ \A i \in 0..Len(v) : Upto(v, i) \in Nat
      /\ Upto(v, 0) = 0
      /\ \A i \in 1..Len(v) : Upto(v, i) = Upto(v, i - 1) + v[i].qty
      /\ Quantity(v) = Upto(v, Len(v))
  BY EntryTotals, PromiseTotals
<1> DEFINE A == {j \in Nat : j + 1 <= Len(v) => Upto(w, j + 1) = Upto(v, j + 1) - m}
<1>9. 0 \in A
  <2>1. 1 \in 1..Len(w) /\ 1 - 1 = 0
    BY <1>1, <1>5
  <2>2. Upto(v, 1) = Upto(v, 1 - 1) + v[1].qty /\ Upto(w, 1) = Upto(w, 1 - 1) + w[1].qty
    BY <1>1, <1>7, <1>8, <2>1
  <2>3. w[1].qty = v[1].qty - m
    BY <1>5
  <2>4. QED
    BY <1>2, <1>7, <1>8, <2>1, <2>3, <2>2
<1>10. ASSUME NEW k \in Nat, k < Len(v) - 1, k \in A PROVE k + 1 \in A
  <2>1. PICK i \in Nat : i = k + 1
    OBVIOUS
  <2>2. i \in 0..Len(v) /\ i + 1 \in 2..Len(v) /\ i + 1 \in 1..Len(v) /\ i + 1 \in 1..Len(w) /\ (i + 1) - 1 = i
    BY <1>1, <1>5, <1>10, <2>1
  <2>3. Upto(w, i) = Upto(v, i) - m
    BY <1>10, <2>1, <2>2
  <2>4. Upto(w, i + 1) = Upto(w, (i + 1) - 1) + w[i + 1].qty
    BY <1>7, <2>2
  <2>5. Upto(v, i + 1) = Upto(v, (i + 1) - 1) + v[i + 1].qty
    BY <1>8, <2>2
  <2>6. w[i + 1].qty = v[i + 1].qty /\ v[i + 1].qty \in Nat
    BY <1>2, <1>6, <2>2
  <2>7. Upto(v, i) \in Nat
    BY <1>8, <2>2
  <2>8. Upto(w, i + 1) = Upto(v, i + 1) - m
    BY <2>2, <2>3, <2>4, <2>5, <2>6, <2>7
  <2>9. QED
    BY <2>1, <2>8
<1> HIDE DEF A
<1>11. Len(v) - 1 \in Nat
  BY <1>1
<1>12. \A j \in 0..(Len(v) - 1) : j \in A
  BY <1>9, <1>10, <1>11, UpTo
<1>13. Len(v) - 1 \in A /\ (Len(v) - 1) + 1 = Len(v)
  BY <1>1, <1>11, <1>12
<1>14. Upto(w, Len(v)) = Upto(v, Len(v)) - m
  BY <1>1, <1>13 DEF A
<1>15. Quantity(w) = Quantity(v) - m
  BY <1>5, <1>7, <1>8, <1>14
<1>16. QED
  BY <1>5, <1>6, <1>15

\* A queue whose head has traded m.
Reduced(v, m) == IF m = v[1].qty THEN Tail(v) ELSE [v EXCEPT ![1].qty = @ - m]

\* An iteration of the loop in which o trades m at p: q and o before, r and t
\* after.  No order rests at a better price.
Iteration(q, o, p, m, r, t) ==
  /\ q[Opposite(o.side)][p] # <<>>
  /\ o.qty > 0
  /\ Crosses(o, p)
  /\ \A x \in Price : q[Opposite(o.side)][x] # <<>> => x = p \/ Better(Opposite(o.side), p, x)
  /\ m = Smaller(o.qty, q[Opposite(o.side)][p][1].qty)
  /\ t = [o EXCEPT !.qty = @ - m]
  /\ r = [q EXCEPT ![Opposite(o.side)][p] = Reduced(@, m)]

LEMMA IterationFacts ==
  ASSUME NEW q \in LevelMap, NEW o \in Order, NEW p \in Price, NEW m, NEW r, NEW t,
         Iteration(q, o, p, m, r, t)
  PROVE  LET s == Opposite(o.side)
             v == q[s][p]
         IN  /\ s \in Side /\ s # o.side /\ v \in Seq(RestingOrder) /\ v # <<>>
             /\ m \in Nat /\ m > 0 /\ m <= o.qty /\ m <= v[1].qty /\ (m = o.qty \/ m = v[1].qty)
             /\ t \in Order /\ t.qty = o.qty - m
             /\ t.side = o.side /\ t.price = o.price /\ t.id = o.id /\ t.type = o.type
             /\ r \in LevelMap /\ r[s][p] = Reduced(v, m) /\ Quantity(r[s][p]) = Quantity(v) - m
             /\ \A x \in Price : x # p => r[s][x] = q[s][x]
             /\ r[o.side] = q[o.side]
<1>0. PICK s, v : s = Opposite(o.side) /\ v = q[s][p]
  OBVIOUS
<1>1. s \in Side /\ s # o.side /\ o.side \in Side /\ o.qty \in Nat
  BY <1>0 DEF Order, Side, Opposite
<1>2. v \in Seq(RestingOrder) /\ v # <<>> /\ 1 \in 1..Len(v)
  <2>1. v \in Seq(RestingOrder) /\ v # <<>>
    BY <1>0, <1>1 DEF LevelMap, Iteration
  <2>2. QED
    BY <2>1
<1>3. v[1].qty \in Nat \ {0}
  BY <1>2, RestingFacts
<1>4. m \in Nat /\ m > 0 /\ m <= o.qty /\ m <= v[1].qty /\ (m = o.qty \/ m = v[1].qty)
  BY <1>0, <1>1, <1>3 DEF Iteration, Smaller
<1>5. t = [o EXCEPT !.qty = @ - m]
  BY DEF Iteration
<1>6. /\ t \in Order /\ t.qty = o.qty - m
      /\ t.side = o.side /\ t.price = o.price /\ t.id = o.id /\ t.type = o.type
  BY <1>1, <1>4, <1>5 DEF Order
<1>7. PICK w : w = Reduced(v, m)
  OBVIOUS
<1>8. w \in Seq(RestingOrder) /\ Quantity(w) = Quantity(v) - m
  <2>1. CASE m = v[1].qty
    BY <1>2, <1>7, <2>1, TailTotals DEF Reduced
  <2>2. CASE m # v[1].qty
    <3>1. m < v[1].qty
      BY <1>3, <1>4, <2>2
    <3>2. QED
      BY <1>2, <1>4, <1>7, <2>2, <3>1, ReducedTotals DEF Reduced
  <2>3. QED
    BY <2>1, <2>2
<1>9. r = [q EXCEPT ![s][p] = w]
  BY <1>0, <1>7 DEF Iteration
<1>10. /\ r \in LevelMap /\ r[s][p] = w
       /\ \A x \in Price : x # p => r[s][x] = q[s][x]
       /\ r[o.side] = q[o.side]
  BY <1>1, <1>8, <1>9 DEF LevelMap
<1>11. QED
  BY <1>0, <1>1, <1>2, <1>4, <1>6, <1>7, <1>8, <1>10

\* What may be traded at a set of prices falls by what was.
LEMMA IterationDepth ==
  ASSUME NEW q \in LevelMap, NEW o \in Order, NEW p \in Price, NEW m, NEW r, NEW t,
         Iteration(q, o, p, m, r, t), NEW P \in SUBSET Price
  PROVE  /\ p \in P => SumFunctionOnSet(Promise!Depth(r, o.side), P) = SumFunctionOnSet(Promise!Depth(q, o.side), P) - m
         /\ p \notin P => SumFunctionOnSet(Promise!Depth(r, o.side), P) = SumFunctionOnSet(Promise!Depth(q, o.side), P)
<1> DEFINE s == Opposite(o.side)
<1>1. PICK f, g : f = Promise!Depth(q, o.side) /\ g = Promise!Depth(r, o.side)
  OBVIOUS
<1>2. o.side \in Side /\ r \in LevelMap /\ m \in Nat
  BY IterationFacts DEF Order
<1>3. \A x \in Price : f[x] \in Int /\ g[x] \in Int /\ f[x] = Quantity(q[s][x]) /\ g[x] = Quantity(r[s][x])
  <2>1. \A x \in Price : f[x] \in Nat /\ f[x] = Promise!Total(q[s][x])
    BY <1>1, <1>2, Depths
  <2>2. \A x \in Price : g[x] \in Nat /\ g[x] = Promise!Total(r[s][x])
    BY <1>1, <1>2, Depths
  <2>3. QED
    BY <2>1, <2>2, PromiseTotals
<1>4. g[p] = f[p] - m /\ \A x \in Price : x # p => f[x] = g[x]
  <2>1. Quantity(r[s][p]) = Quantity(q[s][p]) - m /\ \A x \in Price : x # p => r[s][x] = q[s][x]
    BY IterationFacts
  <2>2. QED
    BY <1>3, <2>1
<1>5. IsFiniteSet(P)
  BY PriceFinite, FS_Subset
<1>6. \A x \in P : f[x] \in Int /\ g[x] \in Int
  BY <1>3
<1>7. SumFunctionOnSet(f, P) \in Int
  BY <1>5, <1>6, SumPick
<1>8. CASE p \in P
  <2>1. \A x \in P : f[x] \in Int /\ g[x] \in Int /\ (x # p => f[x] = g[x])
    BY <1>4, <1>6
  <2>2. SumFunctionOnSet(g, P) = SumFunctionOnSet(f, P) - f[p] + g[p]
    BY <1>5, <1>8, <2>1, SumChange
  <2>3. QED
    BY <1>1, <1>2, <1>3, <1>4, <1>7, <1>8, <2>2
<1>9. CASE p \notin P
  <2>1. \A x \in P : f[x] \in Int /\ f[x] = g[x]
    BY <1>4, <1>6, <1>9
  <2>2. QED
    BY <1>1, <1>5, <1>9, <2>1, SumSame
<1>10. QED
  BY <1>8, <1>9

\* Nothing is held at prices without orders.
LEMMA EmptyDepth ==
  ASSUME NEW q \in LevelMap, NEW side \in Side, NEW P \in SUBSET Price,
         \A x \in P : q[Opposite(side)][x] = <<>>
  PROVE  SumFunctionOnSet(Promise!Depth(q, side), P) = 0
<1>1. PICK f : f = Promise!Depth(q, side)
  OBVIOUS
<1>2. Quantity(<<>>) = 0
  <2>1. <<>> \in Seq(RestingOrder) /\ Len(<<>>) = 0
    OBVIOUS
  <2>2. QED
    BY <2>1, EntryTotals, PromiseTotals
<1>3. \A x \in Price : f[x] = Quantity(q[Opposite(side)][x])
  BY <1>1, Depths, PromiseTotals
<1>4. \A x \in P : f[x] = 0
  BY <1>2, <1>3
<1>5. IsFiniteSet(P)
  BY PriceFinite, FS_Subset
<1>6. QED
  BY <1>1, <1>4, <1>5, SumZero

\* What o may take at x is what it still may take after the iteration, but at p.
LEMMA IterationLeft ==
  ASSUME NEW q \in LevelMap, NEW o \in Order, NEW p \in Price, NEW m, NEW r, NEW t,
         Iteration(q, o, p, m, r, t)
  PROVE  /\ Promise!LeftAt(q, o, p) = o.qty /\ Promise!LeftAt(r, t, p) = o.qty - m
         /\ \A x \in Price : x # p /\ q[Opposite(o.side)][x] # <<>> =>
              Promise!LeftAt(r, t, x) = Promise!LeftAt(q, o, x)
<1> DEFINE s == Opposite(o.side)
           ahead(x) == {y \in Price : Promise!Ahead(o, y, x)}
           before(x) == SumFunctionOnSet(Promise!Depth(q, o.side), ahead(x))
           after(x) == SumFunctionOnSet(Promise!Depth(r, o.side), ahead(x))
<1>1. o.side \in Side /\ o.qty \in Nat /\ m \in Nat /\ t \in Order /\ r \in LevelMap
  BY IterationFacts DEF Order
<1>2. t.qty = o.qty - m /\ t.side = o.side /\ t.price = o.price
  BY IterationFacts
<1>3. \A x \in Price : Promise!Accepts(t, x) <=> Promise!Accepts(o, x)
  BY <1>2 DEF Promise!Accepts
<1>4. \A x \in Price : {y \in Price : Promise!Ahead(t, y, x)} = ahead(x)
  BY <1>2 DEF Promise!Ahead
<1>5. ASSUME NEW x \in Price
      PROVE  /\ before(x) \in Nat /\ after(x) \in Nat
             /\ Promise!LeftAt(q, o, x) = IF Promise!Accepts(o, x) THEN o.qty - before(x) ELSE 0
             /\ Promise!LeftAt(r, t, x) = IF Promise!Accepts(o, x) THEN o.qty - m - after(x) ELSE 0
  <2>1. ahead(x) \in SUBSET Price
    OBVIOUS
  <2>2. before(x) \in Nat /\ Promise!SumFunctionOnSet(Promise!Depth(q, o.side), ahead(x)) = before(x)
    BY <1>1, <2>1, DepthOfPrices
  <2>3. after(x) \in Nat /\ Promise!SumFunctionOnSet(Promise!Depth(r, o.side), ahead(x)) = after(x)
    BY <1>1, <2>1, DepthOfPrices
  <2>4. Promise!LeftAt(q, o, x) = IF Promise!Accepts(o, x) THEN o.qty - before(x) ELSE 0
    BY <2>2 DEF Promise!LeftAt
  <2>5. Promise!LeftAt(r, t, x) = IF Promise!Accepts(o, x) THEN t.qty - after(x) ELSE 0
    BY <1>2, <1>3, <1>4, <2>3 DEF Promise!LeftAt
  <2>6. QED
    BY <1>2, <2>2, <2>3, <2>4, <2>5
<1>6. \A x \in Price : ahead(x) \in SUBSET Price
  OBVIOUS
<1>7. before(p) = 0 /\ after(p) = 0
  <2>1. p \notin ahead(p)
    BY SameRanking
  <2>2. \A y \in ahead(p) : q[s][y] = <<>>
    <3>1. SUFFICES ASSUME NEW y \in Price, Promise!Ahead(o, y, p), q[s][y] # <<>> PROVE FALSE
      OBVIOUS
    <3>2. y = p \/ Better(s, p, y)
      BY <3>1 DEF Iteration
    <3>3. QED
      BY <3>1, <3>2, SameRanking
  <2>3. before(p) = 0
    BY <1>1, <1>6, <2>2, EmptyDepth
  <2>4. after(p) = before(p)
    BY <1>6, <2>1, IterationDepth
  <2>5. QED
    BY <2>3, <2>4
<1>8. ASSUME NEW x \in Price, x # p, q[s][x] # <<>> PROVE after(x) = before(x) - m
  <2>1. Better(s, p, x)
    BY <1>8 DEF Iteration
  <2>2. p \in ahead(x)
    BY <2>1, SameRanking
  <2>3. QED
    BY <1>6, <2>2, IterationDepth
<1>9. Promise!Accepts(o, p)
  BY SameRanking DEF Iteration
<1> HIDE DEF before, after, ahead
<1>10. Promise!LeftAt(q, o, p) = o.qty /\ Promise!LeftAt(r, t, p) = o.qty - m
  BY <1>1, <1>5, <1>7, <1>9
<1>11. ASSUME NEW x \in Price, x # p, q[s][x] # <<>> PROVE Promise!LeftAt(r, t, x) = Promise!LeftAt(q, o, x)
  BY <1>1, <1>5, <1>8, <1>11
<1>12. QED
  BY <1>10, <1>11

LEMMA SameQueue ==
  ASSUME NEW a \in Seq(RestingOrder), NEW b \in Seq(RestingOrder), Len(a) = Len(b),
         \A j \in 1..Len(a) : a[j].id = b[j].id /\ a[j].qty = b[j].qty
  PROVE  a = b
<1>1. \A j \in 1..Len(a) : a[j] = b[j]
  BY RestingFacts
<1>2. QED
  BY <1>1

\* The queue w is v without d orders that o exhausts, and as much will be left
\* of the others.
Alike(q, o, v, r, t, w, p, d) ==
  /\ v = q[Opposite(o.side)][p] /\ w = r[Opposite(t.side)][p]
  /\ d <= Len(v) /\ Len(w) = Len(v) - d
  /\ \A i \in 1..d : Promise!Taken(q, o, p, i) = v[i].qty
  /\ \A i \in 1..Len(w) :
       /\ w[i].id = v[i + d].id
       /\ w[i].qty - Promise!Taken(r, t, p, i) = v[i + d].qty - Promise!Taken(q, o, p, i + d)

LEMMA ServedAlike ==
  ASSUME NEW q \in LevelMap, NEW r \in LevelMap, NEW o \in Order, NEW t \in Order, NEW p \in Price,
         NEW v, NEW w, NEW d \in Nat, Alike(q, o, v, r, t, w, p, d)
  PROVE  Promise!Served(r, t, p) = Promise!Served(q, o, p)
<1>0. /\ v = q[Opposite(o.side)][p] /\ w = r[Opposite(t.side)][p]
      /\ d <= Len(v) /\ Len(w) = Len(v) - d
      /\ \A i \in 1..d : Promise!Taken(q, o, p, i) = v[i].qty
      /\ \A i \in 1..Len(w) :
           /\ w[i].id = v[i + d].id
           /\ w[i].qty - Promise!Taken(r, t, p, i) = v[i + d].qty - Promise!Taken(q, o, p, i + d)
  BY DEF Alike
<1>1. PICK k : IsServed(q, o, p, v, k)
  BY <1>0, ServedFacts
<1>2. PICK l : IsServed(r, t, p, w, l)
  BY <1>0, ServedFacts
<1>3. v \in Seq(RestingOrder) /\ w \in Seq(RestingOrder)
  BY <1>0, Depths DEF Order
<1>4. Len(v) \in Nat /\ Len(w) \in Nat /\ k \in 0..Len(v) /\ l \in 0..Len(w)
  BY <1>0, <1>1, <1>2, <1>3 DEF IsServed
<1>5. ASSUME NEW i \in 1..Len(w) PROVE i + d \in 1..Len(v) /\ (i <= l <=> i + d <= k)
  <2>1. i + d \in 1..Len(v)
    BY <1>0, <1>4
  <2>2. w[i].qty \in Nat /\ v[i + d].qty \in Nat
    BY <1>3, <2>1, RestingFacts
  <2>3. Promise!Taken(r, t, p, i) \in 0..w[i].qty
    BY <1>0, TakenFacts
  <2>4. Promise!Taken(q, o, p, i + d) \in 0..v[i + d].qty
    BY <1>0, TakenFacts, <2>1
  <2>5. w[i].qty - Promise!Taken(r, t, p, i) = v[i + d].qty - Promise!Taken(q, o, p, i + d)
    BY <1>0
  <2>6. Promise!Taken(r, t, p, i) \in Int /\ Promise!Taken(q, o, p, i + d) \in Int
    BY <2>2, <2>3, <2>4
  <2>7. w[i].qty = Promise!Taken(r, t, p, i) <=> v[i + d].qty = Promise!Taken(q, o, p, i + d)
    BY <2>2, <2>5, <2>6
  <2>8. i <= l <=> Promise!Taken(r, t, p, i) = w[i].qty
    BY <1>2 DEF IsServed
  <2>9. i + d <= k <=> Promise!Taken(q, o, p, i + d) = v[i + d].qty
    BY <1>1, <2>1 DEF IsServed
  <2>10. QED
    BY <2>1, <2>7, <2>8, <2>9
<1>6. d <= k
  <2>1. CASE d = 0
    BY <1>4, <2>1
  <2>2. CASE d # 0
    <3>1. d \in 1..d /\ d \in 1..Len(v)
      BY <1>0, <1>4, <2>2
    <3>2. QED
      BY <1>0, <1>1, <3>1 DEF IsServed
  <2>3. QED
    BY <2>1, <2>2
<1>7. k = l + d
  <2>1. CASE l + d < k
    <3>1. l + 1 \in 1..Len(w)
      BY <1>0, <1>4, <2>1
    <3>2. l + 1 <= l <=> (l + 1) + d <= k
      BY <1>5, <3>1
    <3>3. QED
      BY <1>4, <2>1, <3>2
  <2>2. CASE l + d > k
    <3>1. l \in 1..Len(w)
      BY <1>4, <1>6, <2>2
    <3>2. l <= l <=> l + d <= k
      BY <1>5, <3>1
    <3>3. QED
      BY <1>4, <2>2, <3>2
  <2>3. QED
    BY <1>4, <2>1, <2>2
<1>8. PICK a, b : a = Promise!Served(q, o, p) /\ b = Promise!Served(r, t, p)
  OBVIOUS
<1>9. /\ a \in Seq(RestingOrder) /\ Len(a) = Len(v) - k
      /\ \A j \in 1..(Len(v) - k) :
           /\ j + k \in 1..Len(v)
           /\ a[j].id = v[j + k].id
           /\ a[j].qty = v[j + k].qty - Promise!Taken(q, o, p, j + k)
  BY <1>1, <1>8 DEF IsServed
<1>10. /\ b \in Seq(RestingOrder) /\ Len(b) = Len(w) - l
       /\ \A j \in 1..(Len(w) - l) :
            /\ j + l \in 1..Len(w)
            /\ b[j].id = w[j + l].id
            /\ b[j].qty = w[j + l].qty - Promise!Taken(r, t, p, j + l)
  BY <1>2, <1>8 DEF IsServed
<1>11. Len(a) = Len(b) /\ Len(v) - k = Len(w) - l
  BY <1>0, <1>4, <1>7, <1>9, <1>10
<1>12. ASSUME NEW j \in 1..Len(a) PROVE a[j].id = b[j].id /\ a[j].qty = b[j].qty
  <2>1. j \in 1..(Len(v) - k) /\ j \in 1..(Len(w) - l)
    BY <1>9, <1>11
  <2>2. PICK i \in 1..Len(w) : i = j + l /\ i + d = j + k
    <3>1. j + l \in 1..Len(w)
      BY <1>10, <2>1
    <3>2. (j + l) + d = j + k
      BY <1>4, <1>7
    <3>3. QED
      BY <3>1, <3>2
  <2>3. w[i].id = v[i + d].id /\ w[i].qty - Promise!Taken(r, t, p, i) = v[i + d].qty - Promise!Taken(q, o, p, i + d)
    BY <1>0
  <2>4. a[j].id = v[i + d].id /\ a[j].qty = v[i + d].qty - Promise!Taken(q, o, p, i + d)
    BY <1>9, <2>1, <2>2
  <2>5. b[j].id = w[i].id /\ b[j].qty = w[i].qty - Promise!Taken(r, t, p, i)
    BY <1>10, <2>1, <2>2
  <2>6. QED
    BY <2>3, <2>4, <2>5
<1>13. QED
  BY <1>8, <1>9, <1>10, <1>11, <1>12, SameQueue

\* An iteration leaves the promise as it is: what is served elsewhere ...
LEMMA IterationElsewhere ==
  ASSUME NEW q \in LevelMap, NEW o \in Order, NEW p \in Price, NEW m, NEW r, NEW t,
         Iteration(q, o, p, m, r, t), NEW x \in Price, x # p
  PROVE  Promise!Served(r, t, x) = Promise!Served(q, o, x)
<1>1. PICK v : v = q[Opposite(o.side)][x]
  OBVIOUS
<1>2. r \in LevelMap /\ t \in Order /\ t.side = o.side /\ v = r[Opposite(t.side)][x]
  BY <1>1, IterationFacts
<1>3. v \in Seq(RestingOrder)
  BY <1>1, Depths DEF Order
<1>4. ASSUME NEW i \in 1..Len(v) PROVE Promise!Taken(r, t, x, i) = Promise!Taken(q, o, x, i)
  <2>1. v # <<>>
    BY <1>3
  <2>2. Promise!LeftAt(r, t, x) = Promise!LeftAt(q, o, x)
    BY <1>1, <2>1, IterationLeft
  <2>3. Promise!Taken(q, o, x, i) = Promise!Clamp(Promise!LeftAt(q, o, x) - Upto(v, i - 1), 0, v[i].qty)
    BY <1>1, TakenFacts
  <2>4. Promise!Taken(r, t, x, i) = Promise!Clamp(Promise!LeftAt(r, t, x) - Upto(v, i - 1), 0, v[i].qty)
    BY <1>2, TakenFacts
  <2>5. QED
    BY <2>2, <2>3, <2>4
<1>5. Len(v) \in Nat /\ Len(v) = Len(v) - 0 /\ \A i \in 1..Len(v) : i + 0 = i
  BY <1>3
<1>6. \A i \in 1..Len(v) : /\ v[i].id = v[i + 0].id
                           /\ v[i].qty - Promise!Taken(r, t, x, i) = v[i + 0].qty - Promise!Taken(q, o, x, i + 0)
  BY <1>4, <1>5
<1>7. \A i \in 1..0 : Promise!Taken(q, o, x, i) = v[i].qty
  OBVIOUS
<1>8. Alike(q, o, v, r, t, v, x, 0)
  BY <1>1, <1>2, <1>5, <1>6, <1>7 DEF Alike
<1>9. QED
  BY <1>2, <1>8, ServedAlike

\* ... and at p.
LEMMA IterationHere ==
  ASSUME NEW q \in LevelMap, NEW o \in Order, NEW p \in Price, NEW m, NEW r, NEW t,
         Iteration(q, o, p, m, r, t)
  PROVE  Promise!Served(r, t, p) = Promise!Served(q, o, p)
<1>1. PICK v, w : v = q[Opposite(o.side)][p] /\ w = r[Opposite(o.side)][p]
  OBVIOUS
<1>2. /\ r \in LevelMap /\ t \in Order /\ t.side = o.side /\ w = Reduced(v, m) /\ w = r[Opposite(t.side)][p]
      /\ v \in Seq(RestingOrder) /\ v # <<>>
      /\ m \in Nat /\ m > 0 /\ m <= o.qty /\ m <= v[1].qty /\ (m = o.qty \/ m = v[1].qty)
  BY <1>1, IterationFacts
<1>3. Promise!LeftAt(q, o, p) = o.qty /\ Promise!LeftAt(r, t, p) = o.qty - m /\ o.qty \in Nat
  BY IterationLeft DEF Order
<1>4. Len(v) \in Nat /\ 1 \in 1..Len(v)
  BY <1>2
<1>5. /\ \A i \in 0..Len(v) : Upto(v, i) \in Nat
      /\ Upto(v, 0) = 0
      /\ \A i \in 1..Len(v) : Upto(v, i) = Upto(v, i - 1) + v[i].qty
      /\ \A k \in 0..Len(v) : \A i \in k..Len(v) : Upto(v, k) <= Upto(v, i)
  BY <1>2, EntryTotals
<1>6. \A i \in 1..Len(v) : v[i].qty \in Nat \ {0}
  BY <1>2, RestingFacts
<1>7. Upto(v, 1) = v[1].qty
  <2>1. Upto(v, 1) = Upto(v, 1 - 1) + v[1].qty /\ 1 - 1 = 0
    BY <1>4, <1>5
  <2>2. QED
    BY <1>4, <1>5, <1>6, <2>1
<1>8. \A i \in 1..Len(v) : Promise!Taken(q, o, p, i) = Promise!Clamp(o.qty - Upto(v, i - 1), 0, v[i].qty)
  BY <1>1, <1>3, TakenFacts
<1>9. \A i \in 1..Len(w) : Promise!Taken(r, t, p, i) = Promise!Clamp(o.qty - m - Upto(w, i - 1), 0, w[i].qty)
  BY <1>1, <1>2, <1>3, TakenFacts
<1>10. Promise!Taken(q, o, p, 1) = m
  <2>1. Promise!Taken(q, o, p, 1) = Promise!Clamp(o.qty - Upto(v, 1 - 1), 0, v[1].qty) /\ 1 - 1 = 0
    BY <1>4, <1>8
  <2>2. Promise!Taken(q, o, p, 1) = Promise!Clamp(o.qty, 0, v[1].qty)
    BY <1>3, <1>5, <2>1
  <2>3. v[1].qty \in Nat
    BY <1>4, <1>6
  <2>4. QED
    BY <1>2, <1>3, <2>2, <2>3 DEF Promise!Clamp
<1>11. CASE m = v[1].qty
  <2>1. w = Tail(v)
    BY <1>2, <1>11 DEF Reduced
  <2>2. /\ w \in Seq(RestingOrder) /\ Len(w) = Len(v) - 1
        /\ \A i \in 1..Len(w) : i + 1 \in 1..Len(v) /\ w[i] = v[i + 1]
        /\ \A i \in 0..Len(w) : Upto(w, i) = Upto(v, i + 1) - v[1].qty
    BY <1>2, <2>1, TailTotals
  <2>3. ASSUME NEW i \in 1..Len(w) PROVE Promise!Taken(r, t, p, i) = Promise!Taken(q, o, p, i + 1)
    <3>1. i + 1 \in 1..Len(v) /\ i - 1 \in 0..Len(w) /\ (i - 1) + 1 = i /\ (i + 1) - 1 = i /\ i \in 0..Len(v)
      BY <1>4, <2>2
    <3>2. Upto(w, i - 1) = Upto(v, i) - m /\ Upto(v, i) \in Nat
      BY <1>5, <1>11, <2>2, <3>1
    <3>3. o.qty - m - Upto(w, i - 1) = o.qty - Upto(v, i)
      BY <1>2, <1>3, <3>2
    <3>4. Promise!Taken(q, o, p, i + 1) = Promise!Clamp(o.qty - Upto(v, i), 0, v[i + 1].qty)
      BY <1>8, <3>1
    <3>5. QED
      BY <1>9, <2>2, <3>3, <3>4
  <2>4. \A i \in 1..1 : Promise!Taken(q, o, p, i) = v[i].qty
    BY <1>10, <1>11
  <2>5. \A i \in 1..Len(w) : /\ w[i].id = v[i + 1].id
                             /\ w[i].qty - Promise!Taken(r, t, p, i) = v[i + 1].qty - Promise!Taken(q, o, p, i + 1)
    BY <2>2, <2>3
  <2>6. 1 <= Len(v) /\ 1 \in Nat
    BY <1>4
  <2>7. Alike(q, o, v, r, t, w, p, 1)
    BY <1>1, <1>2, <2>2, <2>4, <2>5, <2>6 DEF Alike
  <2>8. QED
    BY <1>2, <2>6, <2>7, ServedAlike
<1>12. CASE m # v[1].qty
  <2>1. m < v[1].qty /\ m = o.qty
    BY <1>2, <1>4, <1>6, <1>12
  <2>2. w = [v EXCEPT ![1].qty = @ - m]
    BY <1>2, <1>12 DEF Reduced
  <2>3. /\ w \in Seq(RestingOrder) /\ Len(w) = Len(v)
        /\ w[1] = [id |-> v[1].id, qty |-> v[1].qty - m]
        /\ \A i \in 2..Len(v) : w[i] = v[i]
    BY <1>2, <2>1, <2>2, ReducedTotals
  <2>4. ASSUME NEW i \in 1..Len(w) PROVE Promise!Taken(r, t, p, i) = 0
    <3>1. i - 1 \in 0..Len(w)
      BY <1>4, <2>3
    <3>2. Upto(w, i - 1) \in Nat /\ w[i].qty \in Nat
      BY <2>3, <3>1, EntryTotals, RestingFacts
    <3>3. Promise!Taken(r, t, p, i) = Promise!Clamp(0 - Upto(w, i - 1), 0, w[i].qty)
      BY <1>3, <1>9, <2>1, <3>2
    <3>4. QED
      BY <3>2, <3>3 DEF Promise!Clamp
  <2>5. ASSUME NEW i \in 2..Len(v) PROVE Promise!Taken(q, o, p, i) = 0
    <3>1. i \in 1..Len(v) /\ i - 1 \in 1..Len(v) /\ i - 1 \in 0..Len(v) /\ 1 \in 0..Len(v)
      BY <1>4
    <3>2. Upto(v, 1) <= Upto(v, i - 1) /\ Upto(v, i - 1) \in Nat /\ v[i].qty \in Nat
      BY <1>4, <1>5, <1>6, <3>1
    <3>3. o.qty - Upto(v, i - 1) < 0
      BY <1>3, <1>4, <1>6, <1>7, <2>1, <3>2
    <3>4. QED
      BY <1>3, <1>8, <3>1, <3>2, <3>3 DEF Promise!Clamp
  <2>6. ASSUME NEW i \in 1..Len(w)
        PROVE  /\ w[i].id = v[i + 0].id
               /\ w[i].qty - Promise!Taken(r, t, p, i) = v[i + 0].qty - Promise!Taken(q, o, p, i + 0)
    <3>1. i + 0 = i /\ i \in 1..Len(v) /\ w[i].qty \in Nat /\ v[i].qty \in Nat /\ Promise!Taken(r, t, p, i) = 0
      BY <1>6, <2>3, <2>4, RestingFacts
    <3>2. CASE i = 1
      <4>1. w[i].id = v[i].id /\ w[i].qty = v[i].qty - m /\ Promise!Taken(q, o, p, i) = m
        BY <1>10, <2>3, <3>2
      <4>2. QED
        BY <1>2, <3>1, <4>1
    <3>3. CASE i # 1
      <4>1. i \in 2..Len(v)
        BY <1>4, <3>1, <3>3
      <4>2. w[i] = v[i] /\ Promise!Taken(q, o, p, i) = 0
        BY <2>3, <2>5, <4>1
      <4>3. QED
        BY <3>1, <4>2
    <3>4. QED
      BY <3>2, <3>3
  <2>7. 0 <= Len(v) /\ Len(w) = Len(v) - 0 /\ \A i \in 1..0 : Promise!Taken(q, o, p, i) = v[i].qty
    BY <1>4, <2>3
  <2>8. Alike(q, o, v, r, t, w, p, 0)
    BY <1>1, <1>2, <2>6, <2>7 DEF Alike
  <2>9. QED
    BY <1>2, <2>8, ServedAlike
<1>13. QED
  BY <1>11, <1>12

\* ... what will rest, ...
LEMMA IterationRest ==
  ASSUME NEW q \in LevelMap, NEW o \in Order, NEW p \in Price, NEW m, NEW r, NEW t,
         Iteration(q, o, p, m, r, t)
  PROVE  Promise!Rest(r, t) = Promise!Rest(q, o)
<1>1. PICK P \in SUBSET Price : P = {x \in Price : Promise!Accepts(o, x)}
  OBVIOUS
<1>2. o.side \in Side /\ o.qty \in Nat /\ r \in LevelMap /\ m \in Nat /\ m <= o.qty
  BY IterationFacts DEF Order
<1>3. t.qty = o.qty - m /\ t.side = o.side /\ t.price = o.price
  BY IterationFacts
<1>4. p \in P
  BY <1>1, SameRanking DEF Iteration
<1>5. P = {x \in Price : Promise!Accepts(t, x)}
  BY <1>1, <1>3 DEF Promise!Accepts
<1>6. PICK a, b : /\ a = Promise!SumFunctionOnSet(Promise!Depth(q, o.side), P)
                  /\ b = Promise!SumFunctionOnSet(Promise!Depth(r, o.side), P)
  OBVIOUS
<1>7. a \in Nat /\ a = SumFunctionOnSet(Promise!Depth(q, o.side), P)
  BY <1>2, <1>6, DepthOfPrices
<1>8. b \in Nat /\ b = SumFunctionOnSet(Promise!Depth(r, o.side), P)
  BY <1>2, <1>6, DepthOfPrices
<1>9. b = a - m
  BY <1>4, <1>7, <1>8, IterationDepth
<1>10. Promise!Rest(q, o) = Promise!Clamp(o.qty - a, 0, o.qty)
  BY <1>1, <1>6 DEF Promise!Rest
<1>11. Promise!Rest(r, t) = Promise!Clamp(o.qty - m - b, 0, o.qty - m)
  BY <1>3, <1>5, <1>6 DEF Promise!Rest
<1>12. o.qty - m - b = o.qty - a /\ o.qty - a <= o.qty - m
  BY <1>2, <1>7, <1>8, <1>9
<1>13. Promise!Clamp(o.qty - a, 0, o.qty) = Promise!Clamp(o.qty - a, 0, o.qty - m)
  BY <1>2, <1>7, <1>12 DEF Promise!Clamp
<1>14. QED
  BY <1>10, <1>11, <1>12, <1>13

\* ... so the levels, ...
LEMMA IterationAfter ==
  ASSUME NEW q \in LevelMap, NEW o \in Order, NEW p \in Price, NEW m, NEW r, NEW t,
         Iteration(q, o, p, m, r, t)
  PROVE  Promise!After(r, t) = Promise!After(q, o)
<1>1. t.side = o.side /\ t.price = o.price /\ t.id = o.id /\ t.type = o.type /\ r[o.side] = q[o.side]
  BY IterationFacts
<1>2. \A x \in Price : Promise!Resting(r, t, x) = Promise!Resting(q, o, x)
  BY <1>1, IterationRest DEF Promise!Resting
<1>3. \A x \in Price : Promise!Served(r, t, x) = Promise!Served(q, o, x)
  BY IterationElsewhere, IterationHere
<1>4. \A s \in Promise!Side, x \in Price :
        (IF s = t.side THEN r[s][x] \o Promise!Resting(r, t, x) ELSE Promise!Served(r, t, x))
        = (IF s = o.side THEN q[s][x] \o Promise!Resting(q, o, x) ELSE Promise!Served(q, o, x))
  BY <1>1, <1>2, <1>3
<1>5. QED
  BY <1>4 DEF Promise!After

LEMMA LastExists ==
  ASSUME NEW o \in Order, NEW T \in SUBSET Price, T # {}
  PROVE  \E x \in T : \A y \in T : y = x \/ Promise!Ahead(o, y, x)
<1>1. T \subseteq Nat /\ o.side \in Side
  BY PriceFinite DEF Order
<1>2. CASE o.side = "buy"
  <2>1. PICK max \in Nat : \A y \in T : y <= max
    BY PriceAssumption
  <2>2. PICK x \in T : \A y \in T : y <= x
    BY <1>1, <2>1, Greatest
  <2>3. \A y \in T : y = x \/ y < x
    BY <1>1, <2>2
  <2>4. QED
    BY <1>2, <2>2, <2>3 DEF Promise!Ahead
<1>3. CASE o.side = "sell"
  <2>1. PICK x \in T : \A y \in T : x <= y
    BY <1>1, NatMin
  <2>2. \A y \in T : y = x \/ y > x
    BY <1>1, <2>1
  <2>3. QED
    BY <1>3, <2>1, <2>2 DEF Promise!Ahead
<1>4. QED
  BY <1>1, <1>2, <1>3 DEF Side

\* ... and the price of the last trade.
LEMMA LastIs ==
  ASSUME NEW q, NEW o \in Order, NEW b, NEW x \in Promise!Traded(q, o),
         \A y \in Promise!Traded(q, o) : y = x \/ Promise!Ahead(o, y, x)
  PROVE  Promise!LastOf(q, o, b) = x
<1>1. PICK T : T = Promise!Traded(q, o)
  OBVIOUS
<1>2. T \subseteq Price
  BY <1>1 DEF Promise!Traded
<1>3. Promise!LastOf(q, o, b) = CHOOSE z \in T : \A y \in T : y = z \/ Promise!Ahead(o, y, z)
  BY <1>1 DEF Promise!LastOf
<1>4. ASSUME NEW z \in T, \A y \in T : y = z \/ Promise!Ahead(o, y, z) PROVE z = x
  BY <1>1, <1>2, <1>4, SameRanking
<1>5. QED
  BY <1>1, <1>3, <1>4

LEMMA IterationLast ==
  ASSUME NEW q \in LevelMap, NEW o \in Order, NEW p \in Price, NEW m, NEW r, NEW t,
         Iteration(q, o, p, m, r, t), NEW b
  PROVE  Promise!LastOf(r, t, p) = Promise!LastOf(q, o, b)
<1> DEFINE s == Opposite(o.side)
<1>1. PICK S, T : S = Promise!Traded(q, o) /\ T = Promise!Traded(r, t)
  OBVIOUS
<1>2. t \in Order /\ t.side = o.side /\ o.side \in Side /\ m \in Nat /\ o.qty \in Nat /\ r \in LevelMap
  BY IterationFacts DEF Order
<1>3. Promise!Opposite(o.side) = s
  BY <1>2, SameSides
<1>4. S = {x \in Price : q[s][x] # <<>> /\ Promise!LeftAt(q, o, x) > 0}
  BY <1>1, <1>3 DEF Promise!Traded
<1>5. T = {x \in Price : r[s][x] # <<>> /\ Promise!LeftAt(r, t, x) > 0}
  BY <1>1, <1>2, <1>3 DEF Promise!Traded
<1>6. p \in S
  <2>1. q[s][p] # <<>> /\ o.qty > 0
    BY DEF Iteration
  <2>2. Promise!LeftAt(q, o, p) = o.qty
    BY IterationLeft
  <2>3. QED
    BY <1>4, <2>1, <2>2
<1>7. ASSUME NEW x \in Price, x # p PROVE x \in S <=> x \in T
  <2>1. r[s][x] = q[s][x]
    BY <1>7, IterationFacts
  <2>2. q[s][x] # <<>> => Promise!LeftAt(r, t, x) = Promise!LeftAt(q, o, x)
    BY <1>7, IterationLeft
  <2>3. QED
    BY <1>4, <1>5, <2>1, <2>2
<1>8. \A x, y : Promise!Ahead(t, x, y) <=> Promise!Ahead(o, x, y)
  BY <1>2 DEF Promise!Ahead
<1>9. S \subseteq Price /\ T \subseteq Price
  BY <1>4, <1>5
<1>10. CASE T = {}
  <2>1. Promise!LastOf(r, t, p) = p
    BY <1>1, <1>10 DEF Promise!LastOf
  <2>2. \A y \in S : y = p
    BY <1>7, <1>9, <1>10
  <2>3. Promise!LastOf(q, o, b) = p
    BY <1>1, <1>6, <2>2, LastIs
  <2>4. QED
    BY <2>1, <2>3
<1>11. CASE T # {}
  <2>1. PICK x \in T : \A y \in T : y = x \/ Promise!Ahead(t, y, x)
    BY <1>2, <1>9, <1>11, LastExists
  <2>2. Promise!LastOf(r, t, p) = x
    BY <1>1, <1>2, <2>1, LastIs
  <2>3. x \in S
    BY <1>6, <1>7, <1>9
  <2>4. ASSUME NEW y \in S PROVE y = x \/ Promise!Ahead(o, y, x)
    <3>1. CASE y # p
      BY <1>7, <1>8, <1>9, <2>1, <3>1
    <3>2. CASE y = p /\ x # p
      <4>1. q[s][x] # <<>>
        BY <1>4, <2>3
      <4>2. Better(s, p, x)
        BY <1>9, <3>2, <4>1 DEF Iteration
      <4>3. QED
        BY <1>9, <3>2, <4>2, SameRanking
    <3>3. QED
      BY <3>1, <3>2
  <2>5. Promise!LastOf(q, o, b) = x
    BY <1>1, <2>3, <2>4, LastIs
  <2>6. QED
    BY <2>2, <2>5
<1>12. QED
  BY <1>10, <1>11

\* When the loop has ended, what is left of the order rests, and that is all.
LEMMA LoopEnded ==
  ASSUME NEW q \in LevelMap, NEW o \in Order, NEW b,
         o.qty = 0 \/ \A x \in Price : q[Opposite(o.side)][x] # <<>> => ~Crosses(o, x)
  PROVE  /\ Promise!After(q, o) =
              IF Rests(o) THEN [q EXCEPT ![o.side][o.price] = Append(@, [id |-> o.id, qty |-> o.qty])] ELSE q
         /\ Promise!LastOf(q, o, b) = b
<1> DEFINE s == Opposite(o.side)
<1>1. o.side \in Side /\ s \in Side /\ s # o.side /\ Side = {s, o.side} /\ o.qty \in Nat /\ o.price \in Price
  BY DEF Order, Side, Opposite
<1>2. Promise!Opposite(o.side) = s /\ Promise!Side = Side
  BY <1>1, SameSides
<1>3. ASSUME NEW x \in Price, q[s][x] # <<>> PROVE Promise!LeftAt(q, o, x) <= 0
  <2>1. CASE ~Crosses(o, x)
    <3>1. ~Promise!Accepts(o, x)
      BY <2>1, SameRanking
    <3>2. QED
      BY <3>1 DEF Promise!LeftAt
  <2>2. CASE o.qty = 0
    <3>1. PICK P \in SUBSET Price : P = {y \in Price : Promise!Ahead(o, y, x)}
      OBVIOUS
    <3>2. PICK a : a = Promise!SumFunctionOnSet(Promise!Depth(q, o.side), P)
      OBVIOUS
    <3>3. a \in Nat
      BY <1>1, <3>2, DepthOfPrices
    <3>4. Promise!LeftAt(q, o, x) = IF Promise!Accepts(o, x) THEN o.qty - a ELSE 0
      BY <3>1, <3>2 DEF Promise!LeftAt
    <3>5. QED
      BY <2>2, <3>3, <3>4
  <2>3. QED
    BY <1>3, <2>1, <2>2
<1>4. ASSUME NEW x \in Price PROVE Promise!Served(q, o, x) = q[s][x]
  <2>1. PICK v : v = q[s][x]
    OBVIOUS
  <2>2. PICK k : IsServed(q, o, x, v, k)
    BY <2>1, ServedFacts
  <2>3. v \in Seq(RestingOrder) /\ Len(v) \in Nat
    BY <1>1, <2>1, Depths
  <2>4. ASSUME NEW i \in 1..Len(v) PROVE Promise!Taken(q, o, x, i) = 0 /\ v[i].qty \in Nat \ {0}
    <3>1. v # <<>> /\ i - 1 \in 0..Len(v)
      BY <2>3
    <3>2. Promise!LeftAt(q, o, x) <= 0 /\ Promise!LeftAt(q, o, x) \in Int
      BY <1>3, <2>1, <3>1, LeftAtIsInt
    <3>3. Upto(v, i - 1) \in Nat /\ v[i].qty \in Nat \ {0}
      BY <2>3, <3>1, EntryTotals, RestingFacts
    <3>4. Promise!Taken(q, o, x, i) = Promise!Clamp(Promise!LeftAt(q, o, x) - Upto(v, i - 1), 0, v[i].qty)
      BY <2>1, TakenFacts
    <3>5. QED
      BY <3>2, <3>3, <3>4 DEF Promise!Clamp
  <2>5. k = 0
    <3>1. k \in 0..Len(v) /\ (k \in 1..Len(v) => Promise!Taken(q, o, x, k) = v[k].qty)
      BY <2>2, <2>3 DEF IsServed
    <3>2. QED
      BY <2>3, <2>4, <3>1
  <2>6. PICK a : a = Promise!Served(q, o, x)
    OBVIOUS
  <2>7. /\ a \in Seq(RestingOrder) /\ Len(a) = Len(v) - 0
        /\ \A j \in 1..(Len(v) - 0) : a[j].id = v[j + 0].id /\ a[j].qty = v[j + 0].qty - Promise!Taken(q, o, x, j + 0)
    BY <2>2, <2>5, <2>6 DEF IsServed
  <2>8. Len(a) = Len(v)
    BY <2>3, <2>7
  <2>9. ASSUME NEW j \in 1..Len(a) PROVE a[j].id = v[j].id /\ a[j].qty = v[j].qty
    <3>1. j \in 1..(Len(v) - 0) /\ j \in 1..Len(v) /\ j + 0 = j
      BY <2>3, <2>8
    <3>2. a[j].id = v[j].id /\ a[j].qty = v[j].qty - Promise!Taken(q, o, x, j)
      BY <2>7, <3>1
    <3>3. QED
      BY <2>4, <3>1, <3>2
  <2>10. QED
    BY <2>1, <2>3, <2>6, <2>7, <2>8, <2>9, SameQueue
<1>5. Promise!Rest(q, o) = o.qty
  <2>1. PICK P \in SUBSET Price : P = {x \in Price : Promise!Accepts(o, x)}
    OBVIOUS
  <2>2. PICK a : a = Promise!SumFunctionOnSet(Promise!Depth(q, o.side), P)
    OBVIOUS
  <2>3. a \in Nat /\ a = SumFunctionOnSet(Promise!Depth(q, o.side), P)
    BY <1>1, <2>2, DepthOfPrices
  <2>4. Promise!Rest(q, o) = Promise!Clamp(o.qty - a, 0, o.qty)
    BY <2>1, <2>2 DEF Promise!Rest
  <2>5. CASE o.qty = 0
    BY <2>3, <2>4, <2>5 DEF Promise!Clamp
  <2>6. CASE o.qty # 0
    <3>1. \A x \in P : q[s][x] = <<>>
      BY <2>1, <2>6, SameRanking
    <3>2. a = 0
      BY <1>1, <2>3, <3>1, EmptyDepth
    <3>3. QED
      BY <1>1, <2>4, <3>2 DEF Promise!Clamp
  <2>7. QED
    BY <2>5, <2>6
<1>6. Promise!Traded(q, o) = {}
  <2>1. SUFFICES ASSUME NEW x \in Price, q[s][x] # <<>>, Promise!LeftAt(q, o, x) > 0 PROVE FALSE
    BY <1>2 DEF Promise!Traded
  <2>2. QED
    BY <1>3, <2>1, LeftAtIsInt
<1>7. Promise!LastOf(q, o, b) = b
  BY <1>6 DEF Promise!LastOf
<1>8. PICK e : e = [id |-> o.id, qty |-> o.qty]
  OBVIOUS
<1>9. \A x \in Price : Promise!Resting(q, o, x) = IF x = o.price /\ Rests(o) THEN <<e>> ELSE <<>>
  BY <1>1, <1>5, <1>8 DEF Promise!Resting, Rests
<1>10. \A z \in Side, x \in Price : q[z][x] \in Seq(RestingOrder)
  BY DEF LevelMap
<1>11. Promise!After(q, o) = [z \in Side |-> [x \in Price |->
         IF z = o.side THEN q[z][x] \o (IF x = o.price /\ Rests(o) THEN <<e>> ELSE <<>>) ELSE q[z][x]]]
  <2>1. \A z \in Side, x \in Price :
          (IF z = o.side THEN q[z][x] \o Promise!Resting(q, o, x) ELSE Promise!Served(q, o, x))
          = (IF z = o.side THEN q[z][x] \o (IF x = o.price /\ Rests(o) THEN <<e>> ELSE <<>>) ELSE q[z][x])
    BY <1>1, <1>4, <1>9
  <2>2. QED
    BY <1>2, <2>1 DEF Promise!After
<1>12. CASE ~Rests(o)
  <2>1. \A z \in Side, x \in Price : q[z][x] \o <<>> = q[z][x]
    BY <1>10
  <2>2. Promise!After(q, o) = [z \in Side |-> [x \in Price |-> q[z][x]]]
    BY <1>11, <1>12, <2>1
  <2>3. q = [z \in Side |-> [x \in Price |-> q[z][x]]]
    BY DEF LevelMap
  <2>4. QED
    BY <1>7, <1>12, <2>2, <2>3
<1>13. CASE Rests(o)
  <2>1. PICK r : r = [q EXCEPT ![o.side][o.price] = Append(@, e)]
    OBVIOUS
  <2>2. r = [z \in Side |-> [x \in Price |-> IF z = o.side /\ x = o.price THEN Append(q[z][x], e) ELSE q[z][x]]]
    BY <1>1, <2>1 DEF LevelMap
  <2>3. \A z \in Side, x \in Price : q[z][x] \o <<>> = q[z][x] /\ q[z][x] \o <<e>> = Append(q[z][x], e)
    BY <1>10
  <2>4. \A z \in Side, x \in Price :
          (IF z = o.side THEN q[z][x] \o (IF x = o.price /\ Rests(o) THEN <<e>> ELSE <<>>) ELSE q[z][x])
          = (IF z = o.side /\ x = o.price THEN Append(q[z][x], e) ELSE q[z][x])
    BY <1>13, <2>3
  <2>5. Promise!After(q, o) = r
    BY <1>11, <2>2, <2>4
  <2>6. QED
    BY <1>7, <1>8, <1>13, <2>1, <2>5
<1>14. QED
  BY <1>12, <1>13

-----------------------------------------------------------------------------
(***************************************************************************)
(* OrderBook implements PriceTime                                          *)
(***************************************************************************)
\* PriceTime says the same of the levels and of the book that a caller sees.
LEMMA SamePromise ==
  ASSUME NEW q, NEW o
  PROVE  /\ Abstract!After(q, o) = Promise!After(q, o)
         /\ \A b : Abstract!LastOf(q, o, b) = Promise!LastOf(q, o, b)
<1>1. ASSUME NEW f, NEW S PROVE Abstract!SumFunctionOnSet(f, S) = Promise!SumFunctionOnSet(f, S)
  BY DEF Promise!SumFunctionOnSet, Abstract!SumFunctionOnSet, Promise!FoldFunctionOnSet, Abstract!FoldFunctionOnSet,
         Promise!MapThenFoldSet, Abstract!MapThenFoldSet
<1>2. \A v : Abstract!Total(v) = Promise!Total(v)
  BY <1>1 DEF Abstract!Total, Promise!Total, Abstract!SumFunction, Promise!SumFunction
<1>3. Abstract!Side = Promise!Side /\ \A s : Abstract!Opposite(s) = Promise!Opposite(s)
  BY DEF Abstract!Side, Promise!Side, Abstract!Opposite, Promise!Opposite
<1>4. \A s : Abstract!Depth(q, s) = Promise!Depth(q, s)
  BY <1>2, <1>3 DEF Abstract!Depth, Promise!Depth
<1>5. \A p, r : /\ Abstract!Accepts(o, p) <=> Promise!Accepts(o, p)
                /\ Abstract!Ahead(o, p, r) <=> Promise!Ahead(o, p, r)
  BY DEF Abstract!Accepts, Promise!Accepts, Abstract!Ahead, Promise!Ahead
<1>6. \A x, low, high : Abstract!Clamp(x, low, high) = Promise!Clamp(x, low, high)
  BY DEF Abstract!Clamp, Promise!Clamp
<1>7. ASSUME NEW p PROVE Abstract!LeftAt(q, o, p) = Promise!LeftAt(q, o, p)
  <2>1. {r \in Price : Abstract!Ahead(o, r, p)} = {r \in Price : Promise!Ahead(o, r, p)}
    BY <1>5
  <2>2. QED
    BY <1>1, <1>4, <1>5, <2>1 DEF Abstract!LeftAt, Promise!LeftAt
<1>8. ASSUME NEW p, NEW i PROVE Abstract!Taken(q, o, p, i) = Promise!Taken(q, o, p, i)
  BY <1>2, <1>3, <1>6, <1>7 DEF Abstract!Taken, Promise!Taken
<1>9. ASSUME NEW p PROVE Abstract!Served(q, o, p) = Promise!Served(q, o, p)
  <2>1. PICK s : s = q[Promise!Opposite(o.side)][p] /\ s = q[Abstract!Opposite(o.side)][p]
    BY <1>3
  <2>2. {i \in 1..Len(s) : Abstract!Taken(q, o, p, i) = s[i].qty} = {i \in 1..Len(s) : Promise!Taken(q, o, p, i) = s[i].qty}
    BY <1>8
  <2>3. [i \in 1..Len(s) |-> [s[i] EXCEPT !.qty = @ - Abstract!Taken(q, o, p, i)]]
        = [i \in 1..Len(s) |-> [s[i] EXCEPT !.qty = @ - Promise!Taken(q, o, p, i)]]
    BY <1>8
  <2>4. \A S : Abstract!Cardinality(S) = Promise!Cardinality(S)
    BY DEF Abstract!Cardinality, Promise!Cardinality
  <2>5. QED
    BY <2>1, <2>2, <2>3, <2>4 DEF Abstract!Served, Promise!Served
<1>10. Abstract!Rest(q, o) = Promise!Rest(q, o)
  <2>1. {r \in Price : Abstract!Accepts(o, r)} = {r \in Price : Promise!Accepts(o, r)}
    BY <1>5
  <2>2. QED
    BY <1>1, <1>4, <1>6, <2>1 DEF Abstract!Rest, Promise!Rest
<1>11. \A p : Abstract!Resting(q, o, p) = Promise!Resting(q, o, p)
  BY <1>10 DEF Abstract!Resting, Promise!Resting
<1>12. Abstract!After(q, o) = Promise!After(q, o)
  BY <1>3, <1>9, <1>11 DEF Abstract!After, Promise!After
<1>13. Abstract!Traded(q, o) = Promise!Traded(q, o)
  BY <1>3, <1>7 DEF Abstract!Traded, Promise!Traded
<1>14. ASSUME NEW b PROVE Abstract!LastOf(q, o, b) = Promise!LastOf(q, o, b)
  <2>1. PICK T : T = Promise!Traded(q, o) /\ T = Abstract!Traded(q, o)
    BY <1>13
  <2>2. Promise!LastOf(q, o, b) =
          IF T = {} THEN b ELSE CHOOSE p \in T : \A r \in T : r = p \/ (IF o.side = "buy" THEN r < p ELSE r > p)
    BY <2>1 DEF Promise!LastOf, Promise!Ahead
  <2>3. Abstract!LastOf(q, o, b) =
          IF T = {} THEN b ELSE CHOOSE p \in T : \A r \in T : r = p \/ (IF o.side = "buy" THEN r < p ELSE r > p)
    BY <2>1 DEF Abstract!LastOf, Abstract!Ahead
  <2>4. QED
    BY <2>2, <2>3
<1>15. QED
  BY <1>12, <1>14

LEMMA InitPromise == Init => Abstract!Init
BY SameSides DEF Init, Abstract!Init, Completed, CompletedPrice, Abstract!Side, Side

\* Accepting an order is the abstract Place.
LEMMA PlacePromise == ASSUME BookInv, NEW o \in Submitted, Place(o) PROVE Abstract!Place(o)
<1>1. o \in Order /\ o # NoOrder
  BY QtyAssumption, NoOrderFacts DEF Submitted, Order
<1>2. Completed = level /\ CompletedPrice = lastPrice
  BY DEF Place, Completed, CompletedPrice
<1>3. Completed' = Promise!After(level, o) /\ CompletedPrice' = Promise!LastOf(level, o, lastPrice)
  BY <1>1 DEF Place, Completed, CompletedPrice
<1>4. QED
  BY <1>2, <1>3, SamePromise DEF Abstract!Place

\* An iteration of the loop is a stutter: what it trades was promised.
LEMMA MatchPromise ==
  ASSUME BookInv, NEW s \in Side, NEW p \in Price, Match(s, p)
  PROVE  UNCHANGED <<Completed, CompletedPrice>>
<1>1. level \in LevelMap /\ taker \in Order /\ taker.qty > 0 /\ s = Opposite(taker.side)
  BY DEF Match, BookInv, TypeOK, LevelMap
<1>2. level[s][p] # <<>> /\ level[s][p] \in Seq(RestingOrder) /\ Head(level[s][p]) = level[s][p][1]
  BY DEF Match, IsBest, BookInv, HeapsMatchLevels, TypeOK
<1>3. PICK m : m = Smaller(taker.qty, level[s][p][1].qty)
  OBVIOUS
<1>4. /\ taker' = [taker EXCEPT !.qty = @ - m]
      /\ level' = [level EXCEPT ![s][p] = Reduced(level[s][p], m)]
      /\ lastPrice' = p
  BY <1>2, <1>3 DEF Match, Reduced
<1>5. \A x \in Price : level[s][x] # <<>> => x = p \/ Better(s, p, x)
  BY DEF Match, IsBest, BookInv, HeapsMatchLevels
<1>6. Iteration(level, taker, p, m, level', taker')
  BY <1>1, <1>2, <1>3, <1>4, <1>5 DEF Iteration, Match
<1>7. taker # NoOrder /\ taker' # NoOrder
  <2>1. taker' \in Order
    BY <1>1, <1>6, IterationFacts
  <2>2. QED
    BY <1>1, <2>1, NoOrderFacts
<1>8. Promise!After(level', taker') = Promise!After(level, taker)
  BY <1>1, <1>6, IterationAfter
<1>9. Promise!LastOf(level', taker', p) = Promise!LastOf(level, taker, lastPrice)
  BY <1>1, <1>6, IterationLast
<1>10. QED
  BY <1>4, <1>7, <1>8, <1>9 DEF Completed, CompletedPrice

\* So is its end: what was promised is done.
LEMMA ReturnPromise == ASSUME BookInv, Return PROVE UNCHANGED <<Completed, CompletedPrice>>
<1>1. level \in LevelMap /\ taker \in Order /\ taker # NoOrder
  BY DEF Return, BookInv, TypeOK, LevelMap
<1>2. taker.qty = 0 \/ \A x \in Price : level[Opposite(taker.side)][x] # <<>> => ~Crosses(taker, x)
  BY NothingAcceptable
<1>3. level' = IF Rests(taker)
               THEN [level EXCEPT ![taker.side][taker.price] = Append(@, [id |-> taker.id, qty |-> taker.qty])]
               ELSE level
  BY DEF Return
<1>4. level' = Promise!After(level, taker) /\ lastPrice = Promise!LastOf(level, taker, lastPrice)
  BY <1>1, <1>2, <1>3, LoopEnded
<1>5. Completed = level' /\ CompletedPrice = lastPrice
  BY <1>1, <1>4 DEF Completed, CompletedPrice
<1>6. Completed' = level' /\ CompletedPrice' = lastPrice
  BY DEF Return, Completed, CompletedPrice
<1>7. QED
  BY <1>5, <1>6

LEMMA CancelPromise == ASSUME BookInv, NEW id \in Id, Cancel(id) PROVE Abstract!Cancel(id)
<1>1. taker = NoOrder /\ taker' = NoOrder /\ lastPrice' = lastPrice
  BY DEF Cancel
<1>2. Completed = level /\ Completed' = level' /\ CompletedPrice = lastPrice /\ CompletedPrice' = lastPrice
  BY <1>1 DEF Completed, CompletedPrice
<1>3. PICK p \in Price : p = orderIndex[id]
  BY DEF Cancel, BookInv, TypeOK
<1>4. PICK s \in Side : \E i \in 1..Len(level[s][p]) :
        level[s][p][i].id = id /\ level' = [level EXCEPT ![s][p] = Without(level[s][p], i)]
  BY <1>3 DEF Cancel, At
<1>5. PICK i \in 1..Len(level[s][p]) :
        level[s][p][i].id = id /\ level' = [level EXCEPT ![s][p] = Without(level[s][p], i)]
  BY <1>4
<1>6. Without(level[s][p], i) = Abstract!RemoveAt(level[s][p], i)
  BY DEF Without, RemoveAt, Abstract!RemoveAt
<1>7. s \in Abstract!Side
  BY DEF Side, Abstract!Side
<1>8. Completed' = [Completed EXCEPT ![s][p] = Abstract!RemoveAt(@, i)]
  BY <1>2, <1>5, <1>6
<1>9. /\ s \in Abstract!Side /\ i \in 1..Len(Completed[s][p]) /\ Completed[s][p][i].id = id
      /\ Completed' = [Completed EXCEPT ![s][p] = Abstract!RemoveAt(@, i)]
  BY <1>2, <1>5, <1>7, <1>8
<1>10. UNCHANGED CompletedPrice
  BY <1>2
<1>11. QED
  BY <1>9, <1>10 DEF Abstract!Cancel

LEMMA NextPromise == BookInv /\ [Next]_vars => [Abstract!Next]_<<Completed, CompletedPrice>>
<1>1. ASSUME BookInv, UNCHANGED vars PROVE UNCHANGED <<Completed, CompletedPrice>>
  BY <1>1 DEF vars, Completed, CompletedPrice
<1>2. QED
  BY <1>1, PlacePromise, MatchPromise, ReturnPromise, CancelPromise DEF Next, Abstract!Next

\* The order book keeps price-time priority: placing an order does to the levels
\* what PriceTime says, whatever the heaps and the index looked like, and each
\* iteration of the loop of Place is on the way there.
THEOREM BookImplementsPriceTime == Spec => PriceTimePriority
BY InitPromise, NextPromise, BookInvariant, PTL DEF Spec, PriceTimePriority, Abstract!Spec
=============================================================================
