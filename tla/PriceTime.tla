----------------------------- MODULE PriceTime -----------------------------
(***************************************************************************)
(* What an order book promises: price-time priority, with nothing but the  *)
(* queue of resting orders at each price.  An order is matched in one step *)
(* whose result is given in closed form: what a resting order loses is     *)
(* what the incoming one wants after everything ahead of it was served.    *)
(* There is no loop here, no heap of best prices and no index of orders.   *)
(***************************************************************************)
EXTENDS Integers, Sequences, FiniteSets, FiniteSetsExt, SequencesExt

CONSTANTS Price, Id, Order   \* Order: the orders that may be placed

VARIABLES queue,       \* queue[s][p]: resting orders of side s at p, oldest first
          lastPrice    \* price of the latest trade, 0 before the first

Side == {"buy", "sell"}
Opposite(s) == CHOOSE t \in Side : t # s

\* The order o accepts to trade at price p.
Accepts(o, p) == IF o.side = "buy" THEN p <= o.price ELSE p >= o.price

\* Price p is served before price q.
Ahead(o, p, q) == IF o.side = "buy" THEN p < q ELSE p > q

Total(seq) == SumFunction([i \in DOMAIN seq |-> seq[i].qty])
Clamp(x, low, high) == IF x < low THEN low ELSE IF x > high THEN high ELSE x

\* The resting quantity that an order of side s may be matched with, by price.
Depth(q, s) == [p \in Price |-> Total(q[Opposite(s)][p])]

\* What o may still take at price p, and at the i-th order there.
LeftAt(q, o, p) ==
  IF Accepts(o, p) THEN o.qty - SumFunctionOnSet(Depth(q, o.side), {r \in Price : Ahead(o, r, p)}) ELSE 0
Taken(q, o, p, i) ==
  LET s == q[Opposite(o.side)][p]
  IN  Clamp(LeftAt(q, o, p) - Total(SubSeq(s, 1, i - 1)), 0, s[i].qty)

\* The resting orders at p after o: reduced, the exhausted ones, which are the
\* oldest, gone.
Served(q, o, p) ==
  LET s == q[Opposite(o.side)][p]
      reduced == [i \in 1..Len(s) |-> [s[i] EXCEPT !.qty = @ - Taken(q, o, p, i)]]
      exhausted == {i \in 1..Len(s) : Taken(q, o, p, i) = s[i].qty}
  IN  SubSeq(reduced, Cardinality(exhausted) + 1, Len(s))

\* What remains of o after everything it accepts, and whether it rests.
Rest(q, o) ==
  Clamp(o.qty - SumFunctionOnSet(Depth(q, o.side), {p \in Price : Accepts(o, p)}), 0, o.qty)
Resting(q, o, p) ==
  IF p = o.price /\ o.type = "GTC" /\ Rest(q, o) > 0
  THEN <<[id |-> o.id, qty |-> Rest(q, o)]>> ELSE <<>>

After(q, o) ==
  [s \in Side |-> [p \in Price |->
     IF s = o.side THEN q[s][p] \o Resting(q, o, p) ELSE Served(q, o, p)]]

\* The prices o trades at; the last one served becomes lastPrice.
Traded(q, o) == {p \in Price : q[Opposite(o.side)][p] # <<>> /\ LeftAt(q, o, p) > 0}
LastOf(q, o, before) ==
  IF Traded(q, o) = {} THEN before
  ELSE CHOOSE p \in Traded(q, o) : \A r \in Traded(q, o) : r = p \/ Ahead(o, r, p)

Init ==
  /\ queue = [s \in Side |-> [p \in Price |-> <<>>]]
  /\ lastPrice = 0

Place(o) ==
  /\ queue' = After(queue, o)
  /\ lastPrice' = LastOf(queue, o, lastPrice)

\* One order of that ID is removed; which one, if there are several, is open.
Cancel(id) ==
  /\ \E s \in Side, p \in Price : \E i \in 1..Len(queue[s][p]) :
       /\ queue[s][p][i].id = id
       /\ queue' = [queue EXCEPT ![s][p] = RemoveAt(@, i)]
  /\ UNCHANGED lastPrice

Next == (\E o \in Order : Place(o)) \/ (\E id \in Id : Cancel(id))

Spec == Init /\ [][Next]_<<queue, lastPrice>>
=============================================================================
