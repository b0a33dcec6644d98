------------------------- MODULE OrderBookPriority -------------------------
(***************************************************************************)
(* OrderBook implements PriceTime.  The abstract book is the level map as  *)
(* a caller will see it when Place returns: while Place holds the mutex it *)
(* is what PriceTime says of the levels and the quantity that are left.    *)
(* Accepting an order is then the abstract Place, and the iterations of    *)
(* the loop and its end must leave the abstract book as it is.             *)
(***************************************************************************)
EXTENDS OrderBook

Promise == INSTANCE PriceTime WITH Order <- Submitted, queue <- level

Completed == IF taker = NoOrder THEN level ELSE Promise!After(level, taker)
CompletedPrice == IF taker = NoOrder THEN lastPrice ELSE Promise!LastOf(level, taker, lastPrice)

Abstract == INSTANCE PriceTime WITH
  Order <- Submitted, queue <- Completed, lastPrice <- CompletedPrice

\* README.md:116-122 of pkg/app/core: better prices first, at one price the
\* older order first, each resting order reduced by what it gave and no other
\* changed; cancelling removes one order and keeps the rest in their places.
PriceTimePriority == Abstract!Spec
=============================================================================
