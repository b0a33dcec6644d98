---------------------------- MODULE MCHotStuff ----------------------------
(***************************************************************************)
(* Constants and bounds for checking HotStuff with TLC.                    *)
(***************************************************************************)
EXTENDS HotStuff, FiniteSetsExt

CONSTANT MaxPrepares  \* bound: certificates handled, over all validators

FewPrepares == MapThenSumSet(LAMBDA n : Cardinality(seenPrepare[n]), Node) <= MaxPrepares

\* A validator that leads no later view of the bounded model waits where it
\* is: nothing reads its view or its channel any more.
Retired(n) == \A v \in (view[n] + 1)..MaxView : LeaderOf(v) # n

OnlyLeadersWait ==
  \A n \in Node : Retired(n) => /\ view'[n] = view[n]
                                /\ Len(viewAdvanceCh'[n]) >= Len(viewAdvanceCh[n])

\* handlePrepare is at most one view behind when Run proposes: the runs that use
\* this show what a short delay is enough for.
OneViewBehind ==
  \A n \in Node : pc[n] = "loop" /\ pc'[n] = "collect" =>
    \A c \in certs : ViewOf(c.h) < view[n] => c \in seenPrepare[n] /\ c # preparing[n]
===========================================================================
