----------------------------- MODULE MCProposer -----------------------------
(***************************************************************************)
(* Two orders, a signed and an API cancel of the first, a legacy cancel    *)
(* whose ID has a byte 0x00 in it, and one cancel and one order that are   *)
(* larger than a block.                                                    *)
(***************************************************************************)
EXTENDS Proposer

Cancel1 == [kind |-> "C", id |-> 1, bytes |-> 1]
Cancel1Twice == [kind |-> "C", id |-> 0, bytes |-> 2]

MCTx == {
  [kind |-> "order", id |-> 1, bytes |-> 1],
  [kind |-> "O", id |-> 2, bytes |-> 2],
  Cancel1,
  Cancel1Twice,
  [kind |-> "cancel", id |-> 1, bytes |-> 1],
  [kind |-> "cancel", id |-> 2, bytes |-> 3],
  [kind |-> "order", id |-> 3, bytes |-> 3]}

MCParts == [tx \in MCTx |-> IF tx = Cancel1Twice THEN <<Cancel1, Cancel1>> ELSE <<tx>>]
=============================================================================
