----------------------------- MODULE MCExchange -----------------------------
(***************************************************************************)
(* Trader bob and an agent of trader alice.  bob cannot afford to buy      *)
(* before his sell has earned a rebate from alice.  In a word of seven     *)
(* bits his nonces 129 and 131 are 1 and 3 and his quantity of 130 is 2.   *)
(* An unsigned order comes with the ID of bob's sell and the owner alice.  *)
(* A legacy cancel has a byte 0x00 in its ID and after it something that   *)
(* no replica knows.                                                       *)
(***************************************************************************)
EXTENDS Exchange, TLC

CONSTANTS alice, bob, agent

MCFunds == alice :> 10 @@ bob :> 2
MCDelegation == {[id |-> "d", wallet |-> alice, agent |-> agent, until |-> 0]}

Limit(owner, nonce, signer, via, side, price, qty) ==
  [kind |-> "order", owner |-> owner, nonce |-> nonce, signer |-> signer, via |-> via,
   symbol |-> "BTC-USDT", side |-> side, price |-> price, qty |-> qty, type |-> "GTC", bytes |-> 1]

Legacy(owner, id, side, price, qty) ==
  [kind |-> "O", owner |-> owner, id |-> id,
   symbol |-> "BTC-USDT", side |-> side, price |-> price, qty |-> qty, type |-> "GTC", bytes |-> 1]

Cancel == [kind |-> "C", symbol |-> "BTC-USDT", id |-> <<bob, 129>>, bytes |-> 1]
Rubbish == [kind |-> "none", bytes |-> 1]

MCTx == {
  Limit(bob, 129, bob, NoDelegation, "sell", 2, 130),
  Limit(bob, 2, bob, NoDelegation, "buy", 2, 3),
  Limit(alice, 2, agent, "d", "buy", 2, 3),
  Legacy(alice, <<bob, 129>>, "sell", 1, 1),
  [kind |-> "cancel", owner |-> bob, nonce |-> 131, signer |-> bob, via |-> NoDelegation,
   symbol |-> "ETH-USDT", id |-> <<bob, 129>>, bytes |-> 1],
  Cancel, Rubbish}

MCPushed == MCTx \ {Rubbish}
MCParts == [tx \in MCTx |-> IF tx = Cancel THEN <<tx, Rubbish>> ELSE <<tx>>]

Symmetry == Permutations(Replica)
=============================================================================
