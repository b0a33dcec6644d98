------------------------------ MODULE Exchange ------------------------------
(***************************************************************************)
(* The application of pkg/app/perp on several replicas that execute the    *)
(* same blocks (pkg/abci) while each serves its own HTTP API (pkg/api).    *)
(*                                                                         *)
(* A step executes one transaction of a block; all it changes of the       *)
(* replica is in app[r].  Order books are those of OrderBook by their      *)
(* promise, the closed form of PriceTime, with the index of order IDs kept *)
(* beside it, since the IDs of the feeders need not be unique.  The market *)
(* is the only one the node lists; the books that getBook makes for other  *)
(* symbols stay empty, and books[r] is the set of symbols that have one.   *)
(*                                                                         *)
(* Signatures are perfect: the field signer is who signed.  An order ID is *)
(* a pair, what stands before its first dash and what follows: that of a   *)
(* signed order is its owner with the nonce as it was written, that of an  *)
(* unsigned (legacy) order whatever it says, which may be the ID of a      *)
(* signed one.  The history tells the two apart: a label is an order ID    *)
(* and the kind of the transaction.  Numbers in a transaction have any     *)
(* length, those of the application the width of a word.  Nothing in the   *)
(* node deposits: Funds is what Pebble has for each address.  Collateral   *)
(* is locked and unlocked within one step and positions are never updated, *)
(* so both stay out.                                                       *)
(***************************************************************************)
EXTENDS Mempool

CONSTANTS
  Replica, Addr, Symbol, Price,
  Market,                                  \* the symbol listed by NewApp
  MinOrderSize, MaxOrderSize, MinNotional, MaxPosition, MaxLeverage,
  InitialMarginBps, TakerFeeBps, MakerRebateBps,
  Bps,                                     \* 10000
  Word,                                    \* 2^64
  Funds,                                   \* stored balance of each address
  Delegation,                              \* signed [id, wallet, agent, until]
  Pushed,                                  \* bound: the transactions that are pushed, of Tx
  MaxBlocks, MaxPushes,                    \* bounds: blocks, transactions pushed for one
  MaxLocal                                 \* bound: API calls and clock ticks, all replicas together

NoOwner == ""            \* of a legacy order that has no eighth field
NoDelegation == "none"
NoSymbol == "none"

VARIABLES
  chain,         \* the blocks, in the order they are executed
  height,        \* height[r]: blocks r has executed
  position,      \* position[r]: transactions of the next block r has executed
  app,           \* app[r]: what blocks changed, see NewApp
  books,         \* books[r]: keys of a.books
  accounts,      \* accounts[r]: addresses whose account r has loaded
  appHash,       \* appHash[r]: of the latest block r executed
  delegations,   \* delegations[r]: stored over the API of r
  clock,         \* clock[r]: time.Now() of r
  reading,       \* reading[r]: symbol for which a handler of r is in getBook
  crashed,       \* crashed[r]: r died of a concurrent access to a.books
  local          \* API calls and clock ticks so far

vars == <<chain, height, position, app, books, accounts, appHash, delegations, clock, reading, crashed, local>>

Signed == {tx \in Tx : tx.kind = "order"}

OrderId(tx) == IF tx.kind = "O" THEN tx.id ELSE <<tx.owner, tx.nonce>>
Label(tx) == <<OrderId(tx), tx.kind>>

IdOf(label) == label[1]
Owner(label) == IdOf(label)[1]    \* parseOwnerFromOrderID; an address, or there is none

Labelled == {tx \in Tx : tx.kind \in {"order", "O"}}
Id == {OrderId(tx) : tx \in Labelled}
LabelSet == {Label(tx) : tx \in Labelled}

Book == INSTANCE PriceTime WITH Order <- {}, queue <- <<>>, lastPrice <- 0

\* Prices are positive words.
ASSUME PriceAssumption == IsFiniteSet(Price) /\ Price \subseteq Nat \ {0}
ASSUME BoundAssumption == Word \in Nat \ {0} /\ {MaxBlocks, MaxPushes, MaxLocal} \subseteq Nat /\ Pushed \subseteq Tx

\* What a signed word of 64 bits holds of x.
Int64(x) == LET low == x % Word IN IF 2 * low >= Word THEN low - Word ELSE low

\* What EIP-712 signs as uint256 is not negative; an unsigned order may say
\* anything.
ASSUME TxAssumption ==
  /\ NoOwner \notin Addr
  /\ \A tx \in Tx :
       /\ tx.kind \in {"order", "cancel"} => tx.owner \in Addr /\ tx.nonce \in Nat
       /\ tx.kind = "order" => tx.qty \in Nat
       /\ tx.kind \in {"order", "O"} =>
            /\ tx.side \in Book!Side
            /\ tx.qty \in Int
            /\ tx.price \in Int
            /\ Int64(tx.price) > 0 => Int64(tx.price) \in Price

NewBooks_lazy == {}   \* mutant: the market's book is made when it is first used
NewBooks == {Market}

NewApp ==
  [nonce |-> [a \in Addr |-> 0],
   balance |-> Funds,
   level |-> [s \in Book!Side |-> [p \in Price |-> <<>>]],
   index |-> [id \in Id |-> 0],       \* price an ID was added at, 0 if absent
   traded |-> [l \in LabelSet |-> 0], \* history: quantity traded under the label
   rejected |-> {},                   \* history: labels whose nonce was consumed in vain
   unsigned |-> {},                   \* history: IDs of unsigned orders that were placed
   refused |-> {},                    \* history: where this replica lacked a delegation or an account
   unpaid |-> {}]                     \* history: where it lacked an account that a fill names

\* A replica may hold a delegation from before the first block.
Init ==
  /\ chain = <<>>
  /\ height = [r \in Replica |-> 0]
  /\ position = [r \in Replica |-> 0]
  /\ app = [r \in Replica |-> NewApp]
  /\ books = [r \in Replica |-> NewBooks]
  /\ accounts = [r \in Replica |-> {}]
  /\ appHash = [r \in Replica |-> <<>>]
  /\ delegations \in [Replica -> {{}} \cup {{d} : d \in Delegation}]
  /\ clock = [r \in Replica |-> 0]
  /\ reading = [r \in Replica |-> NoSymbol]
  /\ crashed = [r \in Replica |-> FALSE]
  /\ local = 0

-----------------------------------------------------------------------------
(***************************************************************************)
(* Blocks                                                                  *)
(***************************************************************************)

\* What a leader was pushed becomes a block, which joins the chain when the
\* first replica commits it: one that has executed all before it.  (What does
\* not fit and what waits are the matter of Proposer.)
Propose ==
  /\ Len(chain) < MaxBlocks
  /\ \E r \in Replica : ~crashed[r] /\ height[r] = Len(chain)
  /\ \E pushes \in SeqOf(Pushed, MaxPushes) :
       /\ pushes # <<>>
       /\ LET pool == FoldLeft(PushRaw, NewMempool, pushes)
          IN  chain' = Append(chain, SplitPayload(PreparePayload(SelectForProposal(pool))))
  /\ UNCHANGED <<height, position, app, books, accounts, appHash, delegations, clock, reading, crashed, local>>

\* The engine of r is in FinalizeBlock.
Executing(r) == ~crashed[r] /\ height[r] < Len(chain)
Txs(r) == chain[height[r] + 1]
HasNext(r) == Executing(r) /\ position[r] < Len(Txs(r))
NextTx(r) == Txs(r)[position[r] + 1]

Advance(r) ==
  /\ position' = [position EXCEPT ![r] = @ + 1]
  /\ UNCHANGED <<chain, height, appHash, delegations, clock, reading, crashed, local>>

GetDelegation(r, id) == {d \in delegations[r] : d.id = id}

\* The agent signed, the delegation is the owner's and has not expired by the
\* clock of this replica.
AgentOf(r, tx) ==
  \E d \in GetDelegation(r, tx.via) :
    d.agent = tx.signer /\ d.wallet = tx.owner /\ d.until >= clock[r]

\* mutant: the deadline of an order is enforced by the replica's clock
Authorised_deadline(r, tx) ==
  IF tx.via = NoDelegation THEN tx.signer = tx.owner /\ clock[r] = 0 ELSE AgentOf(r, tx)

Authorised(r, tx) ==
  IF tx.via = NoDelegation THEN tx.signer = tx.owner ELSE AgentOf(r, tx)

Fresh_width(a, tx) == tx.nonce > a.nonce[tx.owner]   \* mutant: compared before it is truncated
Fresh_equal(a, tx) == tx.nonce % Word >= a.nonce[tx.owner]   \* mutant: < for <=
Fresh(a, tx) == tx.nonce % Word > a.nonce[tx.owner]

Consumed(a, tx) == [a EXCEPT !.nonce[tx.owner] = tx.nonce % Word]

\* Go divides towards zero.
Quot(x, y) == IF x < 0 THEN -((-x) \div y) ELSE x \div y

\* Price and quantity are cut to 64 bits.
AsOrder(tx) ==
  [id |-> Label(tx), side |-> tx.side, price |-> Int64(tx.price), qty |-> Int64(tx.qty),
   type |-> tx.type]

Notional(price, qty) == Int64(price * qty)

\* ValidateOrder of the market, which is active.
Valid(o) ==
  /\ o.price > 0 /\ o.qty > 0
  /\ o.qty >= MinOrderSize /\ o.qty <= MaxOrderSize
  /\ Notional(o.price, o.qty) >= MinNotional

\* CheckMarginRequirement and LockCollateral; a balance that is not positive has
\* leverage 0, and nothing is locked for a margin of 0.
HasMargin(balance, o) ==
  LET size == Int64(IF o.qty < 0 THEN -o.qty ELSE o.qty)
      margin(qty) == Quot(Int64(Notional(o.price, qty) * InitialMarginBps), Bps)
  IN  /\ balance >= margin(size)
      /\ size <= MaxPosition
      /\ balance > 0 => Quot(Notional(o.price, size), balance) <= MaxLeverage
      /\ margin(o.qty) \in {0} \cup 1..balance

\* What an order passes before getBook: the numbers of a legacy order are parsed,
\* not truncated, and its owner, if it names one, is an address.
ForBook(a, tx) ==
  LET o == AsOrder(tx)
  IN  /\ tx.symbol = Market
      /\ \/ tx.kind = "order" /\ o.price > 0 /\ o.qty > 0
         \/ tx.kind = "O" /\ tx.price = o.price /\ tx.qty = o.qty
      /\ tx.owner # NoOwner => tx.owner \in Addr /\ HasMargin(a.balance[tx.owner], o)

Acceptable(a, tx) == ForBook(a, tx) /\ Valid(AsOrder(tx))

-----------------------------------------------------------------------------
(***************************************************************************)
(* An order is matched                                                     *)
(***************************************************************************)

\* The fills of order o: [maker, price, qty] and the maker's place in its queue.
Fills(q, o) ==
  LET queue == q[Book!Opposite(o.side)]
      reached == UNION {{p} \X (1..Len(queue[p])) : p \in Price}
  IN  {[maker |-> queue[f[1]][f[2]].id, price |-> f[1], place |-> f[2],
        qty |-> Book!Taken(q, o, f[1], f[2]), last |-> queue[f[1]][f[2]].qty] :
          f \in {f \in reached : Book!Taken(q, o, f[1], f[2]) > 0}}

\* Exhausted makers leave the index, then what is left of o enters it.
Reindexed(a, o) ==
  LET exhausted == {IdOf(f.maker) : f \in {f \in Fills(a.level, o) : f.qty = f.last}}
      rests == Book!Resting(a.level, o, o.price) # <<>>
  IN  [id \in Id |-> CASE id = IdOf(o.id) /\ rests -> o.price
                       [] id \in exhausted /\ ~(id = IdOf(o.id) /\ rests) -> 0
                       [] OTHER -> a.index[id]]

\* The fills whose two order IDs begin with an address, and who is charged.
Owned(a, o) == {f \in Fills(a.level, o) : Owner(f.maker) \in Addr /\ Owner(o.id) \in Addr}
Charged(a, o) == UNION {{Owner(o.id), Owner(f.maker)} : f \in Owned(a, o)}

\* processFill: the taker pays its fee and the maker earns its rebate, but for
\* the accounts that are not loaded.
Settled(a, o, unloaded) ==
  LET fills == Owned(a, o)
      fee == [f \in fills |-> Quot(Int64(Notional(f.price, f.qty) * TakerFeeBps), Bps)]
      rebate == [f \in fills |-> Quot(Int64(Notional(f.price, f.qty) * MakerRebateBps), Bps)]
      settled == [x \in Addr |-> a.balance[x]
         - (IF x = Owner(o.id) THEN SumFunction(fee) ELSE 0)
         + SumFunctionOnSet(rebate, {f \in fills : Owner(f.maker) = x})]
  IN  [x \in Addr |-> IF x \in unloaded THEN a.balance[x] ELSE Int64(settled[x])]

TradedBy(a, o) ==
  LET qty == [f \in Fills(a.level, o) |-> f.qty]
  IN  [l \in LabelSet |-> a.traded[l]
         + (IF l = o.id THEN SumFunction(qty) ELSE 0)
         + SumFunctionOnSet(qty, {f \in DOMAIN qty : f.maker = l})]

\* Place and the fills it returns, at a place in the chain.
Placed(a, o, at, unloaded) ==
  [a EXCEPT !.level = Book!After(a.level, o), !.index = Reindexed(a, o),
            !.balance = Settled(a, o, unloaded), !.traded = TradedBy(a, o),
            !.unsigned = @ \cup (IF o.id[2] = "O" THEN {IdOf(o.id)} ELSE {}),
            !.unpaid = @ \cup ({at} \X unloaded)]

\* Cancel looks at the indexed price, bids before asks, for the first order of
\* that ID.  A miss changes nothing.
Cancelled(a, tx) ==
  LET id == tx.id
      p == a.index[id]
      at(s) == {i \in 1..Len(a.level[s][p]) : IdOf(a.level[s][p][i].id) = id}
      side == IF at("buy") # {} THEN "buy" ELSE "sell"
  IN  IF tx.symbol # Market \/ id \notin Id THEN a
      ELSE IF p = 0 THEN a
      ELSE IF at(side) = {} THEN a
      ELSE [a EXCEPT !.level[side][p] = RemoveAt(@, Min(at(side))), !.index[id] = 0]

-----------------------------------------------------------------------------
(***************************************************************************)
(* A transaction of a block, by what becomes of it                         *)
(***************************************************************************)
At(r) == <<height[r], position[r]>>

Apply(r, a) == app' = [app EXCEPT ![r] = a] /\ Advance(r)

Refused(a, at) == [a EXCEPT !.refused = @ \cup {at}]

\* Of those that order o charges, whose account r has not loaded.
Unloaded(r, a, o) == Charged(a, o) \ accounts[r]

IsSigned(r) == HasNext(r) /\ NextTx(r).kind \in {"order", "cancel"}

\* No signature, or no delegation that this replica takes for valid.
Refuse(r) ==
  /\ IsSigned(r)
  /\ ~Authorised(r, NextTx(r))
  /\ Apply(r, IF NextTx(r).via = NoDelegation THEN app[r] ELSE Refused(app[r], At(r)))
  /\ UNCHANGED <<books, accounts>>

\* A signed transaction makes GetAccount load its owner's account.
LoadsOwner(r) == accounts' = [accounts EXCEPT ![r] = @ \cup {NextTx(r).owner}]

\* The nonce is not above the account's.
Replay(r) ==
  /\ IsSigned(r)
  /\ Authorised(r, NextTx(r))
  /\ ~Fresh(app[r], NextTx(r))
  /\ Apply(r, app[r])
  /\ LoadsOwner(r)
  /\ UNCHANGED books

IsFresh(r, kind) ==
  /\ HasNext(r)
  /\ NextTx(r).kind = kind
  /\ Authorised(r, NextTx(r))
  /\ Fresh(app[r], NextTx(r))

\* What a rejected order leaves: its nonce was consumed before the checks.
Rejected_free(a, tx) == [a EXCEPT !.rejected = @ \cup {Label(tx)}]   \* mutant: after the checks
Rejected(a, tx) == [Consumed(a, tx) EXCEPT !.rejected = @ \cup {Label(tx)}]

Reject(r) ==
  /\ IsFresh(r, "order")
  /\ ~Acceptable(app[r], NextTx(r))
  /\ Apply(r, Rejected(app[r], NextTx(r)))
  /\ LoadsOwner(r)
  /\ UNCHANGED books

\* The book of the market is there from the start.
Accept(r) ==
  /\ IsFresh(r, "order")
  /\ Acceptable(app[r], NextTx(r))
  /\ LET a == Consumed(app[r], NextTx(r))
         o == AsOrder(NextTx(r))
     IN  Apply(r, Placed(a, o, At(r), Unloaded(r, a, o) \ {NextTx(r).owner}))
  /\ LoadsOwner(r)
  /\ UNCHANGED books

\* A signed cancel; whose order the ID is does not matter.
CancelOrder(r) ==
  /\ IsFresh(r, "cancel")
  /\ Apply(r, Cancelled(Consumed(app[r], NextTx(r)), NextTx(r)))
  /\ LoadsOwner(r)
  /\ books' = [books EXCEPT ![r] = @ \cup {NextTx(r).symbol}]

\* An unsigned order.  Its owner, if it names one, needs an account that this
\* replica has loaded; whoever its ID names is charged.
LegacyOrder(r) ==
  /\ HasNext(r)
  /\ NextTx(r).kind = "O"
  /\ LET a == app[r]
         tx == NextTx(r)
         o == AsOrder(tx)
         known == accounts[r] \cup {NoOwner}
     IN  \/ /\ ~Acceptable(a, tx)
            /\ Apply(r, a)
         \/ /\ Acceptable(a, tx) /\ tx.owner \notin known
            /\ Apply(r, Refused(a, At(r)))
         \/ /\ Acceptable(a, tx) /\ tx.owner \in known
            /\ Apply(r, Placed(a, o, At(r), Unloaded(r, a, o)))
  /\ UNCHANGED <<books, accounts>>

\* A cancel of the API or the feeder.
LegacyCancel(r) ==
  /\ HasNext(r)
  /\ NextTx(r).kind = "C"
  /\ Apply(r, Cancelled(app[r], NextTx(r)))
  /\ books' = [books EXCEPT ![r] = @ \cup {NextTx(r).symbol}]
  /\ UNCHANGED accounts

\* A no-op, and what is none of the above.
Ignore(r) ==
  /\ HasNext(r)
  /\ NextTx(r).kind \notin {"order", "cancel", "O", "C"}
  /\ Apply(r, app[r])
  /\ UNCHANGED <<books, accounts>>

\* GetBidLevels and GetAskLevels: <<price, quantity>>, best price first.
Levels(a, side) ==
  LET best(p, q) == IF side = "buy" THEN p > q ELSE p < q
      prices == SetToSortSeq({p \in Price : a.level[side][p] # <<>>}, best)
  IN  [i \in 1..Len(prices) |-> <<prices[i], Book!Total(a.level[side][prices[i]])>>]

\* mutant: the time of the execution instead of the time of the block
Hashed_now(r) ==
  [sym \in books[r] |->
     IF sym = Market THEN Append(Levels(app[r], "buy") \o Levels(app[r], "sell"), clock[r]) ELSE <<>>]

\* computeStateHash, of a block's height and time and of this: nothing separates
\* the bids of a symbol from its asks.
Hashed(r) ==
  [sym \in books[r] |-> IF sym = Market THEN Levels(app[r], "buy") \o Levels(app[r], "sell") ELSE <<>>]

FinishBlock(r) ==
  /\ Executing(r)
  /\ position[r] = Len(Txs(r))
  /\ appHash' = [appHash EXCEPT ![r] = Hashed(r)]
  /\ height' = [height EXCEPT ![r] = @ + 1]
  /\ position' = [position EXCEPT ![r] = 0]
  /\ UNCHANGED <<chain, app, books, accounts, delegations, clock, reading, crashed, local>>

-----------------------------------------------------------------------------
(***************************************************************************)
(* What happens on a replica beside the execution of blocks                *)
(***************************************************************************)
Local(r) ==
  /\ ~crashed[r]
  /\ local < MaxLocal
  /\ local' = local + 1
  /\ UNCHANGED <<chain, height, position, app, appHash, crashed>>

\* In the place of an earlier one with the same wallet and nonce.
Stored(ds, d) == {e \in ds : e.id # d.id} \cup {d}

\* handleRegisterDelegation stores what the wallet signed, on this replica only.
RegisterDelegation(r, d) ==
  /\ Local(r)
  /\ delegations' = [delegations EXCEPT ![r] = Stored(@, d)]
  /\ UNCHANGED <<books, accounts, clock, reading>>

Tick(r) ==
  /\ Local(r)
  /\ clock' = [clock EXCEPT ![r] = @ + 1]
  /\ UNCHANGED <<books, accounts, delegations, reading>>

\* handleGetAccount and its like ask for the account of any address.
GetAccount(r, x) ==
  /\ Local(r)
  /\ accounts' = [accounts EXCEPT ![r] = @ \cup {x}]
  /\ UNCHANGED <<books, delegations, clock, reading>>

\* handleGetOrderbook: a handler enters getBook.
GetOrderbook(r, sym) ==
  /\ Local(r)
  /\ reading[r] = NoSymbol
  /\ reading' = [reading EXCEPT ![r] = sym]
  /\ UNCHANGED <<books, accounts, delegations, clock>>

\* It leaves getBook, which has made a book if there was none.
HasBook(r) ==
  /\ ~crashed[r]
  /\ reading[r] # NoSymbol
  /\ books' = [books EXCEPT ![r] = @ \cup {reading[r]}]
  /\ reading' = [reading EXCEPT ![r] = NoSymbol]
  /\ UNCHANGED <<chain, height, position, app, accounts, appHash, delegations, clock, crashed, local>>

\* The engine's next step reads a.books, or writes it.
Cancels(r) == IsFresh(r, "cancel") \/ (HasNext(r) /\ NextTx(r).kind = "C")
Places(r) ==
  \/ IsFresh(r, "order") /\ ForBook(app[r], NextTx(r))
  \/ /\ HasNext(r) /\ NextTx(r).kind = "O" /\ ForBook(app[r], NextTx(r))
     /\ NextTx(r).owner \in accounts[r] \cup {NoOwner}
Finishes(r) == Executing(r) /\ position[r] = Len(Txs(r))

Names(r) == IF Cancels(r) THEN NextTx(r).symbol ELSE Market
Writes(r) == (Cancels(r) \/ Places(r)) /\ Names(r) \notin books[r]

\* a.books has no lock: the handler and the engine access it at once, one of
\* them writing, and the Go runtime ends the process.  (It need not notice.)
Race(r) ==
  /\ ~crashed[r]
  /\ reading[r] # NoSymbol
  /\ Cancels(r) \/ Places(r) \/ Finishes(r)
  /\ Writes(r) \/ reading[r] \notin books[r]
  /\ crashed' = [crashed EXCEPT ![r] = TRUE]
  /\ UNCHANGED <<chain, height, position, app, books, accounts, appHash, delegations, clock, reading, local>>

Execute(r) ==
  \/ Refuse(r) \/ Replay(r) \/ Reject(r) \/ Accept(r) \/ CancelOrder(r)
  \/ LegacyOrder(r) \/ LegacyCancel(r) \/ Ignore(r) \/ FinishBlock(r)

Next ==
  \/ Propose
  \/ \E r \in Replica :
       \/ Execute(r)
       \/ \E d \in Delegation : RegisterDelegation(r, d)
       \/ Tick(r)
       \/ \E x \in Addr : GetAccount(r, x)
       \/ \E sym \in Symbol : GetOrderbook(r, sym)
       \/ HasBook(r)
       \/ Race(r)

Spec == Init /\ [][Next]_vars

-----------------------------------------------------------------------------
(***************************************************************************)
(* Properties                                                              *)
(***************************************************************************)
RestingOf(a, label) ==
  UNION {{<<s, p, i>> : i \in {i \in 1..Len(a.level[s][p]) : a.level[s][p][i].id = label}} :
           s \in Book!Side, p \in Price}

\* What an order may trade: nothing if 64 bits make its quantity negative.
Ordered(tx) == IF Int64(tx.qty) > 0 THEN Int64(tx.qty) ELSE 0

\* A signed order trades and rests within what 64 bits hold of the quantity its
\* owner signed, however often it is submitted, whatever the cancels do and
\* whatever unsigned orders have its ID.  (What those trade under the ID is not
\* the signed order's.)
TradedWithinOrdered ==
  \A r \in Replica, label \in {Label(tx) : tx \in Signed} :
    LET resting == SumFunction([e \in RestingOf(app[r], label) |-> app[r].level[e[1]][e[2]][e[3]].qty])
    IN  \E tx \in Signed : Label(tx) = label /\ app[r].traded[label] + resting <= Ordered(tx)

\* A signed order that was rejected never trades or rests, also if it is
\* submitted again when its owner could afford it.
RejectedStaysRejected ==
  \A r \in Replica : \A label \in app[r].rejected :
    app[r].traded[label] = 0 /\ RestingOf(app[r], label) = {}

\* A signed order rests at one place at most, and Cancel finds it there: the
\* index names its price.  An unsigned order of the same ID takes the entry.
SignedOrdersCancellable ==
  \A r \in Replica, label \in {Label(tx) : tx \in Signed} :
    \A e, f \in RestingOf(app[r], label) :
      e = f /\ (IdOf(label) \notin app[r].unsigned => app[r].index[IdOf(label)] = e[2])

\* What a replica has not got from the blocks decided the same on r and s: which
\* delegations it holds and which accounts it has loaded.
SameGaps(r, s) == app[r].refused = app[s].refused /\ app[r].unpaid = app[s].unpaid

\* README.md of pkg/app/core, "Deterministic execution": replicas that executed
\* the same transactions agree on accounts and books, provided that SameGaps.
SameTransactionsSameState ==
  \A r, s \in Replica :
    height[r] = height[s] /\ position[r] = position[s] /\ SameGaps(r, s) => app[r] = app[s]

\* They agree on the AppHash as well, provided they made books for the same
\* symbols, which does not depend on the blocks alone.
AppHashAgrees ==
  \A r, s \in Replica :
    /\ height[r] = height[s] /\ position[r] = 0 /\ position[s] = 0
    /\ SameGaps(r, s)
    /\ DOMAIN appHash[r] = DOMAIN appHash[s]
    => appHash[r] = appHash[s]

\* A replica whose API reads and whose blocks name the listed market only does
\* not die of the unlocked map of books.
ListedSymbolsAreSafe ==
  \A r \in Replica :
    crashed[r] => \/ reading[r] # Market
                  \/ ~(books[r] \subseteq {Market})
                  \/ position[r] < Len(Txs(r)) /\ NextTx(r).symbol # Market
=============================================================================
