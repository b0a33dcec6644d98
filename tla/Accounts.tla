------------------------------ MODULE Accounts ------------------------------
(***************************************************************************)
(* The AccountManager of pkg/app/core/account (manager.go, account.go)     *)
(* over its Pebble store (store.go), under every sequence of calls.        *)
(*                                                                         *)
(* Each call holds am.mu and is one action, but for Liquidate, whose loop  *)
(* over the positions is one action per position (job # NoJob says that    *)
(* it holds the mutex).  Only Deposit and Withdraw write the store, the    *)
(* whole account at once; a crash leaves what the store has.               *)
(*                                                                         *)
(* Nothing makes the callers lock a margin before they pass it to          *)
(* UpdatePosition, or keep it locked while the position is open: they may  *)
(* do neither.                                                             *)
(*                                                                         *)
(* cash, gain, rounding, reduced and orderly of an account, and bridge,    *)
(* are not in the code: they record what happened, for the properties to   *)
(* compare the code's numbers with.                                        *)
(* Nonces belong to the application; the statistics of RecordTrade and of  *)
(* ApplyFees are only displayed and left out.                              *)
(***************************************************************************)
EXTENDS Integers, FiniteSets, Functions

CONSTANTS
  Addr, Symbol,
  Amount,      \* amounts deposited, withdrawn, locked, unlocked
  Fee,         \* fees and rebates, without their sign
  Price, Lots, \* prices and quantities of fills
  MaxDeposit,  \* bound: what the bridge may hold for an account
  MaxGain,     \* bound: gains of an account
  MaxDebt,     \* bound: how far fees may take a balance below zero
  MaxSize,     \* bound: position size
  MaxMargin,   \* bound: a position's margin, and by how much locks and margins differ
  MaxCash,     \* bound: value of the fills of an account, and its realized PnL
  MaxRounding  \* bound: what rounding may lose on an account

\* The markets that are listed.
ASSUME SymbolAssumption == IsFiniteSet(Symbol)
ASSUME AmountAssumption == Amount \subseteq Nat \ {0} /\ Fee \subseteq Nat \ {0}
ASSUME FillAssumption == Price \subseteq Nat \ {0} /\ Lots \subseteq Nat \ {0}
ASSUME LimitAssumption ==
  {MaxDeposit, MaxGain, MaxDebt, MaxSize, MaxMargin, MaxCash, MaxRounding} \subseteq Nat

Abs(x) == IF x < 0 THEN -x ELSE x
Positive(x) == IF x > 0 THEN x ELSE 0

Position == [size : Int, entry : Int, margin : Int]

\* opened: the symbols the Positions map has an entry for.  cash: what the
\* fills took in less what they cost.  gain: rebates, gains, forgiven debts, and
\* deposits that were refused after they had been added.  rounding: what divisions
\* may have lost.  reduced: a fill has made a position smaller.  orderly: every
\* margin was locked first and kept locked.
Account == [balance : Int, locked : Int, opened : SUBSET Symbol, pos : [Symbol -> Position],
            pnl : Int, cash : Int, gain : Int, rounding : Int, reduced : BOOLEAN,
            orderly : BOOLEAN]

Flat == [size |-> 0, entry |-> 0, margin |-> 0]
NewAccount == [balance |-> 0, locked |-> 0, opened |-> {}, pos |-> [s \in Symbol |-> Flat],
               pnl |-> 0, cash |-> 0, gain |-> 0, rounding |-> 0, reduced |-> FALSE,
               orderly |-> TRUE]
NoAccount == [balance |-> -1]

\* A mark price of 0 is one the map of mark prices lacks.
Marks == [Symbol -> Price \cup {0}]
Job   == [addr : Addr, marks : Marks, left : SUBSET Symbol]
NoJob == [left |-> {}]

VARIABLES
  cache,   \* the accounts map: cache[a], or NoAccount
  store,   \* what Pebble holds for a, or NoAccount
  job,     \* the Liquidate call that holds the mutex, or NoJob
  bridge   \* what the bridge took in for a minus what it paid out

vars == <<cache, store, job, bridge>>

Available(acc) == acc.balance - acc.locked
TotalMargin(acc) == SumFunction([s \in Symbol |-> acc.pos[s].margin])

Init ==
  /\ cache = [a \in Addr |-> NoAccount]
  /\ store = [a \in Addr |-> NoAccount]
  /\ job = NoJob
  /\ bridge = [a \in Addr |-> 0]

Free == job = NoJob
Cached(a) == cache[a] # NoAccount

\* What takes the place of a stored account that cannot be read; its debt, if
\* it had one, is forgiven.
Forgotten(acc) == [NewAccount EXCEPT !.gain = acc.gain + Positive(-acc.balance)]

\* getAccountLocked: the cached account, else the stored one, else a new one;
\* an error while reading Pebble is logged and yields a new one as well.
Loads(a) ==
  IF Cached(a) THEN {cache[a]}
  ELSE IF store[a] = NoAccount THEN {NewAccount}
  ELSE {store[a], Forgotten(store[a])}

Persisted_before(a, acc) == \* mutant: the account is saved before it is changed
  IF Cached(a) THEN [store EXCEPT ![a] = cache[a]] ELSE store

\* mutant: only the balance is saved
Persisted_balance(a, acc) == [store EXCEPT ![a] = [balance |-> acc.balance]]

\* SaveAccount writes the whole account.
Persisted(a, acc) == [store EXCEPT ![a] = acc]

-----------------------------------------------------------------------------
GetAccount(a) ==
  /\ Free
  /\ \E acc \in Loads(a) : cache' = [cache EXCEPT ![a] = acc]
  /\ UNCHANGED <<store, job, bridge>>

\* The cache is changed before the store is.  When saving fails the caller gets
\* an error, so the bridge keeps nothing for it, and yet the cached account has
\* the money.
Deposit(a, n) ==
  /\ Free
  /\ \E acc \in Loads(a), saved \in BOOLEAN :
       LET new == [acc EXCEPT !.balance = @ + n, !.gain = IF saved THEN @ ELSE @ + n]
       IN  /\ cache' = [cache EXCEPT ![a] = new]
           /\ store' = IF saved THEN Persisted(a, new) ELSE store
           /\ bridge' = IF saved THEN [bridge EXCEPT ![a] = @ + n] ELSE bridge
           /\ bridge'[a] <= MaxDeposit
           /\ saved \/ new.gain <= MaxGain
  /\ UNCHANGED job

\* The bridge pays out when Withdraw returns no error; a withdrawal that is
\* refused has still brought the account into the cache.
Withdraw(a, n) ==
  /\ Free
  /\ \E acc \in Loads(a), saved \in BOOLEAN :
       LET new == [acc EXCEPT !.balance = @ - n]
       IN  \/ /\ Available(acc) >= n
              /\ cache' = [cache EXCEPT ![a] = new]
              /\ store' = IF saved THEN Persisted(a, new) ELSE store
              /\ bridge' = IF saved THEN [bridge EXCEPT ![a] = @ - n] ELSE bridge
           \/ /\ Available(acc) < n
              /\ cache' = [cache EXCEPT ![a] = acc]
              /\ UNCHANGED <<store, bridge>>
  /\ UNCHANGED job

\* The calls below return an error when the account is not cached.
LockCollateral(a, n) ==
  /\ Free /\ Cached(a)
  /\ Available(cache[a]) >= n
  /\ cache' = [cache EXCEPT ![a].locked = @ + n]
  /\ UNCHANGED <<store, job, bridge>>

UnlockCollateral(a, n) ==
  /\ Free /\ Cached(a)
  /\ cache[a].locked >= n
  /\ LET left == cache[a].locked - n
         new == [cache[a] EXCEPT !.locked = left, !.orderly = @ /\ TotalMargin(cache[a]) <= left]
     IN  cache' = [cache EXCEPT ![a] = new]
  /\ UNCHANGED <<store, job, bridge>>

ApplyFees(a, f) ==
  /\ Free /\ Cached(a)
  /\ cache[a].balance + f >= -MaxDebt
  /\ cache[a].gain + Positive(f) <= MaxGain
  /\ LET new == [cache[a] EXCEPT !.balance = @ + f, !.gain = @ + Positive(f)]
     IN  cache' = [cache EXCEPT ![a] = new]
  /\ UNCHANGED <<store, job, bridge>>

-----------------------------------------------------------------------------
(***************************************************************************)
(* UpdatePosition: a fill of delta lots at price, margin for it.           *)
(***************************************************************************)

\* The code's test for an increase: no change of sign.  A reduction passes it
\* too, which leaves only flips to the branch for the opposite direction.
SameDirection(old, new) == (old >= 0 /\ new >= 0) \/ (old <= 0 /\ new <= 0)

\* The volume-weighted entry price, absolute sizes throughout.
VWAP(p, delta, price) ==
  IF p.size = 0 THEN price
  ELSE (p.entry * Abs(p.size) + price * Abs(delta)) \div Abs(p.size + delta)

Filled(p, delta, price, margin) ==
  LET new == p.size + delta IN
  IF new = 0 THEN Flat
  ELSE IF SameDirection(p.size, new)
       THEN [size |-> new, entry |-> VWAP(p, delta, price), margin |-> p.margin + margin]
       ELSE [size |-> new, entry |-> price, margin |-> margin]

\* mutant: a flip realizes nothing
Realized_closed(p, delta, price) ==
  IF p.size + delta = 0 THEN (price - p.entry) * p.size ELSE 0

Realized(p, delta, price) ==
  IF p.size + delta = 0 \/ ~SameDirection(p.size, p.size + delta)
  THEN (price - p.entry) * p.size ELSE 0

\* The fill makes the position smaller and leaves its side.
Reduces(p, delta) ==
  /\ p.size + delta # 0 /\ SameDirection(p.size, p.size + delta)
  /\ Abs(p.size + delta) < Abs(p.size)

\* What the division in VWAP can lose.
Lost(p, delta) ==
  IF p.size # 0 /\ p.size + delta # 0 /\ SameDirection(p.size, p.size + delta)
  THEN Abs(p.size + delta) - 1 ELSE 0

\* The margin of the fill is locked already; a reduction gives back at most
\* the margin the position has.
InOrder(acc, p, delta, margin) ==
  IF Reduces(p, delta) THEN margin \in -p.margin..0
  ELSE margin >= 0 /\ TotalMargin(acc) + margin <= acc.locked

UpdatePosition(a, s, delta, price, margin) ==
  /\ Free /\ Cached(a)
  /\ LET acc == cache[a]
         p == acc.pos[s]
         new == [acc EXCEPT !.opened = @ \cup {s},
                            !.pos[s] = Filled(p, delta, price, margin),
                            !.pnl = @ + Realized(p, delta, price),
                            !.cash = @ - delta * price,
                            !.rounding = @ + Lost(p, delta),
                            !.reduced = @ \/ Reduces(p, delta),
                            !.orderly = @ /\ InOrder(acc, p, delta, margin)]
     IN  /\ Abs(new.pnl) <= MaxCash /\ Abs(new.cash) <= MaxCash
         /\ new.rounding <= MaxRounding
         /\ Abs(p.size + delta) <= MaxSize
         /\ Abs(new.pos[s].margin) <= MaxMargin
         /\ cache' = [cache EXCEPT ![a] = new]
  /\ UNCHANGED <<store, job, bridge>>

-----------------------------------------------------------------------------
(***************************************************************************)
(* Liquidate.  The check that leads to it is a call of its own, so that it *)
(* may meet any account: the engine's decision may be stale.               *)
(***************************************************************************)
Liquidate(a, marks) ==
  /\ Free /\ Cached(a)
  /\ cache[a].opened # {}
  /\ cache[a].gain <= MaxGain
  /\ Abs(cache[a].locked - TotalMargin(cache[a])) <= MaxMargin
  /\ job' = [addr |-> a, marks |-> marks, left |-> cache[a].opened]
  /\ UNCHANGED <<cache, store, bridge>>

Closed_keepsMargin(p) == [Flat EXCEPT !.margin = p.margin]   \* mutant: the margin stays
Closed(p) == Flat

\* The mark price; the entry price where there is none.
MarkPrice(p, mark) == IF mark = 0 THEN p.entry ELSE mark

\* One position is closed at its mark price, its margin unlocked.
ClosePosition(s) ==
  /\ ~Free /\ s \in job.left
  /\ job' = [job EXCEPT !.left = @ \ {s}]
  /\ LET a == job.addr
         acc == cache[a]
         p == acc.pos[s]
         mark == MarkPrice(p, job.marks[s])
         realized == (mark - p.entry) * p.size
         new == [acc EXCEPT !.balance = @ + realized,
                            !.pnl = @ + realized,
                            !.locked = @ - p.margin,
                            !.pos[s] = Closed(p),
                            !.cash = @ + mark * p.size,
                            !.gain = @ + Positive(realized)]
     IN  cache' = IF p.size = 0 THEN cache ELSE [cache EXCEPT ![a] = new]
  /\ UNCHANGED <<store, bridge>>

\* The insurance fund takes over what is below zero.
EndLiquidate ==
  /\ ~Free /\ job.left = {}
  /\ LET a == job.addr
         acc == cache[a]
         deficit == Positive(-acc.balance)
         new == [acc EXCEPT !.balance = @ + deficit, !.gain = @ + deficit]
     IN  cache' = [cache EXCEPT ![a] = new]
  /\ job' = NoJob
  /\ UNCHANGED <<store, bridge>>

\* The process stops and starts again: NewAccountManager opens the store and
\* begins with an empty cache.
Restart ==
  /\ cache' = [a \in Addr |-> NoAccount]
  /\ job' = NoJob
  /\ UNCHANGED <<store, bridge>>

Next ==
  \/ \E a \in Addr :
       \/ GetAccount(a)
       \/ \E n \in Amount :
            Deposit(a, n) \/ Withdraw(a, n) \/ LockCollateral(a, n) \/ UnlockCollateral(a, n)
       \/ \E f \in Fee : ApplyFees(a, f) \/ ApplyFees(a, -f)
       \/ \E s \in Symbol, q \in Lots, p \in Price, m \in {0} \cup Amount :
            \/ UpdatePosition(a, s, q, p, m) \/ UpdatePosition(a, s, -q, p, m)
            \/ UpdatePosition(a, s, q, p, -m) \/ UpdatePosition(a, s, -q, p, -m)
       \/ \E marks \in Marks : Liquidate(a, marks)
  \/ \E s \in Symbol : ClosePosition(s)
  \/ EndLiquidate
  \/ Restart

Spec == Init /\ [][Next]_vars

-----------------------------------------------------------------------------
(***************************************************************************)
(* Properties                                                              *)
(***************************************************************************)

\* Every variable holds values of its type.
TypeOK ==
  /\ cache \in [Addr -> Account \cup {NoAccount}]
  /\ store \in [Addr -> Account \cup {NoAccount}]
  /\ job \in Job \cup {NoJob}
  /\ job # NoJob => cache[job.addr] # NoAccount
  /\ bridge \in [Addr -> Int]

Live(a) == {acc \in {cache[a], store[a]} : acc # NoAccount}

\* Account.Validate: the margins of the positions stay within the locked
\* collateral, in the middle of a liquidation and in what a crash leaves too, as
\* long as every margin of the account was locked before its fill and stayed
\* locked: only a call that passes a margin that is not locked, or unlocks one in
\* use, can undo it.
MarginsLocked ==
  \A a \in Addr : \A acc \in Live(a) :
    acc.orderly => /\ \A s \in Symbol : acc.pos[s].margin >= 0
                   /\ TotalMargin(acc) <= acc.locked

\* Neither the cached nor the stored account holds more than what the bridge
\* kept for it and what it gained, a deposit refused after it had been added
\* included: no crash and no other failed call lets a withdrawal be made twice.
BalancesCovered ==
  \A a \in Addr : \A acc \in Live(a) : acc.balance <= bridge[a] + acc.gain

\* What the fills brought in is what has been realized plus the position at
\* its entry price, but for the rounding of entry prices.
Accounted(acc) ==
  Abs(acc.pnl - SumFunction([s \in Symbol |-> acc.pos[s].entry * acc.pos[s].size]) - acc.cash)
    <= acc.rounding

\* Realized PnL and entry prices account for every fill, as long as fills open,
\* increase, close or flip positions.  (A fill that makes a position smaller is
\* averaged into its entry price and realizes nothing.)
FillsAccounted ==
  \A a \in Addr : \A acc \in Live(a) : ~acc.reduced => Accounted(acc)
=============================================================================
