--------------------------- MODULE AccountsProof ---------------------------
(***************************************************************************)
(* Two invariants of Accounts for every set of addresses, symbols, amounts *)
(* and prices and for every bound.  BalancesCovered is inductive together  *)
(* with TypeOK and with UnsavedOwesNothing, which covers the new accounts  *)
(* that take the place of what was never saved.                            *)
(***************************************************************************)
EXTENDS Accounts, Induction

\* A balance that the bridge and the gains of the account cover.
Covered(a, acc, held) == acc.balance <= held[a] + acc.gain

\* Before the first save the bridge has paid out nothing.
UnsavedOwesNothing == \A a \in Addr : store[a] = NoAccount => bridge[a] >= 0

Inv == TypeOK /\ BalancesCovered /\ UnsavedOwesNothing

-----------------------------------------------------------------------------
\* NoAccount is told from every account by its fields.
LEMMA NoAccountIsNone == NoAccount \notin Account
<1> SUFFICES ASSUME NoAccount \in Account PROVE FALSE
  OBVIOUS
<1>1. DOMAIN NoAccount = {"balance"}
  BY DEF NoAccount
<1>2. "locked" \in DOMAIN NoAccount
  BY DEF Account
<1> QED  BY <1>1, <1>2

\* Positive parts of integers.
LEMMA PositiveBounds ==
  \A x \in Int : Positive(x) \in Int /\ Positive(x) >= x /\ Positive(x) >= 0
BY DEF Positive

\* New accounts are accounts, also those that replace what cannot be read.
LEMMA NewAccounts ==
  /\ NewAccount \in Account
  /\ \A acc \in Account : Forgotten(acc) \in Account
<1>1. NewAccount \in Account
  BY DEF NewAccount, Account, Flat, Position
<1>2. \A acc \in Account : acc.gain + Positive(-acc.balance) \in Int
  BY PositiveBounds DEF Account
<1> QED  BY <1>1, <1>2 DEF NewAccount, Forgotten, Account

\* Whatever a call loads is an account that is covered.
LEMMA LoadsCovered ==
  ASSUME Inv, NEW a \in Addr, NEW acc \in Loads(a)
  PROVE  acc \in Account /\ Covered(a, acc, bridge)
<1> USE DEF Inv
<1>1. CASE Cached(a)
  <2>1. acc = cache[a] /\ acc \in Account
    BY <1>1 DEF Loads, Cached, TypeOK
  <2> QED  BY <1>1, <2>1 DEF BalancesCovered, Live, Cached, Covered
<1>2. CASE ~Cached(a) /\ store[a] = NoAccount
  <2>1. acc = NewAccount /\ bridge[a] \in Int /\ bridge[a] >= 0
    BY <1>2 DEF Loads, UnsavedOwesNothing, TypeOK
  <2> QED  BY <2>1, NewAccounts DEF Covered, NewAccount
<1>3. CASE ~Cached(a) /\ store[a] # NoAccount
  <2>1. store[a] \in Account /\ bridge[a] \in Int
    BY <1>3 DEF TypeOK
  <2>2. Covered(a, store[a], bridge)
    BY <1>3 DEF BalancesCovered, Live, Covered
  <2>3. CASE acc = store[a]
    BY <2>1, <2>2, <2>3
  <2>4. CASE acc = Forgotten(store[a])
    <3>1. acc.balance = 0 /\ acc.gain = store[a].gain + Positive(-store[a].balance)
      BY <2>4 DEF Forgotten, NewAccount
    <3>2. store[a].balance \in Int /\ store[a].gain \in Int
      BY <2>1 DEF Account
    <3>3. Positive(-store[a].balance) \in Int /\ Positive(-store[a].balance) >= -store[a].balance
          /\ Positive(-store[a].balance) >= 0
      BY <3>2, PositiveBounds
    <3>4. 0 <= bridge[a] + (store[a].gain + Positive(-store[a].balance))
      BY <2>1, <2>2, <3>2, <3>3 DEF Covered
    <3> QED  BY <2>1, <2>4, <3>1, <3>4, NewAccounts DEF Covered
  <2> QED  BY <1>3, <2>3, <2>4 DEF Loads
<1> QED  BY <1>1, <1>2, <1>3

\* A step that puts a covered account in the cache, and perhaps in the store,
\* keeps the balances covered: what it does not touch is covered by a holding
\* of the bridge that only a save may lower.
LEMMA PutCovered ==
  ASSUME Inv, NEW a \in Addr, NEW new \in Account,
         cache' = [cache EXCEPT ![a] = new],
         \/ store' = [store EXCEPT ![a] = new]
         \/ store' = store /\ bridge'[a] >= bridge[a],
         bridge' \in [Addr -> Int],
         \A b \in Addr \ {a} : bridge'[b] = bridge[b],
         Covered(a, new, bridge')
  PROVE  /\ cache' \in [Addr -> Account \cup {NoAccount}]
         /\ store' \in [Addr -> Account \cup {NoAccount}]
         /\ cache'[a] # NoAccount
         /\ BalancesCovered'
         /\ UnsavedOwesNothing'
<1> USE DEF Inv
<1>1. /\ cache' \in [Addr -> Account \cup {NoAccount}]
      /\ store' \in [Addr -> Account \cup {NoAccount}]
      /\ cache'[a] = new /\ new # NoAccount
      /\ \A b \in Addr \ {a} : cache'[b] = cache[b] /\ store'[b] = store[b]
      /\ store'[a] = new \/ (store'[a] = store[a] /\ bridge'[a] >= bridge[a])
  BY NoAccountIsNone DEF TypeOK
<1>2. ASSUME NEW b \in Addr, NEW acc \in {cache'[b], store'[b]}, acc # NoAccount
      PROVE  acc.balance <= bridge'[b] + acc.gain
  <2>1. CASE b # a
    <3>1. acc \in Live(b) /\ bridge'[b] = bridge[b]
      BY <1>1, <1>2, <2>1 DEF Live
    <3> QED  BY <3>1 DEF BalancesCovered
  <2>2. CASE b = a /\ acc = new
    BY <2>2 DEF Covered
  <2>3. CASE b = a /\ acc = store[a] /\ bridge'[a] >= bridge[a]
    <3>1. acc \in Live(a) /\ acc \in Account
      BY <1>2, <2>3 DEF Live, TypeOK
    <3>2. acc.balance <= bridge[a] + acc.gain
      BY <3>1 DEF BalancesCovered
    <3>3. acc.balance \in Int /\ acc.gain \in Int /\ bridge[a] \in Int /\ bridge'[a] \in Int
      BY <3>1 DEF Account, TypeOK
    <3> QED  BY <2>3, <3>2, <3>3
  <2> QED  BY <1>1, <1>2, <2>1, <2>2, <2>3
<1>3. BalancesCovered'
  BY <1>2 DEF BalancesCovered, Live
<1>4. ASSUME NEW b \in Addr, store'[b] = NoAccount
      PROVE  bridge'[b] >= 0
  <2>1. store[b] = NoAccount /\ bridge[b] \in Int /\ bridge'[b] \in Int
    BY <1>1, <1>4 DEF TypeOK
  <2>2. bridge[b] >= 0
    BY <2>1 DEF UnsavedOwesNothing
  <2> QED  BY <1>1, <1>4, <2>1, <2>2
<1> QED  BY <1>1, <1>3, <1>4 DEF UnsavedOwesNothing

\* The calls that change the cached account alone need only leave it covered.
LEMMA CacheCovered ==
  ASSUME Inv, NEW a \in Addr, NEW new \in Account,
         cache' = [cache EXCEPT ![a] = new],
         UNCHANGED <<store, bridge>>,
         Covered(a, new, bridge)
  PROVE  /\ cache' \in [Addr -> Account \cup {NoAccount}]
         /\ store' \in [Addr -> Account \cup {NoAccount}]
         /\ bridge' \in [Addr -> Int]
         /\ \A b \in Addr : cache[b] # NoAccount => cache'[b] # NoAccount
         /\ BalancesCovered'
         /\ UnsavedOwesNothing'
<1>1. bridge' \in [Addr -> Int] /\ bridge'[a] >= bridge[a]
  BY DEF Inv, TypeOK
<1>2. Covered(a, new, bridge')
  BY DEF Covered
<1>3. \A b \in Addr \ {a} : cache'[b] = cache[b] /\ bridge'[b] = bridge[b]
  BY DEF Inv, TypeOK
<1> QED  BY <1>1, <1>2, <1>3, PutCovered

\* A call that a cached account can serve meets an account that is covered.
LEMMA CachedCovered ==
  ASSUME Inv, NEW a \in Addr, Cached(a)
  PROVE  cache[a] \in Account /\ Covered(a, cache[a], bridge)
BY DEF Inv, TypeOK, BalancesCovered, Live, Cached, Covered

\* The type of a filled position and of what the fill realizes.
LEMMA FillType ==
  ASSUME NEW p \in Position, NEW delta \in Int, NEW price \in Int, NEW margin \in Int
  PROVE  /\ Filled(p, delta, price, margin) \in Position
         /\ Realized(p, delta, price) \in Int
         /\ Lost(p, delta) \in Int
         /\ Reduces(p, delta) \in BOOLEAN
<1>1. p.size \in Int /\ p.entry \in Int /\ p.margin \in Int /\ p.size + delta \in Int
  BY DEF Position
<1>2. /\ Abs(p.size) \in Int /\ Abs(delta) \in Int
      /\ p.size + delta # 0 => Abs(p.size + delta) \in Nat \ {0}
  BY <1>1 DEF Abs
<1>3. p.size + delta # 0 => VWAP(p, delta, price) \in Int
  <2>1. p.entry * Abs(p.size) \in Int /\ price * Abs(delta) \in Int
    BY <1>1, <1>2
  <2> QED  BY <1>2, <2>1 DEF VWAP
<1>4. (price - p.entry) * p.size \in Int
  BY <1>1
<1> QED  BY <1>1, <1>2, <1>3, <1>4 DEF Filled, Flat, Position, Realized, Lost, Reduces, SameDirection

-----------------------------------------------------------------------------
\* A new account manager.
LEMMA InvInit == Init => Inv
BY DEF Init, Inv, TypeOK, BalancesCovered, UnsavedOwesNothing, Live, NoAccount, NoJob

LEMMA InvGetAccount == ASSUME Inv, NEW a \in Addr, GetAccount(a) PROVE Inv'
<1>1. PICK acc \in Loads(a) : cache' = [cache EXCEPT ![a] = acc]
  BY DEF GetAccount
<1>2. acc \in Account /\ Covered(a, acc, bridge)
  BY LoadsCovered
<1>3. job' = NoJob /\ UNCHANGED <<store, bridge>>
  BY DEF GetAccount, Free
<1> QED  BY <1>1, <1>2, <1>3, CacheCovered DEF Inv, TypeOK

LEMMA InvDeposit == ASSUME Inv, NEW a \in Addr, NEW n \in Amount, Deposit(a, n) PROVE Inv'
<1> DEFINE more(acc, saved) ==
             [acc EXCEPT !.balance = @ + n, !.gain = IF saved THEN @ ELSE @ + n]
<1>1. PICK acc \in Loads(a), saved \in BOOLEAN :
        /\ cache' = [cache EXCEPT ![a] = more(acc, saved)]
        /\ store' = IF saved THEN Persisted(a, more(acc, saved)) ELSE store
        /\ bridge' = IF saved THEN [bridge EXCEPT ![a] = @ + n] ELSE bridge
  BY DEF Deposit
<1> DEFINE new == more(acc, saved)
<1>2. acc \in Account /\ Covered(a, acc, bridge)
  BY LoadsCovered
<1>3. n \in Nat /\ bridge[a] \in Int /\ bridge \in [Addr -> Int]
  BY AmountAssumption DEF Inv, TypeOK
<1>4. acc.balance \in Int /\ acc.gain \in Int
  BY <1>2 DEF Account
<1>5. /\ new \in Account /\ new.balance = acc.balance + n
      /\ new.gain = IF saved THEN acc.gain ELSE acc.gain + n
  <2>1. acc.balance + n \in Int /\ (IF saved THEN acc.gain ELSE acc.gain + n) \in Int
    BY <1>3, <1>4
  <2> QED  BY <1>2, <2>1 DEF Account
<1>6. /\ bridge' \in [Addr -> Int] /\ bridge'[a] >= bridge[a]
      /\ bridge'[a] = IF saved THEN bridge[a] + n ELSE bridge[a]
      /\ \A b \in Addr \ {a} : bridge'[b] = bridge[b]
  BY <1>1, <1>3
<1>7. Covered(a, new, bridge')
  BY <1>2, <1>3, <1>4, <1>5, <1>6 DEF Covered
<1>8. cache' = [cache EXCEPT ![a] = new] /\ (store' = store \/ store' = [store EXCEPT ![a] = new])
  BY <1>1 DEF Persisted
<1>9. job' = NoJob
  BY DEF Deposit, Free
<1> HIDE DEF new
<1> QED  BY <1>5, <1>6, <1>7, <1>8, <1>9, PutCovered DEF Inv, TypeOK

LEMMA InvWithdraw == ASSUME Inv, NEW a \in Addr, NEW n \in Amount, Withdraw(a, n) PROVE Inv'
<1> DEFINE less(acc) == [acc EXCEPT !.balance = @ - n]
<1>1. PICK acc \in Loads(a), saved \in BOOLEAN :
        \/ /\ cache' = [cache EXCEPT ![a] = less(acc)]
           /\ store' = IF saved THEN Persisted(a, less(acc)) ELSE store
           /\ bridge' = IF saved THEN [bridge EXCEPT ![a] = @ - n] ELSE bridge
        \/ cache' = [cache EXCEPT ![a] = acc] /\ UNCHANGED <<store, bridge>>
  BY DEF Withdraw
<1>2. acc \in Account /\ Covered(a, acc, bridge)
  BY LoadsCovered
<1>3. n \in Nat /\ bridge[a] \in Int /\ bridge \in [Addr -> Int]
  BY AmountAssumption DEF Inv, TypeOK
<1>4. job' = NoJob
  BY DEF Withdraw, Free
<1>5. CASE cache' = [cache EXCEPT ![a] = acc] /\ UNCHANGED <<store, bridge>>
  BY <1>2, <1>4, <1>5, CacheCovered DEF Inv, TypeOK
<1>6. CASE /\ cache' = [cache EXCEPT ![a] = less(acc)]
           /\ store' = IF saved THEN Persisted(a, less(acc)) ELSE store
           /\ bridge' = IF saved THEN [bridge EXCEPT ![a] = @ - n] ELSE bridge
  <2> DEFINE new == less(acc)
  <2>1. new \in Account /\ new.balance = acc.balance - n /\ new.gain = acc.gain
    BY <1>2, <1>3 DEF Account
  <2>2. acc.balance \in Int /\ acc.gain \in Int
    BY <1>2 DEF Account
  <2>3. bridge' \in [Addr -> Int] /\ \A b \in Addr \ {a} : bridge'[b] = bridge[b]
    BY <1>3, <1>6
  <2>4. Covered(a, new, bridge')
    BY <1>2, <1>3, <1>6, <2>1, <2>2 DEF Covered
  <2>5. /\ cache' = [cache EXCEPT ![a] = new]
        /\ \/ store' = [store EXCEPT ![a] = new]
           \/ store' = store /\ bridge'[a] >= bridge[a]
    BY <1>3, <1>6 DEF Persisted
  <2> HIDE DEF new
  <2> QED  BY <1>4, <2>1, <2>3, <2>4, <2>5, PutCovered DEF Inv, TypeOK
<1> QED  BY <1>1, <1>5, <1>6

\* The calls that move the locked collateral alone.
LEMMA LockChanges ==
  ASSUME Inv, NEW a \in Addr, NEW n \in Amount, LockCollateral(a, n) \/ UnlockCollateral(a, n)
  PROVE  \E new \in Account :
           /\ cache' = [cache EXCEPT ![a] = new] /\ UNCHANGED <<store, bridge>>
           /\ new.balance = cache[a].balance /\ new.gain = cache[a].gain
           /\ new.pos = cache[a].pos /\ new.pnl = cache[a].pnl /\ new.cash = cache[a].cash
           /\ new.rounding = cache[a].rounding /\ new.reduced = cache[a].reduced
           /\ new.orderly => /\ cache[a].orderly
                             /\ new.locked >= cache[a].locked \/ new.locked >= TotalMargin(cache[a])
<1> DEFINE acc == cache[a]
<1>1. acc \in Account /\ acc.locked \in Int /\ acc.orderly \in BOOLEAN /\ n \in Nat
  BY CachedCovered, AmountAssumption DEF LockCollateral, UnlockCollateral, Account
<1>2. CASE LockCollateral(a, n)
  <2> DEFINE new == [acc EXCEPT !.locked = acc.locked + n]
  <2>1. cache' = [cache EXCEPT ![a] = new] /\ UNCHANGED <<store, bridge>>
    BY <1>2 DEF LockCollateral
  <2>2. new \in Account /\ new.locked >= acc.locked
    BY <1>1 DEF Account
  <2>3. /\ new.balance = acc.balance /\ new.gain = acc.gain /\ new.pos = acc.pos /\ new.pnl = acc.pnl
        /\ new.cash = acc.cash /\ new.rounding = acc.rounding /\ new.reduced = acc.reduced
        /\ new.orderly = acc.orderly
    BY <1>1 DEF Account
  <2> HIDE DEF new
  <2> QED  BY <2>1, <2>2, <2>3
<1>3. CASE UnlockCollateral(a, n)
  <2> DEFINE left == acc.locked - n
             kept == acc.orderly /\ TotalMargin(acc) <= left
             new == [acc EXCEPT !.locked = left, !.orderly = kept]
  <2>1. cache' = [cache EXCEPT ![a] = new] /\ UNCHANGED <<store, bridge>>
    <3>1. [acc EXCEPT !.locked = left, !.orderly = @ /\ TotalMargin(acc) <= left] = new
      BY <1>1 DEF Account
    <3> QED  BY <1>3, <3>1 DEF UnlockCollateral
  <2>2. left \in Int /\ kept \in BOOLEAN
    BY <1>1
  <2> HIDE DEF kept, left
  <2>3. /\ new \in Account /\ new.locked = left /\ new.orderly = kept
        /\ new.balance = acc.balance /\ new.gain = acc.gain /\ new.pos = acc.pos /\ new.pnl = acc.pnl
        /\ new.cash = acc.cash /\ new.rounding = acc.rounding /\ new.reduced = acc.reduced
    BY <1>1, <2>2 DEF Account
  <2> HIDE DEF new, acc
  <2>4. kept => acc.orderly /\ left >= TotalMargin(acc)
    <3>1. TotalMargin(acc) <= left <=> left >= TotalMargin(acc)
      OBVIOUS
    <3> QED  BY <3>1 DEF kept
  <2> QED  BY <2>1, <2>3, <2>4 DEF acc
<1> QED  BY <1>2, <1>3

LEMMA InvLock ==
  ASSUME Inv, NEW a \in Addr, NEW n \in Amount, LockCollateral(a, n) \/ UnlockCollateral(a, n)
  PROVE  Inv'
<1>1. cache[a] \in Account /\ Covered(a, cache[a], bridge)
  BY CachedCovered DEF LockCollateral, UnlockCollateral
<1>2. PICK new \in Account :
        /\ cache' = [cache EXCEPT ![a] = new] /\ UNCHANGED <<store, bridge>>
        /\ new.balance = cache[a].balance /\ new.gain = cache[a].gain
  BY LockChanges
<1>3. Covered(a, new, bridge)
  BY <1>1, <1>2 DEF Covered
<1>4. job' = NoJob
  BY DEF LockCollateral, UnlockCollateral, Free
<1> QED  BY <1>2, <1>3, <1>4, CacheCovered DEF Inv, TypeOK

LEMMA InvApplyFees == ASSUME Inv, NEW a \in Addr, NEW f \in Int, ApplyFees(a, f) PROVE Inv'
<1> DEFINE new == [cache[a] EXCEPT !.balance = @ + f, !.gain = @ + Positive(f)]
<1>1. cache[a] \in Account /\ Covered(a, cache[a], bridge)
  BY CachedCovered DEF ApplyFees
<1>2. Positive(f) \in Int /\ Positive(f) >= f
  BY PositiveBounds
<1>3. cache[a].balance \in Int /\ cache[a].gain \in Int /\ bridge[a] \in Int
  BY <1>1 DEF Account, Inv, TypeOK
<1>4. new \in Account /\ new.balance = cache[a].balance + f /\ new.gain = cache[a].gain + Positive(f)
  <2>1. cache[a].balance + f \in Int /\ cache[a].gain + Positive(f) \in Int
    BY <1>2, <1>3
  <2>2. new.balance = cache[a].balance + f
    BY <1>1 DEF Account
  <2>3. new.gain = cache[a].gain + Positive(f)
    BY <1>1 DEF Account
  <2> QED  BY <1>1, <2>1, <2>2, <2>3 DEF Account
<1>5. Covered(a, new, bridge)
  BY <1>1, <1>2, <1>3, <1>4 DEF Covered
<1>6. cache' = [cache EXCEPT ![a] = new] 
  BY DEF ApplyFees
<1>7. job' = NoJob /\ UNCHANGED <<store, bridge>>
  BY DEF ApplyFees, Free
<1> HIDE DEF new
<1> QED  BY <1>4, <1>5, <1>6, <1>7, CacheCovered DEF Inv, TypeOK

LEMMA InvUpdatePosition ==
  ASSUME Inv, NEW a \in Addr, NEW s \in Symbol, NEW delta \in Int, NEW price \in Int,
         NEW margin \in Int,
         UpdatePosition(a, s, delta, price, margin)
  PROVE  Inv'
<1> DEFINE acc == cache[a]
           p   == acc.pos[s]
           new == [acc EXCEPT !.opened = @ \cup {s},
                              !.pos[s] = Filled(p, delta, price, margin),
                              !.pnl = @ + Realized(p, delta, price),
                              !.cash = @ - delta * price,
                              !.rounding = @ + Lost(p, delta),
                              !.reduced = @ \/ Reduces(p, delta),
                              !.orderly = @ /\ InOrder(acc, p, delta, margin)]
<1>1. acc \in Account /\ Covered(a, acc, bridge)
  BY CachedCovered DEF UpdatePosition
<1>2. p \in Position /\ acc.pos \in [Symbol -> Position]
  BY <1>1 DEF Account
<1>3. /\ Filled(p, delta, price, margin) \in Position
      /\ Realized(p, delta, price) \in Int
      /\ Lost(p, delta) \in Int
      /\ Reduces(p, delta) \in BOOLEAN
  BY <1>2, FillType
<1>4. /\ acc.pnl + Realized(p, delta, price) \in Int
      /\ acc.cash - delta * price \in Int
      /\ acc.rounding + Lost(p, delta) \in Int
      /\ acc.reduced \/ Reduces(p, delta) \in BOOLEAN
      /\ (acc.orderly /\ InOrder(acc, p, delta, margin)) \in BOOLEAN
  <2>1. acc.pnl \in Int /\ acc.cash \in Int /\ acc.rounding \in Int /\ delta * price \in Int
    BY <1>1 DEF Account
  <2> QED  BY <1>3, <2>1
<1>5. new \in Account
  <2>1. acc.opened \cup {s} \in SUBSET Symbol
        /\ [acc.pos EXCEPT ![s] = Filled(p, delta, price, margin)] \in [Symbol -> Position]
    BY <1>1, <1>2, <1>3 DEF Account
  <2> HIDE DEF p
  <2> QED  BY <1>1, <1>4, <2>1 DEF Account
<1>6. Covered(a, new, bridge)
  BY <1>1 DEF Covered, Account
<1>7. cache' = [cache EXCEPT ![a] = new] 
  BY DEF UpdatePosition
<1>8. job' = NoJob /\ UNCHANGED <<store, bridge>>
  BY DEF UpdatePosition, Free
<1> HIDE DEF new
<1> QED  BY <1>5, <1>6, <1>7, <1>8, CacheCovered DEF Inv, TypeOK

\* A liquidation holds the mutex and an account that is cached.
LEMMA JobAccount ==
  ASSUME Inv, ~Free
  PROVE  /\ job \in Job /\ job.addr \in Addr
         /\ cache[job.addr] \in Account
         /\ Covered(job.addr, cache[job.addr], bridge)
<1>1. job \in Job /\ job.addr \in Addr /\ cache[job.addr] # NoAccount
  BY DEF Inv, TypeOK, Free, Job
<1> QED  BY <1>1, CachedCovered DEF Cached

LEMMA InvLiquidate ==
  ASSUME Inv, NEW a \in Addr, NEW marks \in Marks, Liquidate(a, marks)
  PROVE  Inv'
<1>1. cache[a] \in Account
  BY CachedCovered DEF Liquidate
<1>2. job' \in Job /\ job'.addr = a
  BY <1>1 DEF Liquidate, Job, Account
<1>3. cache[a] # NoAccount /\ UNCHANGED <<cache, store, bridge>>
  BY DEF Liquidate, Cached
<1> QED
  BY <1>2, <1>3 DEF Inv, TypeOK, BalancesCovered, Live, UnsavedOwesNothing

LEMMA InvClosePosition == ASSUME Inv, NEW s \in Symbol, ClosePosition(s) PROVE Inv'
<1> DEFINE a == job.addr
           acc == cache[a]
           p == acc.pos[s]
           mark == MarkPrice(p, job.marks[s])
           realized == (mark - p.entry) * p.size
           new == [acc EXCEPT !.balance = @ + realized,
                              !.pnl = @ + realized,
                              !.locked = @ - p.margin,
                              !.pos[s] = Closed(p),
                              !.cash = @ + mark * p.size,
                              !.gain = @ + Positive(realized)]
<1>1. /\ job \in Job /\ a \in Addr /\ acc \in Account /\ acc # NoAccount
      /\ Covered(a, acc, bridge)
  BY JobAccount, NoAccountIsNone DEF ClosePosition
<1>2. job' \in Job /\ job'.addr = a
  BY <1>1 DEF ClosePosition, Job
<1>3. UNCHANGED <<store, bridge>>
  BY DEF ClosePosition
<1>4. CASE p.size = 0
  <2>1. cache' = cache
    BY <1>4 DEF ClosePosition
  <2> QED  BY <1>1, <1>2, <1>3, <2>1 DEF Inv, TypeOK, BalancesCovered, Live, UnsavedOwesNothing
<1>5. CASE p.size # 0
  <2>1. cache' = [cache EXCEPT ![a] = new]
    BY <1>5 DEF ClosePosition
  <2>2. p \in Position /\ p.size \in Int /\ p.entry \in Int /\ p.margin \in Int
    BY <1>1 DEF Account, Position
  <2>3. mark \in Int
    <3>1. job.marks \in [Symbol -> Price \cup {0}]
      BY <1>1 DEF Job, Marks
    <3>2. job.marks[s] \in Price \cup {0}
      BY <3>1
    <3>3. \A x \in Price \cup {0} : x \in Int
      BY FillAssumption
    <3>4. job.marks[s] \in Int
      BY <3>2, <3>3, Zenon
    <3> QED  BY <2>2, <3>4 DEF MarkPrice
  <2>4. realized \in Int /\ mark * p.size \in Int
    BY <2>2, <2>3
  <2>5. Positive(realized) \in Int /\ Positive(realized) >= realized
    BY <2>4, PositiveBounds
  <2> HIDE DEF mark, realized, p
  <2>6. /\ acc.balance \in Int /\ acc.pnl \in Int /\ acc.locked \in Int
        /\ acc.cash \in Int /\ acc.gain \in Int
    BY <1>1 DEF Account
  <2>7. Closed(p) \in Position
    BY DEF Closed, Flat, Position
  <2>8. new.balance = acc.balance + realized /\ new.gain = acc.gain + Positive(realized)
    BY <1>1 DEF Account
  <2>9. new \in Account
    <3>1. /\ acc.balance + realized \in Int /\ acc.pnl + realized \in Int
          /\ acc.locked - p.margin \in Int /\ acc.cash + mark * p.size \in Int
          /\ acc.gain + Positive(realized) \in Int
      BY <2>2, <2>4, <2>5, <2>6
    <3>2. [acc.pos EXCEPT ![s] = Closed(p)] \in [Symbol -> Position]
      BY <1>1, <2>7 DEF Account
    <3> QED  BY <1>1, <3>1, <3>2 DEF Account
  <2>10. Covered(a, new, bridge)
    <3>1. bridge[a] \in Int
      BY <1>1 DEF Inv, TypeOK
    <3> QED  BY <1>1, <2>4, <2>5, <2>6, <2>8, <3>1 DEF Covered
  <2> HIDE DEF new, a
  <2> QED  BY <1>1, <1>2, <1>3, <2>1, <2>9, <2>10, CacheCovered DEF Inv, TypeOK
<1> QED  BY <1>4, <1>5

LEMMA InvEndLiquidate == ASSUME Inv, EndLiquidate PROVE Inv'
<1> DEFINE a == job.addr
           acc == cache[a]
           deficit == Positive(-acc.balance)
           new == [acc EXCEPT !.balance = @ + deficit, !.gain = @ + deficit]
<1>1. a \in Addr /\ acc \in Account /\ Covered(a, acc, bridge)
  BY JobAccount DEF EndLiquidate
<1>2. acc.balance \in Int /\ acc.gain \in Int /\ bridge[a] \in Int
  BY <1>1 DEF Account, Inv, TypeOK
<1>3. deficit \in Int
  BY <1>2, PositiveBounds
<1>4. cache' = [cache EXCEPT ![a] = new]
  BY DEF EndLiquidate
<1>5. job' = NoJob /\ UNCHANGED <<store, bridge>>
  BY DEF EndLiquidate
<1> HIDE DEF deficit
<1>6. new.balance = acc.balance + deficit /\ new.gain = acc.gain + deficit
  BY <1>1 DEF Account
<1>7. new \in Account
  <2>1. acc.balance + deficit \in Int /\ acc.gain + deficit \in Int
    BY <1>2, <1>3
  <2> QED  BY <1>1, <2>1 DEF Account
<1>8. Covered(a, new, bridge)
  BY <1>1, <1>2, <1>3, <1>6 DEF Covered
<1> HIDE DEF new, a
<1> QED  BY <1>1, <1>4, <1>5, <1>7, <1>8, CacheCovered DEF Inv, TypeOK

LEMMA InvRestart == ASSUME Inv, Restart PROVE Inv'
BY DEF Restart, Inv, TypeOK, BalancesCovered, Live, UnsavedOwesNothing

\* Every call and every crash keeps the invariant.
LEMMA InvNext == Inv /\ [Next]_vars => Inv'
<1> SUFFICES ASSUME Inv, [Next]_vars PROVE Inv'
  OBVIOUS
<1>1. CASE UNCHANGED vars
  BY <1>1 DEF vars, Inv, TypeOK, BalancesCovered, Live, UnsavedOwesNothing
<1>2. ASSUME NEW a \in Addr, GetAccount(a) PROVE Inv'
  BY <1>2, InvGetAccount
<1>3. ASSUME NEW a \in Addr, NEW n \in Amount, Deposit(a, n) PROVE Inv'
  BY <1>3, InvDeposit
<1>4. ASSUME NEW a \in Addr, NEW n \in Amount, Withdraw(a, n) PROVE Inv'
  BY <1>4, InvWithdraw
<1>5. ASSUME NEW a \in Addr, NEW n \in Amount, LockCollateral(a, n) \/ UnlockCollateral(a, n)
      PROVE  Inv'
  BY <1>5, InvLock
<1>6. ASSUME NEW a \in Addr, NEW f \in Fee, ApplyFees(a, f) \/ ApplyFees(a, -f) PROVE Inv'
  <2>1. f \in Int /\ -f \in Int
    BY AmountAssumption
  <2> QED  BY <1>6, <2>1, InvApplyFees
<1>7. ASSUME NEW a \in Addr, NEW s \in Symbol, NEW q \in Lots, NEW pr \in Price,
             NEW mg \in {0} \cup Amount,
             \/ UpdatePosition(a, s, q, pr, mg) \/ UpdatePosition(a, s, -q, pr, mg)
             \/ UpdatePosition(a, s, q, pr, -mg) \/ UpdatePosition(a, s, -q, pr, -mg)
      PROVE  Inv'
  <2>1. {q, -q, pr, mg, -mg} \subseteq Int
    BY AmountAssumption, FillAssumption
  <2> QED  BY <1>7, <2>1, InvUpdatePosition
<1>8. ASSUME NEW a \in Addr, NEW marks \in Marks, Liquidate(a, marks) PROVE Inv'
  BY <1>8, InvLiquidate
<1>9. ASSUME NEW s \in Symbol, ClosePosition(s) PROVE Inv'
  BY <1>9, InvClosePosition
<1>10. CASE EndLiquidate
  BY <1>10, InvEndLiquidate
<1>11. CASE Restart
  BY <1>11, InvRestart
<1> QED
  BY <1>1, <1>2, <1>3, <1>4, <1>5, <1>6, <1>7, <1>8, <1>9, <1>10, <1>11 DEF Next

-----------------------------------------------------------------------------
\* Cache, store and the liquidation under way are well typed in every state,
\* whatever calls, failures and crashes led to it.
THEOREM AccountsTypeCorrect == Spec => []TypeOK
<1>1. Inv => TypeOK
  BY DEF Inv
<1> QED  BY <1>1, InvInit, InvNext, PTL DEF Spec

\* No crash, failed save or failed read ever leaves an account, cached or
\* stored, with more than the bridge kept for it and it gained, deposits that
\* were refused after they had been added included.
THEOREM WithdrawalsCovered == Spec => []BalancesCovered
<1>1. Inv => BalancesCovered
  BY DEF Inv
<1> QED  BY <1>1, InvInit, InvNext, PTL DEF Spec

-----------------------------------------------------------------------------
(***************************************************************************)
(* Margins and realized gains                                              *)
(***************************************************************************)

\* What MarginsLocked and FillsAccounted say of an account.
MarginOK(acc) ==
  acc.orderly => (\A s \in Symbol : acc.pos[s].margin >= 0) /\ TotalMargin(acc) <= acc.locked
Sound(acc) == MarginOK(acc) /\ acc.rounding >= 0 /\ (~acc.reduced => Accounted(acc))

SoundInv == \A a \in Addr : \A acc \in Live(a) : Sound(acc)

\* The margins of positions, and their values at their entry prices.
Margins(pos) == SumFunction([s \in Symbol |-> pos[s].margin])
Entries(pos) == SumFunction([s \in Symbol |-> pos[s].entry * pos[s].size])

\* One position changes.
LEMMA PositionChanges ==
  ASSUME NEW pos \in [Symbol -> Position], NEW s \in Symbol, NEW q \in Position
  PROVE  /\ Margins(pos) \in Int /\ Entries(pos) \in Int
         /\ Margins([pos EXCEPT ![s] = q]) = Margins(pos) - pos[s].margin + q.margin
         /\ Entries([pos EXCEPT ![s] = q]) = Entries(pos) - pos[s].entry * pos[s].size + q.entry * q.size
<1> DEFINE new == [pos EXCEPT ![s] = q]
<1>1. new \in [Symbol -> Position] /\ new[s] = q /\ \A t \in Symbol : t # s => new[t] = pos[t]
  OBVIOUS
<1> HIDE DEF new
<1>2. ASSUME NEW p \in Position PROVE p.margin \in Int /\ p.entry \in Int /\ p.size \in Int /\ p.entry * p.size \in Int
  BY DEF Position
<1>3. Margins(pos) \in Int /\ Margins(new) = Margins(pos) - pos[s].margin + q.margin
  <2> DEFINE f == [t \in Symbol |-> pos[t].margin]
             g == [t \in Symbol |-> new[t].margin]
  <2>1. \A t \in Symbol : f[t] \in Int /\ g[t] \in Int /\ (t # s => f[t] = g[t])
    BY <1>1, <1>2
  <2>2. f[s] = pos[s].margin /\ g[s] = q.margin
    BY <1>1
  <2>3. Margins(pos) = SumFunctionOnSet(f, Symbol) /\ Margins(new) = SumFunctionOnSet(g, Symbol)
    BY DEF Margins, SumFunction
  <2> HIDE DEF f, g
  <2>4. SumFunctionOnSet(g, Symbol) = SumFunctionOnSet(f, Symbol) - f[s] + g[s]
    BY <2>1, SumChange, SymbolAssumption
  <2>5. SumFunctionOnSet(f, Symbol) \in Int
    BY <2>1, SumPick, SymbolAssumption
  <2>6. QED
    BY <2>2, <2>3, <2>4, <2>5
<1>4. Entries(pos) \in Int /\ Entries(new) = Entries(pos) - pos[s].entry * pos[s].size + q.entry * q.size
  <2> DEFINE f == [t \in Symbol |-> pos[t].entry * pos[t].size]
             g == [t \in Symbol |-> new[t].entry * new[t].size]
  <2>1. \A t \in Symbol : f[t] \in Int /\ g[t] \in Int /\ (t # s => f[t] = g[t])
    BY <1>1, <1>2
  <2>2. f[s] = pos[s].entry * pos[s].size /\ g[s] = q.entry * q.size
    BY <1>1
  <2>3. Entries(pos) = SumFunctionOnSet(f, Symbol) /\ Entries(new) = SumFunctionOnSet(g, Symbol)
    BY DEF Entries, SumFunction
  <2> HIDE DEF f, g
  <2>4. SumFunctionOnSet(g, Symbol) = SumFunctionOnSet(f, Symbol) - f[s] + g[s]
    BY <2>1, SumChange, SymbolAssumption
  <2>5. SumFunctionOnSet(f, Symbol) \in Int
    BY <2>1, SumPick, SymbolAssumption
  <2>6. QED
    BY <2>2, <2>3, <2>4, <2>5
<1>5. QED
  BY <1>3, <1>4 DEF new

LEMMA NewIsSound == Sound(NewAccount) /\ \A acc : Sound(Forgotten(acc))
<1> DEFINE pos == [s \in Symbol |-> Flat]
<1>1. Margins(pos) = 0
  <2> DEFINE f == [s \in Symbol |-> pos[s].margin]
  <2>1. \A s \in Symbol : f[s] = 0
    BY DEF Flat
  <2>2. DOMAIN f = Symbol
    OBVIOUS
  <2> HIDE DEF f
  <2>3. SumFunction(f) = 0
    BY <2>1, <2>2, SumZero, SymbolAssumption DEF SumFunction
  <2>4. QED
    BY <2>3 DEF Margins, f
<1>2. Entries(pos) = 0
  <2> DEFINE f == [s \in Symbol |-> pos[s].entry * pos[s].size]
  <2>1. \A s \in Symbol : f[s] = 0
    BY DEF Flat
  <2>2. DOMAIN f = Symbol
    OBVIOUS
  <2> HIDE DEF f
  <2>3. SumFunction(f) = 0
    BY <2>1, <2>2, SumZero, SymbolAssumption DEF SumFunction
  <2>4. QED
    BY <2>3 DEF Entries, f
<1>3. \A s \in Symbol : pos[s].margin >= 0
  BY DEF Flat
<1>4. ASSUME NEW acc, acc.pos = pos, acc.pnl = 0, acc.cash = 0, acc.rounding = 0, acc.locked = 0
      PROVE  Sound(acc)
  <2>1. TotalMargin(acc) = 0
    BY <1>1, <1>4 DEF TotalMargin, Margins
  <2>2. Accounted(acc)
    <3>1. Abs(acc.pnl - Entries(pos) - acc.cash) <= acc.rounding
      BY <1>2, <1>4 DEF Abs
    <3>2. QED
      BY <1>4, <3>1 DEF Accounted, Entries
  <2>3. QED
    BY <1>3, <1>4, <2>1, <2>2 DEF Sound, MarginOK
<1>5. Sound(NewAccount)
  BY <1>4 DEF NewAccount
<1>6. ASSUME NEW acc PROVE Sound(Forgotten(acc))
  BY <1>4 DEF NewAccount, Forgotten
<1>7. QED
  BY <1>5, <1>6

\* What a call loads is sound.
LEMMA LoadsSound ==
  ASSUME Inv, SoundInv, NEW a \in Addr, NEW acc \in Loads(a)
  PROVE  acc \in Account /\ Sound(acc)
<1>1. acc \in Account
  BY LoadsCovered
<1>2. acc \in Live(a) \/ acc = NewAccount \/ acc = Forgotten(store[a])
  BY DEF Loads, Live, Cached
<1>3. QED
  BY <1>1, <1>2, NewIsSound DEF SoundInv

LEMMA CachedSound ==
  ASSUME Inv, SoundInv, NEW a \in Addr, Cached(a)
  PROVE  cache[a] \in Account /\ Sound(cache[a])
BY CachedCovered DEF SoundInv, Live, Cached

\* A step that puts a sound account in the cache, and perhaps in the store.
LEMMA PutSound ==
  ASSUME Inv, SoundInv, NEW a \in Addr, NEW new, Sound(new),
         cache' = [cache EXCEPT ![a] = new],
         store' = store \/ store' = [store EXCEPT ![a] = new]
  PROVE  SoundInv'
<1>1. \A b \in Addr : cache'[b] \in {cache[b], new} /\ store'[b] \in {store[b], new}
  BY DEF Inv, TypeOK
<1>2. ASSUME NEW b \in Addr, NEW acc \in Live(b)' PROVE Sound(acc)
  <2>1. acc = new \/ acc \in Live(b)
    BY <1>1, <1>2 DEF Live
  <2>2. QED
    BY <2>1 DEF SoundInv
<1>3. QED
  BY <1>2 DEF SoundInv

\* Money alone does not touch what is sound.
LEMMA MoneyIsSound ==
  ASSUME NEW acc \in Account, Sound(acc), NEW new \in Account,
         new.pos = acc.pos, new.pnl = acc.pnl, new.cash = acc.cash,
         new.rounding = acc.rounding, new.reduced = acc.reduced,
         new.orderly => /\ acc.orderly
                        /\ new.locked >= acc.locked \/ new.locked >= TotalMargin(acc)
  PROVE  Sound(new)
<1>1. acc.pos \in [Symbol -> Position] /\ acc.locked \in Int /\ new.locked \in Int
  BY DEF Account
<1>2. TotalMargin(new) = TotalMargin(acc) /\ TotalMargin(acc) \in Int
  <2>1. TotalMargin(acc) = Margins(acc.pos) /\ TotalMargin(new) = Margins(new.pos)
    BY DEF TotalMargin, Margins
  <2>2. ASSUME NEW s \in Symbol PROVE Margins(acc.pos) \in Int
    BY <1>1, PositionChanges DEF Position
  <2>3. CASE Symbol = {}
    <3>1. Margins(acc.pos) = SumFunctionOnSet([s \in Symbol |-> acc.pos[s].margin], Symbol)
      BY DEF Margins, SumFunction
    <3>2. Margins(acc.pos) = 0
      BY <2>3, <3>1, SumPick, SymbolAssumption
    <3>3. QED
      BY <2>1, <3>2
  <2>4. QED
    BY <2>1, <2>2, <2>3
<1>3. MarginOK(new)
  BY <1>1, <1>2 DEF Sound, MarginOK
<1>4. ~new.reduced => Accounted(new)
  BY DEF Sound, Accounted
<1>5. QED
  BY <1>3, <1>4 DEF Sound

\* One position changes, in a way that keeps its margin covered and its fills
\* accounted for.
LEMMA FillIsSound ==
  ASSUME NEW acc \in Account, Sound(acc), NEW new \in Account, NEW s \in Symbol, NEW q \in Position,
         new.pos = [acc.pos EXCEPT ![s] = q],
         new.orderly => /\ acc.orderly /\ q.margin >= 0
                        /\ TotalMargin(acc) - acc.pos[s].margin + q.margin <= new.locked,
         new.rounding >= acc.rounding,
         acc.reduced => new.reduced,
         ~new.reduced =>
           LET drift == (new.pnl - acc.pnl) + acc.pos[s].entry * acc.pos[s].size
                        - q.entry * q.size - (new.cash - acc.cash)
           IN  Abs(drift) <= new.rounding - acc.rounding
  PROVE  Sound(new)
<1> DEFINE p == acc.pos[s]
<1>1. acc.pos \in [Symbol -> Position] /\ p \in Position
  BY DEF Account
<1>2. /\ acc.pnl \in Int /\ acc.cash \in Int /\ acc.rounding \in Int /\ acc.locked \in Int
      /\ new.pnl \in Int /\ new.cash \in Int /\ new.rounding \in Int /\ new.locked \in Int
  BY DEF Account
<1>3. /\ Margins(acc.pos) \in Int /\ Entries(acc.pos) \in Int
      /\ Margins(new.pos) = Margins(acc.pos) - p.margin + q.margin
      /\ Entries(new.pos) = Entries(acc.pos) - p.entry * p.size + q.entry * q.size
  BY <1>1, PositionChanges
<1>4. TotalMargin(acc) = Margins(acc.pos) /\ TotalMargin(new) = Margins(new.pos)
  BY DEF TotalMargin, Margins
<1>5. MarginOK(new)
  <2> SUFFICES ASSUME new.orderly
               PROVE  (\A t \in Symbol : new.pos[t].margin >= 0) /\ TotalMargin(new) <= new.locked
    BY DEF MarginOK
  <2>1. \A t \in Symbol : new.pos[t].margin >= 0
    BY <1>1 DEF Sound, MarginOK
  <2>2. TotalMargin(new) <= new.locked
    BY <1>3, <1>4
  <2>3. QED
    BY <2>1, <2>2
<1>6. ASSUME ~new.reduced PROVE Accounted(new)
  <2> DEFINE old == p.entry * p.size
             val == q.entry * q.size
             drift == (new.pnl - acc.pnl) + old - val - (new.cash - acc.cash)
             before == acc.pnl - Entries(acc.pos) - acc.cash
             after == new.pnl - Entries(new.pos) - new.cash
  <2>1. old \in Int /\ val \in Int
    BY <1>1 DEF Position
  <2>2. Abs(drift) <= new.rounding - acc.rounding
    BY <1>6
  <2>3. Abs(before) <= acc.rounding
    BY <1>6 DEF Sound, Accounted, Entries
  <2>4. Entries(new.pos) = Entries(acc.pos) - old + val
    BY <1>3
  <2> HIDE DEF old, val
  <2>5. after = before + drift /\ before \in Int /\ drift \in Int
    BY <1>2, <1>3, <2>1, <2>4
  <2> HIDE DEF before, drift
  <2>6. Abs(before + drift) <= new.rounding
    BY <1>2, <2>2, <2>3, <2>5 DEF Abs
  <2>7. QED
    BY <2>5, <2>6 DEF Accounted, Entries
<1>7. QED
  BY <1>2, <1>5, <1>6 DEF Sound

LEMMA Division ==
  ASSUME NEW x \in Int, NEW k \in Nat \ {0}
  PROVE  x \div k \in Int /\ k * (x \div k) <= x /\ x - k * (x \div k) <= k - 1
<1>1. x = k * (x \div k) + (x % k) /\ x % k \in 0..(k - 1) /\ x \div k \in Int
  OBVIOUS
<1>2. k * (x \div k) \in Int
  BY <1>1
<1>3. QED
  BY <1>1, <1>2

\* A fill that does not make the position smaller is accounted for, up to what
\* the division loses.
LEMMA FillDrift ==
  ASSUME NEW p \in Position, NEW delta \in Int, delta # 0, NEW price \in Int, NEW margin \in Int,
         NEW q, q = Filled(p, delta, price, margin)
  PROVE  /\ Lost(p, delta) >= 0
         /\ ~Reduces(p, delta) =>
              LET drift == Realized(p, delta, price) + p.entry * p.size - q.entry * q.size + delta * price
              IN  drift \in Int /\ Abs(drift) <= Lost(p, delta)
<1> DEFINE n == p.size + delta
           held == p.entry * p.size
           paid == price * delta
           drift == Realized(p, delta, price) + held - q.entry * q.size + delta * price
<1>1. p.size \in Int /\ p.entry \in Int /\ n \in Int /\ held \in Int /\ paid \in Int /\ paid = delta * price
  BY DEF Position
<1>2. Lost(p, delta) >= 0
  BY <1>1 DEF Lost, Abs
<1>3. CASE n = 0
  <2>1. q.entry = 0 /\ q.size = 0 /\ Realized(p, delta, price) = (price - p.entry) * p.size
    BY <1>3 DEF Filled, Flat, Realized
  <2>2. (price - p.entry) * p.size = price * p.size - held /\ p.size = -delta
    BY <1>1, <1>3
  <2>3. price * p.size = -paid
    BY <1>1, <2>2
  <2>4. drift = 0
    BY <1>1, <2>1, <2>2, <2>3
  <2>5. QED
    BY <1>2, <2>4 DEF Abs
<1>4. CASE n # 0 /\ ~SameDirection(p.size, n)
  <2>1. q.entry = price /\ q.size = n /\ Realized(p, delta, price) = (price - p.entry) * p.size
    BY <1>4 DEF Filled, Realized
  <2>2. (price - p.entry) * p.size = price * p.size - held /\ price * n = price * p.size + paid
    BY <1>1
  <2>3. drift = 0
    <3>1. price * p.size \in Int
      BY <1>1
    <3>2. QED
      BY <1>1, <2>1, <2>2, <3>1
  <2>4. QED
    BY <1>2, <2>3 DEF Abs
<1>5. CASE n # 0 /\ SameDirection(p.size, n) /\ p.size = 0
  <2>1. q.entry = price /\ q.size = delta /\ Realized(p, delta, price) = 0
    BY <1>1, <1>5 DEF Filled, VWAP, Realized
  <2>2. drift = 0
    BY <1>1, <1>5, <2>1
  <2>3. QED
    BY <1>2, <2>2 DEF Abs
<1>6. CASE n # 0 /\ SameDirection(p.size, n) /\ p.size # 0 /\ ~Reduces(p, delta)
  <2> DEFINE k == Abs(n)
             x == p.entry * Abs(p.size) + price * Abs(delta)
             v == x \div k
  <2>1. q.entry = v /\ q.size = n /\ Realized(p, delta, price) = 0 /\ Lost(p, delta) = k - 1
    BY <1>6 DEF Filled, VWAP, Realized, Lost
  <2>2. k \in Nat \ {0} /\ x \in Int
    BY <1>1, <1>6 DEF Abs
  <2>3. v \in Int /\ k * v <= x /\ x - k * v <= k - 1
    BY <2>2, Division
  <2>4. CASE p.size > 0
    <3>1. n > 0 /\ delta > 0
      BY <1>1, <1>6, <2>4 DEF SameDirection, Reduces, Abs
    <3>2. k = n /\ x = held + paid
      BY <1>1, <2>4, <3>1 DEF Abs
    <3> HIDE DEF x, v, k
    <3>3. v * n = k * v /\ k * v \in Int
      BY <1>1, <2>2, <2>3, <3>2
    <3>4. drift = x - k * v
      BY <1>1, <2>1, <3>2, <3>3
    <3>5. QED
      BY <1>2, <2>1, <2>2, <2>3, <3>3, <3>4 DEF Abs
  <2>5. CASE p.size < 0
    <3>1. n < 0 /\ delta < 0
      BY <1>1, <1>6, <2>5 DEF SameDirection, Reduces, Abs
    <3>2. k = -n /\ x = -held - paid
      <4>1. Abs(n) = -n /\ Abs(p.size) = -p.size /\ Abs(delta) = -delta
        BY <1>1, <2>5, <3>1 DEF Abs
      <4>2. p.entry * (-p.size) = -held /\ price * (-delta) = -paid
        BY <1>1
      <4>3. x = -held + -paid
        BY <4>1, <4>2
      <4>4. QED
        BY <1>1, <4>1, <4>3
    <3> HIDE DEF x, v, k
    <3>3. v * n = -(k * v) /\ k * v \in Int
      BY <1>1, <2>2, <2>3, <3>2
    <3>4. drift = k * v - x
      BY <1>1, <2>1, <2>2, <3>2, <3>3
    <3>5. QED
      BY <1>2, <2>1, <2>2, <2>3, <3>3, <3>4 DEF Abs
  <2>6. QED
    BY <1>1, <1>6, <2>4, <2>5
<1>7. QED
  BY <1>2, <1>3, <1>4, <1>5, <1>6

LEMMA SoundUpdatePosition ==
  ASSUME Inv, SoundInv, NEW a \in Addr, NEW s \in Symbol,
         NEW delta \in Int, delta # 0, NEW price \in Int, NEW margin \in Int,
         UpdatePosition(a, s, delta, price, margin)
  PROVE  SoundInv'
<1> DEFINE acc == cache[a]
           p == acc.pos[s]
           q == Filled(p, delta, price, margin)
           new == [acc EXCEPT !.opened = @ \cup {s},
                              !.pos[s] = q,
                              !.pnl = @ + Realized(p, delta, price),
                              !.cash = @ - delta * price,
                              !.rounding = @ + Lost(p, delta),
                              !.reduced = @ \/ Reduces(p, delta),
                              !.orderly = @ /\ InOrder(acc, p, delta, margin)]
<1>1. acc \in Account /\ Sound(acc)
  BY CachedSound DEF UpdatePosition
<1>2. p \in Position /\ acc.pos \in [Symbol -> Position] /\ p.margin \in Int
  BY <1>1 DEF Account, Position
<1>3. /\ q \in Position /\ Realized(p, delta, price) \in Int
      /\ Lost(p, delta) \in Int /\ Reduces(p, delta) \in BOOLEAN
  BY <1>2, FillType
<1>4. /\ acc.pnl \in Int /\ acc.cash \in Int /\ acc.rounding \in Int /\ acc.locked \in Int
      /\ acc.reduced \in BOOLEAN /\ acc.orderly \in BOOLEAN /\ acc.opened \in SUBSET Symbol /\ delta * price \in Int
  BY <1>1 DEF Account
<1>6. cache' = [cache EXCEPT ![a] = new] /\ store' = store
  BY DEF UpdatePosition
<1>7. /\ new.pos = [acc.pos EXCEPT ![s] = q] /\ new.locked = acc.locked
      /\ new.pnl = acc.pnl + Realized(p, delta, price)
      /\ new.cash = acc.cash - delta * price
      /\ new.rounding = acc.rounding + Lost(p, delta)
      /\ new.reduced = (acc.reduced \/ Reduces(p, delta))
      /\ new.orderly = (acc.orderly /\ InOrder(acc, p, delta, margin))
  BY <1>1 DEF Account
<1>5. InOrder(acc, p, delta, margin) =>
        IF Reduces(p, delta) THEN margin \in -p.margin..0
        ELSE margin >= 0 /\ TotalMargin(acc) + margin <= acc.locked
  BY DEF InOrder
<1>8. new \in Account
  <2>1. /\ new.pos \in [Symbol -> Position] /\ new.pnl \in Int /\ new.cash \in Int
        /\ new.rounding \in Int /\ new.reduced \in BOOLEAN /\ new.orderly \in BOOLEAN
    <3> HIDE DEF new, q, p
    <3>1. QED
      BY <1>2, <1>3, <1>4, <1>7
  <2>2. acc.opened \cup {s} \in SUBSET Symbol
    BY <1>4
  <2> HIDE DEF q, p
  <2>3. QED
    BY <1>1, <2>1, <2>2 DEF Account
<1> HIDE DEF new
<1>9. new.orderly => /\ acc.orderly /\ q.margin >= 0
                     /\ TotalMargin(acc) - p.margin + q.margin <= acc.locked
  <2> SUFFICES ASSUME new.orderly
               PROVE  q.margin >= 0 /\ TotalMargin(acc) - p.margin + q.margin <= acc.locked
    BY <1>7
  <2>5. acc.orderly /\ InOrder(acc, p, delta, margin) /\ p.margin >= 0
    BY <1>1, <1>7 DEF Sound, MarginOK
  <2>1. q.margin = 0 \/ q.margin = p.margin + margin \/ (q.margin = margin /\ ~Reduces(p, delta))
    BY DEF Filled, Flat, Reduces
  <2>2. TotalMargin(acc) <= acc.locked /\ TotalMargin(acc) \in Int
    <3>1. TotalMargin(acc) = Margins(acc.pos)
      BY DEF TotalMargin, Margins
    <3>2. Margins(acc.pos) \in Int
      <4> HIDE DEF q
      <4>1. QED
        BY <1>2, <1>3, PositionChanges
    <3>3. QED
      BY <1>1, <2>5, <3>1, <3>2 DEF Sound, MarginOK
  <2>3. Reduces(p, delta) => q.margin = p.margin + margin
    BY DEF Filled, Reduces
  <2> HIDE DEF q, p
  <2>4. QED
    BY <1>2, <1>4, <1>5, <2>1, <2>2, <2>3, <2>5
<1>10. ~new.reduced =>
         LET drift == (new.pnl - acc.pnl) + p.entry * p.size - q.entry * q.size - (new.cash - acc.cash)
         IN  Abs(drift) <= new.rounding - acc.rounding
  <2> SUFFICES ASSUME ~new.reduced
               PROVE  Abs((new.pnl - acc.pnl) + p.entry * p.size - q.entry * q.size - (new.cash - acc.cash))
                        <= new.rounding - acc.rounding
    OBVIOUS
  <2> DEFINE held == p.entry * p.size
             val == q.entry * q.size
             drift == Realized(p, delta, price) + held - val + delta * price
  <2>1. ~Reduces(p, delta)
    BY <1>7
  <2>2. drift \in Int /\ Abs(drift) <= Lost(p, delta)
    BY <1>2, <2>1, FillDrift
  <2>3. held \in Int /\ val \in Int
    <3> HIDE DEF q
    <3>1. QED
      BY <1>2, <1>3 DEF Position
  <2> HIDE DEF held, val, q, p
  <2>4. (new.pnl - acc.pnl) + held - val - (new.cash - acc.cash) = drift
    BY <1>3, <1>4, <1>7, <2>3
  <2>5. new.rounding - acc.rounding = Lost(p, delta)
    BY <1>3, <1>4, <1>7
  <2>6. QED
    BY <2>2, <2>4, <2>5 DEF held, val
<1>11. new.rounding >= acc.rounding
  <2>1. Lost(p, delta) >= 0
    BY <1>2, FillDrift
  <2>2. QED
    BY <1>3, <1>4, <1>7, <2>1
<1>12. acc.reduced => new.reduced
  BY <1>7
<1> HIDE DEF q
<1>13. Sound(new)
  BY <1>1, <1>3, <1>7, <1>8, <1>9, <1>10, <1>11, <1>12, FillIsSound
<1>14. QED
  BY <1>6, <1>13, PutSound

LEMMA SoundClosePosition == ASSUME Inv, SoundInv, NEW s \in Symbol, ClosePosition(s) PROVE SoundInv'
<1> DEFINE a == job.addr
           acc == cache[a]
           p == acc.pos[s]
           mark == MarkPrice(p, job.marks[s])
           realized == (mark - p.entry) * p.size
           new == [acc EXCEPT !.balance = @ + realized,
                              !.pnl = @ + realized,
                              !.locked = @ - p.margin,
                              !.pos[s] = Closed(p),
                              !.cash = @ + mark * p.size,
                              !.gain = @ + Positive(realized)]
<1>1. job \in Job /\ a \in Addr /\ acc \in Account /\ Sound(acc)
  <2>1. job \in Job /\ a \in Addr /\ acc \in Account
    BY JobAccount DEF ClosePosition
  <2>2. QED
    BY <2>1, NoAccountIsNone DEF SoundInv, Live
<1>2. CASE p.size = 0
  BY <1>2 DEF ClosePosition, SoundInv, Live
<1>3. CASE p.size # 0
  <2>1. cache' = [cache EXCEPT ![a] = new] /\ store' = store
    BY <1>3 DEF ClosePosition
  <2>2. p \in Position /\ p.size \in Int /\ p.entry \in Int /\ p.margin \in Int
    BY <1>1 DEF Account, Position
  <2>3. mark \in Int
    <3>1. job.marks[s] \in Price \cup {0}
      BY <1>1 DEF Job, Marks
    <3>2. \A x \in Price \cup {0} : x \in Int
      BY FillAssumption
    <3>3. job.marks[s] \in Int
      BY <3>1, <3>2, Zenon
    <3>4. QED
      BY <2>2, <3>3 DEF MarkPrice
  <2>4. realized \in Int /\ mark * p.size \in Int /\ p.entry * p.size \in Int
        /\ realized = mark * p.size - p.entry * p.size
    BY <2>2, <2>3
  <2>5. Positive(realized) \in Int
    BY <2>4, PositiveBounds
  <2> HIDE DEF realized, mark, p
  <2>6. /\ acc.balance \in Int /\ acc.pnl \in Int /\ acc.locked \in Int /\ acc.cash \in Int
        /\ acc.gain \in Int /\ acc.rounding \in Int
    BY <1>1 DEF Account
  <2>7. Closed(p) \in Position /\ Closed(p).margin = 0 /\ Closed(p).entry = 0 /\ Closed(p).size = 0
    BY DEF Closed, Flat, Position
  <2>8. /\ new.pos = [acc.pos EXCEPT ![s] = Closed(p)] /\ new.locked = acc.locked - p.margin
        /\ new.pnl = acc.pnl + realized /\ new.cash = acc.cash + mark * p.size
        /\ new.rounding = acc.rounding /\ new.reduced = acc.reduced /\ new.orderly = acc.orderly
    BY <1>1 DEF Account
  <2>9. new \in Account
    <3>1. /\ acc.balance + realized \in Int /\ acc.pnl + realized \in Int
          /\ acc.locked - p.margin \in Int /\ acc.cash + mark * p.size \in Int
          /\ acc.gain + Positive(realized) \in Int
      BY <2>2, <2>4, <2>5, <2>6
    <3>2. [acc.pos EXCEPT ![s] = Closed(p)] \in [Symbol -> Position]
      BY <1>1, <2>7 DEF Account
    <3>3. QED
      BY <1>1, <3>1, <3>2 DEF Account
  <2> HIDE DEF new, acc, a
  <2>10. TotalMargin(acc) \in Int /\ (acc.orderly => TotalMargin(acc) <= acc.locked)
    <3>1. TotalMargin(acc) = Margins(acc.pos)
      BY DEF TotalMargin, Margins
    <3>2. Margins(acc.pos) \in Int
      BY <1>1, <2>7, PositionChanges DEF Account
    <3>3. QED
      BY <1>1, <3>1, <3>2 DEF Sound, MarginOK
  <2>11. acc.orderly => TotalMargin(acc) - p.margin + Closed(p).margin <= new.locked
    BY <2>2, <2>6, <2>7, <2>8, <2>10
  <2>12. (new.pnl - acc.pnl) + p.entry * p.size - Closed(p).entry * Closed(p).size - (new.cash - acc.cash) = 0
    BY <2>4, <2>6, <2>7, <2>8
  <2>13. Sound(new)
    <3>1. Closed(p).margin >= 0 /\ new.rounding >= acc.rounding /\ (acc.reduced => new.reduced)
      BY <2>6, <2>7, <2>8
    <3>2. Abs((new.pnl - acc.pnl) + acc.pos[s].entry * acc.pos[s].size - Closed(p).entry * Closed(p).size - (new.cash - acc.cash))
            <= new.rounding - acc.rounding
      BY <2>6, <2>8, <2>12 DEF Abs, p
    <3>3. new.orderly =>
            acc.orderly /\ TotalMargin(acc) - acc.pos[s].margin + Closed(p).margin <= new.locked
      BY <2>8, <2>11 DEF p
    <3>4. QED
      BY <1>1, <2>7, <2>8, <2>9, <3>1, <3>2, <3>3, FillIsSound
  <2>14. QED
    BY <1>1, <2>1, <2>13, PutSound
<1>4. QED
  BY <1>2, <1>3

\* The calls that move money, and a crash, leave positions and locks as they are
\* or move the locked collateral above the margins.
LEMMA SoundMoney ==
  ASSUME Inv, SoundInv, NEW a \in Addr,
         \/ GetAccount(a)
         \/ \E n \in Amount :
              Deposit(a, n) \/ Withdraw(a, n) \/ LockCollateral(a, n) \/ UnlockCollateral(a, n)
         \/ \E f \in Fee : ApplyFees(a, f) \/ ApplyFees(a, -f)
  PROVE  SoundInv'
<1>1. CASE GetAccount(a)
  <2>1. PICK acc \in Loads(a) : cache' = [cache EXCEPT ![a] = acc] /\ store' = store
    BY <1>1 DEF GetAccount
  <2>2. QED
    BY <2>1, LoadsSound, PutSound
<1>2. ASSUME NEW acc \in Loads(a), NEW balance \in Int, NEW gain \in Int, NEW new,
             new = [acc EXCEPT !.balance = balance, !.gain = gain],
             cache' = [cache EXCEPT ![a] = new],
             store' = store \/ store' = [store EXCEPT ![a] = new]
      PROVE  SoundInv'
  <2>1. acc \in Account /\ Sound(acc)
    BY LoadsSound
  <2>2. acc.locked \in Int
    BY <2>1 DEF Account
  <2>3. new \in Account
    BY <1>2, <2>1, <2>2 DEF Account
  <2>4. /\ new.pos = acc.pos /\ new.pnl = acc.pnl /\ new.cash = acc.cash
        /\ new.rounding = acc.rounding /\ new.reduced = acc.reduced /\ new.locked = acc.locked
        /\ new.orderly = acc.orderly
    BY <1>2, <2>1 DEF Account
  <2>5. Sound(new)
    BY <2>1, <2>2, <2>3, <2>4, MoneyIsSound
  <2>6. QED
    BY <1>2, <2>5, PutSound
<1>7. ASSUME NEW n \in Amount, Deposit(a, n) PROVE SoundInv'
  <2> DEFINE more(acc, saved) ==
               [acc EXCEPT !.balance = @ + n, !.gain = IF saved THEN @ ELSE @ + n]
  <2>2. PICK acc \in Loads(a), saved \in BOOLEAN :
          /\ cache' = [cache EXCEPT ![a] = more(acc, saved)]
          /\ store' = IF saved THEN Persisted(a, more(acc, saved)) ELSE store
    BY <1>7 DEF Deposit
  <2>1. n \in Int /\ acc \in Account /\ acc.balance \in Int /\ acc.gain \in Int
    BY LoadsSound, AmountAssumption DEF Account
  <2> DEFINE balance == acc.balance + n
             gain == IF saved THEN acc.gain ELSE acc.gain + n
             new == [acc EXCEPT !.balance = balance, !.gain = gain]
  <2>3. balance \in Int /\ gain \in Int
    BY <2>1
  <2>4. cache' = [cache EXCEPT ![a] = new] /\ (store' = store \/ store' = [store EXCEPT ![a] = new])
    BY <2>2 DEF Persisted
  <2> HIDE DEF balance, gain
  <2>5. QED
    BY <1>2, <2>3, <2>4
<1>8. ASSUME NEW n \in Amount, Withdraw(a, n) PROVE SoundInv'
  <2>1. PICK acc \in Loads(a), saved \in BOOLEAN :
          \/ /\ cache' = [cache EXCEPT ![a] = [acc EXCEPT !.balance = @ - n]]
             /\ store' = IF saved THEN Persisted(a, [acc EXCEPT !.balance = @ - n]) ELSE store
          \/ /\ cache' = [cache EXCEPT ![a] = acc]
             /\ store' = store
    BY <1>8 DEF Withdraw
  <2>2. acc \in Account /\ Sound(acc)
    BY LoadsSound
  <2>3. acc.balance - n \in Int /\ acc.gain \in Int
    BY <2>2, AmountAssumption DEF Account
  <2>4. CASE cache' = [cache EXCEPT ![a] = acc] /\ store' = store
    BY <2>2, <2>4, PutSound
  <2>5. CASE /\ cache' = [cache EXCEPT ![a] = [acc EXCEPT !.balance = @ - n]]
             /\ store' = IF saved THEN Persisted(a, [acc EXCEPT !.balance = @ - n]) ELSE store
    <3> DEFINE balance == acc.balance - n
               new == [acc EXCEPT !.balance = balance, !.gain = acc.gain]
    <3>3. [acc EXCEPT !.balance = @ - n] = new
      <4> HIDE DEF balance
      <4>1. [acc EXCEPT !.balance = balance] = new
        BY <2>2 DEF Account
      <4>2. QED
        BY <4>1 DEF balance
    <3>1. /\ cache' = [cache EXCEPT ![a] = new]
          /\ store' = store \/ store' = [store EXCEPT ![a] = new]
      BY <2>5, <3>3 DEF Persisted
    <3>4. balance \in Int
      BY <2>3
    <3> HIDE DEF balance
    <3>2. QED
      BY <1>2, <2>3, <3>1, <3>4
  <2>6. QED
    BY <2>1, <2>4, <2>5
<1>3. ASSUME NEW n \in Amount, LockCollateral(a, n) \/ UnlockCollateral(a, n) PROVE SoundInv'
  <2>1. cache[a] \in Account /\ Sound(cache[a])
    BY <1>3, CachedSound DEF LockCollateral, UnlockCollateral
  <2>2. PICK new \in Account :
          /\ cache' = [cache EXCEPT ![a] = new] /\ store' = store
          /\ new.pos = cache[a].pos /\ new.pnl = cache[a].pnl /\ new.cash = cache[a].cash
          /\ new.rounding = cache[a].rounding /\ new.reduced = cache[a].reduced
          /\ new.orderly => /\ cache[a].orderly
                            /\ new.locked >= cache[a].locked \/ new.locked >= TotalMargin(cache[a])
    BY <1>3, LockChanges
  <2>3. Sound(new)
    BY <2>1, <2>2, MoneyIsSound
  <2>4. QED
    BY <2>2, <2>3, PutSound
<1>4. ASSUME NEW f \in Int, ApplyFees(a, f) PROVE SoundInv'
  <2> DEFINE acc == cache[a]
             new == [acc EXCEPT !.balance = @ + f, !.gain = @ + Positive(f)]
  <2>1. acc \in Account /\ Sound(acc) /\ acc.locked \in Int /\ acc.balance \in Int /\ acc.gain \in Int
    BY <1>4, CachedSound DEF ApplyFees, Account
  <2>2. acc.balance + f \in Int /\ acc.gain + Positive(f) \in Int
    BY <2>1, PositiveBounds
  <2>3. /\ new.pos = acc.pos /\ new.pnl = acc.pnl /\ new.cash = acc.cash
        /\ new.rounding = acc.rounding /\ new.reduced = acc.reduced /\ new.locked = acc.locked
        /\ new.orderly = acc.orderly
    BY <2>1 DEF Account
  <2>7. new \in Account
    <3> DEFINE balance == acc.balance + f
               gain == acc.gain + Positive(f)
    <3>1. new = [acc EXCEPT !.balance = balance, !.gain = gain]
      BY <2>1 DEF Account
    <3> HIDE DEF balance, gain, new, acc
    <3>2. balance \in Int /\ gain \in Int
      BY <2>2 DEF balance, gain
    <3>3. QED
      BY <2>1, <3>1, <3>2 DEF Account
  <2>4. cache' = [cache EXCEPT ![a] = new] /\ store' = store
    BY <1>4 DEF ApplyFees
  <2> HIDE DEF new
  <2>5. Sound(new)
    <3>1. new.locked >= acc.locked
      BY <2>1, <2>3
    <3> HIDE DEF acc
    <3>2. QED
      BY <2>1, <2>3, <2>7, <3>1, MoneyIsSound
  <2>6. QED
    BY <2>4, <2>5, PutSound
<1>5. \A f \in Fee : f \in Int /\ -f \in Int
  BY AmountAssumption
<1>6. QED
  BY <1>1, <1>3, <1>4, <1>5, <1>7, <1>8

LEMMA SoundEndLiquidate == ASSUME Inv, SoundInv, EndLiquidate PROVE SoundInv'
<1> DEFINE a == job.addr
           acc == cache[a]
           deficit == Positive(-acc.balance)
           new == [acc EXCEPT !.balance = @ + deficit, !.gain = @ + deficit]
<1>1. a \in Addr /\ acc \in Account
  BY JobAccount DEF EndLiquidate
<1>2. Sound(acc)
  BY <1>1, NoAccountIsNone DEF SoundInv, Live
<1>3. acc.balance + deficit \in Int /\ acc.gain + deficit \in Int /\ acc.locked \in Int
  BY <1>1, PositiveBounds DEF Account
<1>4. cache' = [cache EXCEPT ![a] = new] /\ store' = store
  BY DEF EndLiquidate
<1>5. /\ new.pos = acc.pos /\ new.pnl = acc.pnl /\ new.cash = acc.cash
      /\ new.rounding = acc.rounding /\ new.reduced = acc.reduced /\ new.locked = acc.locked
      /\ new.orderly = acc.orderly
  BY <1>1 DEF Account
<1>8. new \in Account
  <2> DEFINE balance == acc.balance + deficit
             gain == acc.gain + deficit
  <2>1. new = [acc EXCEPT !.balance = balance, !.gain = gain]
    BY <1>1 DEF Account
  <2> HIDE DEF balance, gain, new, deficit, acc, a
  <2>2. balance \in Int /\ gain \in Int
    BY <1>3 DEF balance, gain
  <2>3. QED
    BY <1>1, <2>1, <2>2 DEF Account
<1>9. new.locked >= acc.locked
  BY <1>3, <1>5
<1> HIDE DEF new, acc, a
<1>6. Sound(new)
  BY <1>1, <1>2, <1>5, <1>8, <1>9, MoneyIsSound
<1>7. QED
  BY <1>1, <1>4, <1>6, PutSound

LEMMA SoundInit == Init => SoundInv
BY DEF Init, SoundInv, Live

LEMMA SoundNext == Inv /\ SoundInv /\ [Next]_vars => SoundInv'
<1> SUFFICES ASSUME Inv, SoundInv, [Next]_vars PROVE SoundInv'
  OBVIOUS
<1>1. CASE UNCHANGED <<cache, store>>
  BY <1>1 DEF SoundInv, Live
<1>2. ASSUME NEW a \in Addr, NEW s \in Symbol, NEW q \in Lots, NEW pr \in Price, NEW mg \in {0} \cup Amount,
             \/ UpdatePosition(a, s, q, pr, mg) \/ UpdatePosition(a, s, -q, pr, mg)
             \/ UpdatePosition(a, s, q, pr, -mg) \/ UpdatePosition(a, s, -q, pr, -mg)
      PROVE  SoundInv'
  <2>1. {q, -q, pr, mg, -mg} \subseteq Int /\ q # 0 /\ -q # 0
    BY AmountAssumption, FillAssumption
  <2>2. QED
    BY <1>2, <2>1, SoundUpdatePosition
<1>3. ASSUME NEW a \in Addr, NEW marks \in Marks, Liquidate(a, marks) PROVE SoundInv'
  BY <1>1, <1>3 DEF Liquidate
<1>4. ASSUME NEW s \in Symbol, ClosePosition(s) PROVE SoundInv'
  BY <1>4, SoundClosePosition
<1>5. CASE EndLiquidate
  BY <1>5, SoundEndLiquidate
<1>6. CASE Restart
  BY <1>6 DEF Restart, SoundInv, Live
<1>7. CASE UNCHANGED vars
  BY <1>1, <1>7 DEF vars
<1>8. QED
  BY <1>2, <1>3, <1>4, <1>5, <1>6, <1>7, SoundMoney DEF Next

LEMMA SoundInvariant == Spec => []SoundInv
BY InvInit, InvNext, SoundInit, SoundNext, PTL DEF Spec

\* As long as every margin of an account was locked before its fill and stayed
\* locked, its margins stay within the locked collateral, for every number of
\* markets, in the middle of a liquidation and after every crash.
THEOREM MarginsStayLocked == Spec => []MarginsLocked
<1>1. SoundInv => MarginsLocked
  BY DEF SoundInv, Sound, MarginOK, MarginsLocked
<1>2. QED
  BY <1>1, SoundInvariant, PTL

\* Realized PnL and the positions at their entry prices account for every fill
\* that opens, increases, closes or flips a position, and for liquidations, up
\* to what the divisions lose.
THEOREM FillsAreAccounted == Spec => []FillsAccounted
<1>1. SoundInv => FillsAccounted
  BY DEF SoundInv, Sound, FillsAccounted
<1>2. QED
  BY <1>1, SoundInvariant, PTL
=============================================================================
