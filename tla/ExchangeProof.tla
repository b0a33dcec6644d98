--------------------------- MODULE ExchangeProof ---------------------------
(***************************************************************************)
(* Theorems about Exchange, for every number of replicas, every set of     *)
(* transactions and every rule of margins and fees.                        *)
(***************************************************************************)
EXTENDS Exchange, MempoolProof

-----------------------------------------------------------------------------
(***************************************************************************)
(* What a transaction does                                                 *)
(***************************************************************************)

AppField ==
  {"nonce", "balance", "level", "index", "traded", "rejected", "unsigned", "refused", "unpaid"}

\* The application after tx, as a function of the application before, of whether
\* this replica refused it and of the accounts it charges that this replica had
\* not loaded: FinalizeBlock reads nothing else that a replica has of its own.
Outcome(a, tx, at, refused, unloaded) ==
  CASE tx.kind \in {"order", "cancel"} ->
         IF tx.via = NoDelegation /\ tx.signer # tx.owner THEN a
         ELSE IF refused THEN Refused(a, at)
         ELSE IF ~Fresh(a, tx) THEN a
         ELSE IF tx.kind = "cancel" THEN Cancelled(Consumed(a, tx), tx)
         ELSE IF Acceptable(a, tx) THEN Placed(Consumed(a, tx), AsOrder(tx), at, unloaded)
         ELSE Rejected(a, tx)
    [] tx.kind = "O" ->
         IF ~Acceptable(a, tx) THEN a
         ELSE IF refused THEN Refused(a, at)
         ELSE Placed(a, AsOrder(tx), at, unloaded)
    [] tx.kind = "C" -> Cancelled(a, tx)
    [] OTHER -> a

\* Only a refusal is entered in refused, and only a fill in unpaid.
LEMMA Untouched ==
  ASSUME NEW a, DOMAIN a = AppField, NEW tx, NEW o, NEW at, NEW unloaded
  PROVE  /\ DOMAIN Consumed(a, tx) = AppField
         /\ Consumed(a, tx).refused = a.refused /\ Consumed(a, tx).unpaid = a.unpaid
         /\ DOMAIN Placed(a, o, at, unloaded) = AppField
         /\ Placed(a, o, at, unloaded).refused = a.refused
         /\ Placed(a, o, at, unloaded).unpaid = a.unpaid \cup ({at} \X unloaded)
         /\ DOMAIN Cancelled(a, tx) = AppField
         /\ Cancelled(a, tx).refused = a.refused /\ Cancelled(a, tx).unpaid = a.unpaid
         /\ DOMAIN Rejected(a, tx) = AppField
         /\ Rejected(a, tx).refused = a.refused /\ Rejected(a, tx).unpaid = a.unpaid
         /\ DOMAIN Refused(a, at) = AppField
         /\ Refused(a, at).refused = a.refused \cup {at} /\ Refused(a, at).unpaid = a.unpaid
<1>1. /\ DOMAIN Consumed(a, tx) = AppField
      /\ Consumed(a, tx).refused = a.refused /\ Consumed(a, tx).unpaid = a.unpaid
  BY DEF Consumed, AppField
<1>2. /\ DOMAIN Placed(a, o, at, unloaded) = AppField
      /\ Placed(a, o, at, unloaded).refused = a.refused
      /\ Placed(a, o, at, unloaded).unpaid = a.unpaid \cup ({at} \X unloaded)
  BY DEF Placed, AppField
<1>3. /\ DOMAIN Cancelled(a, tx) = AppField
      /\ Cancelled(a, tx).refused = a.refused /\ Cancelled(a, tx).unpaid = a.unpaid
  BY DEF Cancelled, AppField
<1>4. /\ DOMAIN Rejected(a, tx) = AppField
      /\ Rejected(a, tx).refused = a.refused /\ Rejected(a, tx).unpaid = a.unpaid
  BY <1>1 DEF Rejected, AppField
<1>5. /\ DOMAIN Refused(a, at) = AppField
      /\ Refused(a, at).refused = a.refused \cup {at} /\ Refused(a, at).unpaid = a.unpaid
  BY DEF Refused, AppField
<1>6. QED
  BY <1>1, <1>2, <1>3, <1>4, <1>5

\* The accounts missed at a place in the chain.
UnpaidAt(a, at) == {x \in Addr : <<at, x>> \in a.unpaid}

\* A step that executes a transaction, and what it leaves alone.
ExecuteTx(r) ==
  \/ Refuse(r) \/ Replay(r) \/ Reject(r) \/ Accept(r) \/ CancelOrder(r)
  \/ LegacyOrder(r) \/ LegacyCancel(r) \/ Ignore(r)

LEMMA ExecuteTxIsOutcome ==
  ASSUME NEW r \in Replica, ExecuteTx(r), DOMAIN app = Replica, DOMAIN app[r] = AppField,
         At(r) \notin app[r].refused, UnpaidAt(app[r], At(r)) = {}
  PROVE  /\ HasNext(r)
         /\ app' = [app EXCEPT ![r] = app'[r]]
         /\ app'[r] = Outcome(app[r], NextTx(r), At(r), At(r) \in app'[r].refused, UnpaidAt(app'[r], At(r)))
         /\ DOMAIN app'[r] = AppField
         /\ app'[r].refused \in {app[r].refused, app[r].refused \cup {At(r)}}
         /\ \E X \in SUBSET Addr : app'[r].unpaid = app[r].unpaid \cup ({At(r)} \X X)
         /\ position' = [position EXCEPT ![r] = @ + 1]
         /\ UNCHANGED <<chain, height, appHash, delegations, clock, reading, crashed, local>>
<1> DEFINE a == app[r]
           tx == NextTx(r)
           missed(o) == Unloaded(r, Consumed(a, tx), o) \ {tx.owner}
<1>1. PICK b : app' = [app EXCEPT ![r] = b] /\ Advance(r) /\ HasNext(r)
  BY DEF ExecuteTx, Refuse, Replay, Reject, Accept, CancelOrder, LegacyOrder, LegacyCancel, Ignore, IsSigned, IsFresh, Apply
<1>2. ASSUME NEW c, Apply(r, c) PROVE app'[r] = c
  BY <1>2 DEF Apply
<1>3. /\ DOMAIN Consumed(a, tx) = AppField
      /\ Consumed(a, tx).refused = a.refused /\ Consumed(a, tx).unpaid = a.unpaid
      /\ DOMAIN Cancelled(Consumed(a, tx), tx) = AppField
      /\ Cancelled(Consumed(a, tx), tx).refused = a.refused /\ Cancelled(Consumed(a, tx), tx).unpaid = a.unpaid
      /\ DOMAIN Cancelled(a, tx) = AppField
      /\ Cancelled(a, tx).refused = a.refused /\ Cancelled(a, tx).unpaid = a.unpaid
      /\ DOMAIN Rejected(a, tx) = AppField
      /\ Rejected(a, tx).refused = a.refused /\ Rejected(a, tx).unpaid = a.unpaid
      /\ DOMAIN Refused(a, At(r)) = AppField
      /\ Refused(a, At(r)).refused = a.refused \cup {At(r)} /\ Refused(a, At(r)).unpaid = a.unpaid
  <2>1. PICK c : c = Consumed(a, tx)
    OBVIOUS
  <2>2. DOMAIN c = AppField /\ c.refused = a.refused /\ c.unpaid = a.unpaid
    BY <2>1, Untouched
  <2>3. DOMAIN Cancelled(c, tx) = AppField /\ Cancelled(c, tx).refused = a.refused /\ Cancelled(c, tx).unpaid = a.unpaid
    BY <2>2, Untouched
  <2>4. /\ DOMAIN Cancelled(a, tx) = AppField
        /\ Cancelled(a, tx).refused = a.refused /\ Cancelled(a, tx).unpaid = a.unpaid
        /\ DOMAIN Rejected(a, tx) = AppField
        /\ Rejected(a, tx).refused = a.refused /\ Rejected(a, tx).unpaid = a.unpaid
    BY Untouched
  <2>5. /\ DOMAIN Refused(a, At(r)) = AppField
        /\ Refused(a, At(r)).refused = a.refused \cup {At(r)} /\ Refused(a, At(r)).unpaid = a.unpaid
    BY Untouched
  <2>6. QED
    BY <2>1, <2>2, <2>3, <2>4, <2>5
<1>4. ASSUME NEW o, NEW X
      PROVE  /\ DOMAIN Placed(Consumed(a, tx), o, At(r), X) = AppField
             /\ Placed(Consumed(a, tx), o, At(r), X).refused = a.refused
             /\ Placed(Consumed(a, tx), o, At(r), X).unpaid = a.unpaid \cup ({At(r)} \X X)
             /\ DOMAIN Placed(a, o, At(r), X) = AppField
             /\ Placed(a, o, At(r), X).refused = a.refused
             /\ Placed(a, o, At(r), X).unpaid = a.unpaid \cup ({At(r)} \X X)
  BY <1>3, Untouched
<1>5. ASSUME NEW c, Apply(r, c), DOMAIN c = AppField,
             NEW refused \in BOOLEAN, c.refused = IF refused THEN a.refused \cup {At(r)} ELSE a.refused,
             NEW X \in SUBSET Addr, c.unpaid = a.unpaid \cup ({At(r)} \X X),
             Outcome(a, tx, At(r), refused, X) = c
      PROVE  /\ app'[r] = Outcome(a, tx, At(r), At(r) \in app'[r].refused, UnpaidAt(app'[r], At(r)))
             /\ DOMAIN app'[r] = AppField
             /\ app'[r].refused \in {app[r].refused, app[r].refused \cup {At(r)}}
             /\ \E Y \in SUBSET Addr : app'[r].unpaid = app[r].unpaid \cup ({At(r)} \X Y)
  <2>1. app'[r] = c
    BY <1>2, <1>5
  <2>2. (At(r) \in app'[r].refused) = refused
    BY <1>5, <2>1
  <2>3. UnpaidAt(app'[r], At(r)) = X
    BY <1>5, <2>1 DEF UnpaidAt
  <2>4. QED
    BY <1>5, <2>1, <2>2, <2>3
<1>6. ASSUME NEW c, Apply(r, c), DOMAIN c = AppField,
             NEW refused \in BOOLEAN, c.refused = IF refused THEN a.refused \cup {At(r)} ELSE a.refused,
             c.unpaid = a.unpaid, Outcome(a, tx, At(r), refused, {}) = c
      PROVE  /\ app'[r] = Outcome(a, tx, At(r), At(r) \in app'[r].refused, UnpaidAt(app'[r], At(r)))
             /\ DOMAIN app'[r] = AppField
             /\ app'[r].refused \in {app[r].refused, app[r].refused \cup {At(r)}}
             /\ \E Y \in SUBSET Addr : app'[r].unpaid = app[r].unpaid \cup ({At(r)} \X Y)
  <2>1. PICK X \in SUBSET Addr : X = {}
    OBVIOUS
  <2>2. c.unpaid = a.unpaid \cup ({At(r)} \X X) /\ Outcome(a, tx, At(r), refused, X) = c
    BY <1>6, <2>1
  <2>3. QED
    BY <1>5, <1>6, <2>2
<1>7. Authorised(r, tx) => ~(tx.via = NoDelegation /\ tx.signer # tx.owner)
  BY DEF Authorised
<1>8. \A b1, o : Unloaded(r, b1, o) \in SUBSET Addr
  BY DEF Unloaded, Charged, Owned
<1>9. CASE Refuse(r)
  <2>1. tx.kind \in {"order", "cancel"} /\ ~Authorised(r, tx)
    BY <1>9 DEF Refuse, IsSigned
  <2>2. CASE tx.via = NoDelegation
    <3>1. Apply(r, a) /\ tx.signer # tx.owner
      BY <1>9, <2>1, <2>2 DEF Refuse, Authorised
    <3>2. Outcome(a, tx, At(r), FALSE, {}) = a
      BY <2>1, <2>2, <3>1 DEF Outcome
    <3>3. QED
      BY <1>1, <1>6, <3>1, <3>2 DEF Advance
  <2>3. CASE tx.via # NoDelegation
    <3>1. Apply(r, Refused(a, At(r)))
      BY <1>9, <2>3 DEF Refuse
    <3>2. Outcome(a, tx, At(r), TRUE, {}) = Refused(a, At(r))
      BY <2>1, <2>3 DEF Outcome
    <3>3. QED
      BY <1>1, <1>3, <1>6, <3>1, <3>2 DEF Advance
  <2>4. QED
    BY <2>2, <2>3
<1>10. CASE Replay(r)
  <2>1. Apply(r, a) /\ Outcome(a, tx, At(r), FALSE, {}) = a
    BY <1>7, <1>10 DEF Replay, IsSigned, Outcome
  <2>2. QED
    BY <1>1, <1>6, <2>1 DEF Advance
<1>11. CASE Reject(r)
  <2>1. Apply(r, Rejected(a, tx)) /\ Outcome(a, tx, At(r), FALSE, {}) = Rejected(a, tx)
    BY <1>7, <1>11 DEF Reject, IsFresh, Outcome
  <2>2. QED
    BY <1>1, <1>3, <1>6, <2>1 DEF Advance
<1>12. CASE Accept(r)
  <2> DEFINE X == missed(AsOrder(tx))
  <2>1. Apply(r, Placed(Consumed(a, tx), AsOrder(tx), At(r), X))
    BY <1>12 DEF Accept
  <2>2. Outcome(a, tx, At(r), FALSE, X) = Placed(Consumed(a, tx), AsOrder(tx), At(r), X)
    BY <1>7, <1>12 DEF Accept, IsFresh, Outcome
  <2>3. X \in SUBSET Addr
    BY <1>8
  <2> HIDE DEF X
  <2>4. PICK c : c = Placed(Consumed(a, tx), AsOrder(tx), At(r), X)
    OBVIOUS
  <2>5. /\ DOMAIN c = AppField /\ c.refused = IF FALSE THEN a.refused \cup {At(r)} ELSE a.refused
        /\ c.unpaid = a.unpaid \cup ({At(r)} \X X) /\ Apply(r, c) /\ Outcome(a, tx, At(r), FALSE, X) = c
    BY <1>4, <2>1, <2>2, <2>4
  <2>6. QED
    BY <1>1, <1>5, <2>3, <2>5 DEF Advance
<1>13. CASE CancelOrder(r)
  <2>1. /\ Apply(r, Cancelled(Consumed(a, tx), tx))
        /\ Outcome(a, tx, At(r), FALSE, {}) = Cancelled(Consumed(a, tx), tx)
    BY <1>7, <1>13 DEF CancelOrder, IsFresh, Outcome
  <2>2. QED
    BY <1>1, <1>3, <1>6, <2>1 DEF Advance
<1>14. CASE LegacyOrder(r)
  <2> DEFINE X == Unloaded(r, a, AsOrder(tx))
  <2>1. tx.kind = "O"
    BY <1>14 DEF LegacyOrder
  <2>2. CASE ~Acceptable(a, tx)
    <3>1. Apply(r, a) /\ Outcome(a, tx, At(r), FALSE, {}) = a
      BY <1>14, <2>1, <2>2 DEF LegacyOrder, Outcome
    <3>2. QED
      BY <1>1, <1>6, <3>1 DEF Advance
  <2>3. CASE Acceptable(a, tx) /\ Apply(r, Refused(a, At(r)))
    <3>1. Outcome(a, tx, At(r), TRUE, {}) = Refused(a, At(r))
      BY <2>1, <2>3 DEF Outcome
    <3>2. QED
      BY <1>1, <1>3, <1>6, <2>3, <3>1 DEF Advance
  <2>4. CASE Acceptable(a, tx) /\ Apply(r, Placed(a, AsOrder(tx), At(r), X))
    <3>1. Outcome(a, tx, At(r), FALSE, X) = Placed(a, AsOrder(tx), At(r), X)
      BY <2>1, <2>4 DEF Outcome
    <3>2. X \in SUBSET Addr
      BY <1>8
    <3> HIDE DEF X
    <3>3. PICK c : c = Placed(a, AsOrder(tx), At(r), X)
      OBVIOUS
    <3>4. /\ DOMAIN c = AppField /\ c.refused = IF FALSE THEN a.refused \cup {At(r)} ELSE a.refused
          /\ c.unpaid = a.unpaid \cup ({At(r)} \X X) /\ Apply(r, c) /\ Outcome(a, tx, At(r), FALSE, X) = c
      BY <1>4, <2>4, <3>1, <3>3
    <3>5. QED
      BY <1>1, <1>5, <3>2, <3>4 DEF Advance
  <2>5. QED
    BY <1>14, <2>2, <2>3, <2>4 DEF LegacyOrder
<1>15. CASE LegacyCancel(r)
  <2>1. Apply(r, Cancelled(a, tx)) /\ Outcome(a, tx, At(r), FALSE, {}) = Cancelled(a, tx)
    BY <1>15 DEF LegacyCancel, Outcome
  <2>2. QED
    BY <1>1, <1>3, <1>6, <2>1 DEF Advance
<1>16. CASE Ignore(r)
  <2>1. Apply(r, a) /\ Outcome(a, tx, At(r), FALSE, {}) = a
    BY <1>16 DEF Ignore, Outcome
  <2>2. QED
    BY <1>1, <1>6, <2>1 DEF Advance
<1>17. QED
  BY <1>9, <1>10, <1>11, <1>12, <1>13, <1>14, <1>15, <1>16 DEF ExecuteTx

-----------------------------------------------------------------------------
(***************************************************************************)
(* Replicas are deterministic                                              *)
(***************************************************************************)

\* How many transactions of the i-th block (from 0) r has executed.
Executed(r, i) == IF i < height[r] THEN Len(chain[i + 1]) ELSE position[r]

\* What r makes of the transaction at a place in the chain.
OutcomeAt(r, a, at) ==
  Outcome(a, chain[at[1] + 1][at[2] + 1], at, at \in app[r].refused, UnpaidAt(app[r], at))

\* past[i][j] is the application after j transactions of block i: from NewApp,
\* by Outcome, to where r is.
Past(past, r) ==
  /\ past[0][0] = NewApp
  /\ \A i \in 0..height[r] : \A j \in Nat :
       j < Executed(r, i) =>
         past[i][j + 1] = OutcomeAt(r, past[i][j], <<i, j>>)
  /\ \A i \in Nat : i < height[r] => past[i + 1][0] = past[i][Len(chain[i + 1])]
  /\ past[height[r]][position[r]] = app[r]

\* A place in the chain that r has passed.
Passed(r, at) ==
  at \in Nat \X Nat /\ (at[1] < height[r] \/ (at[1] = height[r] /\ at[2] < position[r]))

\* A replica is within the chain, and lacked something where it has been.
Within(r) ==
  /\ height[r] \in Nat /\ position[r] \in Nat
  /\ height[r] <= Len(chain)
  /\ position[r] > 0 => height[r] < Len(chain)
  /\ \A i \in Nat : i < height[r] => Len(chain[i + 1]) \in Nat
  /\ DOMAIN app[r] = AppField
  /\ \A at \in app[r].refused : Passed(r, at)
  /\ \A gap \in app[r].unpaid : Passed(r, gap[1])

\* The variables are functions of the replicas, the chain is a sequence.
ShapeInv ==
  /\ DOMAIN height = Replica /\ DOMAIN position = Replica /\ DOMAIN app = Replica
  /\ DOMAIN appHash = Replica
  /\ \E B : chain \in Seq(B)

PastInv ==
  /\ ShapeInv
  /\ \A r \in Replica : Within(r)
  /\ \A r \in Replica : \E past : Past(past, r)

\* Where r is, it has not been.
LEMMA HereIsNoGap ==
  ASSUME NEW r \in Replica, Within(r)
  PROVE  At(r) \notin app[r].refused /\ UnpaidAt(app[r], At(r)) = {}
<1>1. ~Passed(r, At(r))
  BY DEF Passed, At, Within
<1>2. \A x : <<At(r), x>>[1] = At(r)
  OBVIOUS
<1>3. QED
  BY <1>1, <1>2 DEF Within, UnpaidAt

\* The past is determined by the chain and by what the replica lacked.
LEMMA PastIsUnique ==
  ASSUME NEW r \in Replica, NEW s \in Replica, Within(r), Within(s),
         height[r] = height[s], position[r] = position[s], SameGaps(r, s),
         NEW past, Past(past, r), NEW other, Past(other, s)
  PROVE  app[r] = app[s]
<1> DEFINE h == height[r]
<1>1. h \in Nat /\ \A i \in 0..h : Executed(r, i) \in Nat /\ Executed(s, i) = Executed(r, i)
  BY DEF Within, Executed
<1>2. ASSUME NEW i \in 0..h, past[i][0] = other[i][0]
      PROVE  \A j \in 0..Executed(r, i) : past[i][j] = other[i][j]
  <2> DEFINE A == {j \in Nat : past[i][j] = other[i][j]}
  <2>1. 0 \in A
    BY <1>2
  <2>2. ASSUME NEW j \in Nat, j < Executed(r, i), j \in A PROVE j + 1 \in A
    <3>1. past[i][j + 1] = OutcomeAt(r, past[i][j], <<i, j>>)
      BY <2>2 DEF Past
    <3>2. other[i][j + 1] = OutcomeAt(s, other[i][j], <<i, j>>)
      BY <1>1, <2>2 DEF Past
    <3>3. OutcomeAt(r, past[i][j], <<i, j>>) = OutcomeAt(s, past[i][j], <<i, j>>)
      BY DEF OutcomeAt, SameGaps, UnpaidAt
    <3>4. QED
      BY <2>2, <3>1, <3>2, <3>3
  <2> HIDE DEF A
  <2>3. \A j \in 0..Executed(r, i) : j \in A
    BY <1>1, <2>1, <2>2, UpTo
  <2>4. QED
    BY <2>3 DEF A
<1> DEFINE C == {i \in Nat : past[i][0] = other[i][0]}
<1>3. 0 \in C
  BY DEF Past
<1>4. ASSUME NEW i \in Nat, i < h, i \in C PROVE i + 1 \in C
  <2>1. i \in 0..h /\ Executed(r, i) = Len(chain[i + 1]) /\ Len(chain[i + 1]) \in Nat
    BY <1>1, <1>4 DEF Within, Executed
  <2>2. past[i][Len(chain[i + 1])] = other[i][Len(chain[i + 1])]
    BY <1>2, <1>4, <2>1
  <2>3. QED
    BY <1>4, <2>2 DEF Past
<1> HIDE DEF C
<1>5. \A i \in 0..h : i \in C
  BY <1>1, <1>3, <1>4, UpTo
<1>6. h \in 0..h /\ Executed(r, h) = position[r] /\ position[r] \in 0..Executed(r, h)
  BY <1>1 DEF Executed, Within
<1>7. past[h][position[r]] = other[h][position[r]]
  BY <1>2, <1>5, <1>6 DEF C
<1>8. QED
  BY <1>7 DEF Past

LEMMA InitPast == Init => PastInv
<1> SUFFICES ASSUME Init PROVE PastInv
  OBVIOUS
<1>1. ShapeInv
  <2>1. chain \in Seq({})
    BY DEF Init
  <2>2. QED
    BY <2>1 DEF Init, ShapeInv
<1>2. ASSUME NEW r \in Replica PROVE Within(r)
  <2>1. height[r] = 0 /\ position[r] = 0 /\ app[r] = NewApp /\ Len(chain) = 0
    BY DEF Init
  <2>2. QED
    BY <2>1 DEF Within, NewApp, AppField
<1>3. ASSUME NEW r \in Replica PROVE \E past : Past(past, r)
  <2> DEFINE past == [i \in {0} |-> [j \in {0} |-> NewApp]]
  <2>1. height[r] = 0 /\ position[r] = 0 /\ app[r] = NewApp
    BY DEF Init
  <2>2. past[0][0] = NewApp
    OBVIOUS
  <2> HIDE DEF past
  <2>3. Past(past, r)
    BY <2>1, <2>2 DEF Past, Executed
  <2>4. QED
    BY <2>3
<1>4. QED
  BY <1>1, <1>2, <1>3 DEF PastInv

\* A step in which r stays where it is, though the chain may grow.
LEMMA PastStays ==
  ASSUME NEW r \in Replica, Within(r), \E past : Past(past, r), Len(chain) \in Nat,
         UNCHANGED <<height[r], position[r], app[r]>>,
         Len(chain') \in Nat, Len(chain') >= Len(chain), \A i \in 1..Len(chain) : chain'[i] = chain[i]
  PROVE  Within(r)' /\ (\E past : Past(past, r))'
<1>1. \A i \in Nat : i < height[r] => chain'[i + 1] = chain[i + 1]
  BY DEF Within
<1>2. Within(r)'
  BY <1>1 DEF Within, Passed
<1>3. \A i \in 0..height[r] : Executed(r, i)' = Executed(r, i)
  BY <1>1 DEF Executed, Within
<1>4. PICK past : Past(past, r)
  OBVIOUS
<1>5. ASSUME NEW i \in 0..height[r], NEW j \in Nat, j < Executed(r, i)
      PROVE  OutcomeAt(r, past[i][j], <<i, j>>)' = OutcomeAt(r, past[i][j], <<i, j>>)
  <2>1. chain'[i + 1] = chain[i + 1]
    BY <1>1, <1>5 DEF Executed, Within
  <2>2. QED
    BY <2>1 DEF OutcomeAt, UnpaidAt
<1>6. Past(past, r)'
  BY <1>1, <1>3, <1>4, <1>5 DEF Past
<1>7. QED
  BY <1>2, <1>6

LEMMA PastExecutes ==
  ASSUME ShapeInv, NEW r \in Replica, Within(r), \E past : Past(past, r), ExecuteTx(r)
  PROVE  Within(r)' /\ (\E past : Past(past, r))'
<1> DEFINE h == height[r]
           p == position[r]
<1>0. At(r) = <<h, p>> /\ h \in Nat /\ p \in Nat
  BY DEF At, Within
<1>1. /\ HasNext(r)
      /\ app'[r] = Outcome(app[r], NextTx(r), At(r), At(r) \in app'[r].refused, UnpaidAt(app'[r], At(r)))
      /\ DOMAIN app'[r] = AppField
      /\ app'[r].refused \in {app[r].refused, app[r].refused \cup {At(r)}}
      /\ \E X \in SUBSET Addr : app'[r].unpaid = app[r].unpaid \cup ({At(r)} \X X)
      /\ position' = [position EXCEPT ![r] = @ + 1]
      /\ UNCHANGED <<chain, height>>
  BY HereIsNoGap, ExecuteTxIsOutcome DEF ShapeInv, Within
<1>2. position'[r] = p + 1 /\ height'[r] = h /\ chain' = chain
  BY <1>1 DEF ShapeInv
<1>3. h < Len(chain)
  BY <1>1 DEF HasNext, Executing
<1>4. Within(r)'
  <2>1. \A at : Passed(r, at) \/ at = At(r) => Passed(r, at)'
    <3>1. ASSUME NEW at, Passed(r, at) PROVE Passed(r, at)'
      <4>1. at[1] \in Nat /\ at[2] \in Nat
        BY <3>1 DEF Passed
      <4>2. QED
        BY <1>0, <1>2, <3>1, <4>1 DEF Passed
    <3>2. ASSUME NEW at, at = At(r) PROVE Passed(r, at)'
      <4>1. at \in Nat \X Nat /\ at[1] = h /\ at[2] = p
        BY <1>0, <3>2
      <4>2. QED
        BY <1>0, <1>2, <4>1 DEF Passed
    <3>3. QED
      BY <3>1, <3>2
  <2>2. ASSUME NEW at \in app'[r].refused PROVE Passed(r, at)'
    BY <1>1, <2>1, <2>2 DEF Within
  <2>3. ASSUME NEW gap \in app'[r].unpaid PROVE Passed(r, gap[1])'
    BY <1>1, <2>1, <2>3 DEF Within
  <2>4. QED
    BY <1>0, <1>1, <1>2, <1>3, <2>2, <2>3 DEF Within
<1>5. PICK past : Past(past, r)
  OBVIOUS
<1>6. PICK new : \A i, j \in Nat : new[i][j] = IF i = h /\ j = p + 1 THEN app'[r] ELSE past[i][j]
  <2> DEFINE f == [i \in Nat |-> [j \in Nat |-> IF i = h /\ j = p + 1 THEN app'[r] ELSE past[i][j]]]
  <2>1. \A i, j \in Nat : f[i][j] = IF i = h /\ j = p + 1 THEN app'[r] ELSE past[i][j]
    OBVIOUS
  <2> HIDE DEF f
  <2>2. QED
    BY <2>1
<1>7. new[0][0] = NewApp
  BY <1>0, <1>5, <1>6 DEF Past
<1>8. ASSUME NEW i \in 0..h, NEW j \in Nat, j < Executed(r, i)'
      PROVE  new[i][j + 1] = OutcomeAt(r, new[i][j], <<i, j>>)'
  <2>1. CASE i = h /\ j = p
    <3>1. new[i][j + 1] = app'[r] /\ new[i][j] = past[h][p]
      BY <1>0, <1>6, <2>1
    <3>2. past[h][p] = app[r]
      BY <1>5 DEF Past
    <3>3. NextTx(r) = chain[i + 1][j + 1]
      BY <2>1 DEF NextTx, Txs
    <3>4. At(r) = <<i, j>>
      BY <1>0, <2>1
    <3>5. OutcomeAt(r, new[i][j], <<i, j>>)'
            = Outcome(app[r], NextTx(r), At(r), At(r) \in app'[r].refused, UnpaidAt(app'[r], At(r)))
      BY <1>2, <3>1, <3>2, <3>3, <3>4 DEF OutcomeAt, UnpaidAt
    <3>6. QED
      BY <1>1, <3>1, <3>5
  <2>2. CASE ~(i = h /\ j = p)
    <3>1. i \in Nat /\ j < Executed(r, i) /\ (i = h => j < p)
      BY <1>0, <1>2, <1>8, <2>2 DEF Executed
    <3>2. past[i][j + 1] = OutcomeAt(r, past[i][j], <<i, j>>)
      BY <1>5, <3>1 DEF Past
    <3>3. new[i][j + 1] = past[i][j + 1] /\ new[i][j] = past[i][j]
      BY <1>0, <1>6, <3>1
    <3>4. <<i, j>> # At(r)
      BY <1>0, <2>2
    <3>5. /\ (<<i, j>> \in app'[r].refused) = (<<i, j>> \in app[r].refused)
          /\ UnpaidAt(app'[r], <<i, j>>) = UnpaidAt(app[r], <<i, j>>)
      BY <1>1, <3>4 DEF UnpaidAt
    <3>6. OutcomeAt(r, new[i][j], <<i, j>>)' = OutcomeAt(r, past[i][j], <<i, j>>)
      BY <1>2, <3>3, <3>5 DEF OutcomeAt, UnpaidAt
    <3>7. QED
      BY <3>2, <3>3, <3>6
  <2>3. QED
    BY <2>1, <2>2
<1>9. ASSUME NEW i \in Nat, i < h PROVE new[i + 1][0] = new[i][Len(chain[i + 1])]
  <2>1. Len(chain[i + 1]) \in Nat /\ past[i + 1][0] = past[i][Len(chain[i + 1])]
    BY <1>5, <1>9 DEF Past, Within
  <2>2. QED
    BY <1>0, <1>6, <1>9, <2>1
<1>10. new[h][p + 1] = app'[r]
  BY <1>0, <1>6
<1>11. Past(new, r)'
  BY <1>2, <1>7, <1>8, <1>9, <1>10 DEF Past
<1>12. QED
  BY <1>4, <1>11

LEMMA PastFinishes ==
  ASSUME ShapeInv, NEW r \in Replica, Within(r), \E past : Past(past, r), FinishBlock(r)
  PROVE  Within(r)' /\ (\E past : Past(past, r))'
<1> DEFINE h == height[r]
           p == position[r]
<1>1. /\ h \in Nat /\ p \in Nat /\ h < Len(chain) /\ p = Len(chain[h + 1])
      /\ height'[r] = h + 1 /\ position'[r] = 0 /\ chain' = chain /\ app' = app
  BY DEF FinishBlock, Executing, Txs, ShapeInv, Within
<1>2. Within(r)'
  <2>1. \A i \in Nat : i < h + 1 => Len(chain[i + 1]) \in Nat
    <3>1. ASSUME NEW i \in Nat, i < h + 1 PROVE Len(chain[i + 1]) \in Nat
      <4>1. CASE i = h
        BY <1>1, <4>1
      <4>2. CASE i < h
        BY <4>2 DEF Within
      <4>3. QED
        BY <1>1, <3>1, <4>1, <4>2
    <3>2. QED
      BY <3>1
  <2>2. ASSUME NEW at, Passed(r, at) PROVE Passed(r, at)'
    <3>1. at[1] \in Nat /\ at[2] \in Nat
      BY <2>2 DEF Passed
    <3>2. QED
      BY <1>1, <2>2, <3>1 DEF Passed
  <2>3. h + 1 <= Len(chain)
    <3>1. Len(chain) \in Nat
      BY DEF ShapeInv
    <3>2. QED
      BY <1>1, <3>1
  <2>4. DOMAIN app'[r] = AppField
    BY <1>1 DEF Within
  <2>5. QED
    BY <1>1, <2>1, <2>2, <2>3, <2>4 DEF Within
<1>3. PICK past : Past(past, r)
  OBVIOUS
<1>4. PICK new : \A i, j \in Nat : new[i][j] = IF i = h + 1 /\ j = 0 THEN app[r] ELSE past[i][j]
  <2> DEFINE f == [i \in Nat |-> [j \in Nat |-> IF i = h + 1 /\ j = 0 THEN app[r] ELSE past[i][j]]]
  <2>1. \A i, j \in Nat : f[i][j] = IF i = h + 1 /\ j = 0 THEN app[r] ELSE past[i][j]
    OBVIOUS
  <2> HIDE DEF f
  <2>2. QED
    BY <2>1
<1>5. new[0][0] = NewApp
  BY <1>1, <1>3, <1>4 DEF Past
<1>6. ASSUME NEW i \in 0..(h + 1), NEW j \in Nat, j < Executed(r, i)'
      PROVE  new[i][j + 1] = OutcomeAt(r, new[i][j], <<i, j>>)'
  <2>1. i \in 0..h /\ j < Executed(r, i)
    BY <1>1, <1>6 DEF Executed
  <2>2. past[i][j + 1] = OutcomeAt(r, past[i][j], <<i, j>>)
    BY <1>3, <2>1 DEF Past
  <2>3. new[i][j + 1] = past[i][j + 1] /\ new[i][j] = past[i][j]
    BY <1>1, <1>4, <2>1
  <2>4. OutcomeAt(r, new[i][j], <<i, j>>)' = OutcomeAt(r, past[i][j], <<i, j>>)
    BY <1>1, <2>3 DEF OutcomeAt, UnpaidAt
  <2>5. QED
    BY <2>2, <2>3, <2>4
<1>7. ASSUME NEW i \in Nat, i < h + 1 PROVE new[i + 1][0] = new[i][Len(chain[i + 1])]
  <2>1. CASE i = h
    <3>1. new[i + 1][0] = app[r] /\ new[i][Len(chain[i + 1])] = past[h][p]
      BY <1>1, <1>4, <2>1
    <3>2. QED
      BY <1>3, <3>1 DEF Past
  <2>2. CASE i < h
    <3>1. Len(chain[i + 1]) \in Nat /\ past[i + 1][0] = past[i][Len(chain[i + 1])]
      BY <1>3, <2>2 DEF Past, Within
    <3>2. QED
      BY <1>1, <1>4, <2>2, <3>1
  <2>3. QED
    BY <1>1, <1>7, <2>1, <2>2
<1>8. new[h + 1][0] = app[r]
  BY <1>1, <1>4
<1>9. Past(new, r)'
  BY <1>1, <1>5, <1>6, <1>7, <1>8 DEF Past
<1>10. QED
  BY <1>2, <1>9

\* What every step does: the chain grows by a block, or one replica executes a
\* transaction, ends a block, or does something beside.
LEMMA StepOfReplica ==
  ASSUME ShapeInv, [Next]_vars
  PROVE  \/ Propose
         \/ \E r \in Replica : ExecuteTx(r) \/ FinishBlock(r)
         \/ UNCHANGED <<chain, height, position, app, appHash>>
BY DEF Next, Execute, ExecuteTx, RegisterDelegation, Tick, GetAccount, GetOrderbook, HasBook, Race, Local, vars

LEMMA NextShape == ASSUME ShapeInv, \A r \in Replica : Within(r), [Next]_vars PROVE ShapeInv'
<1>1. CASE Propose
  <2>1. PICK b : chain' = Append(chain, b)
    BY <1>1 DEF Propose
  <2>2. PICK B : chain \in Seq(B)
    BY DEF ShapeInv
  <2>3. chain \in Seq(B \cup {b}) /\ b \in B \cup {b}
    BY <2>2
  <2>4. chain' \in Seq(B \cup {b})
    BY <2>1, <2>3
  <2>5. UNCHANGED <<height, position, app, appHash>>
    BY <1>1 DEF Propose
  <2>6. QED
    BY <2>4, <2>5 DEF ShapeInv
<1>2. ASSUME NEW r \in Replica, ExecuteTx(r) PROVE ShapeInv'
  <2>1. At(r) \notin app[r].refused /\ UnpaidAt(app[r], At(r)) = {}
    BY HereIsNoGap
  <2>2. /\ app' = [app EXCEPT ![r] = app'[r]]
        /\ position' = [position EXCEPT ![r] = @ + 1]
        /\ UNCHANGED <<chain, height, appHash>>
    BY <1>2, <2>1, ExecuteTxIsOutcome DEF ShapeInv, Within
  <2>3. DOMAIN app' = Replica /\ DOMAIN position' = Replica
    BY <2>2 DEF ShapeInv
  <2>4. QED
    BY <2>2, <2>3 DEF ShapeInv
<1>3. ASSUME NEW r \in Replica, FinishBlock(r) PROVE ShapeInv'
  BY <1>3 DEF FinishBlock, ShapeInv
<1>4. CASE UNCHANGED <<chain, height, position, app, appHash>>
  BY <1>4 DEF ShapeInv
<1>5. QED
  BY <1>1, <1>2, <1>3, <1>4, StepOfReplica

LEMMA NextPast == PastInv /\ [Next]_vars => PastInv'
<1> SUFFICES ASSUME PastInv, [Next]_vars PROVE PastInv'
  OBVIOUS
<1> USE DEF PastInv
<1>1. ShapeInv'
  BY NextShape
<1>2. ASSUME NEW s \in Replica, UNCHANGED <<height[s], position[s], app[s]>>,
             chain' = chain \/ \E b : chain' = Append(chain, b)
      PROVE  Within(s)' /\ (\E past : Past(past, s))'
  <2>1. PICK B : chain \in Seq(B)
    BY DEF ShapeInv
  <2>2. /\ Len(chain) \in Nat /\ Len(chain') \in Nat /\ Len(chain') >= Len(chain)
        /\ \A i \in 1..Len(chain) : chain'[i] = chain[i]
    <3>1. CASE chain' = chain
      BY <2>1, <3>1
    <3>2. ASSUME NEW b, chain' = Append(chain, b)
          PROVE  /\ Len(chain) \in Nat /\ Len(chain') \in Nat /\ Len(chain') >= Len(chain)
                 /\ \A i \in 1..Len(chain) : chain'[i] = chain[i]
      <4>1. chain \in Seq(B \cup {b}) /\ b \in B \cup {b}
        BY <2>1
      <4>2. QED
        BY <3>2, <4>1
    <3>3. QED
      BY <1>2, <3>1, <3>2
  <2>3. QED
    BY <1>2, <2>2, PastStays
<1>3. CASE Propose
  <2>1. UNCHANGED <<height, position, app>> /\ \E b : chain' = Append(chain, b)
    BY <1>3 DEF Propose
  <2>2. QED
    BY <1>1, <1>2, <2>1
<1>4. ASSUME NEW r \in Replica, ExecuteTx(r) PROVE PastInv'
  <2>1. At(r) \notin app[r].refused /\ UnpaidAt(app[r], At(r)) = {}
    BY HereIsNoGap
  <2>2. /\ app' = [app EXCEPT ![r] = app'[r]]
        /\ position' = [position EXCEPT ![r] = @ + 1]
        /\ UNCHANGED <<chain, height>>
    BY <1>4, <2>1, ExecuteTxIsOutcome DEF ShapeInv, Within
  <2>3. \A s \in Replica : s # r => UNCHANGED <<height[s], position[s], app[s]>>
    BY <2>2 DEF ShapeInv
  <2>4. QED
    BY <1>1, <1>2, <1>4, <2>2, <2>3, PastExecutes
<1>5. ASSUME NEW r \in Replica, FinishBlock(r) PROVE PastInv'
  <2>1. /\ \A s \in Replica : s # r => UNCHANGED <<height[s], position[s], app[s]>>
        /\ chain' = chain
    BY <1>5 DEF FinishBlock, ShapeInv
  <2>2. QED
    BY <1>1, <1>2, <1>5, <2>1, PastFinishes
<1>6. CASE UNCHANGED <<chain, height, position, app, appHash>>
  BY <1>1, <1>2, <1>6
<1>7. QED
  BY <1>3, <1>4, <1>5, <1>6, StepOfReplica

LEMMA PastInvariant == Spec => []PastInv
BY InitPast, NextPast, PTL DEF Spec

LEMMA PastDetermines == PastInv => SameTransactionsSameState
BY PastIsUnique DEF PastInv, SameTransactionsSameState

\* Replicas that executed the same transactions have the same accounts and
\* books, provided they lacked the same delegations and accounts at the same
\* places: whatever their API handlers do in between, whatever their clocks show,
\* and however far one is behind the other (README.md of pkg/app/core,
\* "Deterministic execution").
THEOREM ExecutionIsDeterministic == Spec => []SameTransactionsSameState
BY PastInvariant, PastDetermines, PTL

-----------------------------------------------------------------------------
(***************************************************************************)
(* AppHash                                                                 *)
(***************************************************************************)

HashOf(a, symbols) ==
  [sym \in symbols |-> IF sym = Market THEN Levels(a, "buy") \o Levels(a, "sell") ELSE <<>>]

\* Between two blocks the AppHash is of the application as it is, and of the
\* symbols that had a book when the block ended.
HashInv ==
  \A r \in Replica :
    /\ height[r] = 0 => appHash[r] = <<>>
    /\ height[r] > 0 /\ position[r] = 0 => appHash[r] = HashOf(app[r], DOMAIN appHash[r])

LEMMA NextHash == PastInv /\ HashInv /\ [Next]_vars => HashInv'
<1> SUFFICES ASSUME PastInv, HashInv, [Next]_vars PROVE HashInv'
  OBVIOUS
<1> USE DEF PastInv
<1>1. ASSUME NEW s \in Replica, UNCHANGED <<height[s], position[s], app[s], appHash[s]>>
      PROVE  /\ height'[s] = 0 => appHash'[s] = <<>>
             /\ height'[s] > 0 /\ position'[s] = 0 => appHash'[s] = HashOf(app[s], DOMAIN appHash[s])'
  BY <1>1 DEF HashInv
<1>2. ASSUME NEW r \in Replica, ExecuteTx(r) PROVE HashInv'
  <2>1. At(r) \notin app[r].refused /\ UnpaidAt(app[r], At(r)) = {}
    BY HereIsNoGap
  <2>2. /\ app' = [app EXCEPT ![r] = app'[r]]
        /\ position' = [position EXCEPT ![r] = @ + 1]
        /\ UNCHANGED <<height, appHash>>
    BY <1>2, <2>1, ExecuteTxIsOutcome DEF ShapeInv, Within
  <2>3. position'[r] = position[r] + 1 /\ position'[r] # 0
    BY <2>2 DEF ShapeInv, Within
  <2>4. \A s \in Replica : s # r => UNCHANGED <<height[s], position[s], app[s], appHash[s]>>
    BY <2>2 DEF ShapeInv
  <2>5. height'[r] = 0 => appHash'[r] = <<>>
    BY <2>2 DEF HashInv
  <2>6. QED
    BY <1>1, <2>3, <2>4, <2>5 DEF HashInv
<1>3. ASSUME NEW r \in Replica, FinishBlock(r) PROVE HashInv'
  <2>1. height'[r] = height[r] + 1 /\ height'[r] # 0
    BY <1>3 DEF FinishBlock, ShapeInv, Within
  <2>2. appHash'[r] = HashOf(app[r], books[r]) /\ app' = app
    BY <1>3 DEF FinishBlock, ShapeInv, Hashed, HashOf
  <2>3. appHash'[r] = HashOf(app[r], DOMAIN appHash'[r])
    BY <2>2 DEF HashOf
  <2>4. \A s \in Replica : s # r => UNCHANGED <<height[s], position[s], app[s], appHash[s]>>
    BY <1>3 DEF FinishBlock, ShapeInv
  <2>5. HashOf(app[r], DOMAIN appHash[r])' = HashOf(app[r], DOMAIN appHash'[r])
    BY <2>2
  <2>6. QED
    BY <1>1, <2>1, <2>3, <2>4, <2>5 DEF HashInv
<1>4. CASE UNCHANGED <<height, position, app, appHash>>
  BY <1>1, <1>4 DEF HashInv
<1>5. CASE Propose
  BY <1>4, <1>5 DEF Propose
<1>6. QED
  BY <1>2, <1>3, <1>4, <1>5, StepOfReplica

LEMMA HashesAgree == ASSUME PastInv, HashInv PROVE AppHashAgrees
<1> SUFFICES ASSUME NEW r \in Replica, NEW s \in Replica,
                    height[r] = height[s], position[r] = 0, position[s] = 0,
                    SameGaps(r, s), DOMAIN appHash[r] = DOMAIN appHash[s]
             PROVE  appHash[r] = appHash[s]
  BY DEF AppHashAgrees
<1>1. app[r] = app[s]
  BY PastDetermines DEF SameTransactionsSameState
<1>2. height[r] \in Nat
  BY DEF PastInv, Within
<1>3. CASE height[r] = 0
  BY <1>3 DEF HashInv
<1>4. CASE height[r] > 0
  BY <1>1, <1>4 DEF HashInv
<1>5. QED
  BY <1>2, <1>3, <1>4

\* Nor do they differ in the AppHash they vote for, provided they made books for
\* the same symbols: which those are is all that leaks from GetOrderbook into
\* computeStateHash.
THEOREM AppHashIsDeterministic == Spec => []AppHashAgrees
<1>1. Init => HashInv
  BY DEF Init, HashInv
<1>2. PastInv /\ HashInv => AppHashAgrees
  BY HashesAgree
<1>3. QED
  BY <1>1, <1>2, NextHash, PastInvariant, PTL DEF Spec

-----------------------------------------------------------------------------
(***************************************************************************)
(* The unlocked map of books                                               *)
(***************************************************************************)

\* Why r may have crashed.
Excused(r) ==
  \/ reading[r] # Market
  \/ ~(books[r] \subseteq {Market})
  \/ position[r] < Len(Txs(r)) /\ NextTx(r).symbol # Market

\* The listed market has a book from the start, and a replica that crashed did
\* so in the middle of a block.
RaceInv ==
  /\ DOMAIN books = Replica /\ DOMAIN reading = Replica /\ DOMAIN crashed = Replica
  /\ \A r \in Replica : Market \in books[r]
  /\ \A r \in Replica : crashed[r] => height[r] \in Nat /\ height[r] < Len(chain) /\ Excused(r)

LEMMA RaceNeedsUnlisted ==
  ASSUME RaceInv, NEW r \in Replica, Race(r) PROVE Executing(r) /\ Excused(r)
<1>1. Executing(r)
  BY DEF Race, Cancels, Places, Finishes, IsFresh, HasNext
<1>2. ASSUME reading[r] = Market, books[r] \subseteq {Market}
      PROVE  position[r] < Len(Txs(r)) /\ NextTx(r).symbol # Market
  <2>1. Writes(r)
    BY <1>2 DEF Race, RaceInv
  <2>2. Cancels(r) /\ NextTx(r).symbol # Market
    BY <2>1 DEF Writes, Names, RaceInv
  <2>3. QED
    BY <2>2 DEF Cancels, IsFresh, HasNext
<1>3. QED
  BY <1>1, <1>2 DEF Excused

\* A step other than a race: no replica crashes, the dead ones stay as they are.
LEMMA LiveStep ==
  ASSUME ShapeInv, RaceInv, [Next]_vars, \A r \in Replica : ~Race(r)
  PROVE  /\ crashed' = crashed
         /\ DOMAIN books' = Replica /\ DOMAIN reading' = Replica
         /\ \A r \in Replica : books[r] \subseteq books'[r]
         /\ \A r \in Replica : crashed[r] => UNCHANGED <<height[r], position[r], books[r], reading[r]>>
         /\ chain' = chain \/ \E b : chain' = Append(chain, b)
<1> USE DEF ShapeInv, RaceInv
<1>1. CASE Propose
  BY <1>1 DEF Propose
<1>2. ASSUME NEW r \in Replica, ExecuteTx(r)
      PROVE  /\ ~crashed[r] /\ UNCHANGED <<chain, height, reading, crashed>>
             /\ position' = [position EXCEPT ![r] = @ + 1]
             /\ books' = books \/ \E B : books' = [books EXCEPT ![r] = @ \cup B]
  <2>1. HasNext(r) /\ Advance(r)
    BY <1>2 DEF ExecuteTx, Refuse, Replay, Reject, Accept, CancelOrder, LegacyOrder, LegacyCancel, Ignore, IsSigned, IsFresh, Apply
  <2>2. books' = books \/ \E B : books' = [books EXCEPT ![r] = @ \cup B]
    BY <1>2 DEF ExecuteTx, Refuse, Replay, Reject, Accept, CancelOrder, LegacyOrder, LegacyCancel, Ignore
  <2>3. QED
    BY <2>1, <2>2 DEF HasNext, Executing, Advance
<1>3. ASSUME NEW r \in Replica, FinishBlock(r)
      PROVE  /\ ~crashed[r] /\ UNCHANGED <<chain, books, reading, crashed>>
             /\ height' = [height EXCEPT ![r] = @ + 1]
             /\ position' = [position EXCEPT ![r] = 0]
  BY <1>3 DEF FinishBlock, Executing
<1>4. ASSUME NEW r \in Replica,
             \/ (\E d \in Delegation : RegisterDelegation(r, d)) \/ Tick(r) \/ (\E x \in Addr : GetAccount(r, x))
             \/ (\E sym \in Symbol : GetOrderbook(r, sym)) \/ HasBook(r)
      PROVE  /\ ~crashed[r] /\ UNCHANGED <<chain, height, position, crashed>>
             /\ reading' = reading \/ \E sym : reading' = [reading EXCEPT ![r] = sym]
             /\ books' = books \/ \E B : books' = [books EXCEPT ![r] = @ \cup B]
  BY <1>4 DEF RegisterDelegation, Tick, GetAccount, GetOrderbook, HasBook, Local
<1>5. CASE UNCHANGED vars
  BY <1>5 DEF vars
<1>6. ASSUME NEW r \in Replica, Execute(r) PROVE ExecuteTx(r) \/ FinishBlock(r)
  BY <1>6 DEF Execute, ExecuteTx
<1>7. QED
  BY <1>1, <1>2, <1>3, <1>4, <1>5, <1>6 DEF Next

\* A growing chain does not change the block a replica is in.
LEMMA ExcuseStays ==
  ASSUME ShapeInv, NEW r \in Replica, height[r] \in Nat, height[r] < Len(chain), Excused(r),
         UNCHANGED <<height[r], position[r], books[r], reading[r]>>,
         chain' = chain \/ \E b : chain' = Append(chain, b)
  PROVE  height'[r] < Len(chain') /\ Excused(r)'
<1>1. PICK B : chain \in Seq(B)
  BY DEF ShapeInv
<1>2. height'[r] < Len(chain') /\ chain'[height[r] + 1] = chain[height[r] + 1]
  <2>1. ASSUME NEW b, chain' = Append(chain, b)
        PROVE  height'[r] < Len(chain') /\ chain'[height[r] + 1] = chain[height[r] + 1]
    <3>1. chain \in Seq(B \cup {b}) /\ b \in B \cup {b}
      BY <1>1
    <3>2. QED
      BY <2>1, <3>1
  <2>2. QED
    BY <2>1
<1>3. Txs(r)' = Txs(r)
  BY <1>2 DEF Txs
<1>4. NextTx(r)' = NextTx(r)
  BY <1>3 DEF NextTx
<1>5. QED
  BY <1>2, <1>3, <1>4 DEF Excused

LEMMA NextRace == ASSUME PastInv, RaceInv, [Next]_vars PROVE RaceInv'
<1> USE DEF PastInv
<1>1. CASE \E r \in Replica : Race(r)
  <2>1. PICK r \in Replica : Race(r)
    BY <1>1
  <2>2. /\ UNCHANGED <<chain, height, position, books, reading>>
        /\ crashed' = [crashed EXCEPT ![r] = TRUE]
    BY <2>1 DEF Race
  <2>3. height[r] \in Nat /\ height[r] < Len(chain) /\ Excused(r)
    BY <2>1, RaceNeedsUnlisted DEF Executing, Within
  <2>4. \A s \in Replica : Excused(s)' <=> Excused(s)
    BY <2>2 DEF Excused, NextTx, Txs
  <2>5. \A s \in Replica : crashed'[s] => s = r \/ crashed[s]
    BY <2>2 DEF RaceInv
  <2>6. QED
    BY <2>2, <2>3, <2>4, <2>5 DEF RaceInv
<1>2. CASE \A r \in Replica : ~Race(r)
  <2>1. /\ crashed' = crashed
        /\ DOMAIN books' = Replica /\ DOMAIN reading' = Replica
        /\ \A r \in Replica : books[r] \subseteq books'[r]
        /\ \A r \in Replica : crashed[r] => UNCHANGED <<height[r], position[r], books[r], reading[r]>>
        /\ chain' = chain \/ \E b : chain' = Append(chain, b)
    BY <1>2, LiveStep
  <2>2. ASSUME NEW r \in Replica, crashed[r]
        PROVE  height'[r] \in Nat /\ height'[r] < Len(chain') /\ Excused(r)'
    BY <2>1, <2>2, ExcuseStays DEF RaceInv
  <2>3. QED
    BY <2>1, <2>2 DEF RaceInv
<1>3. QED
  BY <1>1, <1>2

\* The map of books has no lock, but as long as the API is asked for the listed
\* market only and the blocks name no other symbol, nobody writes to it while
\* another reads: the market's book exists before the first block.
THEOREM ListedSymbolsDoNotRace == Spec => []ListedSymbolsAreSafe
<1>1. Init => RaceInv
  BY DEF Init, RaceInv, NewBooks
<1>2. PastInv /\ RaceInv /\ [Next]_vars => RaceInv'
  BY NextRace
<1>3. RaceInv => ListedSymbolsAreSafe
  BY DEF RaceInv, Excused, ListedSymbolsAreSafe
<1>4. QED
  BY <1>1, <1>2, <1>3, PastInvariant, PTL DEF Spec

-----------------------------------------------------------------------------
(***************************************************************************)
(* The closed form of matching                                             *)
(***************************************************************************)
Entry == [id : LabelSet, qty : Nat \ {0}]
BookState == [Book!Side -> [Price -> Seq(Entry)]]
Order == [id : LabelSet, side : Book!Side, price : Price, qty : Nat \ {0}, type : {tx.type : tx \in Tx}]

LEMMA BookSums ==
  ASSUME NEW f, NEW S PROVE Book!SumFunctionOnSet(f, S) = SumFunctionOnSet(f, S)
BY DEF Book!SumFunctionOnSet, SumFunctionOnSet, Book!FoldFunctionOnSet, FoldFunctionOnSet,
       Book!MapThenFoldSet, MapThenFoldSet

LEMMA BookTotals == ASSUME NEW s PROVE Book!Total(s) = Quantity(s)
BY BookSums DEF Book!Total, Book!SumFunction, Quantity, SumFunction

LEMMA EntryTotals ==
  ASSUME NEW s \in Seq(Entry)
  PROVE  /\ \A m \in 0..Len(s) : Upto(s, m) \in Nat
         /\ Upto(s, 0) = 0
         /\ \A m \in 1..Len(s) : Upto(s, m) = Upto(s, m - 1) + s[m].qty
         /\ \A k \in 0..Len(s) : \A m \in k..Len(s) : Upto(s, k) <= Upto(s, m)
         /\ Book!Total(s) = Upto(s, Len(s))
<1>1. \A i \in 1..Len(s) : s[i] \in Entry
  OBVIOUS
<1>2. \A i \in 1..Len(s) : s[i].qty \in Nat
  BY <1>1 DEF Entry
<1>3. QED
  BY <1>2, BookTotals, QueueTotals

LEMMA Sides ==
  ASSUME NEW s \in Book!Side
  PROVE  Book!Opposite(s) \in Book!Side /\ Book!Opposite(s) # s /\ Book!Side = {s, Book!Opposite(s)}
BY DEF Book!Side, Book!Opposite

LEMMA Depths ==
  ASSUME NEW q \in BookState, NEW s \in Book!Side
  PROVE  \A p \in Price : /\ q[Book!Opposite(s)][p] \in Seq(Entry)
                         /\ Book!Depth(q, s)[p] = Book!Total(q[Book!Opposite(s)][p])
                         /\ Book!Depth(q, s)[p] \in Nat
<1> SUFFICES ASSUME NEW p \in Price
             PROVE  /\ q[Book!Opposite(s)][p] \in Seq(Entry)
                    /\ Book!Depth(q, s)[p] = Book!Total(q[Book!Opposite(s)][p])
                    /\ Book!Depth(q, s)[p] \in Nat
  OBVIOUS
<1>1. q[Book!Opposite(s)][p] \in Seq(Entry)
  BY Sides DEF BookState
<1>2. Book!Depth(q, s)[p] = Book!Total(q[Book!Opposite(s)][p])
  BY DEF Book!Depth
<1> DEFINE t == q[Book!Opposite(s)][p]
<1>3. Len(t) \in 0..Len(t)
  BY <1>1
<1>4. Book!Total(t) \in Nat
  BY <1>1, <1>3, EntryTotals
<1>5. QED
  BY <1>1, <1>2, <1>4

\* What o may still take after any set of prices.
LEMMA DepthOfPrices ==
  ASSUME NEW q \in BookState, NEW s \in Book!Side, NEW P \in SUBSET Price
  PROVE  /\ IsFiniteSet(P)
         /\ SumFunctionOnSet(Book!Depth(q, s), P) \in Nat
         /\ Book!SumFunctionOnSet(Book!Depth(q, s), P) = SumFunctionOnSet(Book!Depth(q, s), P)
<1>1. IsFiniteSet(P)
  BY PriceAssumption, FS_Subset
<1> DEFINE d == Book!Depth(q, s)
<1>2. \A p \in P : d[p] \in Nat
  BY Depths
<1> HIDE DEF d
<1>3. SumFunctionOnSet(d, P) \in Nat
  BY <1>1, <1>2, SumNat
<1>4. QED
  BY <1>1, <1>3, BookSums DEF d

LEMMA LeftAtIsInt ==
  ASSUME NEW q \in BookState, NEW o \in Order, NEW p \in Price
  PROVE  Book!LeftAt(q, o, p) \in Int
<1>1. {r \in Price : Book!Ahead(o, r, p)} \in SUBSET Price /\ o.side \in Book!Side /\ o.qty \in Int
  BY DEF Order
<1>2. Book!SumFunctionOnSet(Book!Depth(q, o.side), {r \in Price : Book!Ahead(o, r, p)}) \in Nat
  BY <1>1, DepthOfPrices
<1>3. QED
  BY <1>1, <1>2 DEF Book!LeftAt

\* A resting order loses at most what it has, and all of it if o still wants as
\* much as the queue holds up to it.
LEMMA TakenFacts ==
  ASSUME NEW q \in BookState, NEW o \in Order, NEW p \in Price,
         NEW s, s = q[Book!Opposite(o.side)][p], NEW i \in 1..Len(s)
  PROVE  /\ Book!Taken(q, o, p, i) = Book!Clamp(Book!LeftAt(q, o, p) - Upto(s, i - 1), 0, s[i].qty)
         /\ Book!Taken(q, o, p, i) \in 0..s[i].qty
         /\ Book!Taken(q, o, p, i) = s[i].qty <=> Book!LeftAt(q, o, p) >= Upto(s, i)
<1>1. Book!Taken(q, o, p, i) = Book!Clamp(Book!LeftAt(q, o, p) - Upto(s, i - 1), 0, s[i].qty)
  BY BookTotals DEF Book!Taken, Upto
<1>2. s \in Seq(Entry)
  BY Depths DEF Order
<1>3. s[i].qty \in Nat \ {0} /\ i - 1 \in 0..Len(s)
  <2>1. s[i] \in Entry /\ Len(s) \in Nat
    BY <1>2
  <2>2. QED
    BY <2>1 DEF Entry
<1>4. Upto(s, i) = Upto(s, i - 1) + s[i].qty /\ Upto(s, i - 1) \in Nat
  BY <1>2, <1>3, EntryTotals
<1>5. Book!LeftAt(q, o, p) \in Int
  BY LeftAtIsInt
<1>6. ASSUME NEW x \in Int, NEW u \in Nat, NEW r \in Nat \ {0}
      PROVE  Book!Clamp(x - u, 0, r) \in 0..r /\ (Book!Clamp(x - u, 0, r) = r <=> x >= u + r)
  BY DEF Book!Clamp
<1>7. /\ Book!Clamp(Book!LeftAt(q, o, p) - Upto(s, i - 1), 0, s[i].qty) \in 0..s[i].qty
      /\ Book!Clamp(Book!LeftAt(q, o, p) - Upto(s, i - 1), 0, s[i].qty) = s[i].qty
           <=> Book!LeftAt(q, o, p) >= Upto(s, i - 1) + s[i].qty
  BY <1>3, <1>4, <1>5, <1>6
<1>8. QED
  BY <1>1, <1>4, <1>7

\* The k oldest orders are exhausted, the others stay with what is left of them.
IsServed(q, o, p, s, k) ==
  /\ k \in 0..Len(s)
  /\ \A i \in 1..Len(s) : i <= k <=> Book!Taken(q, o, p, i) = s[i].qty
  /\ Book!Served(q, o, p) \in Seq(Entry)
  /\ Len(Book!Served(q, o, p)) = Len(s) - k
  /\ \A j \in 1..(Len(s) - k) :
       /\ j + k \in 1..Len(s)
       /\ Book!Served(q, o, p)[j].id = s[j + k].id
       /\ Book!Served(q, o, p)[j].qty = s[j + k].qty - Book!Taken(q, o, p, j + k)

LEMMA ServedFacts ==
  ASSUME NEW q \in BookState, NEW o \in Order, NEW p \in Price
  PROVE  \E k : IsServed(q, o, p, q[Book!Opposite(o.side)][p], k)
<1> DEFINE s == q[Book!Opposite(o.side)][p]
           n == Len(s)
           taken(i) == Book!Taken(q, o, p, i)
           reduced == [i \in 1..n |-> [s[i] EXCEPT !.qty = @ - taken(i)]]
           E == {i \in 1..n : taken(i) = s[i].qty}
           k == Cardinality(E)
<1>1. s \in Seq(Entry) /\ n \in Nat
  BY Depths DEF Order
<1>2. \A i \in 1..n : s[i] \in Entry /\ s[i].qty \in Nat \ {0} /\ s[i].id \in LabelSet
  <2>1. \A i \in 1..n : s[i] \in Entry
    BY <1>1
  <2>2. QED
    BY <2>1 DEF Entry
<1>3. \A i \in 1..n : taken(i) \in 0..s[i].qty /\ (taken(i) = s[i].qty <=> Book!LeftAt(q, o, p) >= Upto(s, i))
  BY TakenFacts
<1>4. \A i, j \in 1..n : j \in E /\ i <= j => i \in E
  <2>1. ASSUME NEW i \in 1..n, NEW j \in 1..n, j \in E, i <= j PROVE i \in E
    <3>1. i \in 0..n /\ j \in 0..n /\ j \in i..n
      BY <1>1, <2>1
    <3>2. Upto(s, i) \in Nat /\ Upto(s, j) \in Nat /\ Upto(s, i) <= Upto(s, j)
      BY <1>1, <3>1, EntryTotals
    <3>3. Book!LeftAt(q, o, p) >= Upto(s, j)
      BY <1>3, <2>1
    <3>4. Book!LeftAt(q, o, p) >= Upto(s, i)
      BY <3>2, <3>3, LeftAtIsInt
    <3>5. QED
      BY <1>3, <3>4
  <2>2. QED
    BY <2>1
<1>5. E \in SUBSET (1..n)
  OBVIOUS
<1>6. E = 1..k /\ k \in 0..n
  <2> HIDE DEF E
  <2>1. QED
    BY <1>1, <1>4, <1>5, Downward
<1>7. \A i \in 1..n : i <= k <=> taken(i) = s[i].qty
  <2>1. \A i \in 1..n : i \in 1..k <=> taken(i) = s[i].qty
    BY <1>6
  <2> HIDE DEF k
  <2>2. QED
    BY <1>6, <2>1
<1>8. Book!Served(q, o, p) = SubSeq(reduced, k + 1, n)
  BY DEF Book!Served, Book!Cardinality, Cardinality
<1> HIDE DEF k, E
<1>9. \A i \in 1..n : reduced[i].id = s[i].id /\ reduced[i].qty = s[i].qty - taken(i) /\ DOMAIN reduced[i] = {"id", "qty"}
  BY <1>2 DEF Entry
<1>10. \A i \in (k + 1)..n : reduced[i] \in Entry
  <2>1. ASSUME NEW i \in (k + 1)..n PROVE reduced[i] \in Entry
    <3>1. i \in 1..n /\ ~(i <= k)
      BY <1>1, <1>6, <2>1
    <3>2. taken(i) # s[i].qty
      BY <1>7, <3>1
    <3>3. s[i].qty - taken(i) \in Nat \ {0}
      BY <1>2, <1>3, <3>1, <3>2
    <3>4. reduced[i] = [id |-> s[i].id, qty |-> s[i].qty - taken(i)]
      BY <1>2, <3>1 DEF Entry
    <3>5. QED
      BY <1>2, <3>1, <3>3, <3>4 DEF Entry
  <2>2. QED
    BY <2>1
<1> HIDE DEF reduced
<1>11. k + 1 \in Int /\ n \in Int
  BY <1>1, <1>6
<1>12. /\ SubSeq(reduced, k + 1, n) \in Seq(Entry)
       /\ Len(SubSeq(reduced, k + 1, n)) = IF k + 1 <= n THEN n - (k + 1) + 1 ELSE 0
       /\ \A j \in 1..(n - (k + 1) + 1) : SubSeq(reduced, k + 1, n)[j] = reduced[(k + 1) + j - 1]
  BY <1>10, <1>11, SubSeqProperties
<1>13. /\ Len(Book!Served(q, o, p)) = n - k
       /\ \A j \in 1..(n - k) : Book!Served(q, o, p)[j] = reduced[j + k]
  <2>1. n - (k + 1) + 1 = n - k /\ \A j \in 1..(n - k) : (k + 1) + j - 1 = j + k
    BY <1>1, <1>6
  <2>2. (IF k + 1 <= n THEN n - (k + 1) + 1 ELSE 0) = n - k
    BY <1>1, <1>6
  <2>3. QED
    BY <1>8, <1>12, <2>1, <2>2
<1>14. \A j \in 1..(n - k) : j + k \in 1..n
  BY <1>1, <1>6
<1>15. IsServed(q, o, p, s, k)
  BY <1>6, <1>7, <1>8, <1>9, <1>12, <1>13, <1>14 DEF IsServed
<1>16. QED
  BY <1>15

-----------------------------------------------------------------------------
LEMMA ClampStep ==
  \A L \in Int, D, d \in Nat :
    Book!Clamp(L, 0, D) + Book!Clamp(L - D, 0, d) = Book!Clamp(L, 0, D + d)
BY DEF Book!Clamp

\* What o takes at one price.
LEMMA TakenAtPrice ==
  ASSUME NEW q \in BookState, NEW o \in Order, NEW p \in Price,
         NEW s, s = q[Book!Opposite(o.side)][p],
         NEW g, \A i \in 1..Len(s) : g[i] = Book!Taken(q, o, p, i)
  PROVE  SumFunctionOnSet(g, 1..Len(s)) = Book!Clamp(Book!LeftAt(q, o, p), 0, Book!Total(s))
<1> DEFINE n == Len(s)
           L == Book!LeftAt(q, o, p)
           A == {m \in 0..n : SumFunctionOnSet(g, 1..m) = Book!Clamp(L, 0, Upto(s, m))}
<1>1. s \in Seq(Entry) /\ n \in Nat /\ L \in Int
  BY Depths, LeftAtIsInt DEF Order
<1>2. \A i \in 1..n : s[i].qty \in Nat \ {0}
  <2>1. \A i \in 1..n : s[i] \in Entry
    BY <1>1
  <2>2. QED
    BY <2>1 DEF Entry
<1>3. \A i \in 1..n : g[i] \in Nat /\ g[i] = Book!Clamp(L - Upto(s, i - 1), 0, s[i].qty)
  <2>1. \A i \in 1..n : Book!Taken(q, o, p, i) \in 0..s[i].qty
    BY TakenFacts
  <2>2. \A i \in 1..n : Book!Taken(q, o, p, i) = Book!Clamp(L - Upto(s, i - 1), 0, s[i].qty)
    BY TakenFacts
  <2>3. QED
    BY <1>2, <2>1, <2>2
<1>4. /\ SumFunctionOnSet(g, 1..0) = 0
      /\ \A m \in 1..n : SumFunctionOnSet(g, 1..m) = SumFunctionOnSet(g, 1..(m - 1)) + g[m]
  BY <1>1, <1>3, PrefixSums
<1>5. /\ \A m \in 0..n : Upto(s, m) \in Nat
      /\ Upto(s, 0) = 0
      /\ \A m \in 1..n : Upto(s, m) = Upto(s, m - 1) + s[m].qty
      /\ Book!Total(s) = Upto(s, n)
  BY <1>1, EntryTotals
<1>6. 0 \in A
  BY <1>1, <1>4, <1>5 DEF Book!Clamp
<1>7. ASSUME NEW m \in Nat, m < n, m \in A PROVE m + 1 \in A
  <2>1. m + 1 \in 1..n /\ m \in 0..n /\ (m + 1) - 1 = m /\ m + 1 \in 0..n
    BY <1>1, <1>7
  <2>2. SumFunctionOnSet(g, 1..(m + 1)) = SumFunctionOnSet(g, 1..m) + g[m + 1]
    BY <1>4, <2>1
  <2>3. Upto(s, m + 1) = Upto(s, m) + s[m + 1].qty /\ Upto(s, m) \in Nat /\ s[m + 1].qty \in Nat
    BY <1>2, <1>5, <2>1
  <2>4. g[m + 1] = Book!Clamp(L - Upto(s, m), 0, s[m + 1].qty)
    BY <1>3, <2>1
  <2>5. SumFunctionOnSet(g, 1..m) = Book!Clamp(L, 0, Upto(s, m))
    BY <1>7
  <2>6. SumFunctionOnSet(g, 1..(m + 1)) = Book!Clamp(L, 0, Upto(s, m + 1))
    <3>1. /\ Book!Clamp(L, 0, Upto(s, m)) + Book!Clamp(L - Upto(s, m), 0, s[m + 1].qty)
               = Book!Clamp(L, 0, Upto(s, m) + s[m + 1].qty)
      BY <1>1, <2>3, ClampStep
    <3>2. QED
      BY <2>2, <2>3, <2>4, <2>5, <3>1
  <2>7. QED
    BY <2>1, <2>6
<1> HIDE DEF A
<1>8. \A m \in 0..n : m \in A
  BY <1>1, <1>6, <1>7, UpTo
<1>9. n \in A
  BY <1>1, <1>8
<1>10. QED
  BY <1>5, <1>9 DEF A

\* Some price of a set is served last.
LEMMA WorstPrice ==
  ASSUME NEW o \in Order, NEW P \in SUBSET Price, P # {}
  PROVE  \E w \in P : \A r \in P \ {w} : Book!Ahead(o, r, w)
<1> DEFINE Good(s) == s # {} => \E w \in s : \A r \in s \ {w} : Book!Ahead(o, r, w)
           A == {s \in SUBSET P : Good(s)}
<1>1. IsFiniteSet(P) /\ \A p \in P : p \in Int
  <2>1. IsFiniteSet(P)
    BY PriceAssumption, FS_Subset
  <2>2. QED
    BY <2>1, PriceAssumption
<1>2. ASSUME NEW s \in SUBSET P, \A t \in SUBSET s : t # s => t \in A PROVE s \in A
  <2>1. CASE s = {}
    BY <2>1
  <2>2. CASE s # {}
    <3>1. PICK x \in s : TRUE
      BY <2>2
    <3>2. s \ {x} \in SUBSET s /\ s \ {x} # s
      BY <3>1
    <3>3. Good(s \ {x})
      BY <1>2, <3>2
    <3>4. CASE s \ {x} = {}
      BY <3>1, <3>4
    <3>5. CASE s \ {x} # {}
      <4>1. PICK w \in s \ {x} : \A r \in s \ {x, w} : Book!Ahead(o, r, w)
        BY <3>3, <3>5
      <4>2. x \in Int /\ w \in Int /\ x # w /\ \A r \in s : r \in Int
        BY <1>1, <4>1
      <4>3. CASE Book!Ahead(o, x, w)
        BY <4>1, <4>3
      <4>4. CASE ~Book!Ahead(o, x, w)
        <5>1. Book!Ahead(o, w, x)
          BY <4>2, <4>4 DEF Book!Ahead
        <5>2. \A r \in s \ {x} : Book!Ahead(o, r, x)
          BY <4>1, <4>2, <5>1 DEF Book!Ahead
        <5>3. QED
          BY <5>2
      <4>5. QED
        BY <4>3, <4>4
    <3>6. QED
      BY <3>4, <3>5
  <2>3. QED
    BY <2>1, <2>2
<1> HIDE DEF A
<1>3. P \in A
  BY <1>1, <1>2, SubsetInduction
<1>4. QED
  BY <1>3 DEF A

-----------------------------------------------------------------------------
\* The resting orders at the prices P, by their places.
Reached(q, o, P) == UNION {{p} \X (1..Len(q[Book!Opposite(o.side)][p])) : p \in P}

LEMMA ReachedBy ==
  ASSUME NEW q \in BookState, NEW o \in Order, NEW P \in SUBSET Price
  PROVE  /\ IsFiniteSet(Reached(q, o, P))
         /\ \A f \in Reached(q, o, P) :
              f[1] \in P /\ f[2] \in 1..Len(q[Book!Opposite(o.side)][f[1]]) /\ f = <<f[1], f[2]>>
         /\ \A p \in P : \A i \in 1..Len(q[Book!Opposite(o.side)][p]) : <<p, i>> \in Reached(q, o, P)
<1> DEFINE at(p) == {p} \X (1..Len(q[Book!Opposite(o.side)][p]))
           A == {t \in SUBSET P : IsFiniteSet(Reached(q, o, t))}
<1>1. \A p \in P : q[Book!Opposite(o.side)][p] \in Seq(Entry)
  BY Depths DEF Order
<1>2. \A p \in P : IsFiniteSet(at(p))
  <2>1. ASSUME NEW p \in P, NEW n \in Nat PROVE IsFiniteSet({p} \X (1..n))
    <3>1. IsFiniteSet({p})
      BY FS_Singleton
    <3>2. IsFiniteSet(1..n)
      BY FiniteInterval
    <3>3. QED
      BY <3>1, <3>2, FS_Product
  <2>2. \A p \in P : Len(q[Book!Opposite(o.side)][p]) \in Nat
    BY <1>1
  <2>3. QED
    BY <2>1, <2>2
<1>3. IsFiniteSet(P)
  BY PriceAssumption, FS_Subset
<1>4. ASSUME NEW s \in SUBSET P, \A t \in SUBSET s : t # s => t \in A PROVE s \in A
  <2>1. CASE s = {}
    <3>1. Reached(q, o, s) = {}
      BY <2>1 DEF Reached
    <3>2. QED
      BY <3>1, FS_EmptySet
  <2>2. CASE s # {}
    <3>1. PICK x \in s : TRUE
      BY <2>2
    <3>2. IsFiniteSet(Reached(q, o, s \ {x})) /\ IsFiniteSet(at(x))
      BY <1>2, <1>4, <3>1
    <3>3. Reached(q, o, s) = at(x) \cup Reached(q, o, s \ {x})
      BY <3>1 DEF Reached
    <3> HIDE DEF at
    <3>4. IsFiniteSet(at(x) \cup Reached(q, o, s \ {x}))
      BY <3>2, FS_Union
    <3>5. QED
      BY <3>3, <3>4
  <2>3. QED
    BY <2>1, <2>2
<1>5. IsFiniteSet(Reached(q, o, P))
  <2> HIDE DEF A
  <2>1. P \in A
    BY <1>3, <1>4, SubsetInduction
  <2>2. QED
    BY <2>1 DEF A
<1>6. QED
  BY <1>5 DEF Reached

\* What o takes at the best prices, up to any of them.
LEMMA TakenAtBest ==
  ASSUME NEW q \in BookState, NEW o \in Order,
         NEW g, \A f \in Reached(q, o, Price) : g[f] = Book!Taken(q, o, f[1], f[2]),
         NEW best \in SUBSET Price,
         \A p \in best : Book!Accepts(o, p) /\ \A r \in Price : Book!Ahead(o, r, p) => r \in best
  PROVE  SumFunctionOnSet(g, Reached(q, o, best))
           = Book!Clamp(o.qty, 0, SumFunctionOnSet(Book!Depth(q, o.side), best))
<1> DEFINE d == Book!Depth(q, o.side)
           n(p) == Len(q[Book!Opposite(o.side)][p])
           Closed(P) == \A p \in P : \A r \in Price : Book!Ahead(o, r, p) => r \in P
           Good(P) == SumFunctionOnSet(g, Reached(q, o, P)) = Book!Clamp(o.qty, 0, SumFunctionOnSet(d, P))
           A == {P \in SUBSET best : Closed(P) => Good(P)}
<1>0. o.side \in Book!Side /\ o.qty \in Nat \ {0} /\ \A p \in Price : p \in Int
  BY PriceAssumption DEF Order
<1>1. \A p \in Price : q[Book!Opposite(o.side)][p] \in Seq(Entry) /\ n(p) \in Nat /\ d[p] \in Nat
  BY <1>0, Depths
<1>2. IsFiniteSet(best)
  BY PriceAssumption, FS_Subset
<1>3. \A f \in Reached(q, o, Price) : g[f] \in Nat
  <2>1. ASSUME NEW f \in Reached(q, o, Price) PROVE g[f] \in Nat
    <3>1. f[1] \in Price /\ f[2] \in 1..n(f[1])
      BY ReachedBy
    <3>2. q[Book!Opposite(o.side)][f[1]][f[2]] \in Entry
      BY <1>1, <3>1
    <3>3. Book!Taken(q, o, f[1], f[2]) \in 0..q[Book!Opposite(o.side)][f[1]][f[2]].qty
      BY <3>1, TakenFacts
    <3>4. QED
      BY <2>1, <3>2, <3>3 DEF Entry
  <2>2. QED
    BY <2>1
<1>4. ASSUME NEW P \in SUBSET best, \A t \in SUBSET P : t # P => t \in A PROVE P \in A
  <2> SUFFICES ASSUME Closed(P) PROVE Good(P)
    OBVIOUS
  <2>1. CASE P = {}
    <3>1. Reached(q, o, P) = {}
      BY <2>1 DEF Reached
    <3>2. SumFunctionOnSet(g, {}) = 0 /\ SumFunctionOnSet(d, {}) = 0
      BY SumPick, FS_EmptySet
    <3>3. QED
      BY <1>0, <2>1, <3>1, <3>2 DEF Book!Clamp
  <2>2. CASE P # {}
    <3>0. P \in SUBSET Price /\ IsFiniteSet(P)
      BY <1>2, FS_Subset
    <3>1. PICK w \in P : \A r \in P \ {w} : Book!Ahead(o, r, w)
      BY <2>2, <3>0, WorstPrice
    <3> DEFINE T == P \ {w}
    <3>2. T = {r \in Price : Book!Ahead(o, r, w)} /\ w \in Price /\ w \in best
      BY <1>0, <3>0, <3>1 DEF Book!Ahead
    <3>3. Closed(T)
      <4>1. ASSUME NEW p \in T, NEW r \in Price, Book!Ahead(o, r, p) PROVE r \in T
        <5>1. r \in P /\ Book!Ahead(o, p, w)
          BY <3>1, <4>1
        <5>2. r # w
          BY <1>0, <3>0, <4>1, <5>1 DEF Book!Ahead
        <5>3. QED
          BY <5>1, <5>2
      <4>2. QED
        BY <4>1
    <3>4. Good(T)
      BY <1>4, <3>1, <3>3
    <3>5. /\ SumFunctionOnSet(d, P) = d[w] + SumFunctionOnSet(d, T)
          /\ SumFunctionOnSet(d, T) \in Nat
      <4>1. SumFunctionOnSet(d, T) \in Nat
        BY <1>0, <3>0, DepthOfPrices
      <4>2. \A p \in P : d[p] \in Int
        BY <1>1, <3>0
      <4> HIDE DEF d
      <4>3. QED
        BY <3>0, <3>1, <4>1, <4>2, SumRemove
    <3>6. Book!LeftAt(q, o, w) = o.qty - SumFunctionOnSet(d, T)
      <4>1. T \in SUBSET Price
        BY <3>0
      <4>2. Book!SumFunctionOnSet(d, T) = SumFunctionOnSet(d, T)
        BY <1>0, <4>1, DepthOfPrices
      <4>3. Book!LeftAt(q, o, w) = o.qty - Book!SumFunctionOnSet(d, {r \in Price : Book!Ahead(o, r, w)})
        BY DEF Book!LeftAt
      <4>4. QED
        BY <3>2, <4>2, <4>3
    <3> DEFINE W == {w} \X (1..n(w))
    <3>7. Reached(q, o, P) = W \cup Reached(q, o, T) /\ W \cap Reached(q, o, T) = {}
      BY <3>1 DEF Reached
    <3>8. SumFunctionOnSet(g, W) = Book!Clamp(Book!LeftAt(q, o, w), 0, d[w])
      <4> DEFINE I == 1..n(w)
                 h == [i \in I |-> g[<<w, i>>]]
                 b == [i \in I |-> <<w, i>>]
      <4>1. \A i \in I : <<w, i>> \in Reached(q, o, Price)
        BY <3>2, ReachedBy
      <4>2. \A i \in I : h[i] = Book!Taken(q, o, w, i) /\ h[i] \in Int /\ g[b[i]] = h[i]
        BY <1>3, <4>1
      <4>3. \A i, j \in I : b[i] = b[j] => i = j
        OBVIOUS
      <4>4. W = {b[i] : i \in I}
        <5>1. \A i \in I : b[i] = <<w, i>>
          OBVIOUS
        <5>2. W = {<<w, i>> : i \in I}
          OBVIOUS
        <5> HIDE DEF b, W
        <5>3. QED
          BY <5>1, <5>2
      <4>5. IsFiniteSet(I)
        BY <1>1, <3>2, FiniteInterval
      <4> HIDE DEF h, b, I
      <4>6. SumFunctionOnSet(g, {b[i] : i \in I}) = SumFunctionOnSet(h, I)
        BY <4>2, <4>3, <4>5, SumRenamed
      <4>7. d[w] = Book!Total(q[Book!Opposite(o.side)][w])
        BY <1>0, <3>2, Depths
      <4>8. SumFunctionOnSet(h, I) = Book!Clamp(Book!LeftAt(q, o, w), 0, d[w])
        <5>1. \A i \in 1..n(w) : h[i] = Book!Taken(q, o, w, i)
          BY <4>2 DEF I
        <5>2. SumFunctionOnSet(h, 1..n(w))
                = Book!Clamp(Book!LeftAt(q, o, w), 0, Book!Total(q[Book!Opposite(o.side)][w]))
          BY <3>2, <5>1, TakenAtPrice
        <5>3. QED
          BY <4>7, <5>2 DEF I
      <4>9. QED
        BY <4>4, <4>6, <4>8
    <3>9. /\ IsFiniteSet(W) /\ IsFiniteSet(Reached(q, o, T))
          /\ \A f \in W \cup Reached(q, o, T) : g[f] \in Int
      <4>1. IsFiniteSet(Reached(q, o, P)) /\ IsFiniteSet(Reached(q, o, T))
        BY <3>0, ReachedBy
      <4>2. Reached(q, o, P) \subseteq Reached(q, o, Price)
        BY <3>0 DEF Reached
      <4>3. IsFiniteSet(W)
        BY <3>7, <4>1, FS_Subset
      <4>4. \A f \in Reached(q, o, P) : g[f] \in Int
        BY <1>3, <4>2
      <4>5. QED
        BY <3>7, <4>1, <4>3, <4>4
    <3> HIDE DEF W, T, d
    <3>10. SumFunctionOnSet(g, Reached(q, o, P)) = SumFunctionOnSet(g, W) + SumFunctionOnSet(g, Reached(q, o, T))
      BY <3>7, <3>9, SumUnion
    <3>11. SumFunctionOnSet(g, Reached(q, o, T)) = Book!Clamp(o.qty, 0, SumFunctionOnSet(d, T))
      BY <3>4
    <3>12. d[w] \in Nat /\ o.qty \in Int
      BY <1>0, <1>1, <3>2
    <3>13. /\ Book!Clamp(o.qty, 0, SumFunctionOnSet(d, T)) + Book!Clamp(o.qty - SumFunctionOnSet(d, T), 0, d[w])
                = Book!Clamp(o.qty, 0, SumFunctionOnSet(d, T) + d[w])
           /\ Book!Clamp(o.qty, 0, SumFunctionOnSet(d, T)) \in Int
           /\ Book!Clamp(o.qty - SumFunctionOnSet(d, T), 0, d[w]) \in Int
      BY <3>5, <3>12, ClampStep DEF Book!Clamp
    <3>14. SumFunctionOnSet(g, Reached(q, o, P)) = Book!Clamp(o.qty, 0, SumFunctionOnSet(d, P))
      BY <3>5, <3>6, <3>8, <3>10, <3>11, <3>12, <3>13
    <3>15. QED
      BY <3>14
  <2>3. QED
    BY <2>1, <2>2
<1> HIDE DEF A
<1>5. best \in A
  BY <1>2, <1>4, SubsetInduction
<1>6. QED
  BY <1>5 DEF A

-----------------------------------------------------------------------------
\* The fill of the order at a place.
FillAt(q, o, p, i) ==
  [maker |-> q[Book!Opposite(o.side)][p][i].id, price |-> p, place |-> i,
   qty |-> Book!Taken(q, o, p, i), last |-> q[Book!Opposite(o.side)][p][i].qty]

Filled(q, o) == {f \in Reached(q, o, Price) : Book!Taken(q, o, f[1], f[2]) > 0}

LEMMA FillsByPlace ==
  ASSUME NEW q, NEW o
  PROVE  Fills(q, o) = {FillAt(q, o, f[1], f[2]) : f \in Filled(q, o)}
BY DEF Fills, Filled, FillAt, Reached

LEMMA AcceptedPrices ==
  ASSUME NEW o \in Order
  PROVE  \A p \in Price : Book!Accepts(o, p) => \A r \in Price : Book!Ahead(o, r, p) => Book!Accepts(o, r)
<1>1. o.price \in Int /\ \A p \in Price : p \in Int
  <2>1. o.price \in Price
    BY DEF Order
  <2>2. \A p \in Price : p \in Int
    BY PriceAssumption
  <2>3. QED
    BY <2>1, <2>2
<1>2. QED
  BY <1>1 DEF Book!Accepts, Book!Ahead

\* What an order is filled with and what rests of it add up to it.
LEMMA FillsTotal ==
  ASSUME NEW q \in BookState, NEW o \in Order,
         NEW h, \A f \in Fills(q, o) : h[f] = f.qty
  PROVE  /\ IsFiniteSet(Fills(q, o))
         /\ \A f \in Fills(q, o) : f.qty \in Nat \ {0}
         /\ Book!Rest(q, o) \in 0..o.qty
         /\ SumFunctionOnSet(h, Fills(q, o)) \in Nat
         /\ SumFunctionOnSet(h, Fills(q, o)) + Book!Rest(q, o) = o.qty
<1> DEFINE best == {p \in Price : Book!Accepts(o, p)}
           all == Reached(q, o, Price)
           F == Filled(q, o)
           Z == Reached(q, o, best) \ F
           g == [f \in all |-> Book!Taken(q, o, f[1], f[2])]
           d == Book!Depth(q, o.side)
           b == [f \in F |-> FillAt(q, o, f[1], f[2])]
<1>0. o.side \in Book!Side /\ o.qty \in Nat \ {0} /\ best \in SUBSET Price
  BY DEF Order
<1>1. SumFunctionOnSet(d, best) \in Nat /\ Book!Rest(q, o) = Book!Clamp(o.qty - SumFunctionOnSet(d, best), 0, o.qty)
  BY <1>0, DepthOfPrices DEF Book!Rest
<1>2. SumFunctionOnSet(g, Reached(q, o, best)) = Book!Clamp(o.qty, 0, SumFunctionOnSet(d, best))
  <2>1. \A f \in all : g[f] = Book!Taken(q, o, f[1], f[2])
    OBVIOUS
  <2>2. \A p \in best : Book!Accepts(o, p) /\ \A r \in Price : Book!Ahead(o, r, p) => r \in best
    BY AcceptedPrices
  <2> HIDE DEF g, best
  <2>3. QED
    BY <1>0, <2>1, <2>2, TakenAtBest
<1>3. \A f \in all : Book!Taken(q, o, f[1], f[2]) \in Nat /\ (f[1] \notin best => Book!Taken(q, o, f[1], f[2]) = 0)
  <2>1. ASSUME NEW f \in all
        PROVE  Book!Taken(q, o, f[1], f[2]) \in Nat /\ (f[1] \notin best => Book!Taken(q, o, f[1], f[2]) = 0)
    <3> DEFINE s == q[Book!Opposite(o.side)][f[1]]
    <3>1. f[1] \in Price /\ f[2] \in 1..Len(s)
      BY ReachedBy
    <3>2. s \in Seq(Entry)
      BY <1>0, <3>1, Depths
    <3>3. s[f[2]] \in Entry
      BY <3>1, <3>2
    <3>4. s[f[2]].qty \in Nat \ {0}
      BY <3>3 DEF Entry
    <3>5. /\ Book!Taken(q, o, f[1], f[2]) = Book!Clamp(Book!LeftAt(q, o, f[1]) - Upto(s, f[2] - 1), 0, s[f[2]].qty)
          /\ Book!Taken(q, o, f[1], f[2]) \in 0..s[f[2]].qty
      BY <3>1, TakenFacts
    <3>6. f[2] - 1 \in 0..Len(s)
      BY <3>1, <3>2
    <3>7. Upto(s, f[2] - 1) \in Nat
      BY <3>2, <3>6, EntryTotals
    <3>8. f[1] \notin best => Book!LeftAt(q, o, f[1]) = 0
      BY <3>1 DEF Book!LeftAt
    <3>9. QED
      BY <3>4, <3>5, <3>7, <3>8 DEF Book!Clamp
  <2>2. QED
    BY <2>1
<1>4. F \subseteq Reached(q, o, best) /\ F \subseteq all /\ Reached(q, o, best) \subseteq all
  <2>1. Reached(q, o, best) \subseteq all
    BY DEF Reached
  <2>2. ASSUME NEW f \in F PROVE f \in Reached(q, o, best)
    <3>1. f \in all /\ f[1] \in best
      BY <1>3, <2>2 DEF Filled
    <3>2. f = <<f[1], f[2]>> /\ f[2] \in 1..Len(q[Book!Opposite(o.side)][f[1]])
      BY <3>1, ReachedBy
    <3>3. QED
      BY <1>0, <3>1, <3>2, ReachedBy
  <2>3. QED
    BY <2>1, <2>2 DEF Filled
<1>5. IsFiniteSet(F) /\ IsFiniteSet(Z)
  <2>1. IsFiniteSet(Reached(q, o, best))
    BY <1>0, ReachedBy
  <2>2. QED
    BY <1>4, <2>1, FS_Subset
<1>6. SumFunctionOnSet(g, Reached(q, o, best)) = SumFunctionOnSet(g, F)
  <2>1. Reached(q, o, best) = F \cup Z /\ F \cap Z = {}
    BY <1>4
  <2>2. \A f \in F \cup Z : g[f] \in Int
    BY <1>3, <1>4, <2>1
  <2>3. \A f \in Z : g[f] = 0
    BY <1>3, <1>4 DEF Filled
  <2> HIDE DEF g, Z, F, best
  <2>4. SumFunctionOnSet(g, F \cup Z) = SumFunctionOnSet(g, F) + SumFunctionOnSet(g, Z)
    BY <1>5, <2>1, <2>2, SumUnion
  <2>5. SumFunctionOnSet(g, Z) = 0
    BY <1>5, <2>3, SumZero
  <2>6. SumFunctionOnSet(g, F) \in Int
    BY <1>5, <2>2, SumPick
  <2>7. QED
    BY <2>1, <2>4, <2>5, <2>6
<1>7. Fills(q, o) = {b[f] : f \in F}
  <2>1. \A f \in F : b[f] = FillAt(q, o, f[1], f[2])
    OBVIOUS
  <2> HIDE DEF b
  <2>2. QED
    BY <2>1, FillsByPlace
<1>8. \A f \in F : h[b[f]] = g[f] /\ g[f] \in Int /\ b[f].qty \in Nat \ {0}
  <2>1. ASSUME NEW f \in F PROVE h[b[f]] = g[f] /\ g[f] \in Int /\ b[f].qty \in Nat \ {0}
    <3>1. h[b[f]] = b[f].qty
      BY <1>7
    <3>2. b[f].qty = Book!Taken(q, o, f[1], f[2])
      BY DEF FillAt
    <3>3. g[f] = Book!Taken(q, o, f[1], f[2]) /\ g[f] \in Nat /\ g[f] > 0
      BY <1>3, <1>4 DEF Filled
    <3>4. QED
      BY <3>1, <3>2, <3>3
  <2>2. QED
    BY <2>1
<1>9. \A x, y \in F : b[x] = b[y] => x = y
  <2>1. ASSUME NEW x \in F, NEW y \in F, b[x] = b[y] PROVE x = y
    <3>1. b[x].price = x[1] /\ b[x].place = x[2] /\ b[y].price = y[1] /\ b[y].place = y[2]
      BY DEF FillAt
    <3>2. x = <<x[1], x[2]>> /\ y = <<y[1], y[2]>>
      BY <1>4, ReachedBy
    <3>3. QED
      BY <2>1, <3>1, <3>2
  <2>2. QED
    BY <2>1
<1>10. IsFiniteSet(Fills(q, o))
  <2>1. b \in Surjection(F, Fills(q, o))
    BY <1>7 DEF Surjection
  <2>2. QED
    BY <1>5, <2>1, FS_Surjection
<1>11. \A f \in Fills(q, o) : f.qty \in Nat \ {0}
  BY <1>7, <1>8
<1> HIDE DEF g, b, F, Z, d, best
<1>12. SumFunctionOnSet(h, Fills(q, o)) = SumFunctionOnSet(g, F)
  BY <1>5, <1>7, <1>8, <1>9, SumRenamed
<1>13. SumFunctionOnSet(h, Fills(q, o)) = Book!Clamp(o.qty, 0, SumFunctionOnSet(d, best))
  BY <1>2, <1>6, <1>12
<1>14. \A x \in Nat : \A D \in Nat : /\ Book!Clamp(x - D, 0, x) \in 0..x
                                    /\ Book!Clamp(x, 0, D) \in Nat
                                    /\ Book!Clamp(x, 0, D) + Book!Clamp(x - D, 0, x) = x
  BY DEF Book!Clamp
<1>15. QED
  BY <1>0, <1>1, <1>10, <1>11, <1>13, <1>14

-----------------------------------------------------------------------------
(***************************************************************************)
(* What holds of every signed order                                        *)
(***************************************************************************)
SignedLabel == {Label(tx) : tx \in Signed}
NonceOf(l) == IdOf(l)[2]

LEMMA Labels ==
  /\ \A tx \in Tx : tx.kind \in {"order", "O"} =>
       Label(tx) \in LabelSet /\ IdOf(Label(tx)) = OrderId(tx) /\ Label(tx)[2] = tx.kind
  /\ \A l \in LabelSet : IdOf(l) \in Id /\ l = <<IdOf(l), l[2]>> /\ l[2] \in {"order", "O"}
  /\ \A l \in LabelSet : l \in SignedLabel <=> l[2] # "O"
  /\ \A l \in SignedLabel : l \in LabelSet /\ Owner(l) \in Addr /\ NonceOf(l) \in Nat
<1>1. \A tx : IdOf(Label(tx)) = OrderId(tx) /\ Label(tx)[2] = tx.kind /\ Label(tx) = <<OrderId(tx), tx.kind>>
  BY DEF IdOf, Label
<1>2. \A tx \in Tx : tx.kind \in {"order", "O"} => Label(tx) \in LabelSet /\ OrderId(tx) \in Id
  BY DEF LabelSet, Id, Labelled
<1>3. \A l \in LabelSet : \E tx \in Tx : tx.kind \in {"order", "O"} /\ l = Label(tx)
  BY DEF LabelSet, Labelled
<1>4. \A l \in SignedLabel : \E tx \in Tx : tx.kind = "order" /\ l = Label(tx)
  BY DEF SignedLabel, Signed
<1>5. \A tx \in Tx : tx.kind = "order" => Label(tx) \in SignedLabel
  BY DEF SignedLabel, Signed
<1>6. \A l \in LabelSet : IdOf(l) \in Id /\ l = <<IdOf(l), l[2]>> /\ l[2] \in {"order", "O"}
  BY <1>1, <1>2, <1>3
<1>7. \A l \in LabelSet : l \in SignedLabel <=> l[2] # "O"
  <2>1. ASSUME NEW l \in LabelSet, l \in SignedLabel PROVE l[2] # "O"
    BY <1>1, <1>4, <2>1
  <2>2. ASSUME NEW l \in LabelSet, l[2] # "O" PROVE l \in SignedLabel
    BY <1>1, <1>3, <1>5, <2>2
  <2>3. QED
    BY <2>1, <2>2
<1>8. ASSUME NEW l \in SignedLabel PROVE l \in LabelSet /\ Owner(l) \in Addr /\ NonceOf(l) \in Nat
  <2>1. PICK tx \in Tx : tx.kind = "order" /\ l = Label(tx)
    BY <1>4
  <2>2. IdOf(l) = <<tx.owner, tx.nonce>>
    BY <1>1, <2>1 DEF OrderId
  <2>3. tx.owner \in Addr /\ tx.nonce \in Nat
    BY <2>1, TxAssumption
  <2>4. Owner(l) = tx.owner /\ NonceOf(l) = tx.nonce
    BY <2>2 DEF Owner, NonceOf
  <2>5. QED
    BY <1>2, <2>1, <2>3, <2>4
<1>9. QED
  BY <1>1, <1>2, <1>6, <1>7, <1>8

\* An order ID has one signed label and one of an unsigned order.
LEMMA LabelsOfId ==
  ASSUME NEW l \in SignedLabel, NEW k \in LabelSet, IdOf(k) = IdOf(l)
  PROVE  k = l \/ k[2] = "O"
<1>1. l[2] = "order" /\ l = <<IdOf(l), l[2]>>
  BY Labels
<1>2. k = <<IdOf(k), k[2]>> /\ k[2] \in {"order", "O"}
  BY Labels
<1>3. QED
  BY <1>1, <1>2

LEMMA Int64IsInt == ASSUME NEW x \in Int PROVE Int64(x) \in Int
<1>1. Word \in Nat \ {0}
  BY BoundAssumption
<1>2. x % Word \in Nat
  BY <1>1
<1>3. QED
  BY <1>1, <1>2 DEF Int64

LEMMA OrderedIsNat == \A tx \in Signed : Ordered(tx) \in Nat
<1>1. ASSUME NEW tx \in Signed PROVE Ordered(tx) \in Nat
  <2>1. tx.qty \in Int
    BY TxAssumption DEF Signed
  <2>2. Int64(tx.qty) \in Int
    BY <2>1, Int64IsInt
  <2>3. QED
    BY <2>2 DEF Ordered
<1>2. QED
  BY <1>1

LEMMA RestingBy ==
  ASSUME NEW a, NEW l
  PROVE  /\ \A e \in RestingOf(a, l) :
              /\ e = <<e[1], e[2], e[3]>> /\ e[1] \in Book!Side /\ e[2] \in Price
              /\ e[3] \in 1..Len(a.level[e[1]][e[2]])
              /\ a.level[e[1]][e[2]][e[3]].id = l
         /\ \A s \in Book!Side, p \in Price : \A i \in 1..Len(a.level[s][p]) :
              a.level[s][p][i].id = l => <<s, p, i>> \in RestingOf(a, l)
<1> DEFINE at(s, p) == {<<s, p, i>> : i \in {i \in 1..Len(a.level[s][p]) : a.level[s][p][i].id = l}}
<1>1. \A e : e \in RestingOf(a, l) <=> \E s \in Book!Side, p \in Price : e \in at(s, p)
  <2>1. RestingOf(a, l) = UNION {at(s, p) : s \in Book!Side, p \in Price}
    BY DEF RestingOf
  <2> HIDE DEF at
  <2>2. QED
    BY <2>1
<1>2. \A s, p : \A e \in at(s, p) :
        /\ e = <<e[1], e[2], e[3]>> /\ e[1] = s /\ e[2] = p
        /\ e[3] \in 1..Len(a.level[s][p]) /\ a.level[s][p][e[3]].id = l
  OBVIOUS
<1>3. \A s, p : \A i \in 1..Len(a.level[s][p]) : a.level[s][p][i].id = l => <<s, p, i>> \in at(s, p)
  OBVIOUS
<1> HIDE DEF at
<1>4. QED
  BY <1>1, <1>2, <1>3

LEMMA RestsAt ==
  ASSUME NEW a, NEW l, NEW s \in Book!Side, NEW p \in Price,
         NEW i \in 1..Len(a.level[s][p]), a.level[s][p][i].id = l
  PROVE  <<s, p, i>> \in RestingOf(a, l)
BY RestingBy

RestingQty(a, e) == a.level[e[1]][e[2]][e[3]].qty

\* What the state of the application is made of.
AppType(a) ==
  /\ DOMAIN a = AppField
  /\ a.nonce \in [Addr -> Nat]
  /\ a.level \in BookState
  /\ a.index \in [Id -> Price \cup {0}]
  /\ DOMAIN a.traded = LabelSet
  /\ a.rejected \subseteq SignedLabel

\* A signed order rests at most once, where the index says unless an unsigned
\* order had its ID, ...
RestsOnce(a, l) ==
  \A e, f \in RestingOf(a, l) : e = f /\ (IdOf(l) \notin a.unsigned => a.index[IdOf(l)] = e[2])

\* ... trades and rests within what was signed, ...
WithinSigned(a, l) ==
  /\ a.traded[l] \in Nat
  /\ \E tx \in Signed :
       /\ Label(tx) = l
       /\ a.traded[l] <= Ordered(tx)
       /\ \A e \in RestingOf(a, l) : a.traded[l] + RestingQty(a, e) <= Ordered(tx)

\* ... neither if it was rejected, and not before its nonce was consumed.
OnlyOnce(a, l) ==
  /\ l \in a.rejected => a.traded[l] = 0 /\ RestingOf(a, l) = {}
  /\ l \in a.rejected \/ a.traded[l] # 0 \/ RestingOf(a, l) # {} => (NonceOf(l) % Word) <= a.nonce[Owner(l)]

OrderInv(a, l) == RestsOnce(a, l) /\ WithinSigned(a, l) /\ OnlyOnce(a, l)

\* The history has the ID of every unsigned order that rests.
UnsignedKnown(a) == \A l \in LabelSet : l[2] = "O" /\ RestingOf(a, l) # {} => IdOf(l) \in a.unsigned

AppInv(a) == AppType(a) /\ UnsignedKnown(a) /\ \A l \in SignedLabel : OrderInv(a, l)

-----------------------------------------------------------------------------
LEMMA RestingQtyIsNat ==
  ASSUME NEW a, a.level \in BookState, NEW l, NEW e \in RestingOf(a, l)
  PROVE  RestingQty(a, e) \in Nat \ {0}
<1>1. e[1] \in Book!Side /\ e[2] \in Price /\ e[3] \in 1..Len(a.level[e[1]][e[2]])
  BY RestingBy
<1>2. a.level[e[1]][e[2]] \in Seq(Entry)
  BY <1>1 DEF BookState
<1>3. a.level[e[1]][e[2]][e[3]] \in Entry
  BY <1>1, <1>2
<1>4. QED
  BY <1>3 DEF Entry, RestingQty

\* The queues after an order.
LEMMA AfterFacts ==
  ASSUME NEW q \in BookState, NEW o \in Order
  PROVE  /\ Book!After(q, o) \in BookState
         /\ \A p \in Price :
              /\ Book!After(q, o)[o.side][p] = q[o.side][p] \o Book!Resting(q, o, p)
              /\ q[o.side][p] \in Seq(Entry)
              /\ Book!Resting(q, o, p) \in Seq(Entry)
              /\ Book!After(q, o)[Book!Opposite(o.side)][p] = Book!Served(q, o, p)
<1>1. /\ o.side \in Book!Side /\ Book!Opposite(o.side) \in Book!Side /\ Book!Opposite(o.side) # o.side
      /\ Book!Side = {o.side, Book!Opposite(o.side)}
  BY Sides DEF Order
<1>2. ASSUME NEW p \in Price
      PROVE  /\ q[o.side][p] \in Seq(Entry)
             /\ Book!Resting(q, o, p) \in Seq(Entry)
             /\ Book!Served(q, o, p) \in Seq(Entry)
  <2>1. q[o.side][p] \in Seq(Entry)
    BY <1>1 DEF BookState
  <2>2. \E k : IsServed(q, o, p, q[Book!Opposite(o.side)][p], k)
    BY ServedFacts
  <2>3. Book!Served(q, o, p) \in Seq(Entry)
    BY <2>2 DEF IsServed
  <2>4. Book!Resting(q, o, p) \in Seq(Entry)
    <3>1. Book!Rest(q, o) > 0 => [id |-> o.id, qty |-> Book!Rest(q, o)] \in Entry
      <4> DEFINE h == [f \in Fills(q, o) |-> f.qty]
      <4>1. \A f \in Fills(q, o) : h[f] = f.qty
        OBVIOUS
      <4> HIDE DEF h
      <4>2. Book!Rest(q, o) \in 0..o.qty /\ o.qty \in Nat
        BY <4>1, FillsTotal DEF Order
      <4>3. QED
        BY <4>2 DEF Entry, Order
    <3>2. QED
      BY <3>1 DEF Book!Resting
  <2>5. QED
    BY <2>1, <2>3, <2>4
<1>3. \A p \in Price : /\ Book!After(q, o)[o.side][p] = q[o.side][p] \o Book!Resting(q, o, p)
                       /\ Book!After(q, o)[Book!Opposite(o.side)][p] = Book!Served(q, o, p)
  BY <1>1 DEF Book!After
<1>4. \A p \in Price : q[o.side][p] \o Book!Resting(q, o, p) \in Seq(Entry)
  BY <1>2
<1>5. Book!After(q, o) \in BookState
  BY <1>1, <1>2, <1>4 DEF Book!After, BookState
<1>6. QED
  BY <1>2, <1>3, <1>5

\* How far the queue at p moves up.
Shift(q, o, p) == CHOOSE k : IsServed(q, o, p, q[Book!Opposite(o.side)][p], k)

\* Where a resting order comes from: it stayed where it was, or it moved up, or
\* it is what rests of the order that was placed.  (b is the application after.)
Stayed(a, b, o, l, e) ==
  e[1] = o.side /\ e \in RestingOf(a, l) /\ RestingQty(b, e) = RestingQty(a, e)
From(a, o, e) == <<e[1], e[2], e[3] + Shift(a.level, o, e[2])>>
Moved(a, b, o, l, e) ==
  /\ e[1] = Book!Opposite(o.side)
  /\ From(a, o, e) \in RestingOf(a, l)
  /\ RestingQty(b, e) = RestingQty(a, From(a, o, e)) - Book!Taken(a.level, o, e[2], e[3] + Shift(a.level, o, e[2]))
Entered(a, b, o, l, e) ==
  /\ l = o.id
  /\ e = <<o.side, o.price, Len(a.level[o.side][o.price]) + 1>>
  /\ Book!Resting(a.level, o, o.price) # <<>>
  /\ RestingQty(b, e) = Book!Rest(a.level, o)

LEMMA Origins ==
  ASSUME NEW a, AppType(a), NEW o \in Order, NEW l,
         NEW b, b.level = Book!After(a.level, o), NEW e \in RestingOf(b, l)
  PROVE  Stayed(a, b, o, l, e) \/ Moved(a, b, o, l, e) \/ Entered(a, b, o, l, e)
<1> DEFINE q == a.level
<1>1. q \in BookState /\ b.level = Book!After(q, o)
  BY DEF AppType
<1>2. /\ e = <<e[1], e[2], e[3]>> /\ e[1] \in Book!Side /\ e[2] \in Price
      /\ e[3] \in 1..Len(Book!After(q, o)[e[1]][e[2]])
      /\ Book!After(q, o)[e[1]][e[2]][e[3]].id = l
  BY <1>1, RestingBy
<1>3. o.side \in Book!Side /\ Book!Opposite(o.side) # o.side /\ Book!Side = {o.side, Book!Opposite(o.side)}
  BY Sides DEF Order
<1> DEFINE p == e[2]
           i == e[3]
<1>4. CASE e[1] = o.side
  <2> DEFINE s == q[o.side][p]
             t == Book!Resting(q, o, p)
  <2>1. Book!After(q, o)[o.side][p] = s \o t /\ s \in Seq(Entry) /\ t \in Seq(Entry)
    BY <1>1, <1>2, AfterFacts
  <2> HIDE DEF s, t
  <2>0. /\ Len(s \o t) = Len(s) + Len(t) /\ Len(s) \in Nat /\ Len(t) \in Nat
        /\ \A j \in 1..(Len(s) + Len(t)) : (s \o t)[j] = IF j <= Len(s) THEN s[j] ELSE t[j - Len(s)]
    BY <2>1, ConcatProperties
  <2>2. i \in 1..(Len(s) + Len(t)) /\ (s \o t)[i].id = l
    BY <1>2, <1>4, <2>0, <2>1
  <2>3. CASE i <= Len(s)
    <3>1. (s \o t)[i] = s[i] /\ i \in 1..Len(s)
      BY <2>0, <2>2, <2>3
    <3>2. s[i].id = l
      BY <2>2, <3>1
    <3>3. e \in RestingOf(a, l)
      <4>1. i \in 1..Len(a.level[o.side][p]) /\ a.level[o.side][p][i].id = l
        BY <3>1, <3>2 DEF s
      <4>2. <<o.side, p, i>> \in RestingOf(a, l)
        BY <1>2, <1>3, <4>1, RestsAt
      <4>3. e = <<o.side, p, i>>
        BY <1>2, <1>4
      <4>4. QED
        BY <4>2, <4>3
    <3>4. RestingQty(b, e) = (s \o t)[i].qty /\ RestingQty(a, e) = s[i].qty
      BY <1>1, <1>4, <2>1 DEF RestingQty, s
    <3>5. QED
      BY <1>4, <3>1, <3>3, <3>4 DEF Stayed
  <2>4. CASE ~(i <= Len(s))
    <3>1. t # <<>>
      BY <2>0, <2>2, <2>4
    <3>2. p = o.price /\ t = <<[id |-> o.id, qty |-> Book!Rest(q, o)]>>
      BY <3>1 DEF Book!Resting, t
    <3>3. i = Len(s) + 1 /\ Len(t) = 1 /\ t[1] = [id |-> o.id, qty |-> Book!Rest(q, o)]
      <4>1. Len(t) = 1 /\ t[1] = [id |-> o.id, qty |-> Book!Rest(q, o)]
        BY <3>2
      <4>2. QED
        BY <2>0, <2>2, <2>4, <4>1
    <3>4. (s \o t)[i] = t[1]
      BY <2>0, <2>2, <2>4, <3>3
    <3>5. l = o.id /\ (s \o t)[i].qty = Book!Rest(q, o)
      BY <2>2, <3>3, <3>4
    <3>6. RestingQty(b, e) = (s \o t)[i].qty
      BY <1>1, <1>4, <2>1 DEF RestingQty, s
    <3>7. e = <<o.side, o.price, Len(q[o.side][o.price]) + 1>>
      BY <1>2, <1>4, <3>2, <3>3 DEF s
    <3>8. t = Book!Resting(q, o, o.price)
      BY <3>2 DEF t
    <3>9. QED
      BY <3>1, <3>8, <3>2, <3>5, <3>6, <3>7 DEF Entered
  <2>5. QED
    BY <2>3, <2>4
<1>5. CASE e[1] = Book!Opposite(o.side)
  <2> DEFINE s == q[Book!Opposite(o.side)][p]
             k == Shift(q, o, p)
  <2>1. IsServed(q, o, p, s, k)
    <3>1. \E n : IsServed(q, o, p, s, n)
      BY <1>1, <1>2, ServedFacts
    <3>2. QED
      BY <3>1 DEF Shift
  <2>2. Book!After(q, o)[Book!Opposite(o.side)][p] = Book!Served(q, o, p)
    BY <1>1, <1>2, AfterFacts
  <2> HIDE DEF k
  <2>3. i \in 1..(Len(s) - k) /\ Book!Served(q, o, p)[i].id = l
    BY <1>2, <1>5, <2>1, <2>2 DEF IsServed
  <2>4. /\ i + k \in 1..Len(s)
        /\ Book!Served(q, o, p)[i].id = s[i + k].id
        /\ Book!Served(q, o, p)[i].qty = s[i + k].qty - Book!Taken(q, o, p, i + k)
    BY <2>1, <2>3 DEF IsServed
  <2>5. <<Book!Opposite(o.side), p, i + k>> \in RestingOf(a, l)
    <3>1. i + k \in 1..Len(s) /\ s[i + k].id = l
      BY <2>3, <2>4
    <3>2. Book!Opposite(o.side) \in Book!Side /\ p \in Price
      BY <1>2, <1>3
    <3>3. QED
      BY <3>1, <3>2, RestsAt
  <2>6. From(a, o, e) = <<Book!Opposite(o.side), p, i + k>>
    BY <1>5 DEF From, k
  <2>7. RestingQty(b, e) = Book!Served(q, o, p)[i].qty
    BY <1>1, <1>5, <2>2 DEF RestingQty
  <2>8. RestingQty(a, From(a, o, e)) = s[i + k].qty
    BY <2>6 DEF RestingQty
  <2>9. QED
    BY <1>5, <2>4, <2>5, <2>6, <2>7, <2>8 DEF Moved, k
<1>6. QED
  BY <1>2, <1>3, <1>4, <1>5

\* A fill is of an order that rests on the other side.
LEMMA FillsRest ==
  ASSUME NEW a, AppType(a), NEW o \in Order, NEW f \in Fills(a.level, o),
         NEW e, e = <<Book!Opposite(o.side), f.price, f.place>>
  PROVE  /\ e \in RestingOf(a, f.maker)
         /\ f = FillAt(a.level, o, e[2], e[3])
         /\ f.qty = Book!Taken(a.level, o, e[2], e[3])
         /\ f.last = RestingQty(a, e)
<1> DEFINE q == a.level
<1>1. PICK x \in Filled(q, o) : f = FillAt(q, o, x[1], x[2])
  BY FillsByPlace
<1>2. f.price = x[1] /\ f.place = x[2]
  BY <1>1 DEF FillAt
<1>3. q \in BookState /\ o.side \in Book!Side
  BY DEF AppType, Order
<1>4. x[1] \in Price /\ x[2] \in 1..Len(q[Book!Opposite(o.side)][x[1]])
  BY <1>3, ReachedBy DEF Filled
<1>5. f = FillAt(q, o, e[2], e[3]) /\ e = <<Book!Opposite(o.side), x[1], x[2]>>
  BY <1>1, <1>2
<1>6. f.maker = q[Book!Opposite(o.side)][x[1]][x[2]].id
  BY <1>1 DEF FillAt
<1>7. e \in RestingOf(a, f.maker)
  <2>1. Book!Opposite(o.side) \in Book!Side
    BY <1>3, Sides
  <2>2. <<Book!Opposite(o.side), x[1], x[2]>> \in RestingOf(a, f.maker)
    BY <1>4, <1>6, <2>1, RestsAt
  <2>3. QED
    BY <1>5, <2>2
<1>8. f.qty = Book!Taken(q, o, e[2], e[3]) /\ f.last = RestingQty(a, e)
  BY <1>5 DEF FillAt, RestingQty
<1>9. QED
  BY <1>5, <1>7, <1>8

\* A resting order from which o takes something is filled.
LEMMA RestingFills ==
  ASSUME NEW a, AppType(a), NEW o \in Order, NEW l, NEW e \in RestingOf(a, l),
         e[1] = Book!Opposite(o.side)
  PROVE  /\ Book!Taken(a.level, o, e[2], e[3]) \in 0..RestingQty(a, e)
         /\ Book!Taken(a.level, o, e[2], e[3]) > 0 =>
              FillAt(a.level, o, e[2], e[3]) \in Fills(a.level, o) /\ FillAt(a.level, o, e[2], e[3]).maker = l
<1> DEFINE q == a.level
<1>1. q \in BookState
  BY DEF AppType
<1>2. e[2] \in Price /\ e[3] \in 1..Len(q[Book!Opposite(o.side)][e[2]]) /\ q[Book!Opposite(o.side)][e[2]][e[3]].id = l
  BY RestingBy
<1>3. Book!Taken(q, o, e[2], e[3]) \in 0..q[Book!Opposite(o.side)][e[2]][e[3]].qty
  BY <1>1, <1>2, TakenFacts
<1>4. <<e[2], e[3]>> \in Reached(q, o, Price)
  BY <1>1, <1>2, ReachedBy
<1>5. Book!Taken(q, o, e[2], e[3]) > 0 => <<e[2], e[3]>> \in Filled(q, o)
  BY <1>4 DEF Filled
<1>6. FillAt(q, o, e[2], e[3]).maker = l
  BY <1>2 DEF FillAt
<1>7. QED
  BY <1>3, <1>5, <1>6, FillsByPlace DEF RestingQty

\* What a resting order loses to o.
Loss(a, o, e) == IF e[1] = Book!Opposite(o.side) THEN Book!Taken(a.level, o, e[2], e[3]) ELSE 0

LEMMA LossOfOrder ==
  ASSUME NEW a, AppType(a), NEW o \in Order, NEW l,
         NEW e \in RestingOf(a, l), \A f \in RestingOf(a, l) : f = e,
         NEW h, \A f \in Fills(a.level, o) : h[f] = f.qty
  PROVE  /\ Loss(a, o, e) \in 0..RestingQty(a, e)
         /\ SumFunctionOnSet(h, {f \in Fills(a.level, o) : f.maker = l}) = Loss(a, o, e)
<1> DEFINE M == {f \in Fills(a.level, o) : f.maker = l}
           x == FillAt(a.level, o, e[2], e[3])
<1>1. a.level \in BookState /\ RestingQty(a, e) \in Nat \ {0}
  BY RestingQtyIsNat DEF AppType
<1>2. Loss(a, o, e) \in 0..RestingQty(a, e)
  BY <1>1, RestingFills DEF Loss
<1>3. \A f \in M : e[1] = Book!Opposite(o.side) /\ f = x /\ f.qty = Loss(a, o, e)
  <2>1. ASSUME NEW f \in M PROVE e[1] = Book!Opposite(o.side) /\ f = x /\ f.qty = Loss(a, o, e)
    <3>1. PICK g : g = <<Book!Opposite(o.side), f.price, f.place>>
      OBVIOUS
    <3>2. g \in RestingOf(a, l) /\ f = FillAt(a.level, o, g[2], g[3]) /\ f.qty = Book!Taken(a.level, o, g[2], g[3])
      BY <3>1, FillsRest
    <3>3. g = e /\ g[1] = Book!Opposite(o.side)
      BY <3>1, <3>2
    <3>4. QED
      BY <3>2, <3>3 DEF Loss
  <2>2. QED
    BY <2>1
<1>4. \A f \in Fills(a.level, o) : f.qty \in Nat \ {0} /\ h[f] \in Int
  BY <1>1, FillsTotal
<1>5. CASE Loss(a, o, e) = 0
  <2>1. M = {}
    <3>1. \A f \in M : f.qty = 0 /\ f.qty \in Nat \ {0}
      BY <1>3, <1>4, <1>5
    <3>2. QED
      BY <3>1
  <2>2. SumFunctionOnSet(h, {}) = 0
    BY FS_EmptySet, SumPick
  <2>3. QED
    BY <1>2, <1>5, <2>1, <2>2
<1>6. CASE Loss(a, o, e) # 0
  <2>1. e[1] = Book!Opposite(o.side) /\ Book!Taken(a.level, o, e[2], e[3]) > 0
    BY <1>1, <1>2, <1>6 DEF Loss
  <2>2. x \in Fills(a.level, o) /\ x.maker = l
    BY <2>1, RestingFills
  <2>3. M = {x} /\ h[x] = Loss(a, o, e)
    BY <1>3, <2>2
  <2> HIDE DEF x
  <2>4. IsFiniteSet({x}) /\ IsFiniteSet({})
    BY FS_Singleton, FS_EmptySet
  <2>5. h[x] \in Int
    BY <1>4, <2>2
  <2>6. SumFunctionOnSet(h, {x}) = h[x] + SumFunctionOnSet(h, {x} \ {x})
    BY <2>4, <2>5, SumRemove
  <2>7. SumFunctionOnSet(h, {x} \ {x}) = 0
    <3>1. {x} \ {x} = {}
      OBVIOUS
    <3>2. SumFunctionOnSet(h, {}) = 0
      BY <2>4, SumPick
    <3>3. QED
      BY <3>1, <3>2
  <2>8. SumFunctionOnSet(h, {x}) = h[x]
    BY <2>5, <2>6, <2>7
  <2>9. QED
    BY <1>2, <2>3, <2>8
<1>7. QED
  BY <1>5, <1>6

-----------------------------------------------------------------------------
(***************************************************************************)
(* Placing an order                                                        *)
(***************************************************************************)
LEMMA PlacedTypes ==
  ASSUME NEW a, AppType(a), NEW o \in Order, NEW at, NEW X PROVE AppType(Placed(a, o, at, X))
<1> DEFINE b == Placed(a, o, at, X)
<1>1. /\ DOMAIN b = AppField /\ b.nonce = a.nonce /\ b.rejected = a.rejected
      /\ b.level = Book!After(a.level, o) /\ b.index = Reindexed(a, o) /\ b.traded = TradedBy(a, o)
  BY DEF Placed, AppType, AppField
<1>2. b.level \in BookState
  BY <1>1, AfterFacts DEF AppType
<1>3. b.index \in [Id -> Price \cup {0}]
  <2>1. Reindexed(a, o) \in [Id -> Price \cup {0}]
    <3>1. o.price \in Price /\ a.index \in [Id -> Price \cup {0}]
      BY DEF Order, AppType
    <3>2. QED
      BY <3>1 DEF Reindexed
  <2>2. QED
    BY <1>1, <2>1
<1>4. DOMAIN b.traded = LabelSet
  BY <1>1 DEF TradedBy
<1> HIDE DEF b
<1>5. AppType(b)
  BY <1>1, <1>2, <1>3, <1>4 DEF AppType
<1>6. QED
  BY <1>5 DEF b

\* What o adds to what was traded.
LEMMA TradedByOrder ==
  ASSUME NEW a, AppType(a), NEW o \in Order, NEW at, NEW X, NEW l \in LabelSet,
         NEW h, h = [f \in Fills(a.level, o) |-> f.qty]
  PROVE  Placed(a, o, at, X).traded[l]
           = a.traded[l] + (IF l = o.id THEN SumFunctionOnSet(h, Fills(a.level, o)) ELSE 0)
             + SumFunctionOnSet(h, {f \in Fills(a.level, o) : f.maker = l})
<1>1. Placed(a, o, at, X).traded = TradedBy(a, o)
  BY DEF Placed, AppType, AppField
<1>2. DOMAIN h = Fills(a.level, o)
  OBVIOUS
<1>3. TradedBy(a, o)[l] = a.traded[l] + (IF l = o.id THEN SumFunction(h) ELSE 0)
             + SumFunctionOnSet(h, {f \in DOMAIN h : f.maker = l})
  BY DEF TradedBy
<1>4. SumFunction(h) = SumFunctionOnSet(h, Fills(a.level, o))
  BY <1>2 DEF SumFunction
<1>5. QED
  BY <1>1, <1>2, <1>3, <1>4

\* Another order than the one that is placed.
LEMMA PlacedOther ==
  ASSUME NEW a, AppType(a), UnsignedKnown(a), NEW o \in Order, NEW at, NEW X,
         NEW l \in SignedLabel, l # o.id, OrderInv(a, l)
  PROVE  OrderInv(Placed(a, o, at, X), l)
<1> DEFINE b == Placed(a, o, at, X)
           M == {f \in Fills(a.level, o) : f.maker = l}
<1>0. l \in LabelSet /\ IdOf(l) \in Id
  BY Labels
<1>1. /\ b.nonce = a.nonce /\ b.rejected = a.rejected /\ b.index = Reindexed(a, o)
      /\ b.level = Book!After(a.level, o)
      /\ b.unsigned = a.unsigned \cup (IF o.id[2] = "O" THEN {IdOf(o.id)} ELSE {})
  BY DEF Placed, AppType, AppField
<1>2. PICK h : h = [f \in Fills(a.level, o) |-> f.qty]
  OBVIOUS
<1>3. \A f \in Fills(a.level, o) : h[f] = f.qty
  BY <1>2
<1>4. b.traded[l] = a.traded[l] + 0 + SumFunctionOnSet(h, M)
  <2>1. b.traded[l] = a.traded[l] + (IF l = o.id THEN SumFunctionOnSet(h, Fills(a.level, o)) ELSE 0) + SumFunctionOnSet(h, M)
    BY <1>0, <1>2, TradedByOrder
  <2>2. QED
    BY <2>1
<1>5. a.traded[l] \in Nat
  BY DEF OrderInv, WithinSigned
<1>6. CASE RestingOf(a, l) = {}
  <2>1. M = {}
    BY <1>6, FillsRest
  <2>2. SumFunctionOnSet(h, M) = 0
    BY <2>1, FS_EmptySet, SumPick
  <2>3. b.traded[l] = a.traded[l]
    BY <1>4, <1>5, <2>2
  <2>4. RestingOf(b, l) = {}
    <3>1. \A e \in RestingOf(b, l) : Stayed(a, b, o, l, e) \/ Moved(a, b, o, l, e) \/ Entered(a, b, o, l, e)
      BY <1>1, Origins
    <3>2. QED
      BY <1>6, <3>1 DEF Stayed, Moved, Entered
  <2> HIDE DEF b, M
  <2>5. OrderInv(b, l)
    BY <1>1, <1>6, <2>3, <2>4 DEF OrderInv, RestsOnce, WithinSigned, OnlyOnce
  <2>6. QED
    BY <2>5 DEF b
<1>7. CASE RestingOf(a, l) # {}
  <2>1. PICK e \in RestingOf(a, l) : TRUE
    BY <1>7
  <2>2. \A f \in RestingOf(a, l) : f = e
    BY <2>1 DEF OrderInv, RestsOnce
  <2>3. IdOf(l) \notin a.unsigned => a.index[IdOf(l)] = e[2]
    BY <2>1 DEF OrderInv, RestsOnce
  <2>4. Loss(a, o, e) \in 0..RestingQty(a, e) /\ SumFunctionOnSet(h, M) = Loss(a, o, e) /\ RestingQty(a, e) \in Nat \ {0}
    <3>1. Loss(a, o, e) \in 0..RestingQty(a, e) /\ SumFunctionOnSet(h, M) = Loss(a, o, e)
      BY <1>3, <2>1, <2>2, LossOfOrder
    <3>2. RestingQty(a, e) \in Nat \ {0}
      BY <2>1, RestingQtyIsNat DEF AppType
    <3>3. QED
      BY <3>1, <3>2
  <2>5. b.traded[l] = a.traded[l] + Loss(a, o, e) /\ b.traded[l] \in Nat
    BY <1>4, <1>5, <2>4
  <2>6. ASSUME NEW f \in RestingOf(b, l)
        PROVE  /\ f = <<e[1], e[2], e[3] - (IF e[1] = o.side THEN 0 ELSE Shift(a.level, o, e[2]))>>
               /\ RestingQty(b, f) = RestingQty(a, e) - Loss(a, o, e)
    <3>0. e[1] \in Book!Side /\ o.side \in Book!Side /\ Book!Opposite(o.side) # o.side
          /\ Book!Side = {o.side, Book!Opposite(o.side)} /\ f = <<f[1], f[2], f[3]>> /\ f[3] \in Int
      <4>1. f = <<f[1], f[2], f[3]>> /\ f[3] \in Int /\ e[1] \in Book!Side
        BY <2>1, RestingBy
      <4>2. QED
        BY <4>1, Sides DEF Order
    <3>1. Stayed(a, b, o, l, f) \/ Moved(a, b, o, l, f)
      BY <1>1, Origins DEF Entered
    <3>2. CASE Stayed(a, b, o, l, f)
      <4>1. f = e /\ e[1] = o.side /\ RestingQty(b, f) = RestingQty(a, e)
        BY <2>2, <3>2 DEF Stayed
      <4>2. Loss(a, o, e) = 0
        BY <3>0, <4>1 DEF Loss
      <4>3. e[3] - 0 = e[3]
        BY <3>0, <4>1
      <4>4. QED
        BY <2>4, <3>0, <4>1, <4>2, <4>3
    <3>3. CASE Moved(a, b, o, l, f)
      <4> DEFINE k == Shift(a.level, o, f[2])
      <4>1. From(a, o, f) = e /\ f[1] = Book!Opposite(o.side)
        BY <2>2, <3>3 DEF Moved
      <4>2. e[1] = f[1] /\ e[2] = f[2] /\ e[3] = f[3] + k
        BY <4>1 DEF From
      <4>3. k \in Int
        <5>1. a.level \in BookState /\ f[2] \in Price
          BY RestingBy DEF AppType
        <5>2. \E n : IsServed(a.level, o, f[2], a.level[Book!Opposite(o.side)][f[2]], n)
          BY <5>1, ServedFacts
        <5>3. IsServed(a.level, o, f[2], a.level[Book!Opposite(o.side)][f[2]], k)
          BY <5>2 DEF Shift
        <5> HIDE DEF k
        <5>4. QED
          BY <5>3 DEF IsServed
      <4>4. RestingQty(b, f) = RestingQty(a, e) - Book!Taken(a.level, o, e[2], e[3])
        BY <3>3, <4>1, <4>2 DEF Moved
      <4>5. Loss(a, o, e) = Book!Taken(a.level, o, e[2], e[3])
        BY <4>1, <4>2 DEF Loss
      <4>6. f[3] = e[3] - k /\ e[1] # o.side
        BY <3>0, <4>1, <4>2, <4>3
      <4>7. f = <<e[1], e[2], e[3] - (IF e[1] = o.side THEN 0 ELSE Shift(a.level, o, e[2]))>>
        BY <3>0, <4>2, <4>6
      <4>8. QED
        BY <4>4, <4>5, <4>7
    <3>4. QED
      BY <3>1, <3>2, <3>3
  <2>7. ASSUME NEW f \in RestingOf(b, l), IdOf(l) \notin b.unsigned PROVE b.index[IdOf(l)] = a.index[IdOf(l)]
    <3>0. IdOf(l) \notin a.unsigned /\ IdOf(o.id) # IdOf(l)
      <4>1. IdOf(o.id) = IdOf(l) => o.id[2] = "O"
        BY LabelsOfId DEF Order
      <4>2. QED
        BY <1>1, <2>7, <4>1
    <3>1. \A x \in Fills(a.level, o) : x.maker = l => x.qty # x.last
      <4>1. ASSUME NEW x \in Fills(a.level, o), x.maker = l, x.qty = x.last PROVE FALSE
        <5>1. PICK g : g = <<Book!Opposite(o.side), x.price, x.place>>
          OBVIOUS
        <5>2. /\ g \in RestingOf(a, l) /\ x.last = RestingQty(a, g)
              /\ x.qty = Book!Taken(a.level, o, g[2], g[3])
          BY <4>1, <5>1, FillsRest
        <5>3. g = e /\ e[1] = Book!Opposite(o.side)
          BY <2>2, <5>1, <5>2
        <5>4. Loss(a, o, e) = RestingQty(a, e)
          BY <4>1, <5>2, <5>3 DEF Loss
        <5>5. RestingQty(b, f) = 0
          BY <2>4, <2>6, <5>4
        <5>6. AppType(b)
          BY PlacedTypes
        <5>7. RestingQty(b, f) \in Nat \ {0}
          <6> HIDE DEF b
          <6>1. QED
            BY <5>6, RestingQtyIsNat DEF AppType
        <5>8. QED
          BY <5>5, <5>7
      <4>2. QED
        BY <4>1
    <3>2. \A x \in Fills(a.level, o) : IdOf(x.maker) = IdOf(l) => x.maker = l
      <4>1. ASSUME NEW x \in Fills(a.level, o), IdOf(x.maker) = IdOf(l) PROVE x.maker = l
        <5>1. PICK g : g = <<Book!Opposite(o.side), x.price, x.place>>
          OBVIOUS
        <5>2. g \in RestingOf(a, x.maker)
          BY <5>1, FillsRest
        <5>3. x.maker \in LabelSet
          <6>1. /\ g[1] \in Book!Side /\ g[2] \in Price /\ g[3] \in 1..Len(a.level[g[1]][g[2]])
                /\ a.level[g[1]][g[2]][g[3]].id = x.maker
            BY <5>2, RestingBy
          <6>2. a.level[g[1]][g[2]] \in Seq(Entry)
            BY <6>1 DEF AppType, BookState
          <6>3. a.level[g[1]][g[2]][g[3]] \in Entry
            BY <6>1, <6>2
          <6>4. QED
            BY <6>1, <6>3 DEF Entry
        <5>4. x.maker[2] # "O"
          BY <3>0, <4>1, <5>2, <5>3 DEF UnsignedKnown
        <5>5. QED
          BY <4>1, <5>3, <5>4, LabelsOfId
      <4>2. QED
        BY <4>1
    <3>3. IdOf(l) \notin {IdOf(x.maker) : x \in {x \in Fills(a.level, o) : x.qty = x.last}}
      BY <3>1, <3>2
    <3>4. Reindexed(a, o)[IdOf(l)] = a.index[IdOf(l)]
      BY <1>0, <3>0, <3>3 DEF Reindexed
    <3>5. QED
      BY <1>1, <3>4
  <2>8. RestsOnce(b, l)
    <3>1. ASSUME NEW f \in RestingOf(b, l), NEW g \in RestingOf(b, l)
          PROVE  f = g /\ (IdOf(l) \notin b.unsigned => b.index[IdOf(l)] = f[2])
      <4>1. f = g /\ f[2] = e[2]
        BY <2>6
      <4>2. IdOf(l) \notin b.unsigned => IdOf(l) \notin a.unsigned
        BY <1>1
      <4>3. QED
        BY <2>3, <2>7, <4>1, <4>2
    <3> HIDE DEF b
    <3>2. QED
      BY <3>1 DEF RestsOnce
  <2>9. WithinSigned(b, l)
    <3>1. PICK tx \in Signed : Label(tx) = l /\ a.traded[l] <= Ordered(tx) /\ a.traded[l] + RestingQty(a, e) <= Ordered(tx)
      BY <2>1 DEF OrderInv, WithinSigned
    <3>2. Ordered(tx) \in Nat
      BY OrderedIsNat
    <3>3. b.traded[l] <= Ordered(tx)
      BY <1>5, <2>4, <2>5, <3>1, <3>2
    <3>4. \A f \in RestingOf(b, l) : b.traded[l] + RestingQty(b, f) <= Ordered(tx)
      <4>1. ASSUME NEW f \in RestingOf(b, l) PROVE b.traded[l] + RestingQty(b, f) <= Ordered(tx)
        <5>1. RestingQty(b, f) = RestingQty(a, e) - Loss(a, o, e)
          BY <2>6
        <5>2. QED
          BY <1>5, <2>4, <2>5, <3>1, <3>2, <5>1
      <4>2. QED
        BY <4>1
    <3> HIDE DEF b
    <3>5. QED
      BY <2>5, <3>1, <3>3, <3>4 DEF WithinSigned
  <2>10. OnlyOnce(b, l)
    <3>1. l \notin a.rejected /\ (NonceOf(l) % Word) <= a.nonce[Owner(l)]
      BY <1>7 DEF OrderInv, OnlyOnce
    <3> HIDE DEF b
    <3>2. QED
      BY <1>1, <3>1 DEF OnlyOnce
  <2>11. QED
    BY <2>8, <2>9, <2>10 DEF OrderInv
<1>8. QED
  BY <1>6, <1>7

\* The order that is placed: it is new, and what it is filled with and what rests
\* of it is what was signed.
LEMMA PlacedSelf ==
  ASSUME NEW a, AppType(a), NEW o \in Order, NEW at, NEW X, NEW tx \in Signed,
         o.id = Label(tx), o.qty = Ordered(tx),
         a.traded[o.id] = 0, RestingOf(a, o.id) = {}, o.id \notin a.rejected,
         (NonceOf(o.id) % Word) <= a.nonce[Owner(o.id)]
  PROVE  OrderInv(Placed(a, o, at, X), o.id)
<1> DEFINE b == Placed(a, o, at, X)
           M == {f \in Fills(a.level, o) : f.maker = o.id}
<1>0. o.id \in LabelSet /\ IdOf(o.id) \in Id /\ a.level \in BookState
  BY Labels DEF Order, AppType
<1>1. /\ b.nonce = a.nonce /\ b.rejected = a.rejected /\ b.index = Reindexed(a, o)
      /\ b.level = Book!After(a.level, o)
      /\ b.unsigned = a.unsigned \cup (IF o.id[2] = "O" THEN {IdOf(o.id)} ELSE {})
  BY DEF Placed, AppType, AppField
<1>2. PICK h : h = [f \in Fills(a.level, o) |-> f.qty]
  OBVIOUS
<1>3. /\ SumFunctionOnSet(h, Fills(a.level, o)) \in Nat
      /\ SumFunctionOnSet(h, Fills(a.level, o)) + Book!Rest(a.level, o) = o.qty
      /\ Book!Rest(a.level, o) \in 0..o.qty /\ o.qty \in Nat
  <2>1. \A f \in Fills(a.level, o) : h[f] = f.qty
    BY <1>2
  <2>2. QED
    BY <1>0, <2>1, FillsTotal DEF Order
<1>4. b.traded[o.id] = SumFunctionOnSet(h, Fills(a.level, o))
  <2>1. M = {}
    BY FillsRest
  <2>2. SumFunctionOnSet(h, M) = 0
    BY <2>1, FS_EmptySet, SumPick
  <2>3. b.traded[o.id] = a.traded[o.id]
             + (IF o.id = o.id THEN SumFunctionOnSet(h, Fills(a.level, o)) ELSE 0) + SumFunctionOnSet(h, M)
    BY <1>0, <1>2, TradedByOrder
  <2>4. QED
    BY <1>3, <2>2, <2>3
<1>5. \A e \in RestingOf(b, o.id) : Entered(a, b, o, o.id, e)
  <2>1. \A e \in RestingOf(b, o.id) : Stayed(a, b, o, o.id, e) \/ Moved(a, b, o, o.id, e) \/ Entered(a, b, o, o.id, e)
    BY <1>1, Origins
  <2>2. QED
    BY <2>1 DEF Stayed, Moved
<1>6. RestsOnce(b, o.id)
  <2>1. ASSUME NEW e \in RestingOf(b, o.id), NEW f \in RestingOf(b, o.id)
        PROVE  e = f /\ b.index[IdOf(o.id)] = e[2]
    <3>1. /\ e = <<o.side, o.price, Len(a.level[o.side][o.price]) + 1>>
          /\ f = <<o.side, o.price, Len(a.level[o.side][o.price]) + 1>>
          /\ Book!Resting(a.level, o, o.price) # <<>>
      BY <1>5 DEF Entered
    <3>2. Reindexed(a, o)[IdOf(o.id)] = o.price
      BY <1>0, <3>1 DEF Reindexed
    <3>3. e = f /\ e[2] = o.price
      BY <3>1
    <3>4. QED
      BY <1>1, <3>2, <3>3
  <2> HIDE DEF b
  <2>2. QED
    BY <2>1 DEF RestsOnce
<1>7. WithinSigned(b, o.id)
  <2>1. b.traded[o.id] \in Nat /\ b.traded[o.id] <= Ordered(tx)
    BY <1>3, <1>4
  <2>2. \A e \in RestingOf(b, o.id) : b.traded[o.id] + RestingQty(b, e) <= Ordered(tx)
    <3>1. \A e \in RestingOf(b, o.id) : RestingQty(b, e) = Book!Rest(a.level, o)
      BY <1>5 DEF Entered
    <3>2. QED
      BY <1>3, <1>4, <3>1
  <2> HIDE DEF b
  <2>3. QED
    BY <2>1, <2>2 DEF WithinSigned
<1>8. OnlyOnce(b, o.id)
  <2> HIDE DEF b
  <2>1. QED
    BY <1>1 DEF OnlyOnce
<1>9. QED
  BY <1>6, <1>7, <1>8 DEF OrderInv

LEMMA PlacedKeeps ==
  ASSUME NEW a, AppInv(a), NEW o \in Order, NEW at, NEW X,
         \/ o.id \notin SignedLabel
         \/ /\ a.traded[o.id] = 0 /\ RestingOf(a, o.id) = {} /\ o.id \notin a.rejected
            /\ (NonceOf(o.id) % Word) <= a.nonce[Owner(o.id)]
            /\ \E tx \in Signed : o.id = Label(tx) /\ o.qty = Ordered(tx)
  PROVE  AppInv(Placed(a, o, at, X))
<1> DEFINE b == Placed(a, o, at, X)
<1>1. AppType(a) /\ UnsignedKnown(a)
  BY DEF AppInv
<1>2. AppType(b)
  BY <1>1, PlacedTypes
<1>3. ASSUME NEW l \in SignedLabel PROVE OrderInv(b, l)
  <2>1. CASE l # o.id
    BY <1>1, <2>1, PlacedOther DEF AppInv
  <2>2. CASE l = o.id
    BY <1>1, <2>2, PlacedSelf
  <2>3. QED
    BY <2>1, <2>2
<1>4. UnsignedKnown(b)
  <2>1. /\ b.level = Book!After(a.level, o)
        /\ b.unsigned = a.unsigned \cup (IF o.id[2] = "O" THEN {IdOf(o.id)} ELSE {})
    BY <1>1 DEF Placed, AppType, AppField
  <2> HIDE DEF b
  <2>2. ASSUME NEW l \in LabelSet, l[2] = "O", NEW e \in RestingOf(b, l) PROVE IdOf(l) \in b.unsigned
    <3>1. Stayed(a, b, o, l, e) \/ Moved(a, b, o, l, e) \/ Entered(a, b, o, l, e)
      BY <1>1, <2>1, Origins
    <3>2. CASE l = o.id
      BY <2>1, <2>2, <3>2
    <3>3. CASE RestingOf(a, l) # {}
      BY <1>1, <2>1, <2>2, <3>3 DEF UnsignedKnown
    <3>4. QED
      BY <3>1, <3>2, <3>3 DEF Stayed, Moved, Entered
  <2>3. QED
    BY <2>2 DEF UnsignedKnown
<1> HIDE DEF b
<1>5. AppInv(b)
  BY <1>2, <1>3, <1>4 DEF AppInv
<1>6. QED
  BY <1>5 DEF b

-----------------------------------------------------------------------------
(***************************************************************************)
(* Cancelling an order                                                     *)
(***************************************************************************)
LEMMA RemoveFacts ==
  ASSUME NEW R, NEW s \in Seq(R), NEW m \in 1..Len(s)
  PROVE  /\ RemoveAt(s, m) \in Seq(R)
         /\ Len(RemoveAt(s, m)) = Len(s) - 1
         /\ \A i \in 1..(Len(s) - 1) : RemoveAt(s, m)[i] = IF i < m THEN s[i] ELSE s[i + 1]
<1> DEFINE n == Len(s)
           u == SubSeq(s, 1, m - 1)
           v == SubSeq(s, m + 1, n)
<1>0. n \in Nat /\ m \in Int /\ 1 <= m /\ m <= n /\ \A i \in 1..n : s[i] \in R
  OBVIOUS
<1>1. u \in Seq(R) /\ Len(u) = m - 1 /\ \A i \in 1..(m - 1) : u[i] = s[i]
  BY <1>0
<1>2. v \in Seq(R) /\ Len(v) = n - m /\ \A i \in 1..(n - m) : v[i] = s[m + i]
  <2>1. \A i \in (m + 1)..n : s[i] \in R
    BY <1>0
  <2>2. /\ v \in Seq(R)
        /\ Len(v) = IF m + 1 <= n THEN n - (m + 1) + 1 ELSE 0
        /\ \A i \in 1..(n - (m + 1) + 1) : v[i] = s[(m + 1) + i - 1]
    BY <1>0, <2>1, SubSeqProperties
  <2>3. \A i \in 1..(n - m) : i \in 1..(n - (m + 1) + 1) /\ (m + 1) + i - 1 = m + i
    BY <1>0
  <2>4. (IF m + 1 <= n THEN n - (m + 1) + 1 ELSE 0) = n - m
    BY <1>0
  <2> HIDE DEF v
  <2>5. QED
    BY <2>2, <2>3, <2>4
<1> HIDE DEF u, v
<1>3. /\ u \o v \in Seq(R) /\ Len(u \o v) = (m - 1) + (n - m)
      /\ \A i \in 1..((m - 1) + (n - m)) : (u \o v)[i] = IF i <= m - 1 THEN u[i] ELSE v[i - (m - 1)]
  <2>1. /\ u \o v \in Seq(R) /\ Len(u \o v) = Len(u) + Len(v)
        /\ \A i \in 1..(Len(u) + Len(v)) : (u \o v)[i] = IF i <= Len(u) THEN u[i] ELSE v[i - Len(u)]
    BY <1>1, <1>2, ConcatProperties
  <2>2. Len(u) = m - 1 /\ Len(v) = n - m
    BY <1>1, <1>2
  <2>3. QED
    BY <2>1, <2>2
<1>4. RemoveAt(s, m) = u \o v
  BY DEF RemoveAt, u, v
<1>5. ASSUME NEW i \in 1..(n - 1) PROVE (u \o v)[i] = IF i < m THEN s[i] ELSE s[i + 1]
  <2>1. i \in 1..((m - 1) + (n - m))
    BY <1>0
  <2>2. (u \o v)[i] = IF i <= m - 1 THEN u[i] ELSE v[i - (m - 1)]
    BY <1>3, <2>1
  <2>3. CASE i < m
    <3>1. i <= m - 1 /\ i \in 1..(m - 1)
      BY <1>0, <2>3
    <3>2. QED
      BY <1>1, <2>2, <2>3, <3>1
  <2>4. CASE ~(i < m)
    <3>1. ~(i <= m - 1) /\ i - (m - 1) \in 1..(n - m) /\ m + (i - (m - 1)) = i + 1
      BY <1>0, <2>4
    <3>2. QED
      BY <1>2, <2>2, <2>4, <3>1
  <2>5. QED
    BY <2>3, <2>4
<1>6. (m - 1) + (n - m) = n - 1
  BY <1>0
<1>7. QED
  BY <1>3, <1>4, <1>5, <1>6

LEMMA CancelledKeeps ==
  ASSUME NEW a, AppInv(a), NEW tx PROVE AppInv(Cancelled(a, tx))
<1> DEFINE id == tx.id
           p == a.index[id]
           at(s) == {i \in 1..Len(a.level[s][p]) : IdOf(a.level[s][p][i].id) = id}
           side == IF at("buy") # {} THEN "buy" ELSE "sell"
           m == Min(at(side))
           b == [a EXCEPT !.level[side][p] = RemoveAt(@, m), !.index[id] = 0]
<1>1. CASE tx.symbol # Market \/ id \notin Id \/ p = 0 \/ at(side) = {}
  <2>1. Cancelled(a, tx) = a
    BY <1>1 DEF Cancelled
  <2>2. QED
    BY <2>1
<1>2. CASE ~(tx.symbol # Market \/ id \notin Id \/ p = 0 \/ at(side) = {})
  <2>1. Cancelled(a, tx) = b
    BY <1>2 DEF Cancelled
  <2>2. /\ AppType(a) /\ id \in Id /\ p \in Price /\ side \in Book!Side /\ a.level \in BookState
    <3>1. AppType(a) /\ id \in Id
      BY <1>2 DEF AppInv
    <3>2. a.index \in [Id -> Price \cup {0}] /\ a.level \in BookState
      BY <3>1 DEF AppType
    <3>3. p \in Price
      BY <1>2, <3>1, <3>2
    <3>4. side \in Book!Side
      BY DEF Book!Side
    <3>5. QED
      BY <3>1, <3>2, <3>3, <3>4
  <2> DEFINE s == a.level[side][p]
  <2>3. s \in Seq(Entry)
    BY <2>2 DEF BookState
  <2>4. m \in 1..Len(s) /\ IdOf(s[m].id) = id
    <3> DEFINE T == at(side)
    <3>1. at(side) \subseteq Nat /\ at(side) # {}
      <4>1. ASSUME NEW u \in Seq(Entry) PROVE 1..Len(u) \subseteq Nat
        <5>1. Len(u) \in Nat
          OBVIOUS
        <5>2. QED
          BY <5>1
      <4>2. 1..Len(s) \subseteq Nat
        BY <2>3, <4>1
      <4>3. at(side) \subseteq 1..Len(s)
        OBVIOUS
      <4>4. at(side) # {}
        BY <1>2
      <4>5. QED
        BY <4>2, <4>3, <4>4
    <3> HIDE DEF T
    <3>2. \E i \in T : \A j \in T : i <= j
      BY <3>1, NatMin DEF T
    <3>3. Min(T) \in T
      BY <3>2 DEF Min
    <3>4. m \in at(side)
      BY <3>3 DEF T
    <3>5. QED
      BY <3>4
  <2> HIDE DEF m, side
  <2>5. /\ RemoveAt(s, m) \in Seq(Entry) /\ Len(s) \in Nat
        /\ Len(RemoveAt(s, m)) = Len(s) - 1
        /\ \A i \in 1..(Len(s) - 1) : RemoveAt(s, m)[i] = IF i < m THEN s[i] ELSE s[i + 1]
    <3> HIDE DEF s
    <3>1. Len(s) \in Nat
      BY <2>3
    <3>2. QED
      BY <2>3, <2>4, <3>1, RemoveFacts
  <2>6. /\ DOMAIN b = AppField /\ b.nonce = a.nonce /\ b.traded = a.traded /\ b.rejected = a.rejected
        /\ b.unsigned = a.unsigned
        /\ b.index = [a.index EXCEPT ![id] = 0]
        /\ b.level = [a.level EXCEPT ![side] = [a.level[side] EXCEPT ![p] = RemoveAt(s, m)]]
    BY <2>2 DEF AppType, AppField
  <2> HIDE DEF b
  <2>7. AppType(b)
    <3>1. b.level \in BookState
      <4>1. a.level \in [Book!Side -> [Price -> Seq(Entry)]]
        BY <2>2 DEF BookState
      <4>2. [a.level[side] EXCEPT ![p] = RemoveAt(s, m)] \in [Price -> Seq(Entry)]
        BY <2>2, <2>5, <4>1
      <4>3. b.level \in [Book!Side -> [Price -> Seq(Entry)]]
        BY <2>2, <2>6, <4>1, <4>2
      <4>4. QED
        BY <4>3 DEF BookState
    <3>2. b.index \in [Id -> Price \cup {0}]
      BY <2>2, <2>6 DEF AppType
    <3>3. QED
      BY <2>2, <2>6, <3>1, <3>2 DEF AppType
  <2>8. /\ b.level[side][p] = RemoveAt(s, m)
        /\ \A t \in Book!Side, r \in Price : t # side \/ r # p => b.level[t][r] = a.level[t][r]
    BY <2>2, <2>6 DEF BookState
  <2> HIDE DEF s
  <2> DEFINE old(e) == <<e[1], e[2], IF e[1] = side /\ e[2] = p /\ ~(e[3] < m) THEN e[3] + 1 ELSE e[3]>>
  <2>9. ASSUME NEW x, NEW e \in RestingOf(b, x)
        PROVE  /\ old(e) \in RestingOf(a, x) /\ RestingQty(b, e) = RestingQty(a, old(e))
               /\ old(e) # <<side, p, m>>
               /\ e = <<e[1], e[2], e[3]>> /\ e[3] \in Int
    <3>1. /\ e = <<e[1], e[2], e[3]>> /\ e[1] \in Book!Side /\ e[2] \in Price
          /\ e[3] \in 1..Len(b.level[e[1]][e[2]]) /\ b.level[e[1]][e[2]][e[3]].id = x
      BY RestingBy
    <3>2. e[3] \in Int
      BY <3>1
    <3>3. CASE e[1] = side /\ e[2] = p
      <4>1. e[3] \in 1..(Len(s) - 1) /\ RemoveAt(s, m)[e[3]].id = x
        BY <2>5, <2>8, <3>1, <3>3
      <4>2. PICK i : i = IF e[3] < m THEN e[3] ELSE e[3] + 1
        OBVIOUS
      <4>3. i \in 1..Len(s) /\ i # m /\ RemoveAt(s, m)[e[3]] = s[i]
        BY <2>4, <2>5, <4>1, <4>2
      <4>4. old(e) = <<side, p, i>>
        BY <3>3, <4>2
      <4>5. old(e) \in RestingOf(a, x)
        <5>1. s[i].id = x /\ i \in 1..Len(s)
          BY <4>1, <4>3
        <5>2. <<side, p, i>> \in RestingOf(a, x)
          BY <2>2, <5>1, RestingBy DEF s
        <5> HIDE DEF old
        <5>3. QED
          BY <4>4, <5>2
      <4>6. RestingQty(b, e) = RemoveAt(s, m)[e[3]].qty
        BY <2>8, <3>3 DEF RestingQty
      <4>7. RestingQty(a, old(e)) = s[i].qty
        BY <4>4 DEF RestingQty, s
      <4>8. QED
        BY <3>1, <3>2, <4>3, <4>4, <4>5, <4>6, <4>7
    <3>4. CASE ~(e[1] = side /\ e[2] = p)
      <4>1. old(e) = e /\ b.level[e[1]][e[2]] = a.level[e[1]][e[2]]
        BY <2>8, <3>1, <3>4
      <4>2. e \in RestingOf(a, x)
        BY <3>1, <4>1, RestingBy
      <4>3. e # <<side, p, m>>
        BY <3>4
      <4>4. QED
        BY <3>1, <3>2, <4>1, <4>2, <4>3 DEF RestingQty
    <3>5. QED
      BY <3>3, <3>4
  <2>10. PICK y \in LabelSet : IdOf(y) = id /\ <<side, p, m>> \in RestingOf(a, y)
    <3>1. s[m] \in Entry
      BY <2>3, <2>4
    <3>2. s[m].id \in LabelSet
      BY <3>1 DEF Entry
    <3>3. <<side, p, m>> \in RestingOf(a, s[m].id)
      BY <2>2, <2>4, RestingBy DEF s
    <3>4. QED
      BY <2>4, <3>2, <3>3
  <2>11. ASSUME NEW x \in SignedLabel PROVE OrderInv(b, x)
    <3>1. RestsOnce(a, x) /\ WithinSigned(a, x) /\ OnlyOnce(a, x)
      BY <2>11 DEF AppInv, OrderInv
    <3>2. ASSUME NEW e \in RestingOf(b, x), NEW f \in RestingOf(b, x)
          PROVE  e = f /\ (IdOf(x) \notin b.unsigned => b.index[IdOf(x)] = e[2])
      <4>0. /\ old(e) \in RestingOf(a, x) /\ old(f) \in RestingOf(a, x) /\ old(e) # <<side, p, m>>
            /\ old(e)[2] = e[2]
        BY <2>9
      <4>1. old(e) = old(f) /\ (IdOf(x) \notin a.unsigned => a.index[IdOf(x)] = e[2])
        <5> HIDE DEF old
        <5>1. QED
          BY <3>1, <4>0 DEF RestsOnce
      <4>2. IdOf(x) \notin a.unsigned => IdOf(x) # id
        <5> HIDE DEF old
        <5>1. x # y
          BY <2>10, <3>1, <4>0 DEF RestsOnce
        <5>2. IdOf(x) = id => y[2] = "O"
          BY <2>10, <2>11, <5>1, LabelsOfId
        <5>3. y[2] = "O" => id \in a.unsigned
          BY <2>10 DEF AppInv, UnsignedKnown
        <5>4. QED
          BY <5>2, <5>3
      <4>3. IdOf(x) \notin a.unsigned => b.index[IdOf(x)] = a.index[IdOf(x)]
        <5>1. IdOf(x) \in Id /\ a.index \in [Id -> Price \cup {0}]
          BY <2>2, <2>11, Labels DEF AppType
        <5>2. QED
          BY <2>6, <4>2, <5>1
      <4>4. e = f
        <5>1. e[1] = f[1] /\ e[2] = f[2] /\ e[3] \in Int /\ f[3] \in Int /\ m \in Int
          <6>1. old(e)[1] = e[1] /\ old(e)[2] = e[2] /\ old(f)[1] = f[1] /\ old(f)[2] = f[2]
            OBVIOUS
          <6>2. e[1] = f[1] /\ e[2] = f[2]
            BY <4>1, <6>1
          <6>3. e[3] \in Int /\ f[3] \in Int
            BY <2>9
          <6>4. m \in Int
            BY <2>4
          <6>5. QED
            BY <6>2, <6>3, <6>4
        <5>2. e[3] = f[3]
          <6>1. /\ old(e)[3] = IF e[1] = side /\ e[2] = p /\ ~(e[3] < m) THEN e[3] + 1 ELSE e[3]
                /\ old(f)[3] = IF f[1] = side /\ f[2] = p /\ ~(f[3] < m) THEN f[3] + 1 ELSE f[3]
            OBVIOUS
          <6>2. old(e)[3] = old(f)[3]
            BY <4>1
          <6> HIDE DEF old
          <6>3. QED
            BY <5>1, <6>1, <6>2
        <5>3. e = <<e[1], e[2], e[3]>> /\ f = <<f[1], f[2], f[3]>>
          BY <2>9
        <5>4. QED
          BY <5>1, <5>2, <5>3
      <4>5. QED
        BY <2>6, <4>1, <4>3, <4>4
    <3>3. RestsOnce(b, x)
      BY <3>2 DEF RestsOnce
    <3>4. \A e \in RestingOf(b, x) : old(e) \in RestingOf(a, x) /\ RestingQty(b, e) = RestingQty(a, old(e))
      BY <2>9
    <3> HIDE DEF old
    <3>5. WithinSigned(b, x)
      BY <2>6, <3>1, <3>4 DEF WithinSigned
    <3>6. OnlyOnce(b, x)
      BY <2>6, <3>1, <3>4 DEF OnlyOnce
    <3>7. QED
      BY <3>3, <3>5, <3>6 DEF OrderInv
  <2>12. UnsignedKnown(b)
    <3>1. \A x : RestingOf(b, x) # {} => RestingOf(a, x) # {}
      BY <2>9
    <3>2. QED
      BY <2>6, <3>1 DEF AppInv, UnsignedKnown
  <2>13. QED
    BY <2>1, <2>7, <2>11, <2>12 DEF AppInv
<1>3. QED
  BY <1>1, <1>2

-----------------------------------------------------------------------------
(***************************************************************************)
(* Nonces                                                                  *)
(***************************************************************************)
LEMMA ConsumedKeeps ==
  ASSUME NEW a, AppInv(a), NEW tx \in Tx, tx.kind \in {"order", "cancel"}, Fresh(a, tx)
  PROVE  /\ AppInv(Consumed(a, tx))
         /\ Consumed(a, tx).traded = a.traded /\ Consumed(a, tx).level = a.level
         /\ Consumed(a, tx).rejected = a.rejected
         /\ Consumed(a, tx).nonce[tx.owner] = tx.nonce % Word
         /\ \A x : RestingOf(Consumed(a, tx), x) = RestingOf(a, x)
<1> DEFINE b == Consumed(a, tx)
<1>1. AppType(a) /\ tx.owner \in Addr /\ tx.nonce % Word \in Nat /\ tx.nonce % Word > a.nonce[tx.owner]
  <2>1. AppType(a) /\ tx.owner \in Addr /\ tx.nonce \in Nat
    BY TxAssumption DEF AppInv
  <2>2. Word \in Nat \ {0}
    BY BoundAssumption
  <2>3. QED
    BY <2>1, <2>2 DEF Fresh
<1>2. /\ DOMAIN b = AppField /\ b.level = a.level /\ b.index = a.index /\ b.traded = a.traded
      /\ b.rejected = a.rejected /\ b.unsigned = a.unsigned
      /\ b.nonce = [a.nonce EXCEPT ![tx.owner] = tx.nonce % Word]
  BY <1>1 DEF Consumed, AppType, AppField
<1> HIDE DEF b
<1>3. AppType(b)
  BY <1>1, <1>2 DEF AppType
<1>4. \A x : RestingOf(b, x) = RestingOf(a, x)
  BY <1>2 DEF RestingOf
<1>5. b.nonce[tx.owner] = tx.nonce % Word
  BY <1>1, <1>2 DEF AppType
<1>6. \A e : RestingQty(b, e) = RestingQty(a, e)
  BY <1>2 DEF RestingQty
<1>7. ASSUME NEW x \in SignedLabel PROVE OrderInv(b, x)
  <2>1. RestsOnce(a, x) /\ WithinSigned(a, x) /\ OnlyOnce(a, x)
    BY <1>7 DEF AppInv, OrderInv
  <2>2. /\ a.nonce[Owner(x)] <= b.nonce[Owner(x)] /\ a.nonce[Owner(x)] \in Nat /\ b.nonce[Owner(x)] \in Nat
        /\ NonceOf(x) % Word \in Nat
    <3>1. Owner(x) \in Addr /\ NonceOf(x) \in Nat
      BY Labels
    <3>2. a.nonce[Owner(x)] \in Nat /\ b.nonce[Owner(x)] \in Nat
      BY <1>1, <1>3, <3>1 DEF AppType
    <3>3. a.nonce[Owner(x)] <= b.nonce[Owner(x)]
      <4>1. CASE Owner(x) = tx.owner
        BY <1>1, <1>5, <3>2, <4>1
      <4>2. CASE Owner(x) # tx.owner
        BY <1>2, <3>2, <4>2
      <4>3. QED
        BY <4>1, <4>2
    <3>4. NonceOf(x) % Word \in Nat
      BY <3>1, BoundAssumption
    <3>5. QED
      BY <3>2, <3>3, <3>4
  <2>3. RestsOnce(b, x)
    BY <1>2, <1>4, <2>1 DEF RestsOnce
  <2>4. WithinSigned(b, x)
    BY <1>2, <1>4, <1>6, <2>1 DEF WithinSigned
  <2>5. OnlyOnce(b, x)
    BY <1>2, <1>4, <2>1, <2>2 DEF OnlyOnce
  <2>6. QED
    BY <2>3, <2>4, <2>5 DEF OrderInv
<1>8. UnsignedKnown(b)
  BY <1>2, <1>4 DEF AppInv, UnsignedKnown
<1>9. AppInv(b)
  BY <1>3, <1>7, <1>8 DEF AppInv
<1>10. QED
  BY <1>2, <1>4, <1>5, <1>9 DEF b

\* A fresh order was neither rejected nor placed before.
LEMMA FreshIsNew ==
  ASSUME NEW a, AppInv(a), NEW tx \in Tx, tx.kind = "order", Fresh(a, tx)
  PROVE  /\ Label(tx) \in SignedLabel
         /\ Label(tx) \notin a.rejected /\ a.traded[Label(tx)] = 0 /\ RestingOf(a, Label(tx)) = {}
<1>1. Label(tx) \in SignedLabel
  BY DEF SignedLabel, Signed
<1>2. OnlyOnce(a, Label(tx)) /\ AppType(a)
  BY <1>1 DEF AppInv, OrderInv
<1>3. Owner(Label(tx)) = tx.owner /\ NonceOf(Label(tx)) = tx.nonce
  BY DEF Owner, NonceOf, IdOf, Label, OrderId
<1>4. tx.owner \in Addr /\ tx.nonce \in Nat /\ Word \in Nat \ {0}
  BY TxAssumption, BoundAssumption
<1>5. tx.nonce % Word \in Nat /\ a.nonce[tx.owner] \in Nat
  BY <1>2, <1>4 DEF AppType
<1>6. ~(tx.nonce % Word <= a.nonce[tx.owner])
  BY <1>5 DEF Fresh
<1>7. QED
  BY <1>1, <1>2, <1>3, <1>6 DEF OnlyOnce

LEMMA RejectedKeeps ==
  ASSUME NEW a, AppInv(a), NEW tx \in Tx, tx.kind = "order", Fresh(a, tx)
  PROVE  AppInv(Rejected(a, tx))
<1> DEFINE b == Rejected(a, tx)
<1>0. PICK c : c = Consumed(a, tx)
  OBVIOUS
<1>1. /\ AppInv(c) /\ c.traded = a.traded /\ c.rejected = a.rejected
      /\ c.nonce[tx.owner] = tx.nonce % Word /\ \A x : RestingOf(c, x) = RestingOf(a, x)
  BY <1>0, ConsumedKeeps
<1>2. /\ Label(tx) \in SignedLabel /\ Label(tx) \notin a.rejected
      /\ a.traded[Label(tx)] = 0 /\ RestingOf(a, Label(tx)) = {}
  BY FreshIsNew
<1>3. b = [c EXCEPT !.rejected = @ \cup {Label(tx)}]
  BY <1>0 DEF Rejected
<1>4. AppType(c)
  BY <1>1 DEF AppInv
<1>5. /\ DOMAIN b = AppField /\ b.level = c.level /\ b.index = c.index /\ b.traded = c.traded
      /\ b.nonce = c.nonce /\ b.unsigned = c.unsigned /\ b.rejected = c.rejected \cup {Label(tx)}
  BY <1>3, <1>4 DEF AppType, AppField
<1> HIDE DEF b
<1>6. AppType(b)
  BY <1>2, <1>4, <1>5 DEF AppType
<1>7. (\A x : RestingOf(b, x) = RestingOf(c, x)) /\ \A e : RestingQty(b, e) = RestingQty(c, e)
  BY <1>5 DEF RestingOf, RestingQty
<1>8. ASSUME NEW x \in SignedLabel PROVE OrderInv(b, x)
  <2>1. RestsOnce(c, x) /\ WithinSigned(c, x) /\ OnlyOnce(c, x)
    BY <1>1, <1>8 DEF AppInv, OrderInv
  <2>2. RestsOnce(b, x)
    BY <1>5, <1>7, <2>1 DEF RestsOnce
  <2>3. WithinSigned(b, x)
    BY <1>5, <1>7, <2>1 DEF WithinSigned
  <2>4. CASE x # Label(tx)
    <3>1. OnlyOnce(b, x)
      BY <1>5, <1>7, <2>1, <2>4 DEF OnlyOnce
    <3>2. QED
      BY <2>2, <2>3, <3>1 DEF OrderInv
  <2>5. CASE x = Label(tx)
    <3>1. b.traded[x] = 0 /\ RestingOf(b, x) = {}
      BY <1>1, <1>2, <1>5, <1>7, <2>5
    <3>2. Owner(x) = tx.owner /\ NonceOf(x) = tx.nonce
      BY <2>5 DEF Owner, NonceOf, IdOf, Label, OrderId
    <3>3. tx.nonce % Word \in Nat
      <4>1. tx.nonce \in Nat /\ Word \in Nat \ {0}
        BY TxAssumption, BoundAssumption
      <4>2. QED
        BY <4>1
    <3>4. NonceOf(x) % Word <= b.nonce[Owner(x)]
      BY <1>1, <1>5, <3>2, <3>3
    <3>5. OnlyOnce(b, x)
      BY <3>1, <3>4 DEF OnlyOnce
    <3>6. QED
      BY <2>2, <2>3, <3>5 DEF OrderInv
  <2>6. QED
    BY <2>4, <2>5
<1>9. UnsignedKnown(b)
  BY <1>1, <1>5, <1>7 DEF AppInv, UnsignedKnown
<1>10. AppInv(b)
  BY <1>6, <1>8, <1>9 DEF AppInv
<1>11. QED
  BY <1>10 DEF b

-----------------------------------------------------------------------------
(***************************************************************************)
(* Every transaction keeps the orders of an application in order           *)
(***************************************************************************)
LEMMA ValidIsOrder ==
  ASSUME NEW tx \in Tx, tx.kind \in {"order", "O"}, Valid(AsOrder(tx))
  PROVE  AsOrder(tx) \in Order /\ AsOrder(tx).id = Label(tx) /\ AsOrder(tx).qty = Ordered(tx)
<1>1. tx.side \in Book!Side /\ tx.qty \in Int /\ (Int64(tx.price) > 0 => Int64(tx.price) \in Price)
  BY TxAssumption
<1>2. /\ AsOrder(tx).id = Label(tx) /\ AsOrder(tx).side = tx.side /\ AsOrder(tx).type = tx.type
      /\ AsOrder(tx).price = Int64(tx.price) /\ AsOrder(tx).qty = Int64(tx.qty)
  BY DEF AsOrder
<1>3. Int64(tx.price) > 0 /\ Int64(tx.qty) > 0
  BY <1>2 DEF Valid
<1>4. Int64(tx.qty) \in Nat \ {0}
  <2>1. Int64(tx.qty) \in Int
    BY <1>1, Int64IsInt
  <2>2. QED
    BY <1>3, <2>1
<1>5. Int64(tx.price) \in Price /\ Label(tx) \in LabelSet
  BY <1>1, <1>3, Labels
<1>6. AsOrder(tx) \in Order
  BY <1>1, <1>4, <1>5 DEF AsOrder, Order
<1>7. QED
  BY <1>2, <1>3, <1>6 DEF Ordered

LEMMA RefusedKeeps ==
  ASSUME NEW a, AppInv(a), NEW at PROVE AppInv(Refused(a, at))
<1> DEFINE b == Refused(a, at)
<1>1. AppType(a)
  BY DEF AppInv
<1>2. /\ DOMAIN b = AppField /\ b.nonce = a.nonce /\ b.level = a.level /\ b.index = a.index
      /\ b.traded = a.traded /\ b.rejected = a.rejected /\ b.unsigned = a.unsigned
  BY <1>1 DEF Refused, AppType, AppField
<1> HIDE DEF b
<1>3. AppType(b)
  BY <1>1, <1>2 DEF AppType
<1>4. (\A l : RestingOf(b, l) = RestingOf(a, l)) /\ \A e : RestingQty(b, e) = RestingQty(a, e)
  BY <1>2 DEF RestingOf, RestingQty
<1>5. ASSUME NEW l \in SignedLabel PROVE OrderInv(b, l)
  <2>1. RestsOnce(a, l) /\ WithinSigned(a, l) /\ OnlyOnce(a, l)
    BY <1>5 DEF AppInv, OrderInv
  <2>2. RestsOnce(b, l)
    BY <1>2, <1>4, <2>1 DEF RestsOnce
  <2>3. WithinSigned(b, l)
    BY <1>2, <1>4, <2>1 DEF WithinSigned
  <2>4. OnlyOnce(b, l)
    BY <1>2, <1>4, <2>1 DEF OnlyOnce
  <2>5. QED
    BY <2>2, <2>3, <2>4 DEF OrderInv
<1>6. UnsignedKnown(b)
  BY <1>2, <1>4 DEF AppInv, UnsignedKnown
<1>7. AppInv(b)
  BY <1>3, <1>5, <1>6 DEF AppInv
<1>8. QED
  BY <1>7 DEF b

LEMMA OutcomeKeeps ==
  ASSUME NEW a, AppInv(a), NEW tx \in Tx, NEW at, NEW refused, NEW X
  PROVE  AppInv(Outcome(a, tx, at, refused, X))
<1> DEFINE out == Outcome(a, tx, at, refused, X)
<1>1. CASE tx.kind \in {"order", "cancel"}
  <2>1. CASE (tx.via = NoDelegation /\ tx.signer # tx.owner) \/ (~refused /\ ~Fresh(a, tx))
    BY <1>1, <2>1, RefusedKeeps DEF Outcome
  <2>2. CASE ~(tx.via = NoDelegation /\ tx.signer # tx.owner) /\ refused
    <3>1. out = Refused(a, at)
      BY <1>1, <2>2 DEF Outcome
    <3>2. QED
      BY <3>1, RefusedKeeps
  <2>3. CASE ~(tx.via = NoDelegation /\ tx.signer # tx.owner) /\ ~refused /\ Fresh(a, tx)
    <3>1. AppInv(Consumed(a, tx))
      BY <1>1, <2>3, ConsumedKeeps
    <3>2. CASE tx.kind = "cancel"
      <4>1. out = Cancelled(Consumed(a, tx), tx)
        BY <2>3, <3>2 DEF Outcome
      <4>2. QED
        BY <3>1, <4>1, CancelledKeeps
    <3>3. CASE tx.kind = "order" /\ ~Acceptable(a, tx)
      <4>1. out = Rejected(a, tx)
        BY <2>3, <3>3 DEF Outcome
      <4>2. QED
        BY <2>3, <3>3, <4>1, RejectedKeeps
    <3>4. CASE tx.kind = "order" /\ Acceptable(a, tx)
      <4>1. out = Placed(Consumed(a, tx), AsOrder(tx), at, X)
        BY <2>3, <3>4 DEF Outcome
      <4>2. PICK o : o = AsOrder(tx)
        OBVIOUS
      <4>3. PICK c : c = Consumed(a, tx)
        OBVIOUS
      <4>4. o \in Order /\ o.id = Label(tx) /\ o.qty = Ordered(tx)
        BY <3>4, <4>2, ValidIsOrder DEF Acceptable
      <4>5. /\ c.traded[o.id] = 0 /\ RestingOf(c, o.id) = {} /\ o.id \notin c.rejected
            /\ c.nonce[tx.owner] = tx.nonce % Word
        BY <1>1, <2>3, <3>4, <4>3, <4>4, ConsumedKeeps, FreshIsNew
      <4>6. Owner(o.id) = tx.owner /\ NonceOf(o.id) = tx.nonce
        BY <3>4, <4>4 DEF Owner, NonceOf, IdOf, Label, OrderId
      <4>7. (NonceOf(o.id) % Word) <= c.nonce[Owner(o.id)]
        <5>1. tx.nonce \in Nat /\ Word \in Nat \ {0}
          BY <1>1, TxAssumption, BoundAssumption
        <5>2. tx.nonce % Word \in Nat
          BY <5>1
        <5>3. QED
          BY <4>5, <4>6, <5>2
      <4>8. tx \in Signed
        BY <3>4 DEF Signed
      <4>9. AppInv(c)
        BY <3>1, <4>3
      <4>10. AppInv(Placed(c, o, at, X))
        BY <4>4, <4>5, <4>7, <4>8, <4>9, PlacedKeeps
      <4>11. QED
        BY <4>1, <4>2, <4>3, <4>10
    <3>5. QED
      BY <1>1, <3>2, <3>3, <3>4
  <2>4. QED
    BY <2>1, <2>2, <2>3
<1>2. CASE tx.kind = "O"
  <2>1. CASE ~Acceptable(a, tx)
    BY <1>2, <2>1 DEF Outcome
  <2>2. CASE Acceptable(a, tx) /\ refused
    <3>1. out = Refused(a, at)
      BY <1>2, <2>2 DEF Outcome
    <3>2. QED
      BY <3>1, RefusedKeeps
  <2>3. CASE Acceptable(a, tx) /\ ~refused
    <3>1. out = Placed(a, AsOrder(tx), at, X)
      BY <1>2, <2>3 DEF Outcome
    <3>2. AsOrder(tx) \in Order /\ AsOrder(tx).id = Label(tx)
      BY <1>2, <2>3, ValidIsOrder DEF Acceptable
    <3>3. Label(tx) \notin SignedLabel
      BY <1>2, Labels
    <3>4. QED
      BY <3>1, <3>2, <3>3, PlacedKeeps
  <2>4. QED
    BY <2>1, <2>2, <2>3
<1>3. CASE tx.kind = "C"
  <2>1. out = Cancelled(a, tx)
    BY <1>3 DEF Outcome
  <2>2. QED
    BY <2>1, CancelledKeeps
<1>4. CASE tx.kind \notin {"order", "cancel", "O", "C"}
  BY <1>4 DEF Outcome
<1>5. QED
  BY <1>1, <1>2, <1>3, <1>4

-----------------------------------------------------------------------------
(***************************************************************************)
(* The orders of every replica                                             *)
(***************************************************************************)
OrdersInv ==
  /\ chain \in Seq(Seq(Tx))
  /\ \A r \in Replica : AppInv(app[r])

LEMMA InitOrders == Init => OrdersInv
<1> SUFFICES ASSUME Init PROVE OrdersInv
  OBVIOUS
<1>1. chain \in Seq(Seq(Tx))
  BY DEF Init
<1> DEFINE a == NewApp
<1>2. /\ DOMAIN a = AppField /\ a.nonce = [x \in Addr |-> 0]
      /\ a.level = [s \in Book!Side |-> [p \in Price |-> <<>>]]
      /\ a.index = [id \in Id |-> 0] /\ a.traded = [l \in LabelSet |-> 0] /\ a.rejected = {}
  BY DEF NewApp, AppField
<1> HIDE DEF a
<1>3. AppType(a)
  BY <1>2 DEF AppType, BookState
<1>4. \A l : RestingOf(a, l) = {}
  <2>1. ASSUME NEW l, NEW e \in RestingOf(a, l) PROVE FALSE
    <3>1. e[3] \in 1..Len(a.level[e[1]][e[2]]) /\ e[1] \in Book!Side /\ e[2] \in Price
      BY RestingBy
    <3>2. a.level[e[1]][e[2]] = <<>>
      BY <1>2, <3>1
    <3>3. QED
      BY <3>1, <3>2
  <2>2. QED
    BY <2>1
<1>5. ASSUME NEW l \in SignedLabel PROVE OrderInv(a, l)
  <2>1. a.traded[l] = 0
    BY <1>2, Labels
  <2>2. PICK tx \in Signed : Label(tx) = l
    BY <1>5 DEF SignedLabel
  <2>3. 0 <= Ordered(tx)
    BY OrderedIsNat
  <2>4. WithinSigned(a, l)
    BY <1>4, <2>1, <2>2, <2>3 DEF WithinSigned
  <2>5. RestsOnce(a, l) /\ OnlyOnce(a, l)
    BY <1>2, <1>4, <2>1 DEF RestsOnce, OnlyOnce
  <2>6. QED
    BY <2>4, <2>5 DEF OrderInv
<1>6. AppInv(a)
  BY <1>3, <1>4, <1>5 DEF AppInv, UnsignedKnown
<1>7. QED
  BY <1>1, <1>6 DEF Init, OrdersInv, a

LEMMA NextOrders == PastInv /\ OrdersInv /\ [Next]_vars => OrdersInv'
<1> SUFFICES ASSUME PastInv, OrdersInv, [Next]_vars PROVE OrdersInv'
  OBVIOUS
<1>1. CASE Propose
  <2>1. PICK pushes \in SeqOf(Pushed, MaxPushes) :
          chain' = Append(chain, SplitPayload(PreparePayload(SelectForProposal(FoldLeft(PushRaw, NewMempool, pushes)))))
    BY <1>1 DEF Propose
  <2>2. pushes \in Seq(Tx)
    <3>1. PICK m \in 0..MaxPushes : pushes \in [1..m -> Pushed]
      BY DEF SeqOf
    <3>2. m \in Nat /\ Pushed \subseteq Tx
      BY BoundAssumption
    <3>3. QED
      BY <3>1, <3>2
  <2>3. PICK pool : pool = FoldLeft(PushRaw, NewMempool, pushes)
    OBVIOUS
  <2>4. SelectForProposal(pool) \in Seq(Tx)
    BY <2>2, <2>3, PoolOfPushes, Selection
  <2>5. SplitPayload(PreparePayload(SelectForProposal(pool))) \in Seq(Tx)
    BY <2>4, SplitOfPrepared, PiecesType
  <2>6. chain' \in Seq(Seq(Tx))
    <3>1. PICK block : block = SplitPayload(PreparePayload(SelectForProposal(pool)))
      OBVIOUS
    <3>2. block \in Seq(Tx) /\ chain' = Append(chain, block)
      BY <2>1, <2>3, <2>5, <3>1
    <3>3. QED
      BY <3>2 DEF OrdersInv
  <2>7. app' = app
    BY <1>1 DEF Propose
  <2>8. QED
    BY <2>6, <2>7 DEF OrdersInv
<1>2. ASSUME NEW r \in Replica, ExecuteTx(r) PROVE OrdersInv'
  <2>1. DOMAIN app = Replica /\ DOMAIN app[r] = AppField /\ At(r) \notin app[r].refused /\ UnpaidAt(app[r], At(r)) = {}
    BY HereIsNoGap DEF PastInv, ShapeInv, Within
  <2>2. /\ HasNext(r)
        /\ app' = [app EXCEPT ![r] = app'[r]]
        /\ app'[r] = Outcome(app[r], NextTx(r), At(r), At(r) \in app'[r].refused, UnpaidAt(app'[r], At(r)))
        /\ chain' = chain
    BY <1>2, <2>1, ExecuteTxIsOutcome
  <2>3. NextTx(r) \in Tx
    <3>1. height[r] \in Nat /\ position[r] \in Nat /\ height[r] < Len(chain) /\ position[r] < Len(Txs(r))
      BY <2>2 DEF PastInv, Within, HasNext, Executing
    <3>2. height[r] + 1 \in 1..Len(chain) /\ chain \in Seq(Seq(Tx))
      BY <3>1 DEF OrdersInv
    <3>3. Txs(r) \in Seq(Tx)
      BY <3>2 DEF Txs
    <3>4. position[r] + 1 \in 1..Len(Txs(r))
      BY <3>1, <3>3
    <3>5. QED
      BY <3>3, <3>4 DEF NextTx
  <2>4. AppInv(app'[r])
    <3>1. PICK a, tx, at, refused, X :
            /\ a = app[r] /\ tx = NextTx(r) /\ at = At(r)
            /\ refused = (At(r) \in app'[r].refused) /\ X = UnpaidAt(app'[r], At(r))
      OBVIOUS
    <3>2. AppInv(Outcome(a, tx, at, refused, X))
      BY <2>3, <3>1, OutcomeKeeps DEF OrdersInv
    <3>3. QED
      BY <2>2, <3>1, <3>2
  <2>5. \A s \in Replica : s # r => app'[s] = app[s]
    BY <2>1, <2>2
  <2>6. \A s \in Replica : AppInv(app'[s])
    BY <2>4, <2>5 DEF OrdersInv
  <2>7. QED
    BY <2>2, <2>6 DEF OrdersInv
<1>3. ASSUME NEW r \in Replica, FinishBlock(r) PROVE OrdersInv'
  BY <1>3 DEF FinishBlock, OrdersInv
<1>4. CASE UNCHANGED <<chain, height, position, app, appHash>>
  BY <1>4 DEF OrdersInv
<1>5. ShapeInv
  BY DEF PastInv
<1>6. QED
  BY <1>1, <1>2, <1>3, <1>4, <1>5, StepOfReplica

LEMMA OrdersInvariant == Spec => []OrdersInv
<1>1. Init => OrdersInv
  BY InitOrders
<1>2. PastInv /\ OrdersInv /\ [Next]_vars => OrdersInv'
  BY NextOrders
<1>3. QED
  BY <1>1, <1>2, PastInvariant, PTL DEF Spec

LEMMA OrdersWithin == OrdersInv => TradedWithinOrdered
<1> SUFFICES ASSUME OrdersInv, NEW r \in Replica, NEW l \in {Label(tx) : tx \in Signed}
             PROVE  \E tx \in Signed : Label(tx) = l
                      /\ app[r].traded[l]
                           + SumFunction([e \in RestingOf(app[r], l) |-> app[r].level[e[1]][e[2]][e[3]].qty]) <= Ordered(tx)
  BY DEF TradedWithinOrdered
<1> DEFINE a == app[r]
           R == RestingOf(a, l)
           f == [e \in R |-> a.level[e[1]][e[2]][e[3]].qty]
<1>1. AppInv(a) /\ l \in SignedLabel
  BY DEF OrdersInv, SignedLabel
<1>2. RestsOnce(a, l) /\ WithinSigned(a, l) /\ a.level \in BookState
  BY <1>1 DEF AppInv, OrderInv, AppType
<1>3. DOMAIN f = R /\ \A e \in R : f[e] = RestingQty(a, e)
  BY DEF RestingQty
<1>4. SumFunction(f) = SumFunctionOnSet(f, R)
  <2>1. DOMAIN f = R
    OBVIOUS
  <2> HIDE DEF f, R
  <2>2. QED
    BY <2>1 DEF SumFunction
<1>5. PICK tx \in Signed : /\ Label(tx) = l /\ a.traded[l] <= Ordered(tx)
                           /\ \A e \in R : a.traded[l] + RestingQty(a, e) <= Ordered(tx)
  BY <1>2 DEF WithinSigned
<1>6. a.traded[l] \in Nat
  BY <1>2 DEF WithinSigned
<1>7. CASE R = {}
  <2>1. SumFunctionOnSet(f, {}) = 0
    BY FS_EmptySet, SumPick
  <2> HIDE DEF f, R
  <2>2. SumFunctionOnSet(f, R) = 0
    BY <1>7, <2>1
  <2>3. a.traded[l] + SumFunction(f) <= Ordered(tx)
    BY <1>4, <1>5, <1>6, <2>2
  <2>4. QED
    BY <1>5, <2>3 DEF f, R
<1>8. CASE R # {}
  <2>1. PICK e \in R : TRUE
    BY <1>8
  <2>2. R = {e}
    BY <1>2, <2>1 DEF RestsOnce
  <2>3. f[e] = RestingQty(a, e) /\ f[e] \in Int
    BY <1>2, <1>3, <2>1, RestingQtyIsNat
  <2> HIDE DEF f, R
  <2>4. IsFiniteSet({e}) /\ IsFiniteSet({})
    BY FS_Singleton, FS_EmptySet
  <2>5. SumFunctionOnSet(f, {e}) = f[e] + SumFunctionOnSet(f, {e} \ {e})
    BY <2>3, <2>4, SumRemove
  <2>6. SumFunctionOnSet(f, {e} \ {e}) = 0
    <3>1. {e} \ {e} = {}
      OBVIOUS
    <3>2. SumFunctionOnSet(f, {}) = 0
      BY <2>4, SumPick
    <3>3. QED
      BY <3>1, <3>2
  <2>7. SumFunctionOnSet(f, R) = RestingQty(a, e)
    BY <2>2, <2>3, <2>5, <2>6
  <2>8. a.traded[l] + SumFunction(f) <= Ordered(tx)
    BY <1>4, <1>5, <2>1, <2>7
  <2>9. QED
    BY <1>5, <2>8 DEF f, R
<1>9. QED
  BY <1>7, <1>8

\* A signed order trades and rests within what 64 bits hold of the quantity its
\* owner signed, on every replica, however often it is submitted, with nonces and
\* quantities of any length, and whatever the cancels, the agents and the unsigned
\* orders do, those with the same ID included.
THEOREM OrdersTradeOnce == Spec => []TradedWithinOrdered
BY OrdersInvariant, OrdersWithin, PTL

\* An order that was rejected, for its margin or by the market, has consumed its
\* nonce: it never trades or rests, also if it comes again when it would pass.
THEOREM RejectionIsFinal == Spec => []RejectedStaysRejected
<1>1. OrdersInv => RejectedStaysRejected
  BY DEF OrdersInv, AppInv, AppType, OrderInv, OnlyOnce, RejectedStaysRejected
<1>2. QED
  BY <1>1, OrdersInvariant, PTL

\* A resting signed order rests at one place, at the price the index names, so
\* Cancel finds it, unless an unsigned order had its ID: that one takes the entry.
THEOREM RestingIsCancellable == Spec => []SignedOrdersCancellable
<1>1. OrdersInv => SignedOrdersCancellable
  BY DEF OrdersInv, AppInv, OrderInv, RestsOnce, SignedOrdersCancellable, SignedLabel
<1>2. QED
  BY <1>1, OrdersInvariant, PTL
=============================================================================
