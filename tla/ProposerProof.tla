--------------------------- MODULE ProposerProof ---------------------------
(***************************************************************************)
(* Theorems about Proposer, for every set of transactions and every limit. *)
(***************************************************************************)
EXTENDS Proposer, MempoolProof

\* The queues of a pool: each bucket has transactions of its class, each once.
Classified(p) ==
  \A b \in Bucket : IsInjective(p[b]) /\ \A i \in 1..Len(p[b]) : ClassifyRaw(p[b][i]) = b

LEMMA PushClassified ==
  ASSUME NEW p \in [Bucket -> Seq(Tx)], Classified(p), NEW tx \in Tx, ~Holds(p[ClassifyRaw(tx)], tx)
  PROVE  Classified(PushRaw(p, tx))
<1> DEFINE c == ClassifyRaw(tx)
<1>1. PushRaw(p, tx)[c] = Append(p[c], tx) /\ c \in Bucket /\ \A b \in Bucket : b # c => PushRaw(p, tx)[b] = p[b]
  BY PushKeepsType
<1>2. \A i \in 1..Len(p[c]) : p[c][i] # tx
  BY DEF Holds
<1>3. p[c] \in Seq(Tx) /\ IsInjective(p[c]) /\ \A i \in 1..Len(p[c]) : ClassifyRaw(p[c][i]) = c
  BY <1>1 DEF Classified
<1> DEFINE q == p[c]
           new == Append(q, tx)
<1> HIDE DEF q
<1>4. q \in Seq(Tx) /\ IsInjective(q) /\ \A i \in 1..Len(q) : ClassifyRaw(q[i]) = c /\ q[i] # tx
  BY <1>2, <1>3 DEF q
<1>5. /\ DOMAIN new = 1..Len(q) + 1 /\ Len(new) = Len(q) + 1
      /\ new[Len(q) + 1] = tx /\ \A i \in 1..Len(q) : new[i] = q[i]
  BY <1>4
<1>6. \A i \in 1..Len(new) : i \in 1..Len(q) \/ i = Len(q) + 1
  BY <1>4, <1>5
<1> HIDE DEF new, c
<1>7. IsInjective(new)
  BY <1>4, <1>5, <1>6 DEF IsInjective
<1>8. \A i \in 1..Len(new) : ClassifyRaw(new[i]) = c
  BY <1>4, <1>5, <1>6 DEF c
<1>9. QED
  BY <1>1, <1>7, <1>8 DEF Classified, new, q, c

LEMMA PartsClassified ==
  ASSUME NEW p \in [Bucket -> Seq(Tx)], Classified(p)
  PROVE  Classified(Pulled(p)) /\ Classified(Unselected(p))
<1>1. ASSUME NEW b \in Bucket
      PROVE  /\ IsInjective(Pulled(p)[b]) /\ \A i \in 1..Len(Pulled(p)[b]) : ClassifyRaw(Pulled(p)[b][i]) = b
             /\ IsInjective(Unselected(p)[b]) /\ \A i \in 1..Len(Unselected(p)[b]) : ClassifyRaw(Unselected(p)[b][i]) = b
  <2>1. PICK s, t : s = Pulled(p)[b] /\ t = Unselected(p)[b]
    OBVIOUS
  <2>2. s \in Seq(Tx) /\ t \in Seq(Tx) /\ p[b] = s \o t
    BY <2>1, Selection
  <2>3. IsInjective(s \o t) /\ \A i \in 1..Len(s \o t) : ClassifyRaw((s \o t)[i]) = b
    BY <2>2 DEF Classified
  <2>4. Len(s \o t) = Len(s) + Len(t) /\ Len(s) \in Nat /\ Len(t) \in Nat
        /\ DOMAIN s = 1..Len(s) /\ DOMAIN t = 1..Len(t) /\ DOMAIN (s \o t) = 1..Len(s \o t)
    BY <2>2
  <2>5. \A i \in 1..Len(s) : i \in 1..Len(s \o t) /\ (s \o t)[i] = s[i]
    BY <2>2
  <2>6. \A i \in 1..Len(t) : i + Len(s) \in 1..Len(s \o t) /\ (s \o t)[i + Len(s)] = t[i]
    BY <2>2
  <2>7. IsInjective(s) /\ \A i \in 1..Len(s) : ClassifyRaw(s[i]) = b
    BY <2>3, <2>4, <2>5 DEF IsInjective
  <2>8. \A i \in 1..Len(t) : ClassifyRaw(t[i]) = b
    BY <2>3, <2>6
  <2>9. IsInjective(t)
    <3> SUFFICES ASSUME NEW i \in 1..Len(t), NEW j \in 1..Len(t), t[i] = t[j] PROVE i = j
      BY <2>4 DEF IsInjective
    <3>1. i + Len(s) = j + Len(s)
      BY <2>3, <2>4, <2>6 DEF IsInjective
    <3>2. QED
      BY <2>4, <3>1
  <2>10. QED
    BY <2>1, <2>7, <2>8, <2>9
<1>2. QED
  BY <1>1 DEF Classified

-----------------------------------------------------------------------------
(***************************************************************************)
(* The proposer                                                            *)
(***************************************************************************)

\* A transaction that is behind an order, and the order, are both pending; an
\* API cancel is behind its order in the same queue.
BehindInv ==
  \A pair \in behind :
    /\ Cancels(pair[1], pair[2])
    /\ IsPending(pair[1]) /\ IsPending(pair[2])
    /\ pair[1].kind = "C" =>
         \E i, j \in 1..Len(pool["orders"]) :
           i < j /\ pool["orders"][i] = pair[2] /\ pool["orders"][j] = pair[1]

Inv == TypeOK /\ BlocksFit /\ BehindInv

LEMMA InitInv == Init => Inv
<1> SUFFICES ASSUME Init PROVE Inv
  OBVIOUS
<1>1. pool = [b \in Bucket |-> <<>>] /\ selected = <<>> /\ block = <<>> /\ behind = {}
  BY DEF Init, NewMempool
<1>2. TypeOK
  BY <1>1 DEF TypeOK, IsInjective
<1>3. BlocksFit
  <2> DEFINE f == [i \in DOMAIN selected |-> selected[i].bytes]
  <2>1. DOMAIN f = {}
    BY <1>1
  <2> HIDE DEF f
  <2>2. SumFunction(f) = 0
    BY <2>1, SumZero, FS_EmptySet DEF SumFunction
  <2>3. QED
    BY <2>2, LimitAssumption DEF BlocksFit, Bytes, f
<1>4. BehindInv
  BY <1>1 DEF BehindInv
<1>5. QED
  BY <1>2, <1>3, <1>4 DEF Inv

LEMMA InvPushTx == ASSUME Inv, NEW tx \in Tx, PushTx(tx) PROVE Inv'
<1> DEFINE c == ClassifyRaw(tx)
<1>1. /\ pool \in [Bucket -> Seq(Tx)] /\ Classified(pool)
      /\ ~Holds(pool[c], tx) /\ pool' = PushRaw(pool, tx) /\ selected' = selected /\ block' = block
  BY DEF Inv, TypeOK, Classified, PushTx, IsPending
<1>2. /\ pool' \in [Bucket -> Seq(Tx)] /\ c \in Bucket
      /\ pool'[c] = Append(pool[c], tx) /\ \A b \in Bucket : b # c => pool'[b] = pool[b]
  BY <1>1, PushKeepsType
<1>3. Classified(pool')
  BY <1>1, PushClassified
<1>4. ASSUME NEW b \in Bucket
      PROVE  /\ Len(pool'[b]) \in Nat /\ Len(pool[b]) \in Nat /\ Len(pool[b]) <= Len(pool'[b])
             /\ \A i \in 1..Len(pool[b]) : pool'[b][i] = pool[b][i]
  <2>1. CASE b = c
    BY <1>1, <1>2, <2>1
  <2>2. CASE b # c
    BY <1>1, <1>2, <2>2
  <2>3. QED
    BY <2>1, <2>2
<1>5. pool'[c][Len(pool[c]) + 1] = tx /\ Len(pool'[c]) = Len(pool[c]) + 1
  BY <1>1, <1>2
<1>6. \A t \in Tx : ClassifyRaw(t) \in Bucket
  BY PushKeepsType, <1>1
<1>7. ASSUME NEW t \in Tx, IsPending(t) PROVE IsPending(t)'
  <2>1. PICK i \in 1..Len(pool[ClassifyRaw(t)]) : pool[ClassifyRaw(t)][i] = t
    BY <1>7 DEF IsPending, Holds
  <2>2. i \in 1..Len(pool'[ClassifyRaw(t)]) /\ pool'[ClassifyRaw(t)][i] = t
    BY <1>4, <1>6, <2>1
  <2>3. QED
    BY <2>2 DEF IsPending, Holds
<1>8. IsPending(tx)'
  BY <1>2, <1>4, <1>5 DEF IsPending, Holds
<1>9. behind \subseteq Tx \X Tx /\ behind' \subseteq Tx \X Tx
  BY DEF Inv, TypeOK, PushTx
<1>10. ASSUME NEW pair \in behind'
       PROVE  /\ Cancels(pair[1], pair[2])
              /\ IsPending(pair[1])' /\ IsPending(pair[2])'
              /\ pair[1].kind = "C" =>
                   \E i, j \in 1..Len(pool'["orders"]) :
                     i < j /\ pool'["orders"][i] = pair[2] /\ pool'["orders"][j] = pair[1]
  <2>0. "orders" \in Bucket
    BY DEF Bucket
  <2>1. CASE pair \in behind
    <3>1. pair[1] \in Tx /\ pair[2] \in Tx
      BY <1>9, <2>1
    <3>2. /\ Cancels(pair[1], pair[2])
          /\ IsPending(pair[1]) /\ IsPending(pair[2])
          /\ pair[1].kind = "C" =>
               \E i, j \in 1..Len(pool["orders"]) :
                 i < j /\ pool["orders"][i] = pair[2] /\ pool["orders"][j] = pair[1]
      BY <2>1 DEF Inv, BehindInv
    <3>3. \A i \in 1..Len(pool["orders"]) : i \in 1..Len(pool'["orders"]) /\ pool'["orders"][i] = pool["orders"][i]
      BY <1>4, <2>0
    <3>4. QED
      BY <1>7, <3>1, <3>2, <3>3
  <2>2. CASE pair \notin behind
    <3>1. PICK order \in Tx : pair = <<tx, order>> /\ Cancels(tx, order) /\ IsPending(order)
      BY <2>2 DEF PushTx
    <3>2. pair[1] = tx /\ pair[2] = order
      BY <3>1
    <3>3. ASSUME tx.kind = "C"
          PROVE  \E i, j \in 1..Len(pool'["orders"]) :
                   i < j /\ pool'["orders"][i] = order /\ pool'["orders"][j] = tx
      <4>1. c = "orders" /\ ClassifyRaw(order) = "orders"
        BY <3>1, <3>3 DEF Cancels, ClassifyRaw
      <4>2. PICK i \in 1..Len(pool["orders"]) : pool["orders"][i] = order
        BY <3>1, <4>1 DEF IsPending, Holds
      <4>3. i \in 1..Len(pool'["orders"]) /\ pool'["orders"][i] = order
        BY <1>4, <2>0, <4>2
      <4>4. /\ Len(pool["orders"]) + 1 \in 1..Len(pool'["orders"]) /\ i < Len(pool["orders"]) + 1
            /\ pool'["orders"][Len(pool["orders"]) + 1] = tx
        BY <1>4, <1>5, <2>0, <4>1
      <4>5. QED
        BY <4>3, <4>4
    <3>4. QED
      BY <1>7, <1>8, <3>1, <3>2, <3>3
  <2>3. QED
    BY <2>1, <2>2
<1>11. BehindInv'
  BY <1>10 DEF BehindInv
<1>12. TypeOK' /\ BlocksFit'
  BY <1>1, <1>2, <1>3, <1>9 DEF Inv, TypeOK, BlocksFit, Classified
<1>13. QED
  BY <1>11, <1>12 DEF Inv

\* From m to n a block v has the transactions s, and these are all it has of b.
IsPiece(v, s, b, m, n) ==
  /\ m \in 1..Len(v) + 1 /\ n \in 0..Len(v)
  /\ SubSeq(v, m, n) = s
  /\ \A i \in 1..Len(s) : (m - 1) + i \in 1..Len(v) /\ v[(m - 1) + i] = s[i]
  /\ \A i \in 1..Len(v) : ClassifyRaw(v[i]) = b <=> i \in m..n

LEMMA Piece ==
  ASSUME NEW p \in [Bucket -> Seq(Tx)], Classified(p), NEW b \in Bucket
  PROVE  \E m, n \in Int : IsPiece(SelectForProposal(p), Pulled(p)[b], b, m, n)
<1>1. PICK s, t, u, v :
        /\ s = Pulled(p)["nonOrder"] /\ t = Pulled(p)["cancel"] /\ u = Pulled(p)["orders"]
        /\ v = SelectForProposal(p)
  OBVIOUS
<1>2. "nonOrder" \in Bucket /\ "cancel" \in Bucket /\ "orders" \in Bucket
  BY DEF Bucket
<1>3. s \in Seq(Tx) /\ t \in Seq(Tx) /\ u \in Seq(Tx) /\ v = (s \o t) \o u /\ v \in Seq(Tx)
  BY <1>1, <1>2, Selection
<1>4. /\ \A i \in 1..Len(s) : ClassifyRaw(s[i]) = "nonOrder"
      /\ \A i \in 1..Len(t) : ClassifyRaw(t[i]) = "cancel"
      /\ \A i \in 1..Len(u) : ClassifyRaw(u[i]) = "orders"
  BY <1>1, <1>2, PartsClassified DEF Classified
<1>16. /\ Len(s) \in Nat /\ Len(t) \in Nat /\ Len(u) \in Nat
       /\ Len(s) + Len(t) \in Nat /\ Len(v) \in Nat /\ Len(v) = (Len(s) + Len(t)) + Len(u)
  BY <1>3
<1>5. PICK k \in Nat, l \in Nat, n \in Nat :
        k = Len(s) /\ l = k + Len(t) /\ n = l + Len(u) /\ n = Len(v) /\ Len(t) \in Nat /\ Len(u) \in Nat
  BY <1>16
<1>6. /\ \A i \in 1..Len(s) : i \in 1..n /\ v[i] = s[i]
      /\ \A i \in 1..Len(t) : k + i \in 1..n /\ v[k + i] = t[i]
      /\ \A i \in 1..Len(u) : l + i \in 1..n /\ v[l + i] = u[i]
  BY <1>3, <1>5
<1>7. \A i \in 1..n : /\ i \in 1..k => ClassifyRaw(v[i]) = "nonOrder"
                      /\ i \in k+1..l => ClassifyRaw(v[i]) = "cancel"
                      /\ i \in l+1..n => ClassifyRaw(v[i]) = "orders"
  <2>1. ASSUME NEW i \in 1..n, i \in 1..k PROVE ClassifyRaw(v[i]) = "nonOrder"
    BY <1>4, <1>5, <1>6, <2>1
  <2>2. ASSUME NEW i \in 1..n, i \in k+1..l PROVE ClassifyRaw(v[i]) = "cancel"
    <3>1. i - k \in 1..Len(t) /\ k + (i - k) = i
      BY <1>5, <2>2
    <3>2. v[i] = t[i - k]
      BY <1>6, <3>1
    <3>3. QED
      BY <1>4, <3>1, <3>2
  <2>3. ASSUME NEW i \in 1..n, i \in l+1..n PROVE ClassifyRaw(v[i]) = "orders"
    <3>1. i - l \in 1..Len(u) /\ l + (i - l) = i
      BY <1>5, <2>3
    <3>2. v[i] = u[i - l]
      BY <1>6, <3>1
    <3>3. QED
      BY <1>4, <3>1, <3>2
  <2>4. QED
    BY <2>1, <2>2, <2>3
<1>8. k <= l /\ l <= n /\ k \in 0..n /\ l \in 0..n
  BY <1>5
<1>9. \A i \in 1..n : i \in 1..k \/ i \in k+1..l \/ i \in l+1..n
  BY <1>8
<1>10. \A i \in 1..n : /\ ClassifyRaw(v[i]) = "nonOrder" <=> i \in 1..k
                       /\ ClassifyRaw(v[i]) = "cancel" <=> i \in k+1..l
                       /\ ClassifyRaw(v[i]) = "orders" <=> i \in l+1..n
  BY <1>7, <1>9
<1>11. ASSUME NEW w \in Seq(Tx), NEW o \in 0..n, NEW e \in 0..n, Len(w) = e - o,
              \A i \in 1..Len(w) : o + i \in 1..n /\ v[o + i] = w[i],
              \A i \in 1..n : ClassifyRaw(v[i]) = b <=> i \in o+1..e
       PROVE  IsPiece(v, w, b, o + 1, e)
  <2>1. SubSeq(v, o + 1, e) \in Seq(Tx) /\ Len(SubSeq(v, o + 1, e)) = Len(w)
    BY <1>3, <1>5, <1>11
  <2>2. \A i \in 1..Len(w) : SubSeq(v, o + 1, e)[i] = v[o + i]
    <3>1. o + 1 \in Int /\ e \in Int /\ e - (o + 1) + 1 = Len(w)
      BY <1>11
    <3>2. ASSUME NEW j \in (o + 1)..e PROVE v[j] \in Tx
      <4>1. j \in 1..n
        OBVIOUS
      <4>2. QED
        BY <1>3, <1>5, <4>1
    <3>3. \A i \in 1..(e - (o + 1) + 1) : SubSeq(v, o + 1, e)[i] = v[(o + 1) + i - 1]
      BY <3>1, <3>2, SubSeqProperties
    <3>4. \A i \in 1..Len(w) : (o + 1) + i - 1 = o + i
      BY <3>1
    <3>5. QED
      BY <3>1, <3>3, <3>4
  <2>3. SubSeq(v, o + 1, e) = w
    BY <1>11, <2>1, <2>2, SeqEqual
  <2>4. (o + 1) - 1 = o /\ o + 1 \in 1..n + 1
    BY <1>11
  <2>5. QED
    BY <1>5, <1>11, <2>3, <2>4 DEF IsPiece
<1>12. CASE b = "nonOrder"
  <2>1. 0 \in 0..n /\ Len(s) = k - 0 /\ 0 + 1 = 1
    BY <1>5, <1>8
  <2>2. \A i \in 1..Len(s) : 0 + i = i
    OBVIOUS
  <2>3. IsPiece(v, s, b, 0 + 1, k)
    BY <1>3, <1>6, <1>8, <1>10, <1>11, <1>12, <2>1, <2>2
  <2>4. QED
    BY <1>1, <1>12, <2>1, <2>3
<1>13. CASE b = "cancel"
  <2>1. Len(t) = l - k /\ k + 1 \in Int
    BY <1>5
  <2>2. IsPiece(v, t, b, k + 1, l)
    BY <1>3, <1>6, <1>8, <1>10, <1>11, <1>13, <2>1
  <2>3. QED
    BY <1>1, <1>13, <2>1, <2>2
<1>14. CASE b = "orders"
  <2>1. Len(u) = n - l /\ l + 1 \in Int /\ n \in 0..n
    BY <1>5
  <2>2. IsPiece(v, u, b, l + 1, n)
    BY <1>3, <1>6, <1>8, <1>10, <1>11, <1>14, <2>1
  <2>3. QED
    BY <1>1, <1>14, <2>1, <2>2
<1>15. QED
  BY <1>12, <1>13, <1>14 DEF Bucket

LEMMA ProposeSelects ==
  ASSUME Inv, Propose
  PROVE  /\ pool \in [Bucket -> Seq(Tx)] /\ Classified(pool)
         /\ pool' = Unselected(pool) /\ selected' = SelectForProposal(pool)
         /\ selected' \in Seq(Tx) /\ block' = Pieces(selected') /\ block' \in Seq(Tx)
         /\ behind' = {pair \in behind : ~Holds(selected', pair[1]) /\ ~Holds(selected', pair[2])}
<1>1. pool \in [Bucket -> Seq(Tx)] /\ Classified(pool)
  BY DEF Inv, TypeOK, Classified
<1>2. pool' = Unselected(pool) /\ selected' = SelectForProposal(pool) /\ selected' \in Seq(Tx)
  BY <1>1, Selection DEF Propose
<1>3. block' = Pieces(selected') /\ block' \in Seq(Tx)
  BY <1>2, SplitOfPrepared, PiecesType DEF Propose
<1>4. QED
  BY <1>1, <1>2, <1>3 DEF Propose

\* Where a pending transaction is after a proposal: in the block, before what
\* was behind it, or still pending.
LEMMA PlaceAfterPropose ==
  ASSUME Inv, Propose, NEW b \in Bucket, NEW i \in 1..Len(pool[b])
  PROVE  \/ Holds(selected', pool[b][i])
         \/ i - Len(Pulled(pool)[b]) \in 1..Len(pool'[b]) /\ pool'[b][i - Len(Pulled(pool)[b])] = pool[b][i]
<1>1. PICK s, t : s = Pulled(pool)[b] /\ t = pool'[b]
  OBVIOUS
<1>2. s \in Seq(Tx) /\ t \in Seq(Tx) /\ pool[b] = s \o t
  BY <1>1, ProposeSelects, Selection
<1>3. CASE i <= Len(s)
  <2>1. i \in 1..Len(s) /\ pool[b][i] = s[i]
    BY <1>2, <1>3
  <2>2. PICK m, n \in Int : IsPiece(selected', s, b, m, n)
    BY <1>1, ProposeSelects, Piece
  <2>3. (m - 1) + i \in 1..Len(selected') /\ selected'[(m - 1) + i] = s[i]
    BY <2>1, <2>2 DEF IsPiece
  <2>4. QED
    BY <2>1, <2>3 DEF Holds
<1>4. CASE ~(i <= Len(s))
  <2>1. i - Len(s) \in 1..Len(t) /\ t[i - Len(s)] = pool[b][i]
    BY <1>2, <1>4
  <2>2. QED
    BY <1>1, <2>1
<1>5. QED
  BY <1>3, <1>4

LEMMA InvPropose == ASSUME Inv, Propose PROVE Inv'
<1>1. /\ pool \in [Bucket -> Seq(Tx)] /\ Classified(pool)
      /\ pool' = Unselected(pool) /\ selected' = SelectForProposal(pool)
      /\ behind' = {pair \in behind : ~Holds(selected', pair[1]) /\ ~Holds(selected', pair[2])}
  BY ProposeSelects
<1>2. pool' \in [Bucket -> Seq(Tx)] /\ Classified(pool') /\ selected' \in Seq(Tx) /\ block' \in Seq(Tx) /\ Bytes(selected') <= MaxTxBytes
  BY <1>1, ProposeSelects, Selection, PartsClassified, PulledIsPrefix
<1>3. behind \subseteq Tx \X Tx
  BY DEF Inv, TypeOK
<1>4. TypeOK' /\ BlocksFit'
  BY <1>1, <1>2, <1>3 DEF TypeOK, BlocksFit, Classified
<1>5. ASSUME NEW tx \in Tx, IsPending(tx), ~Holds(selected', tx) PROVE IsPending(tx)'
  <2>1. ClassifyRaw(tx) \in Bucket
    BY DEF ClassifyRaw, Bucket
  <2>2. PICK i \in 1..Len(pool[ClassifyRaw(tx)]) : pool[ClassifyRaw(tx)][i] = tx
    BY <1>5 DEF IsPending, Holds
  <2>3. \E j \in 1..Len(pool'[ClassifyRaw(tx)]) : pool'[ClassifyRaw(tx)][j] = tx
    BY <1>5, <2>1, <2>2, PlaceAfterPropose
  <2>4. QED
    BY <2>3 DEF IsPending, Holds
<1>6. ASSUME NEW pair \in behind'
      PROVE  /\ Cancels(pair[1], pair[2])
             /\ IsPending(pair[1])' /\ IsPending(pair[2])'
             /\ pair[1].kind = "C" =>
                  \E i, j \in 1..Len(pool'["orders"]) :
                    i < j /\ pool'["orders"][i] = pair[2] /\ pool'["orders"][j] = pair[1]
  <2>1. pair \in behind /\ ~Holds(selected', pair[1]) /\ ~Holds(selected', pair[2])
    BY <1>1
  <2>2. /\ Cancels(pair[1], pair[2])
        /\ IsPending(pair[1]) /\ IsPending(pair[2])
    BY <2>1 DEF Inv, BehindInv
  <2>3. pair[1] \in Tx /\ pair[2] \in Tx
    BY <1>3, <2>1
  <2>4. ASSUME pair[1].kind = "C"
        PROVE  \E i, j \in 1..Len(pool'["orders"]) :
                 i < j /\ pool'["orders"][i] = pair[2] /\ pool'["orders"][j] = pair[1]
    <3> DEFINE k == Len(Pulled(pool)["orders"])
    <3>1. PICK i \in 1..Len(pool["orders"]), j \in 1..Len(pool["orders"]) :
            i < j /\ pool["orders"][i] = pair[2] /\ pool["orders"][j] = pair[1]
      BY <2>1, <2>4 DEF Inv, BehindInv
    <3>2. "orders" \in Bucket
      BY DEF Bucket
    <3>3. k \in Nat
      BY <1>1, <3>2, Selection
    <3> HIDE DEF k
    <3>4. /\ i - k \in 1..Len(pool'["orders"]) /\ pool'["orders"][i - k] = pair[2]
          /\ j - k \in 1..Len(pool'["orders"]) /\ pool'["orders"][j - k] = pair[1]
      BY <2>1, <3>1, <3>2, PlaceAfterPropose DEF k
    <3>5. i - k < j - k
      BY <3>1, <3>3
    <3>6. QED
      BY <3>4, <3>5
  <2>5. QED
    BY <1>5, <2>1, <2>2, <2>3, <2>4
<1>7. BehindInv'
  BY <1>6 DEF BehindInv
<1>8. QED
  BY <1>4, <1>7 DEF Inv

LEMMA NextInv == Inv /\ [Next]_vars => Inv'
<1> SUFFICES ASSUME Inv, [Next]_vars PROVE Inv'
  OBVIOUS
<1>1. CASE \E tx \in Tx : SubmitOrder(tx) \/ CancelOrder(tx) \/ Feed(tx) \/ SubmitCancel(tx)
  BY <1>1, InvPushTx DEF SubmitOrder, CancelOrder, Feed, SubmitCancel
<1>2. CASE Propose
  BY <1>2, InvPropose
<1>3. CASE UNCHANGED vars
  BY <1>3 DEF vars, Inv, TypeOK, BlocksFit, BehindInv, IsPending
<1>4. QED
  BY <1>1, <1>2, <1>3 DEF Next

LEMMA Invariant == Spec => []Inv
BY InitInv, NextInv, PTL DEF Spec

-----------------------------------------------------------------------------
(***************************************************************************)
(* Theorems                                                                *)
(***************************************************************************)

\* No call of PushTx and no selection puts a transaction in a queue twice or in
\* another's queue, and validators see nothing but transactions that were pushed.
THEOREM TypeCorrect == Spec => []TypeOK
BY Invariant, PTL DEF Inv

\* What SelectForProposal takes from three buckets in turn stays together
\* within the limit, and delimiters in the payload change nothing in it.
THEOREM LimitHolds == Spec => []BlocksFit
BY Invariant, PTL DEF Inv

LEMMA NextFirstInFirstOut ==
  ASSUME Inv, [Next]_vars, NEW b \in Bucket
  PROVE  \/ IsPrefix(pool[b], pool'[b])
         \/ \E m \in 1..Len(selected') + 1, n \in 0..Len(selected') :
              /\ pool[b] = SubSeq(selected', m, n) \o pool'[b]
              /\ \A i \in 1..Len(selected') : ClassifyRaw(selected'[i]) = b <=> i \in m..n
<1>1. pool[b] \in Seq(Tx) /\ pool \in [Bucket -> Seq(Tx)]
  BY DEF Inv, TypeOK
<1>2. CASE UNCHANGED vars
  BY <1>1, <1>2 DEF vars, IsPrefix
<1>3. ASSUME NEW tx \in Tx, PushTx(tx) PROVE IsPrefix(pool[b], pool'[b])
  <2>1. pool'[b] = pool[b] \/ pool'[b] = Append(pool[b], tx)
    BY <1>1, <1>3, PushKeepsType DEF PushTx
  <2>2. CASE pool'[b] = pool[b]
    BY <1>1, <2>2 DEF IsPrefix
  <2>3. CASE pool'[b] = Append(pool[b], tx)
    <3> DEFINE s == pool[b]
               t == Append(s, tx)
    <3>1. s \in Seq(Tx) /\ t \in Seq(Tx) /\ Len(t) = Len(s) + 1 /\ Len(s) \in Nat /\ \A i \in 1..Len(s) : t[i] = s[i]
      BY <1>1
    <3> HIDE DEF s, t
    <3>2. SubSeq(s, 1, Len(s)) = SubSeq(t, 1, Len(s))
      <4>1. /\ SubSeq(s, 1, Len(s)) \in Seq(Tx) /\ SubSeq(t, 1, Len(s)) \in Seq(Tx)
            /\ Len(SubSeq(s, 1, Len(s))) = Len(s) /\ Len(SubSeq(t, 1, Len(s))) = Len(s)
            /\ \A i \in 1..Len(s) : SubSeq(s, 1, Len(s))[i] = s[i] /\ SubSeq(t, 1, Len(s))[i] = t[i]
        BY <3>1
      <4>2. QED
        BY <3>1, <4>1, SeqEqual
    <3>3. QED
      BY <2>3, <3>1, <3>2 DEF IsPrefix, s, t
  <2>4. QED
    BY <2>1, <2>2, <2>3
<1>4. CASE Propose
  <2>1. PICK m, n \in Int : IsPiece(selected', Pulled(pool)[b], b, m, n)
    BY <1>4, ProposeSelects, Piece
  <2>2. pool[b] = Pulled(pool)[b] \o pool'[b]
    BY <1>4, ProposeSelects, Selection
  <2>3. QED
    BY <2>1, <2>2 DEF IsPiece
<1>5. QED
  BY <1>2, <1>3, <1>4 DEF Next, SubmitOrder, CancelOrder, Feed, SubmitCancel

LEMMA NextBlock == Inv /\ [Next]_vars => UNCHANGED <<selected, block>> \/ block' = Pieces(selected')
<1> SUFFICES ASSUME Inv, [Next]_vars PROVE UNCHANGED <<selected, block>> \/ block' = Pieces(selected')
  OBVIOUS
<1>1. CASE \E tx \in Tx : SubmitOrder(tx) \/ CancelOrder(tx) \/ Feed(tx) \/ SubmitCancel(tx)
  BY <1>1 DEF SubmitOrder, CancelOrder, Feed, SubmitCancel, PushTx
<1>2. CASE Propose
  BY <1>2, ProposeSelects
<1>3. CASE UNCHANGED vars
  BY <1>3 DEF vars
<1>4. QED
  BY <1>1, <1>2, <1>3 DEF Next

\* Transactions of a bucket are proposed in the order in which they came, each
\* once, and the validators split the payload into the pieces of each in turn.
THEOREM QueuesAreFirstInFirstOut == Spec => FirstInFirstOut
<1>1. ASSUME Inv, [Next]_vars
      PROVE  /\ \A b \in Bucket :
                  \/ IsPrefix(pool[b], pool'[b])
                  \/ \E m \in 1..Len(selected') + 1, n \in 0..Len(selected') :
                       /\ pool[b] = SubSeq(selected', m, n) \o pool'[b]
                       /\ \A i \in 1..Len(selected') : ClassifyRaw(selected'[i]) = b <=> i \in m..n
             /\ UNCHANGED <<selected, block>> \/ block' = Pieces(selected')
  BY <1>1, NextFirstInFirstOut, NextBlock
<1>2. QED
  BY <1>1, Invariant, PTL DEF Spec, FirstInFirstOut

LEMMA NextOrdersFirst ==
  ASSUME Inv, [Next]_vars, NEW pair \in behind,
         pair[1].kind = "C", ~Holds(pool'[ClassifyRaw(pair[1])], pair[1])
  PROVE  \E i, j \in 1..Len(selected') : i < j /\ selected'[i] = pair[2] /\ selected'[j] = pair[1]
<1>1. IsPending(pair[1]) /\ ClassifyRaw(pair[1]) = "orders" /\ "orders" \in Bucket /\ pair[1] \in Tx
  BY DEF Inv, TypeOK, BehindInv, ClassifyRaw, Bucket
<1>2. PICK i \in 1..Len(pool["orders"]), j \in 1..Len(pool["orders"]) :
        i < j /\ pool["orders"][i] = pair[2] /\ pool["orders"][j] = pair[1]
  BY DEF Inv, BehindInv
<1>3. ~Holds(pool'["orders"], pair[1]) /\ Holds(pool["orders"], pair[1])
  BY <1>1 DEF IsPending
<1>4. Propose
  <2>1. ASSUME NEW tx \in Tx, PushTx(tx) PROVE FALSE
    <3>1. pool \in [Bucket -> Seq(Tx)]
      BY DEF Inv, TypeOK
    <3>2. pool'["orders"] = pool["orders"] \/ pool'["orders"] = Append(pool["orders"], tx)
      BY <1>1, <2>1, <3>1, PushKeepsType DEF PushTx
    <3>3. j \in 1..Len(pool'["orders"]) /\ pool'["orders"][j] = pool["orders"][j]
      BY <1>1, <3>1, <3>2
    <3>4. QED
      BY <1>2, <1>3, <3>3 DEF Holds
  <2>2. ~UNCHANGED vars
    BY <1>3 DEF vars
  <2>3. QED
    BY <2>1, <2>2 DEF Next, SubmitOrder, CancelOrder, Feed, SubmitCancel
<1> DEFINE s == Pulled(pool)["orders"]
<1>5. s \in Seq(Tx) /\ pool'["orders"] \in Seq(Tx) /\ pool["orders"] = s \o pool'["orders"]
  BY <1>1, <1>4, ProposeSelects, Selection
<1> HIDE DEF s
<1>6. j <= Len(s)
  <2>1. ASSUME ~(j <= Len(s)) PROVE FALSE
    <3>1. j - Len(s) \in 1..Len(pool'["orders"]) /\ pool'["orders"][j - Len(s)] = pool["orders"][j]
      BY <1>5, <2>1
    <3>2. QED
      BY <1>2, <1>3, <3>1 DEF Holds
  <2>2. QED
    BY <2>1
<1>7. i \in 1..Len(s) /\ j \in 1..Len(s) /\ s[i] = pair[2] /\ s[j] = pair[1] /\ Len(s) \in Nat
  BY <1>2, <1>5, <1>6
<1>8. PICK m, n \in Int : IsPiece(selected', s, "orders", m, n)
  BY <1>1, <1>4, ProposeSelects, Piece DEF s
<1>9. /\ (m - 1) + i \in 1..Len(selected') /\ selected'[(m - 1) + i] = pair[2]
      /\ (m - 1) + j \in 1..Len(selected') /\ selected'[(m - 1) + j] = pair[1]
  BY <1>7, <1>8 DEF IsPiece
<1>10. (m - 1) + i < (m - 1) + j
  BY <1>2, <1>7
<1>11. QED
  BY <1>9, <1>10

\* An API cancel that came after its order follows it into a block: never into
\* an earlier one, and into the same one only behind it.
THEOREM ApiCancelsComeAfter == Spec => OrdersBeforeApiCancels
<1>1. ASSUME Inv, [Next]_vars
      PROVE  \A pair \in behind :
               pair[1].kind = "C" /\ ~Holds(pool'[ClassifyRaw(pair[1])], pair[1]) =>
                 \E i, j \in 1..Len(selected') : i < j /\ selected'[i] = pair[2] /\ selected'[j] = pair[1]
  BY <1>1, NextOrdersFirst
<1>2. QED
  BY <1>1, Invariant, PTL DEF Spec, OrdersBeforeApiCancels
=============================================================================
