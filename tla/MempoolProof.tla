---------------------------- MODULE MempoolProof ----------------------------
(***************************************************************************)
(* What the operators of Mempool return, for every set of transactions and *)
(* every limit.                                                            *)
(***************************************************************************)
EXTENDS Mempool, Induction, SequenceTheorems

-----------------------------------------------------------------------------
(***************************************************************************)
(* Lengths in bytes                                                        *)
(***************************************************************************)

LEMMA TxBytes == ASSUME NEW s \in Seq(Tx) PROVE \A i \in 1..Len(s) : s[i].bytes \in Nat
BY LimitAssumption

\* A prefix has the sum of the lengths of its transactions.
LEMMA BytesOfPrefix ==
  ASSUME NEW s \in Seq(Tx), NEW n \in 0..Len(s),
         NEW f, \A i \in 1..Len(s) : f[i] = s[i].bytes
  PROVE  Bytes(SubSeq(s, 1, n)) = SumFunctionOnSet(f, 1..n)
<1> DEFINE p == SubSeq(s, 1, n)
           g == [i \in DOMAIN p |-> p[i].bytes]
<1>1. DOMAIN p = 1..n /\ \A i \in 1..n : p[i] = s[i]
  OBVIOUS
<1>2. DOMAIN g = 1..n /\ \A i \in 1..n : g[i] = f[i] /\ g[i] \in Int
  BY <1>1, TxBytes
<1>3. Bytes(p) = SumFunctionOnSet(g, 1..n)
  BY <1>1, <1>2 DEF Bytes, SumFunction
<1> HIDE DEF g
<1>4. SumFunctionOnSet(g, 1..n) = SumFunctionOnSet(f, 1..n)
  <2>1. IsFiniteSet(1..n)
    BY FiniteInterval
  <2>2. QED
    BY <1>2, <2>1, SumSame
<1>5. QED
  BY <1>3, <1>4

LEMMA BytesNat == ASSUME NEW s \in Seq(Tx) PROVE Bytes(s) \in Nat
<1> DEFINE f == [i \in DOMAIN s |-> s[i].bytes]
<1>1. DOMAIN f = 1..Len(s) /\ \A i \in 1..Len(s) : f[i] \in Nat
  BY TxBytes
<1> HIDE DEF f
<1>2. SumFunctionOnSet(f, 1..Len(s)) \in Nat
  <2>1. IsFiniteSet(1..Len(s))
    BY FiniteInterval
  <2>2. QED
    BY <1>1, <2>1, SumNat
<1>3. QED
  BY <1>1, <1>2 DEF Bytes, SumFunction, f

LEMMA PrefixIsShorter ==
  ASSUME NEW s \in Seq(Tx), NEW m \in 0..Len(s), NEW n \in m..Len(s)
  PROVE  Bytes(SubSeq(s, 1, m)) <= Bytes(SubSeq(s, 1, n))
<1> DEFINE f == [i \in 1..Len(s) |-> s[i].bytes]
<1>1. \A i \in 1..Len(s) : f[i] = s[i].bytes /\ f[i] \in Nat
  BY TxBytes
<1> HIDE DEF f
<1>2. Bytes(SubSeq(s, 1, m)) = SumFunctionOnSet(f, 1..m) /\ Bytes(SubSeq(s, 1, n)) = SumFunctionOnSet(f, 1..n)
  BY <1>1, BytesOfPrefix
<1>3. SumFunctionOnSet(f, 1..m) <= SumFunctionOnSet(f, 1..n)
  <2>1. Len(s) \in Nat /\ \A i \in 1..Len(s) : f[i] \in Nat
    BY <1>1
  <2>2. QED
    BY <2>1, PrefixSums
<1>4. QED
  BY <1>2, <1>3

LEMMA BytesOfConcat ==
  ASSUME NEW s \in Seq(Tx), NEW t \in Seq(Tx) PROVE Bytes(s \o t) = Bytes(s) + Bytes(t)
<1> DEFINE u == s \o t
           m == Len(s)
           n == Len(u)
           f == [i \in 1..n |-> u[i].bytes]
           h == [i \in 1..Len(t) |-> t[i].bytes]
           b == [i \in 1..Len(t) |-> m + i]
<1>1. u \in Seq(Tx) /\ m \in Nat /\ n = m + Len(t) /\ Len(t) \in Nat
  OBVIOUS
<1>2. \A i \in 1..n : f[i] \in Int /\ f[i] = u[i].bytes
  BY <1>1, TxBytes
<1>3. \A i \in 1..m : f[i] = s[i].bytes
  BY <1>1
<1>4. \A i \in 1..Len(t) : h[i] = t[i].bytes /\ h[i] \in Int /\ f[b[i]] = h[i]
  BY <1>1, TxBytes
<1>5. \A i, j \in 1..Len(t) : b[i] = b[j] => i = j
  BY <1>1
<1>6. {b[i] : i \in 1..Len(t)} = m+1..n
  <2>1. ASSUME NEW k \in m+1..n PROVE \E i \in 1..Len(t) : b[i] = k
    <3>1. k - m \in 1..Len(t) /\ b[k - m] = k
      BY <1>1
    <3>2. QED
      BY <3>1
  <2>2. \A i \in 1..Len(t) : b[i] \in m+1..n
    BY <1>1
  <2>3. QED
    BY <2>1, <2>2
<1>7. 1..n = (1..m) \cup (m+1..n) /\ (1..m) \cap (m+1..n) = {}
  BY <1>1
<1>8. IsFiniteSet(1..m) /\ IsFiniteSet(m+1..n) /\ IsFiniteSet(1..Len(t))
  BY <1>1, FiniteInterval
<1>9. SubSeq(u, 1, n) = u /\ SubSeq(s, 1, m) = s /\ SubSeq(t, 1, Len(t)) = t
  BY <1>1
<1>14. n \in 0..Len(u) /\ m \in 0..Len(s) /\ Len(t) \in 0..Len(t)
  BY <1>1
<1> HIDE DEF f, h, b, u, m, n
<1>10. SumFunctionOnSet(f, 1..n) = SumFunctionOnSet(f, 1..m) + SumFunctionOnSet(f, m+1..n)
  <2> DEFINE A == 1..m
             B == m+1..n
  <2>1. \A i \in A \cup B : f[i] \in Int
    BY <1>2, <1>7
  <2>2. IsFiniteSet(A) /\ IsFiniteSet(B) /\ A \cap B = {} /\ 1..n = A \cup B
    BY <1>7, <1>8
  <2> HIDE DEF A, B
  <2>3. SumFunctionOnSet(f, A \cup B) = SumFunctionOnSet(f, A) + SumFunctionOnSet(f, B)
    BY <2>1, <2>2, SumUnion
  <2>4. QED
    BY <2>2, <2>3 DEF A, B
<1>11. SumFunctionOnSet(f, m+1..n) = SumFunctionOnSet(h, 1..Len(t))
  <2>1. \A i \in 1..Len(t) : h[i] \in Int
    BY <1>4
  <2>2. \A i \in 1..Len(t) : f[b[i]] = h[i]
    BY <1>4
  <2>3. SumFunctionOnSet(f, {b[i] : i \in 1..Len(t)}) = SumFunctionOnSet(h, 1..Len(t))
    <3> DEFINE A == 1..Len(t)
    <3>1. /\ IsFiniteSet(A) /\ \A i \in A : h[i] \in Int /\ f[b[i]] = h[i]
          /\ \A i, j \in A : b[i] = b[j] => i = j
      BY <1>5, <1>8, <2>1, <2>2
    <3> HIDE DEF A
    <3>2. SumFunctionOnSet(f, {b[i] : i \in A}) = SumFunctionOnSet(h, A)
      BY <3>1, SumRenamed
    <3>3. QED
      BY <3>2 DEF A
  <2>4. QED
    BY <1>6, <2>3
<1>12. Bytes(u) = SumFunctionOnSet(f, 1..n)
  <2>1. Bytes(SubSeq(u, 1, n)) = SumFunctionOnSet(f, 1..n)
    BY <1>1, <1>2, <1>14, BytesOfPrefix DEF n
  <2>2. QED
    BY <1>9, <2>1
<1>13. Bytes(s) = SumFunctionOnSet(f, 1..m) /\ Bytes(t) = SumFunctionOnSet(h, 1..Len(t))
  <2>1. Bytes(SubSeq(s, 1, m)) = SumFunctionOnSet(f, 1..m)
    BY <1>3, <1>14, BytesOfPrefix DEF m
  <2>2. Bytes(SubSeq(t, 1, Len(t))) = SumFunctionOnSet(h, 1..Len(t))
    BY <1>4, <1>14, BytesOfPrefix
  <2>3. QED
    BY <1>9, <2>1, <2>2
<1>15. QED
  BY <1>10, <1>11, <1>12, <1>13 DEF u

-----------------------------------------------------------------------------
(***************************************************************************)
(* Selection                                                               *)
(***************************************************************************)

\* What is pulled is a prefix of the queue and fits.
LEMMA PullIsPrefix ==
  ASSUME NEW s \in Seq(Tx), NEW used \in Nat
  PROVE  /\ \E n \in 0..Len(s) : Pull(s, used) = SubSeq(s, 1, n)
         /\ used <= MaxTxBytes => used + Bytes(Pull(s, used)) <= MaxTxBytes
<1> DEFINE A == {n \in 1..Len(s) : used + Bytes(SubSeq(s, 1, n)) <= MaxTxBytes}
           k == Cardinality(A)
<1>1. ASSUME NEW n \in 0..Len(s) PROVE SubSeq(s, 1, n) \in Seq(Tx) /\ Bytes(SubSeq(s, 1, n)) \in Nat
  <2>1. SubSeq(s, 1, n) \in Seq(Tx)
    OBVIOUS
  <2>2. QED
    BY <2>1, BytesNat
<1>2. A \in SUBSET (1..Len(s)) /\ Len(s) \in Nat
  OBVIOUS
<1>3. ASSUME NEW i \in 1..Len(s), NEW j \in 1..Len(s), j \in A, i <= j PROVE i \in A
  <2>1. Bytes(SubSeq(s, 1, i)) <= Bytes(SubSeq(s, 1, j))
    BY <1>3, PrefixIsShorter
  <2>2. QED
    BY <1>1, <1>3, <2>1, LimitAssumption
<1> HIDE DEF A
<1>4. A = 1..k /\ k \in 0..Len(s)
  BY <1>2, <1>3, Downward
<1>5. Pull(s, used) = SubSeq(s, 1, k)
  BY DEF Pull, A
<1>6. ASSUME used <= MaxTxBytes PROVE used + Bytes(SubSeq(s, 1, k)) <= MaxTxBytes
  <2>1. CASE k = 0
    <3>1. SubSeq(s, 1, k) = <<>> /\ DOMAIN SubSeq(s, 1, k) = {}
      BY <2>1
    <3>2. Bytes(SubSeq(s, 1, k)) = 0
      <4> DEFINE f == [i \in DOMAIN SubSeq(s, 1, k) |-> SubSeq(s, 1, k)[i].bytes]
      <4>1. DOMAIN f = {}
        BY <3>1
      <4> HIDE DEF f
      <4>2. SumFunction(f) = 0
        BY <4>1, SumZero, FS_EmptySet DEF SumFunction
      <4>3. QED
        BY <4>2 DEF Bytes, f
    <3>3. QED
      BY <1>6, <3>2, LimitAssumption
  <2>2. CASE k # 0
    <3>1. k \in A
      BY <1>4, <2>2
    <3>2. QED
      BY <3>1 DEF A
  <2>3. QED
    BY <2>1, <2>2
<1>7. QED
  BY <1>4, <1>5, <1>6

LEMMA PulledIsPrefix ==
  ASSUME NEW pool \in [Bucket -> Seq(Tx)]
  PROVE  /\ \A b \in Bucket : \E n \in 0..Len(pool[b]) : Pulled(pool)[b] = SubSeq(pool[b], 1, n)
         /\ Bytes(SelectForProposal(pool)) <= MaxTxBytes
<1> DEFINE nonOrder == Pull(pool["nonOrder"], 0)
           cancel == Pull(pool["cancel"], Bytes(nonOrder))
           orders == Pull(pool["orders"], Bytes(nonOrder) + Bytes(cancel))
<1>1. "nonOrder" \in Bucket /\ "cancel" \in Bucket /\ "orders" \in Bucket
  BY DEF Bucket
<1>2. /\ pool["nonOrder"] \in Seq(Tx) /\ pool["cancel"] \in Seq(Tx) /\ pool["orders"] \in Seq(Tx)
      /\ 0 \in Nat /\ 0 <= MaxTxBytes /\ MaxTxBytes \in Nat
  BY <1>1, LimitAssumption
<1>3. Pulled(pool) = [nonOrder |-> nonOrder, cancel |-> cancel, orders |-> orders]
  BY DEF Pulled
<1>4. ASSUME NEW s \in Seq(Tx), NEW n \in 0..Len(s) PROVE SubSeq(s, 1, n) \in Seq(Tx)
  OBVIOUS
<1>5. /\ \E n \in 0..Len(pool["nonOrder"]) : nonOrder = SubSeq(pool["nonOrder"], 1, n)
      /\ 0 + Bytes(nonOrder) <= MaxTxBytes
  BY <1>2, PullIsPrefix
<1>6. nonOrder \in Seq(Tx) /\ Bytes(nonOrder) \in Nat /\ Bytes(nonOrder) <= MaxTxBytes
  <2>1. nonOrder \in Seq(Tx)
    BY <1>2, <1>4, <1>5
  <2>2. Bytes(nonOrder) \in Nat
    BY <2>1, BytesNat
  <2>3. QED
    BY <1>5, <2>1, <2>2
<1> HIDE DEF nonOrder
<1>7. /\ \E n \in 0..Len(pool["cancel"]) : cancel = SubSeq(pool["cancel"], 1, n)
      /\ Bytes(nonOrder) + Bytes(cancel) <= MaxTxBytes
  BY <1>2, <1>6, PullIsPrefix
<1>8. cancel \in Seq(Tx)
  BY <1>2, <1>4, <1>7
<1>9. Bytes(cancel) \in Nat /\ Bytes(nonOrder) + Bytes(cancel) \in Nat
  BY <1>6, <1>8, BytesNat
<1> HIDE DEF cancel
<1>10. /\ \E n \in 0..Len(pool["orders"]) : orders = SubSeq(pool["orders"], 1, n)
       /\ (Bytes(nonOrder) + Bytes(cancel)) + Bytes(orders) <= MaxTxBytes
  BY <1>2, <1>7, <1>9, PullIsPrefix
<1>11. orders \in Seq(Tx)
  BY <1>2, <1>4, <1>10
<1> HIDE DEF orders
<1>12. SelectForProposal(pool) = (nonOrder \o cancel) \o orders
  BY <1>3 DEF SelectForProposal
<1>13. nonOrder \o cancel \in Seq(Tx) /\ Bytes(nonOrder \o cancel) = Bytes(nonOrder) + Bytes(cancel)
  BY <1>6, <1>8, BytesOfConcat
<1>14. Bytes(SelectForProposal(pool)) = (Bytes(nonOrder) + Bytes(cancel)) + Bytes(orders)
  BY <1>11, <1>12, <1>13, BytesOfConcat
<1>15. Bytes(SelectForProposal(pool)) <= MaxTxBytes
  BY <1>10, <1>14
<1>16. ASSUME NEW b \in Bucket PROVE \E n \in 0..Len(pool[b]) : Pulled(pool)[b] = SubSeq(pool[b], 1, n)
  <2>1. /\ Pulled(pool)["nonOrder"] = nonOrder /\ Pulled(pool)["cancel"] = cancel
        /\ Pulled(pool)["orders"] = orders
    BY <1>3
  <2>2. b = "nonOrder" \/ b = "cancel" \/ b = "orders"
    BY DEF Bucket
  <2>3. QED
    BY <1>5, <1>7, <1>10, <2>1, <2>2
<1>17. QED
  BY <1>15, <1>16

\* A bucket is what is selected of it and what stays.
LEMMA Selection ==
  ASSUME NEW pool \in [Bucket -> Seq(Tx)]
  PROVE  /\ Pulled(pool) \in [Bucket -> Seq(Tx)]
         /\ Unselected(pool) \in [Bucket -> Seq(Tx)]
         /\ \A b \in Bucket : pool[b] = Pulled(pool)[b] \o Unselected(pool)[b]
         /\ SelectForProposal(pool) \in Seq(Tx)
         /\ SelectForProposal(pool) = (Pulled(pool)["nonOrder"] \o Pulled(pool)["cancel"]) \o Pulled(pool)["orders"]
<1> DEFINE p == Pulled(pool)
<1>1. ASSUME NEW b \in Bucket
      PROVE  p[b] \in Seq(Tx) /\ Unselected(pool)[b] \in Seq(Tx) /\ pool[b] = p[b] \o Unselected(pool)[b]
  <2>1. PICK n \in 0..Len(pool[b]) : p[b] = SubSeq(pool[b], 1, n)
    BY PulledIsPrefix
  <2>2. pool[b] \in Seq(Tx) /\ p[b] \in Seq(Tx) /\ Len(p[b]) = n
    BY <2>1
  <2>3. Unselected(pool)[b] = SubSeq(pool[b], n + 1, Len(pool[b]))
    BY <2>2 DEF Unselected
  <2>4. SubSeq(pool[b], 1, n) \o SubSeq(pool[b], n + 1, Len(pool[b])) = SubSeq(pool[b], 1, Len(pool[b]))
    <3>1. Len(pool[b]) \in Nat /\ 1 \in 1..Len(pool[b]) + 1 /\ n \in 1 - 1..Len(pool[b]) /\ Len(pool[b]) \in n..Len(pool[b])
      BY <2>2
    <3>2. QED
      BY <2>2, <3>1, ConcatAdjacentSubSeq
  <2>5. SubSeq(pool[b], 1, Len(pool[b])) = pool[b] /\ SubSeq(pool[b], n + 1, Len(pool[b])) \in Seq(Tx)
    BY <2>2
  <2>6. QED
    BY <2>1, <2>2, <2>3, <2>4, <2>5
<1>2. p = [b \in Bucket |-> p[b]]
  BY DEF Pulled, Bucket
<1>3. p \in [Bucket -> Seq(Tx)] /\ Unselected(pool) \in [Bucket -> Seq(Tx)]
  BY <1>1, <1>2 DEF Unselected
<1>4. SelectForProposal(pool) = (p["nonOrder"] \o p["cancel"]) \o p["orders"]
  BY DEF SelectForProposal
<1>5. p["nonOrder"] \in Seq(Tx) /\ p["cancel"] \in Seq(Tx) /\ p["orders"] \in Seq(Tx)
  BY <1>3 DEF Bucket
<1>6. SelectForProposal(pool) \in Seq(Tx)
  BY <1>4, <1>5
<1>7. QED
  BY <1>1, <1>3, <1>4, <1>6

-----------------------------------------------------------------------------
(***************************************************************************)
(* Payloads                                                                *)
(***************************************************************************)

\* Validators split a payload into the pieces of the transactions it was made of.
LEMMA SplitOfPrepared == ASSUME NEW txs \in Seq(Tx) PROVE SplitPayload(PreparePayload(txs)) = Pieces(txs)
<1> DEFINE n == Len(txs)
           p == PreparePayload(txs)
           starts == {i \in 1..Len(p) : p[i] # Delimiter /\ (i > 1 => p[i - 1] = Delimiter)}
           start(m) == CHOOSE i \in starts : Cardinality({j \in starts : j <= i}) = m
           piece(i) == IF i = Len(p) \/ p[i + 1] = Delimiter THEN p[i] ELSE Garbled
           odd == {2 * k - 1 : k \in 1..n}
<1>1. n \in Nat /\ Len(p) = 2 * n
  <2>1. DOMAIN p = 1..2 * n /\ 2 * n \in Nat
    BY DEF PreparePayload
  <2>2. QED
    BY <2>1 DEF PreparePayload
<1>2. ASSUME NEW k \in 1..n
      PROVE  /\ 2 * k - 1 \in 1..2 * n /\ 2 * k \in 1..2 * n
             /\ p[2 * k - 1] = txs[k] /\ txs[k] # Delimiter /\ p[2 * k] = Delimiter
  <2>1. (2 * k - 1) % 2 = 1 /\ (2 * k) % 2 = 0 /\ ((2 * k - 1) + 1) \div 2 = k
    OBVIOUS
  <2>2. 2 * k - 1 \in 1..2 * n /\ 2 * k \in 1..2 * n
    BY <1>1
  <2>3. txs[k] \in Tx
    OBVIOUS
  <2>4. QED
    BY <2>1, <2>2, <2>3, DelimiterAssumption DEF PreparePayload
<1>3. \A i \in 1..2 * n : \E k \in 1..n : i = 2 * k - 1 \/ i = 2 * k
  <2>1. ASSUME NEW i \in 1..2 * n PROVE \E k \in 1..n : i = 2 * k - 1 \/ i = 2 * k
    <3>1. (i + 1) \div 2 \in 1..n /\ (i = 2 * ((i + 1) \div 2) - 1 \/ i = 2 * ((i + 1) \div 2))
      BY <1>1
    <3>2. QED
      BY <3>1
  <2>2. QED
    BY <2>1
<1> HIDE DEF p
<1>4. starts = odd
  <2>1. ASSUME NEW i \in starts PROVE i \in odd
    <3>1. i \in 1..2 * n /\ p[i] # Delimiter
      BY <1>1
    <3>2. PICK k \in 1..n : i = 2 * k - 1 \/ i = 2 * k
      BY <1>3, <3>1
    <3>3. i = 2 * k - 1
      BY <1>2, <3>1, <3>2
    <3>4. QED
      BY <3>3
  <2>2. ASSUME NEW k \in 1..n PROVE 2 * k - 1 \in starts
    <3>1. 2 * k - 1 > 1 => p[2 * k - 1 - 1] = Delimiter
      <4>1. ASSUME 2 * k - 1 > 1 PROVE k - 1 \in 1..n /\ 2 * k - 1 - 1 = 2 * (k - 1)
        BY <1>1, <4>1
      <4>2. QED
        BY <1>2, <4>1
    <3>2. QED
      BY <1>1, <1>2, <3>1
  <2>3. QED
    BY <2>1, <2>2
<1> HIDE DEF starts
<1>5. ASSUME NEW k \in 0..n PROVE Cardinality({2 * l - 1 : l \in 1..k}) = k
  <2> DEFINE f == [l \in 1..k |-> 2 * l - 1]
             T == {2 * l - 1 : l \in 1..k}
  <2>1. k \in Int /\ k >= 0
    BY <1>1
  <2>2. f \in Surjection(1..k, T)
    BY DEF Surjection
  <2>3. f \in Injection(1..k, T)
    BY <2>1 DEF Injection, IsInjective
  <2>4. IsFiniteSet(1..k) /\ Cardinality(1..k) = k
    BY <2>1, FS_Interval
  <2> HIDE DEF f, T
  <2>5. Cardinality(T) = Cardinality(1..k)
    BY <2>2, <2>3, <2>4, FS_Surjection
  <2>6. QED
    BY <2>4, <2>5 DEF T
<1>6. ASSUME NEW k \in 1..n PROVE {j \in starts : j <= 2 * k - 1} = {2 * l - 1 : l \in 1..k}
  <2>1. ASSUME NEW j \in starts, j <= 2 * k - 1 PROVE j \in {2 * l - 1 : l \in 1..k}
    <3>1. PICK l \in 1..n : j = 2 * l - 1
      BY <1>4
    <3>2. l \in 1..k
      BY <1>1, <2>1, <3>1
    <3>3. QED
      BY <3>1, <3>2
  <2>2. ASSUME NEW l \in 1..k PROVE 2 * l - 1 \in starts /\ 2 * l - 1 <= 2 * k - 1
    <3>1. l \in 1..n
      BY <1>1
    <3>2. QED
      BY <1>4, <3>1
  <2>3. QED
    BY <2>1, <2>2
<1>7. ASSUME NEW m \in 1..n PROVE start(m) = 2 * m - 1
  <2>1. 2 * m - 1 \in starts /\ Cardinality({j \in starts : j <= 2 * m - 1}) = m
    <3>1. m \in 0..n
      BY <1>1
    <3>2. QED
      BY <1>4, <1>5, <1>6, <3>1
  <2>2. ASSUME NEW i \in starts, Cardinality({j \in starts : j <= i}) = m PROVE i = 2 * m - 1
    <3>1. PICK k \in 1..n : i = 2 * k - 1
      BY <1>4
    <3>2. Cardinality({j \in starts : j <= i}) = k
      <4>1. k \in 0..n
        BY <1>1
      <4>2. QED
        BY <1>5, <1>6, <3>1, <4>1
    <3>3. QED
      BY <2>2, <3>1, <3>2
  <2>3. QED
    BY <2>1, <2>2
<1>8. ASSUME NEW m \in 1..n PROVE piece(start(m)) = txs[m]
  <2>1. (2 * m - 1) + 1 = 2 * m
    OBVIOUS
  <2>2. QED
    BY <1>2, <1>7, <2>1
<1>9. Cardinality(starts) = n
  <2>1. n \in 0..n
    BY <1>1
  <2>2. QED
    BY <1>4, <1>5, <2>1
<1>10. SplitPayload(p) = Pieces([m \in 1..n |-> piece(start(m))])
  BY <1>9 DEF SplitPayload, starts
<1> HIDE DEF start, piece
<1>11. [m \in 1..n |-> piece(start(m))] = txs
  <2>1. [m \in 1..n |-> piece(start(m))] = [m \in 1..n |-> txs[m]]
    BY <1>8
  <2>2. txs = [m \in 1..n |-> txs[m]]
    OBVIOUS
  <2>3. QED
    BY <2>1, <2>2
<1>12. QED
  BY <1>10, <1>11 DEF p

LEMMA SplitKeepsType == ASSUME NEW s \in Seq(Tx), NEW tx \in Tx PROVE Split(s, tx) \in Seq(Tx)
<1>1. tx # Garbled /\ Parts[tx] \in Seq(Tx)
  BY PartsAssumption, DelimiterAssumption
<1>2. QED
  BY <1>1 DEF Split


LEMMA PiecesType == ASSUME NEW txs \in Seq(Tx) PROVE Pieces(txs) \in Seq(Tx)
<1> DEFINE S == DOMAIN txs
           V == Seq(Tx)
           pick == [s \in SUBSET S |-> Max(s)]
           G == [e \in S \X V |-> Split(e[2], txs[e[1]])]
           eq(h) == h = [s \in SUBSET S |->
               IF s = {} THEN <<>> ELSE Split(h[s \ {Max(s)}], txs[Max(s)])]
           iter == CHOOSE h : eq(h)
<1>1. S = 1..Len(txs) /\ IsFiniteSet(S)
  BY FS_Interval
<1>2. <<>> \in V
  OBVIOUS
<1>3. \A s \in SUBSET S : s # {} => Max(s) \in s
  BY <1>1, MaxInterval
<1>4. \A s \in SUBSET S : pick[s] = Max(s)
  OBVIOUS
<1>5. G \in [S \X V -> V] /\ \A x \in S, v \in V : G[<<x, v>>] = Split(v, txs[x])
  <2>1. \A e \in S \X V : Split(e[2], txs[e[1]]) \in V
    BY SplitKeepsType
  <2>2. QED
    BY <2>1
<1>6. Pieces(txs) = iter[S]
  BY DEF Pieces, FoldLeft, MapThenFoldSet
<1> HIDE DEF V, G, pick, S
<1>15. G \in [S \X V -> V]
  BY <1>5
<1>16. \A s \in SUBSET S : s # {} => pick[s] \in s
  BY <1>3, <1>4
<1>17. IsFiniteSet(S)
  BY <1>1
<1>7. PICK f \in [SUBSET S -> V] : Folds(f, S, V, <<>>, pick, G)
  BY <1>2, <1>15, <1>16, <1>17, FoldExists, Zenon
<1>8. ASSUME NEW s \in SUBSET S, s # {} PROVE f[s] = Split(f[s \ {Max(s)}], txs[Max(s)])
  <2>1. Max(s) \in S /\ pick[s] = Max(s) /\ f[s \ {Max(s)}] \in V
    BY <1>3, <1>4, <1>8
  <2>2. QED
    BY <1>5, <1>7, <1>8, <2>1 DEF Folds
<1>9. eq(f)
  <2>1. f[{}] = <<>>
    BY <1>7 DEF Folds
  <2>2. QED
    BY <1>8, <2>1
<1>10. eq(iter)
  BY <1>9
<1> HIDE DEF iter
<1> DEFINE A == {s \in SUBSET S : iter[s] = f[s]}
<1>11. ASSUME NEW s \in SUBSET S, \A t \in SUBSET s : t # s => t \in A PROVE s \in A
  <2>1. CASE s = {}
    BY <1>9, <1>10, <2>1
  <2>2. CASE s # {}
    <3>1. s \ {Max(s)} \in A
      BY <1>3, <1>11, <2>2
    <3>2. iter[s] = Split(iter[s \ {Max(s)}], txs[Max(s)])
      BY <1>10, <2>2
    <3>3. QED
      BY <1>8, <2>2, <3>1, <3>2
  <2>3. QED
    BY <2>1, <2>2
<1> HIDE DEF A
<1>12. S \in A
  BY <1>11, <1>17, SubsetInduction
<1>13. iter[S] \in V
  BY <1>12 DEF A
<1>14. QED
  BY <1>6, <1>13 DEF V

-----------------------------------------------------------------------------
(***************************************************************************)
(* A pool that was pushed transactions                                     *)
(***************************************************************************)

LEMMA PushKeepsType ==
  ASSUME NEW pool \in [Bucket -> Seq(Tx)], NEW tx \in Tx
  PROVE  /\ PushRaw(pool, tx) \in [Bucket -> Seq(Tx)]
         /\ ClassifyRaw(tx) \in Bucket
         /\ PushRaw(pool, tx)[ClassifyRaw(tx)] = Append(pool[ClassifyRaw(tx)], tx)
         /\ \A b \in Bucket : b # ClassifyRaw(tx) => PushRaw(pool, tx)[b] = pool[b]
<1>1. ClassifyRaw(tx) \in Bucket
  BY DEF ClassifyRaw, Bucket
<1>2. Append(pool[ClassifyRaw(tx)], tx) \in Seq(Tx)
  BY <1>1
<1>3. QED
  BY <1>1, <1>2 DEF PushRaw

LEMMA PoolOfPushes ==
  ASSUME NEW pushes \in Seq(Tx) PROVE FoldLeft(PushRaw, NewMempool, pushes) \in [Bucket -> Seq(Tx)]
<1> DEFINE S == DOMAIN pushes
           V == [Bucket -> Seq(Tx)]
           pick == [s \in SUBSET S |-> Max(s)]
           G == [e \in S \X V |-> PushRaw(e[2], pushes[e[1]])]
           eq(h) == h = [s \in SUBSET S |->
               IF s = {} THEN NewMempool ELSE PushRaw(h[s \ {Max(s)}], pushes[Max(s)])]
           iter == CHOOSE h : eq(h)
<1>1. S = 1..Len(pushes) /\ IsFiniteSet(S)
  BY FS_Interval
<1>2. NewMempool \in V
  BY DEF NewMempool
<1>3. \A s \in SUBSET S : s # {} => Max(s) \in s
  BY <1>1, MaxInterval
<1>4. \A s \in SUBSET S : pick[s] = Max(s)
  OBVIOUS
<1>5. G \in [S \X V -> V] /\ \A x \in S, v \in V : G[<<x, v>>] = PushRaw(v, pushes[x])
  <2>1. \A e \in S \X V : PushRaw(e[2], pushes[e[1]]) \in V
    BY PushKeepsType
  <2>2. QED
    BY <2>1
<1>6. FoldLeft(PushRaw, NewMempool, pushes) = iter[S]
  BY DEF FoldLeft, MapThenFoldSet
<1> HIDE DEF V, G, pick, S
<1>15. G \in [S \X V -> V]
  BY <1>5
<1>16. \A s \in SUBSET S : s # {} => pick[s] \in s
  BY <1>3, <1>4
<1>17. IsFiniteSet(S)
  BY <1>1
<1>7. PICK f \in [SUBSET S -> V] : Folds(f, S, V, NewMempool, pick, G)
  BY <1>2, <1>15, <1>16, <1>17, FoldExists, Zenon
<1>8. ASSUME NEW s \in SUBSET S, s # {} PROVE f[s] = PushRaw(f[s \ {Max(s)}], pushes[Max(s)])
  <2>1. Max(s) \in S /\ pick[s] = Max(s) /\ f[s \ {Max(s)}] \in V
    BY <1>3, <1>4, <1>8
  <2>2. QED
    BY <1>5, <1>7, <1>8, <2>1 DEF Folds
<1>9. eq(f)
  <2>1. f[{}] = NewMempool
    BY <1>7 DEF Folds
  <2>2. QED
    BY <1>8, <2>1
<1>10. eq(iter)
  BY <1>9
<1> HIDE DEF iter
<1> DEFINE A == {s \in SUBSET S : iter[s] = f[s]}
<1>11. ASSUME NEW s \in SUBSET S, \A t \in SUBSET s : t # s => t \in A PROVE s \in A
  <2>1. CASE s = {}
    BY <1>9, <1>10, <2>1
  <2>2. CASE s # {}
    <3>1. s \ {Max(s)} \in A
      BY <1>3, <1>11, <2>2
    <3>2. iter[s] = PushRaw(iter[s \ {Max(s)}], pushes[Max(s)])
      BY <1>10, <2>2
    <3>3. QED
      BY <1>8, <2>2, <3>1, <3>2
  <2>3. QED
    BY <2>1, <2>2
<1> HIDE DEF A
<1>12. S \in A
  BY <1>11, <1>17, SubsetInduction
<1>13. iter[S] \in V
  BY <1>12 DEF A
<1>14. QED
  BY <1>6, <1>13 DEF V
=============================================================================
