--------------------------- MODULE MempoolProofs ---------------------------
(***************************************************************************)
(* The mempool's index and counters stay exact for every set of            *)
(* transactions and every limit.  The invariant is inductive only as a     *)
(* whole: drain needs the index and the counters to be exact before it     *)
(* subtracts, and the payer limit speaks of the counters while the claim   *)
(* speaks of the queue.                                                    *)
(***************************************************************************)
EXTENDS Mempool, TLAPS, FiniteSetTheorems, SequenceTheorems

Signed == {tx \in Txs : SigOf[tx] \in Sigs /\ PayerOf[tx] \in Payers}

\* The inductive invariant.
MempoolInv == TypeOK /\ QueueIndexed /\ PayersCounted /\ WithinLimits

\* The positions of p's transactions in a queue form a finite set.
LEMMA PositionsFinite ==
  ASSUME NEW q, NEW p, NEW m \in Int, NEW n \in Int
  PROVE  /\ IsFiniteSet(Positions(q, p, m, n))
         /\ Cardinality(Positions(q, p, m, n)) \in Nat
<1>1. IsFiniteSet(m..n)
  BY FS_Interval
<1>2. Positions(q, p, m, n) \in SUBSET (m..n)
  BY DEF Positions
<1>3. IsFiniteSet(Positions(q, p, m, n))
  BY <1>1, <1>2, FS_Subset
<1> QED
  BY <1>3, FS_CardinalityType

\* Appending a transaction adds one to its payer's share and nothing to others.
LEMMA PaidByAppend ==
  ASSUME NEW q \in Seq(Signed), NEW tx \in Signed, NEW p
  PROVE  Cardinality(Positions(Append(q, tx), p, 1, Len(Append(q, tx))))
           = Cardinality(Positions(q, p, 1, Len(q)))
               + (IF p = PayerOf[tx] THEN 1 ELSE 0)
<1>0. Len(q) \in Nat /\ Len(Append(q, tx)) = Len(q) + 1
  OBVIOUS
<1>1. /\ IsFiniteSet(Positions(q, p, 1, Len(q)))
      /\ Cardinality(Positions(q, p, 1, Len(q))) \in Nat
  BY <1>0, PositionsFinite
<1>2. CASE p = PayerOf[tx]
  <2>1. Positions(Append(q, tx), p, 1, Len(q) + 1)
          = Positions(q, p, 1, Len(q)) \cup {Len(q) + 1}
    BY <1>0, <1>2 DEF Positions
  <2>2. Len(q) + 1 \notin Positions(q, p, 1, Len(q))
    BY <1>0 DEF Positions
  <2> QED
    BY <2>1, <2>2, <1>0, <1>1, <1>2, FS_AddElement
<1>3. CASE p # PayerOf[tx]
  <2>1. Positions(Append(q, tx), p, 1, Len(q) + 1) = Positions(q, p, 1, Len(q))
    BY <1>0, <1>3 DEF Positions
  <2> QED
    BY <2>1, <1>0, <1>1, <1>3
<1> QED
  BY <1>2, <1>3

\* What is left of a queue once its first k transactions are gone.
LEMMA RestOfQueue ==
  ASSUME NEW q \in Seq(Signed), NEW k \in 0..Len(q)
  PROVE  /\ SubSeq(q, k + 1, Len(q)) \in Seq(Signed)
         /\ Len(SubSeq(q, k + 1, Len(q))) = Len(q) - k
         /\ \A i \in 1..Len(q) - k : SubSeq(q, k + 1, Len(q))[i] = q[i + k]
  OBVIOUS

\* A payer's share of the whole queue is its share of the first k transactions
\* plus its share of the rest.
ShareSplits(q, k, rest) ==
  \A p : Cardinality(Positions(q, p, 1, Len(q)))
           = Cardinality(Positions(q, p, 1, k))
               + Cardinality(Positions(rest, p, 1, Len(rest)))

LEMMA PaidBySplit ==
  ASSUME NEW q \in Seq(Signed), NEW k \in 0..Len(q),
         NEW rest, rest = SubSeq(q, k + 1, Len(q))
  PROVE  ShareSplits(q, k, rest)
<1> SUFFICES ASSUME NEW p
             PROVE  Cardinality(Positions(q, p, 1, Len(q)))
                      = Cardinality(Positions(q, p, 1, k))
                          + Cardinality(Positions(rest, p, 1, Len(rest)))
  BY DEF ShareSplits
<1> DEFINE U == Positions(q, p, k + 1, Len(q))
           L == Positions(q, p, 1, k)
           R == Positions(rest, p, 1, Len(rest))
<1>0. Len(q) \in Nat /\ k \in Nat /\ k <= Len(q)
  OBVIOUS
<1>1. Len(rest) = Len(q) - k /\ \A i \in 1..Len(rest) : rest[i] = q[i + k]
  BY RestOfQueue
<1>2. /\ IsFiniteSet(L) /\ IsFiniteSet(U) /\ IsFiniteSet(R)
      /\ Cardinality(L) \in Nat /\ Cardinality(U) \in Nat
  BY <1>0, <1>1, PositionsFinite
<1>3. Positions(q, p, 1, Len(q)) = L \cup U /\ L \cap U = {}
  BY <1>0 DEF Positions
<1>4. Cardinality(U) = Cardinality(R)
  <2> DEFINE f == [i \in R |-> i + k]
  <2>1. f \in [R -> U]
    <3>1. ASSUME NEW i \in R
          PROVE  i + k \in U
      <4>1. i \in 1..Len(rest) /\ PayerOf[rest[i]] = p
        BY DEF Positions
      <4>2. i + k \in k + 1..Len(q) /\ rest[i] = q[i + k]
        BY <4>1, <1>0, <1>1
      <4> QED
        BY <4>1, <4>2 DEF Positions
    <3> HIDE DEF R, U
    <3> QED
      BY <3>1
  <2>2. \A i, j \in R : f[i] = f[j] => i = j
    BY <1>0, <1>1 DEF Positions
  <2>3. ASSUME NEW u \in U
        PROVE  u - k \in R /\ f[u - k] = u
    <3>1. u \in k + 1..Len(q) /\ PayerOf[q[u]] = p
      BY DEF Positions
    <3>2. u - k \in 1..Len(rest) /\ (u - k) + k = u
      BY <3>1, <1>0, <1>1
    <3>3. u - k \in R
      BY <3>1, <3>2, <1>1 DEF Positions
    <3> QED
      BY <3>2, <3>3
  <2>4. f \in Bijection(R, U)
    <3> HIDE DEF f, R, U
    <3> QED
      BY <2>1, <2>2, <2>3 DEF Bijection, Injection, Surjection, IsInjective
  <2>5. ExistsBijection(R, U)
    BY <2>4 DEF ExistsBijection
  <2> QED
    BY <2>5, <1>2, FS_Bijection
<1>5. Cardinality(L \cup U) = Cardinality(L) + Cardinality(U)
  <2> HIDE DEF L, U
  <2>1. Cardinality(L \cup U) = Cardinality(L) + Cardinality(U) - Cardinality(L \cap U)
    BY <1>2, FS_Union
  <2>2. L \cap U = {}
    BY <1>3
  <2>3. Cardinality(L \cap U) = 0
    BY <2>2, FS_EmptySet, Zenon
  <2> QED
    BY <2>1, <2>3, <1>2
<1> QED
  BY <1>3, <1>4, <1>5, Zenon

\* The empty mempool satisfies the invariant.
LEMMA InitEstablishes == Init => MempoolInv
<1> SUFFICES ASSUME Init PROVE MempoolInv
  OBVIOUS
<1>1. TypeOK
  BY DEF Init, TypeOK
<1>2. QueueIndexed
  BY DEF Init, QueueIndexed
<1>3. \A p : Positions(queue, p, 1, Len(queue)) = {}
  BY DEF Init, Positions
<1>4. \A p : PaidBy(p, Len(queue)) = 0
  BY <1>3, FS_EmptySet, Zenon DEF PaidBy
<1>5. PayersCounted
  BY <1>4 DEF Init, PayersCounted, PayerCount
<1>6. WithinLimits
  BY <1>4, LimitAssumption DEF Init, WithinLimits, max_per_payer
<1> QED
  BY <1>1, <1>2, <1>5, <1>6 DEF MempoolInv

\* An accepted push keeps the index and the counters exact.
LEMMA PushPreserves ==
  ASSUME MempoolInv, NEW tx \in Txs, Push(tx)
  PROVE  MempoolInv'
<1>0. queue \in Seq(Signed) /\ Len(queue) \in Nat
  BY DEF MempoolInv, TypeOK, Signed
<1>1. /\ tx \in Signed
      /\ SigOf[tx] \notin pending
      /\ PayerCount(PayerOf[tx]) < max_per_payer
      /\ Len(queue) < Capacity
  BY SigAssumption, PayerAssumption DEF Push, PushAccepts, Signed
<1>2. /\ queue' = Append(queue, tx)
      /\ pending' = pending \cup {SigOf[tx]}
      /\ per_payer' = CountedFor(PayerOf[tx])
  BY DEF Push
<1>3. Len(queue') = Len(queue) + 1 /\ queue' \in Seq(Signed)
  BY <1>0, <1>1, <1>2
<1>4. \A p \in Payers : PayerCount(p) \in Nat
  BY DEF MempoolInv, TypeOK, PayerCount
<1>5. /\ DOMAIN per_payer' = DOMAIN per_payer \cup {PayerOf[tx]}
      /\ \A p \in DOMAIN per_payer' :
           per_payer'[p] = PayerCount(p) + (IF p = PayerOf[tx] THEN 1 ELSE 0)
  BY <1>2 DEF CountedFor
<1>6. \A p \in Payers :
        PayerCount(p)' = PayerCount(p) + (IF p = PayerOf[tx] THEN 1 ELSE 0)
  BY <1>4, <1>5 DEF PayerCount
<1>7. \A p : PaidBy(p, Len(queue))'
               = PaidBy(p, Len(queue)) + (IF p = PayerOf[tx] THEN 1 ELSE 0)
  BY <1>0, <1>1, <1>2, PaidByAppend DEF PaidBy
<1>8. TypeOK'
  <2>1. pending' \subseteq Sigs
    BY <1>1, <1>2 DEF MempoolInv, TypeOK, Signed
  <2>2. DOMAIN per_payer' \subseteq Payers
    BY <1>1, <1>5 DEF MempoolInv, TypeOK, Signed
  <2>3. \A p \in DOMAIN per_payer' : per_payer'[p] \in Nat \ {0}
    BY <1>4, <1>5, <2>2 DEF MempoolInv, TypeOK, PayerCount
  <2>4. per_payer' \in [DOMAIN per_payer' -> Nat \ {0}]
    BY <1>2, <2>3, Zenon DEF CountedFor
  <2> QED
    BY <1>3, <2>1, <2>2, <2>4 DEF TypeOK, Signed
<1>9. QueueIndexed'
  <2>1. \A i \in 1..Len(queue) : queue'[i] = queue[i]
    BY <1>0, <1>1, <1>2
  <2>2. queue'[Len(queue) + 1] = tx
    BY <1>0, <1>1, <1>2
  <2>3. pending = {SigOf[queue[i]] : i \in 1..Len(queue)}
    BY DEF MempoolInv, QueueIndexed
  <2>4. pending' = {SigOf[queue'[i]] : i \in 1..Len(queue')}
    BY <1>0, <1>2, <1>3, <2>1, <2>2, <2>3
  <2>5. \A i, j \in 1..Len(queue') : SigOf[queue'[i]] = SigOf[queue'[j]] => i = j
    <3>1. \A i \in 1..Len(queue) : SigOf[queue[i]] # SigOf[tx]
      BY <1>1, <2>3
    <3>2. \A i, j \in 1..Len(queue) : SigOf[queue[i]] = SigOf[queue[j]] => i = j
      BY DEF MempoolInv, QueueIndexed
    <3> QED
      BY <1>0, <1>3, <2>1, <2>2, <3>1, <3>2
  <2> QED
    BY <2>4, <2>5 DEF QueueIndexed
<1>10. PayersCounted'
  BY <1>6, <1>7 DEF MempoolInv, PayersCounted
<1>11. WithinLimits'
  <2>1. Len(queue') <= Capacity
    BY <1>0, <1>1, <1>3, LimitAssumption
  <2>2. \A p \in Payers : PaidBy(p, Len(queue))' <= max_per_payer
    <3>1. max_per_payer \in Nat
      BY LimitAssumption DEF max_per_payer
    <3>2. \A p \in Payers : PayerCount(p) = PaidBy(p, Len(queue))
      BY DEF MempoolInv, PayersCounted
    <3>3. \A p \in Payers : PaidBy(p, Len(queue)) <= max_per_payer
      BY DEF MempoolInv, WithinLimits
    <3> QED
      BY <1>1, <1>4, <1>7, <3>1, <3>2, <3>3
  <2> QED
    BY <2>1, <2>2 DEF WithinLimits, max_per_payer
<1> QED
  BY <1>8, <1>9, <1>10, <1>11 DEF MempoolInv

\* A drain keeps the index and the counters exact: what it subtracts from every
\* counter is that payer's share of the transactions that leave.
LEMMA DrainPreserves ==
  ASSUME MempoolInv, Drain
  PROVE  MempoolInv'
<1>0. queue \in Seq(Signed) /\ Len(queue) \in Nat
  BY DEF MempoolInv, TypeOK, Signed
<1>1. Take \in 0..Len(queue)
  BY <1>0, LimitAssumption DEF Take
<1>2. /\ queue' = SubSeq(queue, Take + 1, Len(queue))
      /\ pending' = pending \ {SigOf[queue[i]] : i \in 1..Take}
      /\ per_payer' = CountsAfterDrain(Take)
  BY DEF Drain
<1>3. /\ queue' \in Seq(Signed)
      /\ Len(queue') = Len(queue) - Take
      /\ \A i \in 1..Len(queue) - Take : queue'[i] = queue[i + Take]
  BY <1>0, <1>1, <1>2, RestOfQueue
<1>4. \A p : /\ PaidBy(p, Take) \in Nat
             /\ PaidBy(p, Len(queue))' \in Nat
             /\ PaidBy(p, Len(queue)) = PaidBy(p, Take) + PaidBy(p, Len(queue))'
  <2> SUFFICES ASSUME NEW p
               PROVE  /\ PaidBy(p, Take) \in Nat
                      /\ PaidBy(p, Len(queue))' \in Nat
                      /\ PaidBy(p, Len(queue)) = PaidBy(p, Take) + PaidBy(p, Len(queue))'
    OBVIOUS
  <2>1. PaidBy(p, Take) \in Nat
    BY <1>1, PositionsFinite DEF PaidBy
  <2>2. PaidBy(p, Len(queue))' \in Nat
    BY <1>0, <1>1, <1>3, PositionsFinite DEF PaidBy
  <2>3. PaidBy(p, Len(queue)) = PaidBy(p, Take) + PaidBy(p, Len(queue))'
    <3>1. queue \in Seq(Signed) /\ queue' = SubSeq(queue, Take + 1, Len(queue))
      BY <1>0, <1>2, Zenon
    <3>2. ShareSplits(queue, Take, queue')
      BY <1>1, <3>1, PaidBySplit, Zenon
    <3> QED
      BY <3>2, Zenon DEF ShareSplits, PaidBy
  <2> QED
    BY <2>1, <2>2, <2>3
<1>5. /\ DOMAIN per_payer' = {p \in DOMAIN per_payer : per_payer[p] > PaidBy(p, Take)}
      /\ \A p \in DOMAIN per_payer' : per_payer'[p] = per_payer[p] - PaidBy(p, Take)
  BY <1>2 DEF CountsAfterDrain
<1>6. /\ DOMAIN per_payer \subseteq Payers
      /\ \A p \in DOMAIN per_payer : per_payer[p] \in Nat \ {0}
      /\ \A p \in Payers : PayerCount(p) = PaidBy(p, Len(queue))
  BY DEF MempoolInv, TypeOK, PayersCounted
<1>7. TypeOK'
  <2>1. pending' \subseteq Sigs
    BY <1>2 DEF MempoolInv, TypeOK
  <2>2. DOMAIN per_payer' \subseteq Payers
    BY <1>5, <1>6
  <2>3. \A p \in DOMAIN per_payer' : per_payer'[p] \in Nat \ {0}
    BY <1>4, <1>5, <1>6
  <2>4. per_payer' \in [DOMAIN per_payer' -> Nat \ {0}]
    BY <1>2, <2>3 DEF CountsAfterDrain
  <2> QED
    BY <1>3, <2>1, <2>2, <2>4 DEF TypeOK, Signed
<1>8. QueueIndexed'
  <2>1. /\ pending = {SigOf[queue[i]] : i \in 1..Len(queue)}
        /\ \A i, j \in 1..Len(queue) : SigOf[queue[i]] = SigOf[queue[j]] => i = j
    BY DEF MempoolInv, QueueIndexed
  <2>2. \A i \in 1..Len(queue') : /\ i + Take \in 1..Len(queue)
                                  /\ i + Take \notin 1..Take
                                  /\ queue'[i] = queue[i + Take]
    BY <1>0, <1>1, <1>3
  <2>3. \A j \in 1..Len(queue) : j \notin 1..Take =>
           /\ j - Take \in 1..Len(queue')
           /\ queue'[j - Take] = queue[j]
    <3> SUFFICES ASSUME NEW j \in 1..Len(queue), j \notin 1..Take
                 PROVE  /\ j - Take \in 1..Len(queue')
                        /\ queue'[j - Take] = queue[j]
      OBVIOUS
    <3>1. j - Take \in 1..Len(queue') /\ (j - Take) + Take = j
      BY <1>0, <1>1, <1>3
    <3> QED
      BY <3>1, <2>2
  <2>4. \A i, j \in 1..Len(queue') : SigOf[queue'[i]] = SigOf[queue'[j]] => i = j
    <3> SUFFICES ASSUME NEW i \in 1..Len(queue'), NEW j \in 1..Len(queue'),
                        SigOf[queue'[i]] = SigOf[queue'[j]]
                 PROVE  i = j
      OBVIOUS
    <3>1. i + Take = j + Take
      BY <2>1, <2>2
    <3> QED
      BY <3>1, <1>1
  <2>5. \A i \in 1..Len(queue') : SigOf[queue'[i]] \in pending'
    <3> SUFFICES ASSUME NEW i \in 1..Len(queue') PROVE SigOf[queue'[i]] \in pending'
      OBVIOUS
    <3>1. \A j \in 1..Take : j \in 1..Len(queue) /\ j # i + Take
      BY <1>0, <1>1
    <3>2. \A j \in 1..Take : SigOf[queue[j]] # SigOf[queue'[i]]
      BY <2>1, <2>2, <3>1
    <3>3. SigOf[queue'[i]] \in pending
      BY <2>1, <2>2
    <3> QED
      BY <1>2, <3>2, <3>3, Zenon
  <2>6. \A s \in pending' : \E i \in 1..Len(queue') : s = SigOf[queue'[i]]
    <3> SUFFICES ASSUME NEW s \in pending'
                 PROVE  \E i \in 1..Len(queue') : s = SigOf[queue'[i]]
      OBVIOUS
    <3>1. PICK j \in 1..Len(queue) : s = SigOf[queue[j]]
      BY <1>2, <2>1
    <3>2. j \notin 1..Take
      BY <1>2, <3>1
    <3> QED
      BY <2>3, <3>1, <3>2
  <2>7. pending' = {SigOf[queue'[i]] : i \in 1..Len(queue')}
    BY <2>5, <2>6
  <2> QED
    BY <2>4, <2>7 DEF QueueIndexed
<1>9. PayersCounted'
  <2> SUFFICES ASSUME NEW p \in Payers
               PROVE  PayerCount(p)' = PaidBy(p, Len(queue))'
    BY DEF PayersCounted
  <2>1. CASE p \in DOMAIN per_payer
    BY <2>1, <1>4, <1>5, <1>6 DEF PayerCount
  <2>2. CASE p \notin DOMAIN per_payer
    BY <2>2, <1>4, <1>5, <1>6 DEF PayerCount
  <2> QED
    BY <2>1, <2>2
<1>10. WithinLimits'
  <2>1. max_per_payer \in Nat
    BY LimitAssumption DEF max_per_payer
  <2>2. \A p \in Payers : PaidBy(p, Len(queue)) <= max_per_payer
    BY DEF MempoolInv, WithinLimits
  <2>3. \A p \in Payers : PaidBy(p, Len(queue))' <= max_per_payer
    BY <1>4, <2>1, <2>2
  <2>4. Len(queue') <= Capacity
    BY <1>0, <1>1, <1>3, LimitAssumption DEF MempoolInv, WithinLimits
  <2> QED
    BY <2>3, <2>4 DEF WithinLimits, max_per_payer
<1> QED
  BY <1>7, <1>8, <1>9, <1>10 DEF MempoolInv

\* Stuttering keeps the invariant.
LEMMA StutterPreserves ==
  ASSUME MempoolInv, UNCHANGED mpVars
  PROVE  MempoolInv'
  BY Zenon DEF mpVars, MempoolInv, TypeOK, QueueIndexed, PayersCounted, WithinLimits,
         PayerCount, PaidBy, Positions

\* The mempool's invariant holds for ever, whatever is pushed and drained.
THEOREM MempoolInvariant == Spec => []MempoolInv
<1>1. Init => MempoolInv
  BY InitEstablishes
<1>2. MempoolInv /\ [Next]_mpVars => MempoolInv'
  <2> SUFFICES ASSUME MempoolInv, [Next]_mpVars PROVE MempoolInv'
    OBVIOUS
  <2>1. CASE \E tx \in Txs : Push(tx)
    BY <2>1, PushPreserves
  <2>2. CASE Drain
    BY <2>2, DrainPreserves
  <2>3. CASE UNCHANGED mpVars
    BY <2>3, StutterPreserves
  <2> QED
    BY <2>1, <2>2, <2>3 DEF Next
<1> QED
  BY <1>1, <1>2, PTL DEF Spec

\* The signature index is exact in every reachable state: mempool.rs' pending set
\* holds the signatures of the queue, each queued once.
THEOREM IndexAlwaysExact == Spec => []QueueIndexed
<1>1. MempoolInv => QueueIndexed
  BY DEF MempoolInv
<1> QED
  BY <1>1, MempoolInvariant, PTL

\* Every payer's counter always equals its share of the queue, so the payer limit
\* is a limit on the queue itself.
THEOREM CountersAlwaysExact == Spec => [](PayersCounted /\ WithinLimits)
<1>1. MempoolInv => PayersCounted /\ WithinLimits
  BY DEF MempoolInv
<1> QED
  BY <1>1, MempoolInvariant, PTL
=============================================================================
