------------------------- MODULE ShieldedPoolProofs -------------------------
(***************************************************************************)
(* For any payers, balances, fee, ring length and tree capacity: the pool  *)
(* is well typed, its ring of roots holds exactly the last RootHistory     *)
(* roots, and no note is spent twice by the chain.                         *)
(***************************************************************************)
EXTENDS ShieldedPool, TLAPS

Distinct(s) == \A i, j \in 1..Len(s) : s[i] = s[j] => i = j
Within(s, S) == \A i \in 1..Len(s) : s[i] \in S

\* Place i of the ring holds the root that was current as many insertions ago as
\* i lies behind the current place, going around, if there were that many.
Age(p, i) == IF i <= p.current THEN p.current - i ELSE p.current - i + RootHistory
RingOK(p) ==
  \A i \in 0..RootHistory - 1 :
    p.roots[i] = IF Age(p, i) <= Len(p.leaves) THEN Len(p.leaves) - Age(p, i) ELSE NoRoot

\* A spend that counts has left its nullifier in the block's set or in the store,
\* and no nullifier of the running block is in the store.
SpendInv ==
  /\ Distinct(st_spends) /\ Distinct(blk_spends)
  /\ Within(st_spends, st_spent) /\ Within(blk_spends, within)
  /\ within \cap st_spent = {}

RingInv == RingOK(st_pool) /\ RingOK(blk_pool)

----------------------------------------------------------------------------
\* The places of the ring follow each other and go around.
LEMMA NextPlace ==
  ASSUME NEW R \in Nat \ {0}, NEW c \in 0..R - 1
  PROVE  (c + 1) % R = IF c + 1 = R THEN 0 ELSE c + 1
  OBVIOUS

\* A place that is not the new current one is one step further behind it.
LEMMA OtherPlaces ==
  ASSUME NEW R \in Nat \ {0}, NEW c \in 0..R - 1, NEW i \in 0..R - 1,
         NEW d, d = (IF c + 1 = R THEN 0 ELSE c + 1), i # d
  PROVE  /\ (IF i <= d THEN d - i ELSE d - i + R)
              = (IF i <= c THEN c - i ELSE c - i + R) + 1
         /\ (IF i <= c THEN c - i ELSE c - i + R) \in Nat
  OBVIOUS

\* PoolState::insert keeps the state well formed and counts the leaf.
LEMMA InsertType ==
  ASSUME NEW p \in Pools, NEW amount \in Nat
  PROVE  /\ Insert(p, amount) \in Pools
         /\ Len(Insert(p, amount).leaves) = Len(p.leaves) + 1
  BY PoolAssumption, NextPlace DEF Insert, Pools

\* PoolState::insert drops the oldest root for the new one.
LEMMA InsertRing ==
  ASSUME NEW p \in Pools, NEW amount \in Nat, RingOK(p)
  PROVE  RingOK(Insert(p, amount))
  <1> DEFINE c == (p.current + 1) % RootHistory
             q == Insert(p, amount)
  <1>1. /\ RootHistory \in Nat \ {0} /\ p.current \in 0..RootHistory - 1
        /\ Len(p.leaves) \in Nat
        /\ p.roots \in [0..RootHistory - 1 -> Nat \cup {NoRoot}]
    BY PoolAssumption DEF Pools
  <1>2. c = IF p.current + 1 = RootHistory THEN 0 ELSE p.current + 1
    BY <1>1, NextPlace
  <1>3. /\ q.current = c /\ Len(q.leaves) = Len(p.leaves) + 1
        /\ q.roots = [p.roots EXCEPT ![c] = Len(p.leaves) + 1]
    BY DEF Insert, Pools
  <1> HIDE DEF c, q
  <1> SUFFICES ASSUME NEW i \in 0..RootHistory - 1
               PROVE  q.roots[i] = IF Age(q, i) <= Len(q.leaves)
                                   THEN Len(q.leaves) - Age(q, i) ELSE NoRoot
    BY DEF RingOK, q
  <1>4. /\ Age(p, i) = IF i <= p.current THEN p.current - i
                        ELSE p.current - i + RootHistory
        /\ Age(q, i) = IF i <= c THEN c - i ELSE c - i + RootHistory
    BY <1>3 DEF Age
  <1>5. CASE i = c
    <2>1. Age(q, i) = 0
      BY <1>1, <1>2, <1>4, <1>5
    <2>2. q.roots[i] = Len(p.leaves) + 1
      BY <1>1, <1>3, <1>5
    <2> QED
      BY <2>1, <2>2, <1>1, <1>3
  <1>6. CASE i # c
    <2>1. q.roots[i] = p.roots[i]
      BY <1>1, <1>3, <1>6
    <2>2. Age(q, i) = Age(p, i) + 1 /\ Age(p, i) \in Nat
      <3>1. /\ (IF i <= c THEN c - i ELSE c - i + RootHistory)
                 = (IF i <= p.current THEN p.current - i
                    ELSE p.current - i + RootHistory) + 1
            /\ (IF i <= p.current THEN p.current - i
                ELSE p.current - i + RootHistory) \in Nat
        BY <1>1, <1>2, <1>6, OtherPlaces, ZenonT(40)
      <3> QED
        BY <3>1, <1>4
    <2>3. p.roots[i] = IF Age(p, i) <= Len(p.leaves)
                       THEN Len(p.leaves) - Age(p, i) ELSE NoRoot
      BY DEF RingOK
    <2> QED
      BY <2>1, <2>2, <2>3, <1>1, <1>3
  <1> QED
    BY <1>5, <1>6

\* So do the outputs of a transaction, however many of them fit.
LEMMA InsertAllOK ==
  ASSUME NEW p \in Pools, NEW outs \in Seq(Nat), Len(outs) \in {1, 2}
  PROVE  /\ InsertAll(p, outs) \in Pools
         /\ RingOK(p) => RingOK(InsertAll(p, outs))
  <1>1. CASE outs = <<>> \/ Full(p)
    BY <1>1 DEF InsertAll
  <1>2. CASE outs # <<>> /\ ~Full(p)
    <2> DEFINE q == Insert(p, outs[1])
    <2>1. outs[1] \in Nat /\ (Len(outs) # 1 => outs[2] \in Nat)
      OBVIOUS
    <2>2. q \in Pools /\ (RingOK(p) => RingOK(q))
      BY <2>1, InsertType, InsertRing
    <2>3. InsertAll(p, outs) = IF Len(outs) = 1 \/ Full(q) THEN q ELSE Insert(q, outs[2])
      BY <1>2 DEF InsertAll
    <2> HIDE DEF q
    <2>4. CASE Len(outs) = 1 \/ Full(q)
      BY <2>2, <2>3, <2>4
    <2>5. CASE ~(Len(outs) = 1 \/ Full(q))
      BY <2>1, <2>2, <2>3, <2>5, InsertType, InsertRing
    <2> QED
      BY <2>4, <2>5
  <1> QED
    BY <1>1, <1>2

\* move_lamports never leaves a negative balance.
LEMMA MoveType ==
  ASSUME NEW bal \in [Accounts -> Nat], NEW from \in Accounts, NEW to \in Accounts,
         NEW n \in Nat
  PROVE  MoveLamports(bal, from, to, n) \in [Accounts -> Nat]
  BY DEF MoveLamports

LEMMA MovesType ==
  ASSUME blk_bal \in [Accounts -> Nat], NEW payer \in Payers, NEW from \in Accounts,
         NEW to \in Accounts, NEW n \in Nat
  PROVE  ApplyMoves(payer, from, to, n) \in [Accounts -> Nat]
  BY MoveType, PoolAssumption, Zenon DEF ApplyMoves, Accounts

LEMMA MintedType ==
  ASSUME blk_minted \in Nat, NEW payer, NEW from, NEW to, NEW n \in Nat
  PROVE  blk_minted + SelfMoved(payer, from, to, n) \in Nat
  BY PoolAssumption DEF SelfMoved

----------------------------------------------------------------------------
LEMMA EqualShift ==
  ASSUME NEW m \in Nat, NEW n \in Nat, NEW i \in 1..m, NEW j \in 1..m, i - n = j - n
  PROVE  i = j
  OBVIOUS

\* Appending unspent notes to the spends of the block keeps them apart.
LEMMA SpendAppend ==
  ASSUME NEW s \in Seq(Int), NEW t \in Seq(Int), NEW S, NEW T,
         Distinct(s), Within(s, S), Distinct(t), Within(t, T), S \cap T = {}
  PROVE  /\ s \o t \in Seq(Int) /\ Distinct(s \o t) /\ Within(s \o t, S \cup T)
  <1>1. /\ s \o t \in Seq(Int) /\ Len(s \o t) = Len(s) + Len(t)
        /\ Len(s) \in Nat /\ Len(t) \in Nat /\ Len(s \o t) \in Nat
        /\ \A i \in 1..Len(s) + Len(t) :
             (s \o t)[i] = IF i <= Len(s) THEN s[i] ELSE t[i - Len(s)]
    OBVIOUS
  <1>2. ASSUME NEW i \in 1..Len(s \o t)
        PROVE  IF i <= Len(s) THEN i \in 1..Len(s) /\ (s \o t)[i] = s[i]
               ELSE i - Len(s) \in 1..Len(t) /\ (s \o t)[i] = t[i - Len(s)]
    BY <1>1
  <1>3. Within(s \o t, S \cup T)
    BY <1>2 DEF Within
  <1>4. Distinct(s \o t)
    <2> SUFFICES ASSUME NEW i \in 1..Len(s \o t), NEW j \in 1..Len(s \o t),
                        (s \o t)[i] = (s \o t)[j]
                 PROVE  i = j
      BY DEF Distinct
    <2>1. CASE i <= Len(s) /\ j <= Len(s)
      BY <1>2, <2>1 DEF Distinct
    <2>2. CASE ~(i <= Len(s)) /\ ~(j <= Len(s))
      <3>1. i - Len(s) = j - Len(s)
        BY <1>2, <2>2, Zenon DEF Distinct
      <3>2. Len(s \o t) \in Nat /\ Len(s) \in Nat
        BY <1>1, Zenon
      <3> QED
        BY <3>1, <3>2, EqualShift, Zenon
    <2>3. /\ IF i <= Len(s) THEN (s \o t)[i] \in S ELSE (s \o t)[i] \in T
          /\ IF j <= Len(s) THEN (s \o t)[j] \in S ELSE (s \o t)[j] \in T
      BY <1>2, Zenon DEF Within
    <2> QED
      BY <2>1, <2>2, <2>3, Zenon
  <1> QED
    BY <1>1, <1>3, <1>4

IInv == TypeOK /\ RingInv /\ SpendInv

LEMMA InitOK == Init => IInv
  <1> SUFFICES ASSUME Init PROVE IInv
    OBVIOUS
  <1>1. NewPool \in Pools
    BY PoolAssumption DEF NewPool, Pools, NoRoot
  <1>2. RingOK(NewPool)
    BY PoolAssumption DEF RingOK, NewPool, Age, NoRoot
  <1>3. TypeOK
    <2>1. <<>> \in Seq(Int) /\ Genesis \in [Accounts -> Nat] /\ 0 \in Nat
      BY PoolAssumption
    <2>2. {} \subseteq Int /\ FALSE \in BOOLEAN
      OBVIOUS
    <2> QED
      BY <1>1, <2>1, <2>2, Zenon DEF Init, TypeOK
  <1>4. SpendInv
    BY DEF Init, SpendInv, Distinct, Within
  <1> QED
    BY <1>2, <1>3, <1>4 DEF Init, IInv, RingInv

LEMMA ShieldOK ==
  ASSUME IInv, NEW payer \in Payers, NEW amount \in Amounts, Shield(payer, amount)
  PROVE  IInv'
  <1> USE DEF IInv
  <1>1. amount \in Nat /\ payer \in Accounts /\ Vault \in Accounts
    BY PoolAssumption DEF Amounts, Accounts
  <1>2. blk_pool' \in Pools /\ RingOK(blk_pool')
    BY <1>1, InsertType, InsertRing DEF Shield, TypeOK, RingInv
  <1>3. blk_bal' \in [Accounts -> Nat] /\ blk_minted' \in Nat
    BY <1>1, MovesType, MintedType, Zenon DEF Shield, Moves, TypeOK
  <1>4. TypeOK'
    BY <1>2, <1>3 DEF TypeOK, Shield, stVars
  <1>5. RingInv'
    BY <1>2 DEF RingInv, Shield, stVars
  <1>6. SpendInv'
    BY DEF SpendInv, Shield, stVars
  <1> QED
    BY <1>4, <1>5, <1>6

\* A transaction that spends the notes t, whether or not its outputs fit.
LEMMA SpendsOK ==
  ASSUME IInv, NEW t \in Seq(Int), NEW T \in SUBSET Int, Distinct(t), Within(t, T),
         T \cap within = {}, T \cap st_spent = {}, within' = within \cup T,
         UNCHANGED stVars, blk_spends' = blk_spends \/ blk_spends' = blk_spends \o t
  PROVE  SpendInv' /\ blk_spends' \in Seq(Int) /\ within' \subseteq Int
  <1> USE DEF IInv
  <1>1. /\ blk_spends' \in Seq(Int) /\ Distinct(blk_spends')
        /\ Within(blk_spends', within')
    <2>1. CASE blk_spends' = blk_spends
      BY <2>1 DEF SpendInv, TypeOK, Within
    <2>2. CASE blk_spends' = blk_spends \o t
      BY <2>2, SpendAppend, Zenon DEF SpendInv, TypeOK
    <2> QED
      BY <2>1, <2>2
  <1>2. within' \cap st_spent' = {} /\ within' \subseteq Int
    BY DEF SpendInv, TypeOK, stVars
  <1>3. Distinct(st_spends') /\ Within(st_spends', st_spent')
    BY DEF SpendInv, stVars
  <1> QED
    BY <1>1, <1>2, <1>3 DEF SpendInv

LEMMA TransferOK ==
  ASSUME IInv, NEW payer \in Payers, NEW n \in 0..Len(blk_pool.leaves),
         NEW v \in Amounts, NEW w \in Amounts, NEW fee \in Amounts,
         NEW a \in Inputs(blk_pool, n), NEW b \in Inputs(blk_pool, n),
         Transfer(payer, n, a, b, <<v, w>>, fee)
  PROVE  IInv'
  <1> USE DEF IInv
  <1>1. /\ v \in Nat /\ w \in Nat /\ fee \in Nat
        /\ Collector \in Accounts /\ Vault \in Accounts
    BY PoolAssumption DEF Amounts, Accounts
  <1>2. <<v, w>> \in Seq(Nat) /\ Len(<<v, w>>) \in {1, 2}
    BY <1>1
  <1>3. blk_pool' \in Pools /\ RingOK(blk_pool')
    BY <1>2, InsertAllOK, Zenon DEF Transfer, TypeOK, RingInv
  <1>4. blk_bal' \in [Accounts -> Nat] /\ blk_minted' \in Nat /\ dirty' \in BOOLEAN
    <2>1. /\ ApplyMoves(payer, Vault, Collector, fee) \in [Accounts -> Nat]
          /\ blk_minted + SelfMoved(payer, Vault, Collector, fee) \in Nat
      BY <1>1, MovesType, MintedType, Zenon DEF TypeOK
    <2>2. \/ Moves(payer, Vault, Collector, fee) /\ dirty' = TRUE
          \/ blk_bal' = blk_bal /\ blk_minted' = blk_minted /\ dirty' = dirty
      BY Zenon DEF Transfer
    <2> QED
      BY <2>1, <2>2, Zenon DEF TypeOK, Moves
  <1>5. SpendInv' /\ blk_spends' \in Seq(Int) /\ within' \subseteq Int
    <2>1. Len(blk_pool.leaves) \in Nat
      BY DEF TypeOK, Pools
    <2>2. a \in Int /\ b \in Int
      BY <2>1, PoolAssumption DEF Inputs
    <2>3. <<a, b>> \in Seq(Int) /\ Distinct(<<a, b>>) /\ Within(<<a, b>>, {a, b})
      BY <2>2 DEF Transfer, Distinct, Within
    <2>4. {a, b} \cap within = {} /\ {a, b} \cap st_spent = {} /\ {a, b} \in SUBSET Int
      BY <2>2 DEF Transfer, IsSpent
    <2>5. /\ within' = within \cup {a, b} /\ UNCHANGED stVars
          /\ blk_spends' = blk_spends \/ blk_spends' = blk_spends \o <<a, b>>
      BY DEF Transfer, Spend
    <2> QED
      BY <2>3, <2>4, <2>5, SpendsOK, Zenon
  <1>6. TypeOK'
    BY <1>3, <1>4, <1>5, Zenon DEF TypeOK, Transfer, stVars
  <1>7. RingInv'
    BY <1>3 DEF RingInv, Transfer, stVars
  <1> QED
    BY <1>5, <1>6, <1>7

LEMMA UnshieldOK ==
  ASSUME IInv, NEW payer \in Payers, NEW recipient \in Accounts,
         NEW n \in 0..Len(blk_pool.leaves), NEW change \in Amounts,
         NEW amount \in Amounts, NEW a \in 1..n,
         Unshield(payer, n, a, change, amount, recipient)
  PROVE  IInv'
  <1> USE DEF IInv
  <1>1. /\ change \in Nat /\ amount \in Nat
        /\ recipient \in Accounts /\ Vault \in Accounts
    BY PoolAssumption DEF Amounts, Accounts
  <1>2. <<change>> \in Seq(Nat) /\ Len(<<change>>) \in {1, 2}
    BY <1>1
  <1>3. blk_pool' \in Pools /\ RingOK(blk_pool')
    BY <1>2, InsertAllOK, Zenon DEF Unshield, TypeOK, RingInv
  <1>4. blk_bal' \in [Accounts -> Nat] /\ blk_minted' \in Nat /\ dirty' \in BOOLEAN
    <2>1. /\ ApplyMoves(payer, Vault, recipient, amount) \in [Accounts -> Nat]
          /\ blk_minted + SelfMoved(payer, Vault, recipient, amount) \in Nat
      BY <1>1, MovesType, MintedType, Zenon DEF TypeOK
    <2>2. \/ Moves(payer, Vault, recipient, amount) /\ dirty' = TRUE
          \/ blk_bal' = blk_bal /\ blk_minted' = blk_minted /\ dirty' = dirty
      BY Zenon DEF Unshield
    <2> QED
      BY <2>1, <2>2, Zenon DEF TypeOK, Moves
  <1>5. SpendInv' /\ blk_spends' \in Seq(Int) /\ within' \subseteq Int
    <2>1. Len(blk_pool.leaves) \in Nat
      BY DEF TypeOK, Pools
    <2>2. a \in Int
      BY <2>1
    <2>3. <<a>> \in Seq(Int) /\ Distinct(<<a>>) /\ Within(<<a>>, {a})
      BY <2>2 DEF Distinct, Within
    <2>4. {a} \cap within = {} /\ {a} \cap st_spent = {} /\ {a} \in SUBSET Int
      BY <2>2 DEF Unshield, IsSpent
    <2>5. /\ within' = within \cup {a} /\ UNCHANGED stVars
          /\ blk_spends' = blk_spends \/ blk_spends' = blk_spends \o <<a>>
      BY DEF Unshield, Spend
    <2> QED
      BY <2>3, <2>4, <2>5, SpendsOK, Zenon
  <1>6. TypeOK'
    BY <1>3, <1>4, <1>5, Zenon DEF TypeOK, Unshield, stVars
  <1>7. RingInv'
    BY <1>3 DEF RingInv, Unshield, stVars
  <1> QED
    BY <1>5, <1>6, <1>7

LEMMA CommitOK ==
  ASSUME IInv, Commit
  PROVE  IInv'
  <1> USE DEF IInv
  <1>1. st_pool' \in Pools /\ RingOK(st_pool') /\ blk_pool' = st_pool'
    BY Zenon DEF Commit, TypeOK, RingInv
  <1>2. /\ st_spends' \in Seq(Int) /\ Distinct(st_spends')
        /\ Within(st_spends', st_spent')
    BY SpendAppend, Zenon DEF Commit, SpendInv, TypeOK
  <1>3. blk_spends' = <<>> /\ within' = {}
    BY DEF Commit
  <1>4. blocks' \in Nat /\ st_minted' \in Nat /\ blk_minted' \in Nat
    BY DEF Commit, TypeOK
  <1>5. st_spent' \subseteq Int /\ <<>> \in Seq(Int)
    BY DEF Commit, TypeOK
  <1>6. TypeOK'
    BY <1>1, <1>2, <1>3, <1>4, <1>5, Zenon DEF Commit, TypeOK
  <1>7. SpendInv'
    BY <1>2, <1>3 DEF SpendInv, Distinct, Within
  <1> QED
    BY <1>1, <1>6, <1>7 DEF RingInv

LEMMA LoseOK ==
  ASSUME IInv, Lose
  PROVE  IInv'
  <1> USE DEF IInv
  <1>1. blocks' \in Nat /\ <<>> \in Seq(Int) /\ 0 \in Nat
    BY DEF Lose, TypeOK
  <1>2. TypeOK'
    BY <1>1, Zenon DEF Lose, TypeOK, stVars
  <1>3. SpendInv'
    BY DEF Lose, SpendInv, Distinct, Within, stVars
  <1>4. RingInv'
    BY DEF Lose, RingInv, stVars
  <1> QED
    BY <1>2, <1>3, <1>4

LEMMA NextOK == IInv /\ [Next]_vars => IInv'
  <1> SUFFICES ASSUME IInv, [Next]_vars PROVE IInv'
    OBVIOUS
  <1>1. CASE \E payer \in Payers, amount \in Amounts : Shield(payer, amount)
    BY <1>1, ShieldOK
  <1>2. CASE \E payer \in Payers, n \in 0..Len(blk_pool.leaves), v, w \in Amounts :
               \E a, b \in Inputs(blk_pool, n) :
                 LET fee == AmountOf(blk_pool, a) + AmountOf(blk_pool, b) - v - w
                 IN  fee \in Amounts /\ Transfer(payer, n, a, b, <<v, w>>, fee)
    BY <1>2, TransferOK
  <1>3. CASE \E payer \in Payers, recipient \in Accounts, n \in 0..Len(blk_pool.leaves),
                change, amount \in Amounts :
               \E a \in 1..n : Unshield(payer, n, a, change, amount, recipient)
    BY <1>3, UnshieldOK
  <1>4. CASE Commit
    BY <1>4, CommitOK
  <1>5. CASE Lose
    BY <1>5, LoseOK
  <1>6. CASE UNCHANGED vars
    BY <1>6 DEF vars, stVars, IInv, TypeOK, RingInv, SpendInv
  <1> QED
    BY <1>1, <1>2, <1>3, <1>4, <1>5, <1>6 DEF Next

\* The inductive invariant of the pool.
THEOREM PoolInvariant == Spec => []IInv
  BY InitOK, NextOK, PTL DEF Spec

\* The pool state stays well formed and no balance goes below zero, whatever
\* transactions a block holds and however blocks end.
THEOREM PoolTyped == Spec => []TypeOK
  BY PoolInvariant, PTL DEF IInv

\* No note is spent twice by the chain: BlockNullifiers refuses a nullifier of the
\* block or of the store, and the commit moves the block's into the store.
THEOREM NoNoteSpentTwice == Spec => []SpendOnce
  <1>1. IInv => SpendOnce
    BY DEF IInv, SpendInv, Distinct, SpendOnce
  <1> QED
    BY <1>1, PoolInvariant, PTL

\* The ages of the places of the ring are 0..R - 1, each at one place.
LEMMA Ages ==
  ASSUME NEW R \in Nat \ {0}, NEW c \in 0..R - 1, NEW i \in 0..R - 1
  PROVE  (IF i <= c THEN c - i ELSE c - i + R) \in 0..R - 1
  OBVIOUS

LEMMA AgesOnto ==
  ASSUME NEW R \in Nat \ {0}, NEW c \in 0..R - 1, NEW d \in 0..R - 1
  PROVE  \E i \in 0..R - 1 : (IF i <= c THEN c - i ELSE c - i + R) = d
  <1>1. CASE d <= c
    <2>1. c - d \in 0..R - 1
      BY <1>1
    <2> USE <2>1
    <2> WITNESS c - d \in 0..R - 1
    <2> QED
      BY <1>1
  <1>2. CASE ~(d <= c)
    <2>1. c - d + R \in 0..R - 1
      BY <1>2
    <2> USE <2>1
    <2> WITNESS c - d + R \in 0..R - 1
    <2> QED
      BY <1>2
  <1> QED
    BY <1>1, <1>2

\* In a ring that is in order a root is known exactly while fewer than RootHistory
\* insertions followed it.
LEMMA RingGivesExact ==
  ASSUME NEW p \in Pools, RingOK(p), NEW n \in 0..Len(p.leaves)
  PROVE  IsKnownRoot(p, n) <=> n > Len(p.leaves) - RootHistory
  <1>1. /\ RootHistory \in Nat \ {0} /\ p.current \in 0..RootHistory - 1
        /\ Len(p.leaves) \in Nat /\ n \in Nat /\ n # NoRoot
    BY PoolAssumption DEF Pools, NoRoot
  <1>2. ASSUME NEW i \in 0..RootHistory - 1, p.roots[i] = n
        PROVE  n > Len(p.leaves) - RootHistory
    <2>1. Age(p, i) \in 0..RootHistory - 1
      BY <1>1, Ages DEF Age
    <2>2. n = IF Age(p, i) <= Len(p.leaves) THEN Len(p.leaves) - Age(p, i) ELSE NoRoot
      BY <1>2 DEF RingOK
    <2> QED
      BY <1>1, <2>1, <2>2
  <1>3. ASSUME n > Len(p.leaves) - RootHistory
        PROVE  \E i \in 0..RootHistory - 1 : p.roots[i] = n
    <2>1. Len(p.leaves) - n \in 0..RootHistory - 1
      BY <1>1, <1>3
    <2>2. PICK i \in 0..RootHistory - 1 : Age(p, i) = Len(p.leaves) - n
      BY <1>1, <2>1, AgesOnto, Zenon DEF Age
    <2>3. p.roots[i] = n
      BY <1>1, <2>2 DEF RingOK
    <2> QED
      BY <2>3
  <1> QED
    BY <1>1, <1>2, <1>3 DEF IsKnownRoot

\* PoolState's ring knows a root exactly while fewer than RootHistory insertions
\* followed it, in the block and in the store, for any length of the ring.
THEOREM RingAlwaysExact == Spec => []RingExact
  <1>1. IInv => RingExact
    BY RingGivesExact DEF IInv, TypeOK, RingInv, RingExact
  <1> QED
    BY <1>1, PoolInvariant, PTL
=============================================================================
