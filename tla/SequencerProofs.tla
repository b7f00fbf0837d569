-------------------------- MODULE SequencerProofs --------------------------
(***************************************************************************)
(* For any transactions, deposits, balances, queue length and bounds: a    *)
(* deposit is credited exactly once, the chain holds an SVM transaction's  *)
(* signature at most once, and an SVM transaction enters a block only      *)
(* while its blockhash is recent.                                          *)
(***************************************************************************)
EXTENDS Sequencer, TLAPS

\* The credits that the store and the running block have made are those whose
\* receipts they hold; a block in publication holds what it has committed.
Credited(credits, receipts) ==
  /\ credits \in [Deposits -> Nat]
  /\ \A d \in Deposits : credits[d] = IF d \in receipts THEN 1 ELSE 0

DepositInv ==
  /\ Credited(st_credits, st_receipts)
  /\ Credited(blk_credits, blk_receipts \cup st_receipts)

----------------------------------------------------------------------------
LEMMA DepositInit == Init => DepositInv
  BY DEF Init, DepositInv, Credited

\* Crediting a deposit that has no receipt, together with its receipt.
LEMMA CreditOne ==
  ASSUME NEW credits, NEW R, NEW d, Credited(credits, R), d \notin R
  PROVE  Credited([credits EXCEPT ![d] = @ + 1], R \cup {d})
  <1> DEFINE c == [credits EXCEPT ![d] = credits[d] + 1]
  <1>1. credits \in [Deposits -> Nat]
    BY DEF Credited
  <1>2. c \in [Deposits -> Nat]
    <2>1. c = [e \in Deposits |-> IF e = d THEN credits[d] + 1 ELSE credits[e]]
      BY <1>1, Zenon
    <2>2. \A e \in Deposits : (IF e = d THEN credits[d] + 1 ELSE credits[e]) \in Nat
      BY <1>1
    <2> QED
      BY <2>1, <2>2, Zenon
  <1>3. ASSUME NEW e \in Deposits
        PROVE  c[e] = IF e \in R \cup {d} THEN 1 ELSE 0
    <2>1. credits[e] = IF e \in R THEN 1 ELSE 0
      BY DEF Credited
    <2>2. c[e] = IF e = d THEN credits[e] + 1 ELSE credits[e]
      BY <1>1
    <2> QED
      BY <2>1, <2>2
  <1> QED
    BY <1>2, <1>3 DEF Credited

LEMMA DepositNext == DepositInv /\ [Next]_vars => DepositInv'
  <1> SUFFICES ASSUME DepositInv, [Next]_vars PROVE DepositInv'
    OBVIOUS
  <1>1. CASE CreditDeposit
    <2> DEFINE d == Head(blk_deposits)
    <2>1. UNCHANGED <<st_credits, st_receipts>>
      BY <1>1, Zenon DEF CreditDeposit, stVars, chainVars
    <2>2. CASE d \in blk_receipts \/ d \in st_receipts
      BY <1>1, <2>1, <2>2, Zenon DEF CreditDeposit, Credit, DepositInv
    <2>3. CASE ~(d \in blk_receipts \/ d \in st_receipts)
      <3>1. /\ blk_receipts' = blk_receipts \cup {d}
            /\ blk_credits' = [blk_credits EXCEPT ![d] = @ + 1]
        BY <1>1, <2>3, Zenon DEF CreditDeposit, Credit
      <3>2. Credited(blk_credits', (blk_receipts \cup st_receipts) \cup {d})
        BY <3>1, <2>3, CreditOne, Zenon DEF DepositInv
      <3>3. (blk_receipts \cup st_receipts) \cup {d} = (blk_receipts \cup st_receipts)'
        BY <3>1, <2>1
      <3> QED
        BY <3>2, <3>3, <2>1, Zenon DEF DepositInv
    <2> QED
      BY <2>2, <2>3
  <1>2. CASE Commit
    <2>1. /\ st_credits' = blk_credits /\ blk_credits' = blk_credits
          /\ st_receipts' = st_receipts \cup blk_receipts /\ blk_receipts' = blk_receipts
      BY <1>2, Zenon DEF Commit, blkVars
    <2>2. /\ st_receipts' = blk_receipts \cup st_receipts
          /\ blk_receipts' \cup st_receipts' = blk_receipts \cup st_receipts
      BY <2>1
    <2> QED
      BY <2>1, <2>2, Zenon DEF DepositInv
  <1>3. CASE Publish \/ ProduceError \/ Crash
    <2>1. /\ UNCHANGED <<st_credits, st_receipts>>
          /\ blk_credits' = st_credits /\ blk_receipts' = {}
      BY <1>3, Zenon DEF Publish, ProduceError, Crash, EmptyBlock, stVars, chainVars
    <2>2. blk_receipts' \cup st_receipts' = st_receipts
      BY <2>1
    <2> QED
      BY <2>1, <2>2, Zenon DEF DepositInv
  <1>4. CASE UNCHANGED <<st_credits, st_receipts, blk_credits, blk_receipts>>
    BY <1>4 DEF DepositInv
  <1>5. ASSUME NEW tx \in Txs, AdmitRecent(tx) \/ AdmitFresh(tx) \/ Submit(tx)
        PROVE  UNCHANGED <<st_credits, st_receipts, blk_credits, blk_receipts>>
    BY <1>5, Zenon DEF AdmitRecent, AdmitFresh, Submit, blkVars, stVars, chainVars
  <1>6. ASSUME (\E d \in Deposits : L1Deposit(d)) \/ L1Other \/ WatcherFetch \/ WatcherEnqueue
        PROVE  UNCHANGED <<st_credits, st_receipts, blk_credits, blk_receipts>>
    BY <1>6, Zenon DEF L1Deposit, L1Other, WatcherFetch, WatcherEnqueue, blkVars, stVars,
                       chainVars
  <1>7. ASSUME \/ ProduceDrain \/ ProduceNothing \/ StartBlock \/ ExecSvm \/ ExecPool
               \/ Withdraw \/ Restart
        PROVE  UNCHANGED <<st_credits, st_receipts, blk_credits, blk_receipts>>
    BY <1>7, Zenon DEF ProduceDrain, ProduceNothing, StartBlock, ExecSvm, ExecPool,
                       Withdraw, Restart, blkVars, stVars, chainVars
  <1>8. ASSUME UNCHANGED vars
        PROVE  UNCHANGED <<st_credits, st_receipts, blk_credits, blk_receipts>>
    BY <1>8, Zenon DEF vars, blkVars, stVars, chainVars
  <1> QED
    BY <1>1, <1>2, <1>3, <1>4, <1>5, <1>6, <1>7, <1>8, Zenon DEF Next, Producer

\* Exactly-once deposits: apply_deposits writes the credit and the receipt
\* together, and skips a deposit with a receipt in the block or in the store.
THEOREM DepositsCreditedOnce == Spec => []DepositOnce
  <1>1. DepositInv => DepositOnce
    BY DEF DepositInv, Credited, DepositOnce
  <1> QED
    BY <1>1, DepositInit, DepositNext, PTL DEF Spec

----------------------------------------------------------------------------
IsLog(log) == \E S : log \in Seq(S)
Svm(e) == Kind[e.tx] = "svm"
Recent(e) ==
  Svm(e) => RecentOf[e.tx] < e.slot /\ RecentOf[e.tx] + QueueCap >= e.slot
OnceIn(log) ==
  \A i, j \in 1..Len(log) :
    (Svm(log[i]) /\ Svm(log[j]) /\ SigOf[log[i].tx] = SigOf[log[j].tx]) => i = j
RecentIn(log) == \A i \in 1..Len(log) : Recent(log[i])

\* A blockhash queue holds the last slots up to the given one, in order.
QueueOK(q, slot) ==
  /\ q \in Seq(Int) /\ slot \in Nat /\ Len(q) \in 1..QueueCap
  /\ \A i \in 1..Len(q) : q[i] = slot - Len(q) + i

\* The SVM transactions of the running block are among its seen signatures and
\* were not committed when they were accepted.
BlockFresh ==
  \A i \in 1..Len(blk_log) :
    Svm(blk_log[i]) => /\ SigOf[blk_log[i].tx] \in blk_seen
                       /\ ~Committed(st_log, SigOf[blk_log[i].tx])

SvmInv ==
  /\ IsLog(st_log) /\ OnceIn(st_log) /\ RecentIn(st_log)
  /\ IsLog(blk_log) /\ RecentIn(blk_log)
  /\ QueueOK(tip_queue, tip_slot) /\ QueueOK(st_queue, st_slot)
  /\ pc \in {"idle", "drained", "exec", "publish"}
  /\ pc \in {"idle", "drained"} => blk_log = <<>>
  /\ pc = "exec" => OnceIn(blk_log) /\ BlockFresh

LEMMA EmptyLog == IsLog(<<>>) /\ OnceIn(<<>>) /\ RecentIn(<<>>)
  <1>1. <<>> \in Seq({}) /\ Len(<<>>) = 0
    OBVIOUS
  <1> QED
    BY <1>1 DEF IsLog, OnceIn, RecentIn

\* What Append and concatenation make of a log.
LEMMA LogAppend ==
  ASSUME NEW log, IsLog(log), NEW e
  PROVE  /\ IsLog(Append(log, e)) /\ Len(log) \in Nat
         /\ Len(Append(log, e)) = Len(log) + 1
         /\ Append(log, e)[Len(log) + 1] = e
         /\ \A i \in 1..Len(log) : Append(log, e)[i] = log[i]
  <1>1. PICK S : log \in Seq(S)
    BY DEF IsLog
  <1>2. log \in Seq(S \cup {e})
    BY <1>1
  <1>3. Append(log, e) \in Seq(S \cup {e})
    BY <1>2
  <1> QED
    BY <1>2, <1>3 DEF IsLog

LEMMA LogConcat ==
  ASSUME NEW a, IsLog(a), NEW b, IsLog(b)
  PROVE  /\ IsLog(a \o b) /\ Len(a) \in Nat /\ Len(b) \in Nat
         /\ Len(a \o b) = Len(a) + Len(b)
         /\ \A i \in 1..Len(a) + Len(b) :
              (a \o b)[i] = IF i <= Len(a) THEN a[i] ELSE b[i - Len(a)]
  <1>1. PICK S : a \in Seq(S)
    BY DEF IsLog
  <1>2. PICK T : b \in Seq(T)
    BY DEF IsLog
  <1>3. a \in Seq(S \cup T) /\ b \in Seq(S \cup T)
    BY <1>1, <1>2
  <1>4. a \o b \in Seq(S \cup T)
    BY <1>3
  <1> QED
    BY <1>3, <1>4 DEF IsLog

\* BlockhashQueue::register keeps the last slots.
LEMMA RegisterOK ==
  ASSUME NEW q, NEW slot, QueueOK(q, slot)
  PROVE  QueueOK(Register(q, slot + 1), slot + 1)
  <1> DEFINE r == Append(q, slot + 1)
  <1>1. /\ QueueCap \in Nat \ {0} /\ q \in Seq(Int) /\ slot \in Nat
        /\ Len(q) \in 1..QueueCap /\ \A i \in 1..Len(q) : q[i] = slot - Len(q) + i
    BY SequencerAssumption DEF QueueOK
  <1>2. /\ r \in Seq(Int) /\ Len(r) = Len(q) + 1
        /\ \A i \in 1..Len(r) : r[i] = slot + 1 - Len(r) + i
    BY <1>1
  <1> HIDE DEF r
  <1>3. slot + 1 \in Nat /\ Len(r) \in Nat /\ Len(q) \in Nat
    BY <1>1, <1>2
  <1>4. CASE Len(r) > QueueCap
    <2> DEFINE t == Tail(r)
    <2>1. /\ t \in Seq(Int) /\ Len(t) = Len(q)
          /\ \A i \in 1..Len(t) : t[i] = r[i + 1]
      BY <1>1, <1>2, <1>3
    <2> HIDE DEF t
    <2>2. ASSUME NEW i \in 1..Len(t)
          PROVE  t[i] = (slot + 1) - Len(t) + i
      <3>1. i + 1 \in 1..Len(r)
        BY <1>2, <1>3, <2>1
      <3>2. r[i + 1] = slot + 1 - Len(r) + (i + 1)
        BY <1>2, <3>1
      <3> QED
        BY <1>1, <1>2, <1>3, <2>1, <3>2
    <2>3. Register(q, slot + 1) = t
      BY <1>4 DEF Register, r, t
    <2>4. Len(t) \in 1..QueueCap
      BY <1>1, <2>1
    <2> QED
      BY <1>3, <2>1, <2>2, <2>3, <2>4, Zenon DEF QueueOK
  <1>5. CASE ~(Len(r) > QueueCap)
    <2>1. Register(q, slot + 1) = r
      BY <1>5 DEF Register, r
    <2>2. Len(r) \in 1..QueueCap
      BY <1>1, <1>2, <1>3, <1>5
    <2> QED
      BY <1>2, <1>3, <2>1, <2>2 DEF QueueOK
  <1> QED
    BY <1>4, <1>5

\* is_valid answers yes for the last QueueCap slots only.
LEMMA ValidIsRecent ==
  ASSUME NEW q, NEW slot, QueueOK(q, slot), NEW h, ValidHash(q, h)
  PROVE  h < slot + 1 /\ h + QueueCap >= slot + 1
  BY SequencerAssumption DEF QueueOK, ValidHash

\* A transaction enters the running block: an SVM one when execute_block accepts
\* it, any other without a test.
LEMMA IncludeOK ==
  ASSUME SvmInv, pc = "exec", NEW tx, NEW ok, Include(tx, ok),
         UNCHANGED <<pc, st_log, st_queue, st_slot, tip_queue, tip_slot>>,
         blk_seen \subseteq blk_seen',
         Kind[tx] = "svm" => SvmAccepts(tx) /\ SigOf[tx] \in blk_seen'
  PROVE  SvmInv'
  <1> DEFINE e == [slot |-> tip_slot + 1, tx |-> tx, ok |-> ok]
             n == Len(blk_log)
  <1>0. IsLog(blk_log) /\ blk_log' = Append(blk_log, e)
    BY Zenon DEF Include, SvmInv
  <1>1. /\ IsLog(blk_log') /\ n \in Nat /\ Len(blk_log') = n + 1
        /\ blk_log'[n + 1] = e /\ \A i \in 1..n : blk_log'[i] = blk_log[i]
    <2> HIDE DEF e
    <2> QED
      BY <1>0, LogAppend
  <1>2. \A i \in 1..Len(blk_log') : i \in 1..n \/ i = n + 1
    BY <1>1
  <1>3. e.tx = tx /\ e.slot = tip_slot + 1
    OBVIOUS
  <1> HIDE DEF e, n
  <1>4. RecentIn(blk_log')
    <2>1. Recent(e)
      BY <1>3, ValidIsRecent, Zenon DEF Recent, Svm, SvmAccepts, SvmInv
    <2> QED
      BY <1>1, <1>2, <2>1, Zenon DEF RecentIn, SvmInv, n
  <1>5. BlockFresh'
    <2> SUFFICES ASSUME NEW i \in 1..Len(blk_log'), Svm(blk_log'[i])
                 PROVE  /\ SigOf[blk_log'[i].tx] \in blk_seen'
                        /\ ~Committed(st_log', SigOf[blk_log'[i].tx])
      BY Zenon DEF BlockFresh
    <2>1. CASE i \in 1..n
      <3>1. blk_log'[i] = blk_log[i] /\ Svm(blk_log[i])
        BY <1>1, <2>1
      <3>2. SigOf[blk_log[i].tx] \in blk_seen /\ ~Committed(st_log, SigOf[blk_log[i].tx])
        BY <3>1, <2>1, Zenon DEF SvmInv, BlockFresh, n
      <3> QED
        BY <3>1, <3>2
    <2>2. CASE i = n + 1
      <3>1. blk_log'[i] = e /\ Kind[tx] = "svm"
        BY <1>1, <1>3, <2>2 DEF Svm
      <3> QED
        BY <3>1, <1>3 DEF SvmAccepts
    <2> QED
      BY <1>2, <2>1, <2>2
  <1>6. OnceIn(blk_log')
    <2>1. ASSUME NEW i \in 1..n, Svm(blk_log[i]), Svm(e)
          PROVE  SigOf[blk_log[i].tx] # SigOf[e.tx]
      BY <1>3, <2>1, Zenon DEF SvmInv, BlockFresh, SvmAccepts, Svm, n
    <2> SUFFICES ASSUME NEW i \in 1..Len(blk_log'), NEW j \in 1..Len(blk_log'),
                        Svm(blk_log'[i]), Svm(blk_log'[j]),
                        SigOf[blk_log'[i].tx] = SigOf[blk_log'[j].tx]
                 PROVE  i = j
      BY Zenon DEF OnceIn
    <2>2. CASE i \in 1..n /\ j \in 1..n
      BY <1>1, <2>2, Zenon DEF SvmInv, OnceIn, n
    <2>3. CASE i \in 1..n /\ j = n + 1
      BY <1>1, <2>1, <2>3, Zenon
    <2>4. CASE i = n + 1 /\ j \in 1..n
      BY <1>1, <2>1, <2>4, Zenon
    <2> QED
      BY <1>2, <2>2, <2>3, <2>4
  <1> QED
    BY <1>1, <1>4, <1>5, <1>6, Zenon DEF SvmInv

\* commit_block appends the block to the chain.
LEMMA CommitOK ==
  ASSUME SvmInv, Commit
  PROVE  SvmInv'
  <1> DEFINE n == Len(st_log)
             m == Len(blk_log)
  <1>1. /\ pc = "exec" /\ pc' = "publish" /\ st_log' = st_log \o blk_log
        /\ blk_log' = blk_log /\ tip_slot' = tip_slot + 1 /\ st_slot' = tip_slot + 1
        /\ tip_queue' = Register(tip_queue, tip_slot + 1)
        /\ st_queue' = Register(tip_queue, tip_slot + 1)
    BY Zenon DEF Commit, blkVars
  <1>2. QueueOK(tip_queue', tip_slot') /\ QueueOK(st_queue', st_slot')
    BY <1>1, RegisterOK, Zenon DEF SvmInv
  <1>3. /\ IsLog(st_log') /\ n \in Nat /\ m \in Nat /\ Len(st_log') = n + m
        /\ \A i \in 1..n + m : st_log'[i] = IF i <= n THEN st_log[i] ELSE blk_log[i - n]
    BY <1>1, LogConcat, Zenon DEF SvmInv
  <1> HIDE DEF n, m
  <1>4. ASSUME NEW i \in 1..Len(st_log')
        PROVE  \/ i \in 1..n /\ st_log'[i] = st_log[i]
               \/ i - n \in 1..m /\ st_log'[i] = blk_log[i - n] /\ i \in Int /\ n \in Int
    BY <1>3
  <1>5. RecentIn(st_log')
    BY <1>4, Zenon DEF RecentIn, SvmInv, n, m
  <1>6. ASSUME NEW i \in 1..n, NEW j \in 1..m, Svm(blk_log[j])
        PROVE  SigOf[st_log[i].tx] # SigOf[blk_log[j].tx]
    BY <1>1, <1>6, Zenon DEF SvmInv, BlockFresh, Committed, n, m
  <1>7. OnceIn(st_log')
    <2> SUFFICES ASSUME NEW i \in 1..Len(st_log'), NEW j \in 1..Len(st_log'),
                        Svm(st_log'[i]), Svm(st_log'[j]),
                        SigOf[st_log'[i].tx] = SigOf[st_log'[j].tx]
                 PROVE  i = j
      BY Zenon DEF OnceIn
    <2>1. CASE i \in 1..n /\ st_log'[i] = st_log[i] /\ j \in 1..n /\ st_log'[j] = st_log[j]
      BY <2>1, Zenon DEF SvmInv, OnceIn, n
    <2>2. CASE /\ i - n \in 1..m /\ st_log'[i] = blk_log[i - n]
               /\ j - n \in 1..m /\ st_log'[j] = blk_log[j - n]
      <3>1. i - n = j - n
        BY <1>1, <2>2, Zenon DEF SvmInv, OnceIn, m
      <3> QED
        BY <1>3, <3>1
    <2> QED
      BY <1>4, <1>6, <2>1, <2>2, Zenon
  <1> QED
    BY <1>1, <1>2, <1>3, <1>5, <1>7, Zenon DEF SvmInv

svmVars == <<st_log, blk_log, blk_seen, tip_queue, tip_slot, st_queue, st_slot>>

LEMMA SvmInit == Init => SvmInv
  <1> SUFFICES ASSUME Init PROVE SvmInv
    OBVIOUS
  <1>1. /\ st_log = <<>> /\ blk_log = <<>> /\ pc = "idle" /\ tip_slot = 0 /\ st_slot = 0
        /\ tip_queue = <<0>> /\ st_queue = <<0>>
    BY Zenon DEF Init
  <1>2. QueueOK(<<0>>, 0)
    BY SequencerAssumption DEF QueueOK
  <1> QED
    BY <1>1, <1>2, EmptyLog DEF SvmInv

LEMMA SvmNext == SvmInv /\ [Next]_vars => SvmInv'
  <1> SUFFICES ASSUME SvmInv, [Next]_vars PROVE SvmInv'
    OBVIOUS
  <1>1. CASE ExecSvm
    <2> DEFINE tx == Head(blk_txs)
    <2>1. /\ pc = "exec" /\ UNCHANGED <<pc, st_log, st_queue, st_slot, tip_queue, tip_slot>>
          /\ blk_seen' = blk_seen \cup {SigOf[tx]} /\ Kind[tx] = "svm"
          /\ \/ \E ok \in BOOLEAN : SvmAccepts(tx) /\ Include(tx, ok)
             \/ UNCHANGED blk_log
      BY <1>1, Zenon DEF ExecSvm, stVars, chainVars, memVars
    <2> HIDE DEF tx
    <2>2. ASSUME NEW ok \in BOOLEAN, SvmAccepts(tx), Include(tx, ok) PROVE SvmInv'
      BY <2>1, <2>2, IncludeOK
    <2>3. CASE UNCHANGED blk_log
      BY <2>1, <2>3 DEF SvmInv, BlockFresh
    <2> QED
      BY <2>1, <2>2, <2>3
  <1>2. CASE ExecPool \/ Withdraw
    <2> DEFINE tx == Head(blk_txs)
               ok == CanWithdraw(tx)
    <2>1. /\ pc = "exec" /\ UNCHANGED <<pc, st_log, st_queue, st_slot, tip_queue, tip_slot>>
          /\ blk_seen' = blk_seen /\ Kind[tx] \in {"pool", "withdraw"} /\ Include(tx, ok)
      BY <1>2, Zenon DEF ExecPool, Withdraw, CanWithdraw, stVars, chainVars, memVars
    <2> HIDE DEF tx, ok
    <2>2. Kind[tx] # "svm"
      BY <2>1
    <2> QED
      BY <2>1, <2>2, IncludeOK
  <1>3. CASE Commit
    BY <1>3, CommitOK
  <1>4. CASE Publish \/ ProduceError \/ Crash
    <2>1. pc' = "idle" /\ blk_log' = <<>> /\ st_log' = st_log
      BY <1>4, Zenon DEF Publish, ProduceError, Crash, EmptyBlock, stVars, chainVars
    <2>2. UNCHANGED <<st_queue, st_slot, tip_queue, tip_slot>>
      BY <1>4, Zenon DEF Publish, ProduceError, Crash, stVars, chainVars, memVars
    <2> QED
      BY <2>1, <2>2, EmptyLog DEF SvmInv
  <1>5. CASE ProduceDrain \/ ProduceNothing \/ StartBlock
    <2>1. /\ UNCHANGED svmVars /\ pc \in {"idle", "drained"}
          /\ pc' \in {"idle", "drained", "exec"}
      BY <1>5, Zenon DEF ProduceDrain, ProduceNothing, StartBlock, svmVars, blkVars, memVars,
                         stVars, chainVars
    <2>2. blk_log = <<>> /\ Len(<<>>) = 0
      BY <2>1 DEF SvmInv
    <2>3. BlockFresh' /\ OnceIn(blk_log')
      BY <2>1, <2>2 DEF BlockFresh, OnceIn, svmVars
    <2> QED
      BY <2>1, <2>2, <2>3 DEF SvmInv, svmVars
  <1>6. CASE Restart
    <2>1. /\ UNCHANGED <<st_log, blk_log, blk_seen, st_queue, st_slot, pc>>
          /\ tip_queue' = st_queue /\ tip_slot' = st_slot
      BY <1>6, Zenon DEF Restart, blkVars, chainVars
    <2> QED
      BY <2>1 DEF SvmInv, BlockFresh
  <1>7. CASE UNCHANGED <<svmVars, pc>>
    BY <1>7 DEF SvmInv, BlockFresh, svmVars
  <1>8. ASSUME NEW tx \in Txs, AdmitRecent(tx) \/ AdmitFresh(tx) \/ Submit(tx)
        PROVE  UNCHANGED <<svmVars, pc>>
    BY <1>8, Zenon DEF AdmitRecent, AdmitFresh, Submit, svmVars, blkVars, memVars, stVars,
                       chainVars
  <1>9. ASSUME (\E d \in Deposits : L1Deposit(d)) \/ L1Other \/ WatcherFetch \/ WatcherEnqueue
        PROVE  UNCHANGED <<svmVars, pc>>
    BY <1>9, Zenon DEF L1Deposit, L1Other, WatcherFetch, WatcherEnqueue, svmVars, blkVars,
                       memVars, stVars, chainVars
  <1>10. ASSUME CreditDeposit
         PROVE  UNCHANGED <<svmVars, pc>>
    BY <1>10, Zenon DEF CreditDeposit, svmVars, memVars, stVars, chainVars
  <1>11. ASSUME UNCHANGED vars
         PROVE  UNCHANGED <<svmVars, pc>>
    BY <1>11, Zenon DEF vars, svmVars, blkVars, memVars, stVars, chainVars
  <1> QED
    BY <1>1, <1>2, <1>3, <1>4, <1>5, <1>6, <1>7, <1>8, <1>9, <1>10, <1>11, Zenon
       DEF Next, Producer

\* Replay protection of the executor: execute_block drops a signature that it has
\* seen in the block or finds in the store, and no block commits in between.
THEOREM SvmTransactionsOnce == Spec => []SvmOnce
  <1>1. SvmInv => SvmOnce
    BY DEF SvmInv, OnceIn, Svm, SvmOnce
  <1> QED
    BY <1>1, SvmInit, SvmNext, PTL DEF Spec

\* Recency: the blockhash of an SVM transaction is among the last QueueCap when
\* its block is produced, whatever was checked at admission and through restarts.
THEOREM SvmAlwaysRecent == Spec => []SvmRecent
  <1>1. SvmInv => SvmRecent
    BY DEF SvmInv, RecentIn, Recent, Svm, SvmRecent
  <1> QED
    BY <1>1, SvmInit, SvmNext, PTL DEF Spec
=============================================================================
