---------------------------- MODULE MCSequencer ----------------------------
(* Small instances of the sequencer: two SVM transfers, a shield, two       *)
(* withdrawals and up to two deposits.                                      *)
EXTENDS Sequencer, FiniteSetsExt, TLC

CONSTANTS s1, s2, p1, w1, w2, A, B, d1, d2

\* w1 and w2 withdraw to different leaves.
MCSigOf == [tx \in Txs |-> tx]
MCPayerOf == [tx \in Txs |-> IF tx = w2 THEN B ELSE A]
MCKind == [tx \in Txs |-> IF tx \in {s1, s2} THEN "svm" ELSE IF tx = p1 THEN "pool" ELSE "withdraw"]
MCAmount == [tx \in Txs |-> IF tx = w1 THEN 2 ELSE 1]
MCRecentOf == [tx \in Txs |-> 0]
MCDest == [tx \in Txs |-> B]
MCLeaf == [tx \in Txs |-> IF tx = w2 THEN "k2" ELSE "k1"]
MCDepAmount == [d \in Deposits |-> IF d = d1 THEN 1 ELSE 2]
MCDepTo == [d \in Deposits |-> IF d = d1 THEN A ELSE B]
\* A can pay one withdrawal of two with its fee, not two.
MCGenesis == [a \in Accounts |-> IF a = A THEN 4 ELSE IF a = B THEN 1 ELSE 0]

\* The two transfers differ in name only.
Transfers == Permutations({s1, s2})

Total(f, S) == MapThenSumSet(LAMBDA x : f[x], S)

Burned(log) ==
  MapThenSumSet(LAMBDA i : IF Kind[log[i].tx] = "withdraw" /\ log[i].ok
                           THEN Amount[log[i].tx] ELSE 0, 1..Len(log))

\* Conservation: the committed balances and what withdrawals burned add up to the
\* genesis supply, the credited deposits and the drift, which is exactly the lamports
\* of accounts that a block drained and a native step of the same block brought back,
\* and what a later transaction of the batch undid of one half of a failed
\* transaction's transfer.  Nothing else is minted, and nothing lost, by fees, failed
\* transactions, lost blocks, duplicates or crashes.
SupplyAccounted ==
  Total(st_bal, Accounts) + Burned(st_log)
    = Total(Genesis, Accounts) + Total(DepAmount, st_receipts) + st_drift

\* Conservation without drift: pool, deposits and withdrawals "see and
\* extend the regular transactions' results within the same block".
SupplyConserved ==
  Total(st_bal, Accounts) + Burned(st_log)
    = Total(Genesis, Accounts) + Total(DepAmount, st_receipts)
=============================================================================
