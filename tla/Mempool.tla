------------------------------ MODULE Mempool ------------------------------
(***************************************************************************)
(* The sequencer's bounded FIFO mempool (zul-node/src/mempool.rs).         *)
(*                                                                         *)
(* A transaction is a model value; SigOf and PayerOf give its first        *)
(* signature and its first static account key.  A transaction without one  *)
(* of them has NoSig or NoPayer there and is refused as Unsigned.  Two     *)
(* transactions may share a first signature.  Every operation runs under   *)
(* the node's mempool mutex and is one action.                             *)
(***************************************************************************)
EXTENDS Naturals, Sequences, FiniteSets

CONSTANTS Txs, Sigs, Payers, NoSig, NoPayer,
          SigOf, PayerOf,
          Capacity,        \* options.mempool_capacity
          MaxPerPayerOpt,  \* options.max_per_payer, as configured
          MaxBlock         \* options.max_block_transactions

ASSUME SigAssumption == SigOf \in [Txs -> Sigs \cup {NoSig}] /\ NoSig \notin Sigs
ASSUME PayerAssumption ==
          PayerOf \in [Txs -> Payers \cup {NoPayer}] /\ NoPayer \notin Payers
ASSUME LimitAssumption ==
          Capacity \in Nat /\ MaxPerPayerOpt \in Nat /\ MaxBlock \in Nat

VARIABLES queue,      \* transactions in arrival order
          pending,    \* signatures of the queued transactions
          per_payer   \* number queued per fee payer; no entry means zero

mpVars == <<queue, pending, per_payer>>

\* Mempool::new clamps the configured limit to at least one.
max_per_payer == IF MaxPerPayerOpt = 0 THEN 1 ELSE MaxPerPayerOpt

Init ==
  /\ queue = <<>>
  /\ pending = {}
  /\ per_payer = [p \in {} |-> 0]

PayerCount(p) == IF p \in DOMAIN per_payer THEN per_payer[p] ELSE 0

\* push answers Ok: signed, not a duplicate, the payer and the pool have room.
\* Every other answer (Unsigned, Duplicate, PayerLimit, Full) changes nothing.
PushAccepts(tx) ==
  /\ SigOf[tx] # NoSig
  /\ PayerOf[tx] # NoPayer
  /\ SigOf[tx] \notin pending
  /\ PayerCount(PayerOf[tx]) < max_per_payer
  /\ Len(queue) < Capacity

CountedFor(p) ==
  [q \in DOMAIN per_payer \cup {p} |-> PayerCount(q) + (IF q = p THEN 1 ELSE 0)]

\* Mutant: push forgets to record the signature.
PushUnindexed(tx) ==
  /\ PushAccepts(tx)
  /\ queue' = Append(queue, tx)
  /\ per_payer' = CountedFor(PayerOf[tx])
  /\ UNCHANGED pending

Push(tx) ==
  /\ PushAccepts(tx)
  /\ queue' = Append(queue, tx)
  /\ pending' = pending \cup {SigOf[tx]}
  /\ per_payer' = CountedFor(PayerOf[tx])

Take == IF MaxBlock < Len(queue) THEN MaxBlock ELSE Len(queue)

\* Where, between m and n, q holds a transaction of payer p.
Positions(q, p, m, n) == {i \in m..n : PayerOf[q[i]] = p}

\* How many of the first n queued transactions payer p pays for.
PaidBy(p, n) == Cardinality(Positions(queue, p, 1, n))

\* Mutant: drain removes a payer's entry with its first drained transaction.
CountsAfterDrainForgets(n) ==
  [p \in {q \in DOMAIN per_payer : PaidBy(q, n) = 0} |-> per_payer[p]]

\* The counts once the first n transactions are gone.  The loop decrements an
\* entry per transaction and removes it when it reaches zero.
CountsAfterDrain(n) ==
  [p \in {q \in DOMAIN per_payer : per_payer[q] > PaidBy(q, n)} |->
     per_payer[p] - PaidBy(p, n)]

\* Mutant: drain does not give the payers their allowance back.
DrainKeepsCounts ==
  /\ queue' = SubSeq(queue, Take + 1, Len(queue))
  /\ pending' = pending \ {SigOf[queue[i]] : i \in 1..Take}
  /\ UNCHANGED per_payer

\* Mutant: drain takes the newest transactions instead of the oldest.
DrainNewest ==
  LET kept == Len(queue) - Take
  IN /\ queue' = SubSeq(queue, 1, kept)
     /\ pending' = pending \ {SigOf[queue[i]] : i \in kept + 1..Len(queue)}
     /\ per_payer' = [p \in {q \in DOMAIN per_payer : PaidBy(q, kept) > 0} |->
                        PaidBy(p, kept)]

\* The oldest Take transactions leave for the next block.
Drain ==
  /\ queue' = SubSeq(queue, Take + 1, Len(queue))
  /\ pending' = pending \ {SigOf[queue[i]] : i \in 1..Take}
  /\ per_payer' = CountsAfterDrain(Take)

Next == (\E tx \in Txs : Push(tx)) \/ Drain

Spec == Init /\ [][Next]_mpVars

\* The producer thread calls drain on every pass of its loop.
FairSpec == Spec /\ WF_mpVars(Drain)

----------------------------------------------------------------------------

\* The three collections have their types; only signed transactions are queued.
TypeOK ==
  /\ queue \in Seq({tx \in Txs : SigOf[tx] \in Sigs /\ PayerOf[tx] \in Payers})
  /\ pending \subseteq Sigs
  /\ DOMAIN per_payer \subseteq Payers
  /\ per_payer \in [DOMAIN per_payer -> Nat \ {0}]

\* The signature index is exact: pending holds the signatures of the queue and
\* no others, and no signature is queued twice, through any mix of pushes and
\* drains.  A stale entry would answer Duplicate for a transaction that is in no
\* queue; a missing one would let it in twice.
QueueIndexed ==
  /\ pending = {SigOf[queue[i]] : i \in 1..Len(queue)}
  /\ \A i, j \in 1..Len(queue) : SigOf[queue[i]] = SigOf[queue[j]] => i = j

\* Every payer's counter equals the number of its transactions in the queue: the
\* counter neither leaks (the payer would be locked out for good) nor underflows.
PayersCounted == \A p \in Payers : PayerCount(p) = PaidBy(p, Len(queue))

\* No payer and no crowd exceeds its limit.
WithinLimits ==
  /\ Len(queue) <= Capacity
  /\ \A p \in Payers : PaidBy(p, Len(queue)) <= max_per_payer

\* "one key cannot fill the queue": whatever was pushed, refused and drained, n queued
\* transactions belong to at least n / max_per_payer different payers.
FullNeedsManyPayers ==
  Len(queue) <= max_per_payer * Cardinality({PayerOf[queue[i]] : i \in 1..Len(queue)})

\* Arrival order is service order: whatever was queued behind a transaction that
\* stays queued is still queued behind it after any step.
NoOvertaking ==
  [][\A i, j \in 1..Len(queue) :
       (i < j /\ SigOf[queue[i]] \in pending') =>
         \E k, l \in 1..Len(queue') :
            k < l /\ queue'[k] = queue[i] /\ queue'[l] = queue[j]]_mpVars

\* A queued transaction leaves for a block: with arrival order as service order
\* nothing queued waits for ever.
EventuallyDrained == \A s \in Sigs : s \in pending ~> s \notin pending
=============================================================================
