----------------------------- MODULE Sequencer -----------------------------
(***************************************************************************)
(* The sequencer node (zul-node/src/node.rs): RPC admission, the mempool,  *)
(* the block producer, the L1 deposit watcher, the store, crash and        *)
(* restart.                                                                *)
(*                                                                         *)
(* A request thread runs admit (two reads) and then push, each under its   *)
(* own lock.  The producer drains the mempool, takes the tip's write lock  *)
(* and keeps it to the end of try_produce_block; it handles one            *)
(* transaction or deposit per step into private writes, the blk variables, *)
(* which Commit makes durable in one transaction, the st variables.  The   *)
(* withdrawals root is published by a transaction of its own, after the    *)
(* commit.                                                                 *)
(*                                                                         *)
(* Hashes: the hash of block n is n, the genesis hash 0.  Amounts are      *)
(* lamports in fee units.  The withdrawals tree is the function from its   *)
(* leaf keys to the committed amount (0: no leaf); its root is injective   *)
(* in the leaves, so the root is the tree.                                 *)
(***************************************************************************)
EXTENDS Integers, Sequences, FiniteSets

CONSTANTS Txs, Sigs, Payers, NoSig, NoPayer, SigOf, PayerOf,
          Capacity, MaxPerPayerOpt, MaxBlock,
          Kind,          \* "svm", "pool" or "withdraw" for every transaction
          Amount,        \* what a transaction moves, shields or withdraws
          RecentOf,      \* the slot of its recent blockhash
          Dest,          \* destination of an svm transfer
          Leaf,          \* (recipient, nonce) of a withdrawal
          Leaves,
          Deposits, DepAmount, DepTo,  \* L1 deposits, their amount and recipient
          BatchPost,     \* any other L1 transaction that touches the config PDA
          Collector, Vault,
          Genesis,       \* genesis lamports of every account
          Fee,           \* POOL_TX_FEE = LAMPORTS_PER_SIGNATURE
          QueueCap,      \* BLOCKHASH_QUEUE_CAPACITY
          FetchLimit,    \* signatures per fetch_deposits call (100 in rpc.rs)
          \* bounds of the model
          MaxSubmits, MaxFaults, MaxHeartbeats, MaxBatchPosts, MaxPendingDeposits

Accounts == Payers \cup {Collector, Vault}

ASSUME SequencerAssumption ==
  /\ Kind \in [Txs -> {"svm", "pool", "withdraw"}]
  /\ SigOf \in [Txs -> Sigs] /\ PayerOf \in [Txs -> Payers]
  /\ Amount \in [Txs -> Nat] /\ RecentOf \in [Txs -> Nat]
  /\ Dest \in [Txs -> Payers] /\ Leaf \in [Txs -> Leaves]
  /\ DepAmount \in [Deposits -> Nat] /\ DepTo \in [Deposits -> Payers]
  /\ BatchPost \notin Deposits
  /\ Collector \notin Payers /\ Vault \notin Payers /\ Collector # Vault
  /\ Genesis \in [Accounts -> Nat]
  /\ Fee \in Nat /\ QueueCap \in Nat \ {0} /\ FetchLimit \in Nat

VARIABLES
  queue, pending, per_payer,  \* the mempool
  rpc,              \* how far a request carrying the transaction has come
  l1_log,           \* history of the config PDA on L1, oldest first
  fetched,          \* what the watcher fetched and found without receipt
  pending_deposits, \* deposits enqueued for the next block
  up,               \* the process is running
  pc,               \* the producer: idle, drained, exec, publish
  blk_txs,          \* drained transactions not yet handled
  blk_deposits,     \* drained deposits not yet handled
  blk_seen,         \* seen_signatures of execute_block
  blk_bal, blk_receipts, blk_credits,  \* this block's account writes
  blk_native,       \* accounts a native step (pool, deposit, withdrawal) wrote
  blk_loaded,       \* the accounts as the transaction processor sees them in the batch
  blk_drift,        \* lamports that steps reading an outdated balance created or lost
  blk_log,          \* included transactions with their status
  blk_leaves,       \* withdrawal_leaves, in order
  tip_slot, tip_queue,                 \* ChainTip
  tree,             \* the in-memory withdrawals tree
  st_slot, st_queue, st_log,           \* the store: chain metadata and blocks
  st_bal, st_receipts, st_credits,     \* the store: accounts
  st_root,          \* the store: META_WITHDRAWALS_ROOT
  st_drift,       \* the sum of blk_drift over the committed blocks
  submits, faults, heartbeats          \* counters of the bounds

MP == INSTANCE Mempool

mpVars == <<queue, pending, per_payer>>
l1Vars == <<l1_log>>
watchVars == <<fetched, pending_deposits>>
nativeVars == <<blk_native, blk_loaded, blk_drift>>
blkVars == <<blk_txs, blk_deposits, blk_seen, blk_bal, blk_receipts, blk_credits,
             blk_log, blk_leaves, nativeVars>>
memVars == <<tip_slot, tip_queue, tree>>
chainVars == <<st_slot, st_queue, st_log, st_bal, st_receipts, st_credits, st_drift>>
stVars == <<chainVars, st_root>>
boundVars == <<submits, faults, heartbeats>>
vars == <<mpVars, rpc, l1Vars, watchVars, up, pc, blkVars, memVars, stVars, boundVars>>

Max2(S) == CHOOSE x \in S : \A y \in S : y <= x

\* get_transaction: is the signature committed, and is its latest status Ok?
\* A later block that carries the same signature overwrites the status.
Committed(log, s) == \E i \in 1..Len(log) : SigOf[log[i].tx] = s
StatusOk(log, s) ==
  LET S == {i \in 1..Len(log) : SigOf[log[i].tx] = s}
  IN  S # {} /\ log[Max2(S)].ok

\* The tree after inserting, in chain order, the withdrawals at positions S.
LeavesAt(log, S) ==
  [k \in Leaves |->
     LET K == {i \in S : Leaf[log[i].tx] = k}
     IN  IF K = {} THEN 0 ELSE Amount[log[Max2(K)].tx]]

\* Mutant: the rebuild does not look at the status.
RebuildAll(log) ==
  LeavesAt(log, {i \in 1..Len(log) : Kind[log[i].tx] = "withdraw"})

\* rebuild_withdrawals: every withdrawal in a block whose signature's status
\* is Ok.
Rebuild(log) ==
  LeavesAt(log, {i \in 1..Len(log) : /\ Kind[log[i].tx] = "withdraw"
                                     /\ StatusOk(log, SigOf[log[i].tx])})

\* BlockhashQueue::register, which evicts the oldest hash beyond the capacity.
Register(q, slot) ==
  LET r == Append(q, slot)
  IN  IF Len(r) > QueueCap THEN Tail(r) ELSE r

ValidHash(q, h) == \E i \in 1..Len(q) : q[i] = h

\* A fresh set of account writes over the committed accounts.
EmptyBlock ==
  /\ blk_txs' = <<>> /\ blk_deposits' = <<>> /\ blk_seen' = {}
  /\ blk_bal' = st_bal /\ blk_receipts' = {} /\ blk_credits' = st_credits
  /\ blk_log' = <<>> /\ blk_leaves' = <<>>
  /\ blk_native' = {} /\ blk_loaded' = st_bal /\ blk_drift' = 0

Init ==
  /\ MP!Init
  /\ rpc = [tx \in Txs |-> "none"]
  /\ l1_log = <<>> /\ fetched = <<>> /\ pending_deposits = <<>>
  /\ up = TRUE /\ pc = "idle"
  /\ blk_txs = <<>> /\ blk_deposits = <<>> /\ blk_seen = {}
  /\ blk_bal = Genesis /\ blk_receipts = {} /\ blk_credits = [d \in Deposits |-> 0]
  /\ blk_log = <<>> /\ blk_leaves = <<>>
  /\ blk_native = {} /\ blk_loaded = Genesis /\ blk_drift = 0
  /\ tip_slot = 0 /\ tip_queue = <<0>> /\ tree = [k \in Leaves |-> 0]
  /\ st_slot = 0 /\ st_queue = <<0>> /\ st_log = <<>>
  /\ st_bal = Genesis /\ st_receipts = {} /\ st_credits = [d \in Deposits |-> 0]
  /\ st_root = [k \in Leaves |-> 0] /\ st_drift = 0
  /\ submits = 0 /\ faults = 0 /\ heartbeats = 0

----------------------------------------------------------------------------
\* RPC: submit_transaction

\* admit, first read: the recent blockhash under the tip's read lock, which is
\* held off while the producer holds the write lock.
AdmitRecent(tx) ==
  /\ up /\ pc \in {"idle", "drained"}
  /\ rpc[tx] = "none" /\ submits < MaxSubmits
  /\ ValidHash(tip_queue, RecentOf[tx])
  /\ rpc' = [rpc EXCEPT ![tx] = "recent"]
  /\ submits' = submits + 1
  /\ UNCHANGED <<mpVars, l1Vars, watchVars, up, pc, blkVars, memVars, stVars, faults,
                 heartbeats>>

\* admit, second read: is the signature in the store?
AdmitFresh(tx) ==
  /\ up /\ rpc[tx] = "recent"
  /\ rpc' = [rpc EXCEPT ![tx] = IF Committed(st_log, SigOf[tx]) THEN "none" ELSE "fresh"]
  /\ UNCHANGED <<mpVars, l1Vars, watchVars, up, pc, blkVars, memVars, stVars, boundVars>>

\* push under the mempool lock; a refused push changes nothing.
Submit(tx) ==
  /\ up /\ rpc[tx] = "fresh"
  /\ rpc' = [rpc EXCEPT ![tx] = "none"]
  /\ MP!Push(tx) \/ (~MP!PushAccepts(tx) /\ UNCHANGED mpVars)
  /\ UNCHANGED <<l1Vars, watchVars, up, pc, blkVars, memVars, stVars, boundVars>>

----------------------------------------------------------------------------
\* L1 and the deposit watcher

\* deposit_sol or deposit_spl confirms on L1.
L1Deposit(d) ==
  /\ \A i \in 1..Len(l1_log) : l1_log[i] # d
  /\ l1_log' = Append(l1_log, d)
  /\ UNCHANGED <<mpVars, rpc, watchVars, up, pc, blkVars, memVars, stVars, boundVars>>

\* A batch post or a claim: it fills a place in the PDA's signature history.
L1Other ==
  /\ Cardinality({i \in 1..Len(l1_log) : l1_log[i] = BatchPost}) < MaxBatchPosts
  /\ l1_log' = Append(l1_log, BatchPost)
  /\ UNCHANGED <<mpVars, rpc, watchVars, up, pc, blkVars, memVars, stVars, boundVars>>

\* Mutant: the newest entry is left out.
WindowButLast == SubSeq(l1_log, 1, Len(l1_log) - 1)

\* The newest FetchLimit entries, oldest first.
Window ==
  SubSeq(l1_log, IF Len(l1_log) > FetchLimit THEN Len(l1_log) - FetchLimit + 1 ELSE 1,
         Len(l1_log))

\* fetch_deposits, then the filter on committed receipts.
WatcherFetch ==
  LET fresh(e) == e \in Deposits /\ e \notin st_receipts
  IN /\ up /\ fetched = <<>>
     /\ Len(pending_deposits) < MaxPendingDeposits
     /\ SelectSeq(Window, fresh) # <<>>
     /\ fetched' = SelectSeq(Window, fresh)
     /\ UNCHANGED <<mpVars, rpc, l1Vars, pending_deposits, up, pc, blkVars, memVars,
                    stVars, boundVars>>

\* enqueue_deposits
WatcherEnqueue ==
  /\ up /\ fetched # <<>>
  /\ pending_deposits' = pending_deposits \o fetched
  /\ fetched' = <<>>
  /\ UNCHANGED <<mpVars, rpc, l1Vars, up, pc, blkVars, memVars, stVars, boundVars>>

----------------------------------------------------------------------------
\* The producer: try_produce_block

\* Both queues are drained before the tip lock is taken.
ProduceDrain ==
  /\ up /\ pc = "idle"
  /\ MP!Drain
  /\ blk_txs' = SubSeq(queue, 1, MP!Take)
  /\ blk_deposits' = pending_deposits
  /\ pending_deposits' = <<>>
  /\ pc' = "drained"
  /\ UNCHANGED <<rpc, l1Vars, fetched, up, blk_seen, blk_bal, blk_receipts, blk_credits,
                 blk_log, blk_leaves, nativeVars, memVars, stVars, boundVars>>

\* Nothing to do and no heartbeat due.
ProduceNothing ==
  /\ up /\ pc = "drained" /\ blk_txs = <<>> /\ blk_deposits = <<>>
  /\ pc' = "idle"
  /\ UNCHANGED <<mpVars, rpc, l1Vars, watchVars, up, blkVars, memVars, stVars, boundVars>>

\* Withdrawals and pool transactions are told by their only instruction; each split
\* keeps the order of arrival.
partition_withdraws(txs) ==
  [withdraws |-> SelectSeq(txs, LAMBDA tx : Kind[tx] = "withdraw"),
   regular |-> SelectSeq(txs, LAMBDA tx : Kind[tx] # "withdraw")]
pool_partition(txs) ==
  [pool |-> SelectSeq(txs, LAMBDA tx : Kind[tx] = "pool"),
   regular |-> SelectSeq(txs, LAMBDA tx : Kind[tx] # "pool")]

\* Take the write lock.  An empty block is a heartbeat.  SVM transactions come
\* first, then pool transactions, then withdrawals.
StartBlock ==
  LET empty == blk_txs = <<>> /\ blk_deposits = <<>>
      w == partition_withdraws(blk_txs)
      p == pool_partition(w.regular)
  IN /\ up /\ pc = "drained"
     /\ empty => heartbeats < MaxHeartbeats
     /\ heartbeats' = IF empty THEN heartbeats + 1 ELSE heartbeats
     /\ pc' = "exec"
     /\ blk_txs' = p.regular \o p.pool \o w.withdraws
     /\ UNCHANGED <<mpVars, rpc, l1Vars, watchVars, up, blk_deposits, blk_seen, blk_bal,
                    blk_receipts, blk_credits, blk_log, blk_leaves, nativeVars, memVars,
                    stVars, submits, faults>>

Include(tx, ok) == blk_log' = Append(blk_log, [slot |-> tip_slot + 1, tx |-> tx, ok |-> ok])

Move(bal, from, to, n) ==
  LET debited == [bal EXCEPT ![from] = @ - n] IN [debited EXCEPT ![to] = @ + n]

\* What an account gains or loses when the processor's view of it replaces what a
\* failed transaction left.
Outdated(a) == blk_loaded[a] - blk_bal[a]

\* Mutant: no look into the store.
SvmAcceptsReplay(tx) ==
  /\ SigOf[tx] \notin blk_seen
  /\ ValidHash(tip_queue, RecentOf[tx])
  /\ blk_loaded[PayerOf[tx]] >= Fee

\* Mutant: the blockhash is trusted to be as recent as it was at admission.
SvmAcceptsStale(tx) ==
  /\ SigOf[tx] \notin blk_seen
  /\ ~Committed(st_log, SigOf[tx])
  /\ blk_loaded[PayerOf[tx]] >= Fee

\* execute_block's checks: first of its signature in the block, not committed,
\* recent hash valid, and the payer has the fee.
SvmAccepts(tx) ==
  /\ SigOf[tx] \notin blk_seen
  /\ ~Committed(st_log, SigOf[tx])
  /\ ValidHash(tip_queue, RecentOf[tx])
  /\ blk_loaded[PayerOf[tx]] >= Fee

\* One SVM transaction, a transfer and instructions after it: dropped, or included
\* with its fee taken.  The executor stores the accounts as execution left them
\* whether it succeeded or not, so a transfer before a failed instruction stays; only
\* a transaction that could not be loaded, or that failed before it, pays the fee
\* alone.  The processor goes on with a failed transaction rolled back.
ExecSvm ==
  LET tx == Head(blk_txs)
      payer == PayerOf[tx]
      charged == [blk_loaded EXCEPT ![payer] = @ - Fee]
      moved == Move(charged, payer, Dest[tx], Amount[tx])
      result(made) == IF made THEN moved ELSE charged
      written(made) == IF made THEN {payer, Dest[tx]} ELSE {payer}
  IN /\ up /\ pc = "exec" /\ blk_txs # <<>> /\ Kind[tx] = "svm"
     /\ blk_txs' = Tail(blk_txs)
     /\ blk_seen' = blk_seen \cup {SigOf[tx]}
     /\ \/ \E ok, made \in BOOLEAN :
             /\ SvmAccepts(tx)
             /\ ok => made
             /\ made => charged[payer] >= Amount[tx]
             /\ Include(tx, ok)
             /\ blk_loaded' = result(ok)
             /\ blk_bal' = [a \in Accounts |->
                             IF a = Collector THEN blk_bal[a] + Fee
                             ELSE IF a \in written(made) THEN result(made)[a] ELSE blk_bal[a]]
             /\ blk_drift' = blk_drift + Outdated(payer)
                             + IF made /\ Dest[tx] # payer THEN Outdated(Dest[tx]) ELSE 0
        \/ ~SvmAccepts(tx) /\ UNCHANGED <<blk_log, blk_bal, blk_loaded, blk_drift>>
     /\ UNCHANGED <<mpVars, rpc, l1Vars, watchVars, up, pc, blk_deposits, blk_receipts,
                    blk_credits, blk_leaves, blk_native, memVars, stVars, boundVars>>

\* What a native step reads of an account that no native step wrote before it in
\* this block: the executor reports an account it drained to zero as a deletion,
\* the readers take `writes.get(key).flatten().or(store.get_account(key))`, and so
\* see the balance the account had before the block.
Seen(a) == IF a \notin blk_native /\ blk_bal[a] = 0 THEN st_bal[a] ELSE blk_bal[a]

\* The balances from which a native step that writes the accounts S starts.
View(S) == [a \in Accounts |-> IF a \in S THEN Seen(a) ELSE blk_bal[a]]
Revived(a) == Seen(a) - blk_bal[a]

\* One pool transaction, here a shield into the vault: always included, without
\* any test of its signature; a refused one pays no fee.
ExecPool ==
  LET tx == Head(blk_txs)
      payer == PayerOf[tx]
      ok == Amount[tx] > 0 /\ Seen(payer) >= Fee + Amount[tx]
  IN /\ up /\ pc = "exec" /\ blk_txs # <<>> /\ Kind[tx] = "pool"
     /\ blk_txs' = Tail(blk_txs)
     /\ Include(tx, ok)
     /\ \/ /\ ok /\ UNCHANGED blk_loaded
           /\ blk_bal' = Move(Move(View({payer, Collector, Vault}), payer, Collector, Fee),
                              payer, Vault, Amount[tx])
           /\ blk_native' = blk_native \cup {payer, Collector, Vault}
           /\ blk_drift' = blk_drift + Revived(payer) + Revived(Collector)
                               + Revived(Vault)
        \/ ~ok /\ UNCHANGED <<blk_bal, nativeVars>>
     /\ UNCHANGED <<mpVars, rpc, l1Vars, watchVars, up, pc, blk_deposits, blk_seen,
                    blk_receipts, blk_credits, blk_leaves, memVars, stVars, boundVars>>

SvmAndPoolDone == \A i \in 1..Len(blk_txs) : Kind[blk_txs[i]] = "withdraw"

\* Credit the recipient and write the receipt, unless that was done.
Credit(d, done) ==
  \/ /\ ~done
     /\ blk_receipts' = blk_receipts \cup {d}
     /\ blk_bal' = [View({DepTo[d]}) EXCEPT ![DepTo[d]] = @ + DepAmount[d]]
     /\ blk_credits' = [blk_credits EXCEPT ![d] = @ + 1]
     /\ blk_native' = blk_native \cup {DepTo[d]}
     /\ blk_drift' = blk_drift + Revived(DepTo[d]) /\ UNCHANGED blk_loaded
  \/ done /\ UNCHANGED <<blk_receipts, blk_bal, blk_credits, nativeVars>>

\* Mutant: only committed receipts are looked up.
CreditDepositStoreOnly ==
  LET d == Head(blk_deposits)
      done == d \in st_receipts
  IN /\ up /\ pc = "exec" /\ SvmAndPoolDone /\ blk_deposits # <<>>
     /\ blk_deposits' = Tail(blk_deposits)
     /\ Credit(d, done)
     /\ UNCHANGED <<mpVars, rpc, l1Vars, watchVars, up, pc, blk_txs, blk_seen, blk_log,
                    blk_leaves, memVars, stVars, boundVars>>

\* apply_deposits, one deposit: skipped when its receipt is among the block's
\* writes or in the store, else credited together with its receipt.
CreditDeposit ==
  LET d == Head(blk_deposits)
      done == d \in blk_receipts \/ d \in st_receipts
  IN /\ up /\ pc = "exec" /\ SvmAndPoolDone /\ blk_deposits # <<>>
     /\ blk_deposits' = Tail(blk_deposits)
     /\ Credit(d, done)
     /\ UNCHANGED <<mpVars, rpc, l1Vars, watchVars, up, pc, blk_txs, blk_seen, blk_log,
                    blk_leaves, memVars, stVars, boundVars>>

\* Can a withdrawal be paid?  No test of its signature, blockhash or leaf key.
CanWithdraw(tx) == Amount[tx] > 0 /\ Seen(PayerOf[tx]) >= Fee + Amount[tx]

\* Mutant: the fee is paid out of the burned amount.
BurnFeeFromAmount(tx) ==
  LET payer == PayerOf[tx]
      view == View({payer, Collector})
  IN /\ blk_bal' = [view EXCEPT ![payer] = @ - Amount[tx], ![Collector] = @ + Fee]
     /\ blk_native' = blk_native \cup {payer, Collector}
     /\ blk_drift' = blk_drift + Revived(payer) + Revived(Collector)
     /\ UNCHANGED blk_loaded

\* The amount is burned, the fee goes to the collector.
Burn(tx) ==
  LET payer == PayerOf[tx]
      paid == Move(View({payer, Collector}), payer, Collector, Fee)
  IN /\ blk_bal' = [paid EXCEPT ![payer] = @ - Amount[tx]]
     /\ blk_native' = blk_native \cup {payer, Collector}
     /\ blk_drift' = blk_drift + Revived(payer) + Revived(Collector)
     /\ UNCHANGED blk_loaded

\* Mutant: the leaf is noted before the outcome is known.
NoteLeafEagerly(tx) == blk_leaves' = Append(blk_leaves, tx)

\* Only a withdrawal that was paid leaves a leaf.
NoteLeaf(tx) ==
  blk_leaves' = IF CanWithdraw(tx) THEN Append(blk_leaves, tx) ELSE blk_leaves

\* apply_withdraws, one native withdrawal: burned and noted, or included as failed
\* without a fee.
Withdraw ==
  LET tx == Head(blk_txs)
  IN /\ up /\ pc = "exec" /\ blk_deposits = <<>> /\ blk_txs # <<>>
     /\ Kind[tx] = "withdraw"
     /\ blk_txs' = Tail(blk_txs)
     /\ Include(tx, CanWithdraw(tx))
     /\ NoteLeaf(tx)
     /\ \/ CanWithdraw(tx) /\ Burn(tx)
        \/ ~CanWithdraw(tx) /\ UNCHANGED <<blk_bal, nativeVars>>
     /\ UNCHANGED <<mpVars, rpc, l1Vars, watchVars, up, pc, blk_deposits, blk_seen,
                    blk_receipts, blk_credits, memVars, stVars, boundVars>>

\* commit_block: blocks, accounts, receipts and the blockhash queue in one
\* transaction; then the tip in memory.
Commit ==
  /\ up /\ pc = "exec" /\ blk_txs = <<>> /\ blk_deposits = <<>>
  /\ pc' = "publish"
  /\ st_slot' = tip_slot + 1
  /\ st_queue' = Register(tip_queue, tip_slot + 1)
  /\ st_log' = st_log \o blk_log
  /\ st_bal' = blk_bal
  /\ st_receipts' = st_receipts \cup blk_receipts
  /\ st_credits' = blk_credits
  /\ st_drift' = st_drift + blk_drift
  /\ tip_slot' = tip_slot + 1
  /\ tip_queue' = Register(tip_queue, tip_slot + 1)
  /\ UNCHANGED <<mpVars, rpc, l1Vars, watchVars, up, blkVars, tree, st_root, boundVars>>

\* The leaves enter the tree and its root is persisted; a failure to persist is
\* only logged.  The write lock is released.
Publish ==
  /\ up /\ pc = "publish"
  /\ pc' = "idle"
  /\ tree' = [k \in Leaves |->
                LET K == {i \in 1..Len(blk_leaves) : Leaf[blk_leaves[i]] = k}
                IN  IF K = {} THEN tree[k] ELSE Amount[blk_leaves[Max2(K)]]]
  /\ \/ st_root' = (IF blk_leaves = <<>> THEN st_root ELSE tree') /\ UNCHANGED faults
     \/ /\ blk_leaves # <<>> /\ faults < MaxFaults
        /\ faults' = faults + 1 /\ UNCHANGED st_root
  /\ EmptyBlock
  /\ UNCHANGED <<mpVars, rpc, l1Vars, watchVars, up, tip_slot, tip_queue, chainVars,
                 submits, heartbeats>>

\* A store or executor error before the commit: `?` returns, the block's writes
\* and everything drained for it are gone, the lock is released.
ProduceError ==
  /\ up /\ pc = "exec" /\ faults < MaxFaults
  /\ faults' = faults + 1
  /\ pc' = "idle"
  /\ EmptyBlock
  /\ UNCHANGED <<mpVars, rpc, l1Vars, watchVars, up, memVars, stVars, submits, heartbeats>>

----------------------------------------------------------------------------
\* Crash and restart

\* The process dies: everything but the store and L1 is lost.
Crash ==
  /\ up /\ faults < MaxFaults
  /\ faults' = faults + 1
  /\ up' = FALSE /\ pc' = "idle"
  /\ queue' = <<>> /\ pending' = {} /\ per_payer' = [p \in {} |-> 0]
  /\ rpc' = [tx \in Txs |-> "none"]
  /\ fetched' = <<>> /\ pending_deposits' = <<>>
  /\ EmptyBlock
  /\ UNCHANGED <<l1Vars, memVars, stVars, submits, heartbeats>>

\* Node::new: the tip from the store, the tree rebuilt from the blocks, its root
\* persisted.
Restart ==
  /\ ~up
  /\ up' = TRUE
  /\ tip_slot' = st_slot /\ tip_queue' = st_queue
  /\ tree' = Rebuild(st_log)
  /\ st_root' = Rebuild(st_log)
  /\ UNCHANGED <<mpVars, rpc, l1Vars, watchVars, pc, blkVars, chainVars, boundVars>>

Producer ==
  \/ ProduceDrain \/ ProduceNothing \/ StartBlock \/ ExecSvm \/ ExecPool
  \/ CreditDeposit \/ Withdraw \/ Commit \/ Publish

Next ==
  \/ \E tx \in Txs : AdmitRecent(tx) \/ AdmitFresh(tx) \/ Submit(tx)
  \/ (\E d \in Deposits : L1Deposit(d)) \/ L1Other
  \/ WatcherFetch \/ WatcherEnqueue
  \/ Producer \/ ProduceError \/ Crash \/ Restart

Spec == Init /\ [][Next]_vars

\* The producer loop ticks for ever, the watcher polls for ever, and the process
\* is restarted after a crash.
FairSpec ==
  /\ Spec
  /\ WF_vars(Producer) /\ WF_vars(WatcherFetch) /\ WF_vars(WatcherEnqueue)
  /\ WF_vars(Restart)

----------------------------------------------------------------------------
\* What a block records of an included transaction.
Entries == [slot : Nat, tx : Txs, ok : BOOLEAN]

\* Every variable has its type; no balance goes below zero.
TypeOK ==
  /\ queue \in Seq(Txs) /\ pending \subseteq Sigs
  /\ rpc \in [Txs -> {"none", "recent", "fresh"}]
  /\ l1_log \in Seq(Deposits \cup {BatchPost})
  /\ fetched \in Seq(Deposits) /\ pending_deposits \in Seq(Deposits)
  /\ up \in BOOLEAN /\ pc \in {"idle", "drained", "exec", "publish"}
  /\ blk_txs \in Seq(Txs) /\ blk_deposits \in Seq(Deposits)
  /\ blk_seen \subseteq Sigs /\ blk_receipts \subseteq Deposits
  /\ blk_bal \in [Accounts -> Nat] /\ st_bal \in [Accounts -> Nat]
  /\ blk_credits \in [Deposits -> Nat] /\ st_credits \in [Deposits -> Nat]
  /\ blk_log \in Seq(Entries) /\ st_log \in Seq(Entries)
  /\ blk_leaves \in Seq(Txs)
  /\ blk_native \subseteq Accounts /\ blk_loaded \in [Accounts -> Nat]
  /\ blk_drift \in Int /\ st_drift \in Int
  /\ tip_slot \in Nat /\ st_slot \in Nat
  /\ tip_queue \in Seq(Nat) /\ st_queue \in Seq(Nat)
  /\ tree \in [Leaves -> Nat] /\ st_root \in [Leaves -> Nat]
  /\ st_receipts \subseteq Deposits

\* Exactly-once deposits: in the committed state a deposit has been credited once
\* if its receipt exists and never otherwise, however often the watcher enqueues
\* it, and across errors and crashes between enqueue and commit.
DepositOnce ==
  \A d \in Deposits : st_credits[d] = IF d \in st_receipts THEN 1 ELSE 0

\* Replay protection of the executor: the chain never holds an SVM transaction's
\* signature twice, although the mempool forgets it when it is drained and admit
\* looks at the store before the block is committed.
SvmOnce ==
  \A i, j \in 1..Len(st_log) :
    (/\ Kind[st_log[i].tx] = "svm" /\ Kind[st_log[j].tx] = "svm"
     /\ SigOf[st_log[i].tx] = SigOf[st_log[j].tx]) => i = j

\* Recency: an SVM transaction enters a block only while its blockhash is among
\* the last QueueCap hashes before it, through restarts (the queue is persisted).
SvmRecent ==
  \A i \in 1..Len(st_log) :
    Kind[st_log[i].tx] = "svm" =>
      /\ RecentOf[st_log[i].tx] < st_log[i].slot
      /\ RecentOf[st_log[i].tx] + QueueCap >= st_log[i].slot

\* Every leaf under the persisted root, which the batcher posts for claims, is a
\* withdrawal that a committed block burned, never one that failed, was lost with
\* a block or is not committed yet.
RootBacked ==
  \A k \in Leaves : st_root[k] # 0 =>
    \E i \in 1..Len(st_log) :
      /\ Kind[st_log[i].tx] = "withdraw" /\ st_log[i].ok
      /\ Leaf[st_log[i].tx] = k /\ Amount[st_log[i].tx] = st_root[k]

\* The tree that the chain's successful withdrawals make.
ExactLeaves(log) ==
  LeavesAt(log, {i \in 1..Len(log) : Kind[log[i].tx] = "withdraw" /\ log[i].ok})

\* Store-level replay protection: no signature, of a transaction of any kind, is
\* in the chain twice, although the mempool forgets a signature when it drains it.
SignatureOnce ==
  \A i, j \in 1..Len(st_log) : SigOf[st_log[i].tx] = SigOf[st_log[j].tx] => i = j

\* The in-memory tree is the tree of the committed blocks whenever the producer
\* is not about to publish, after a restart's rebuild as well: "the blocks are
\* its source of truth".
TreeMatchesChain == (up /\ pc # "publish") => tree = ExactLeaves(st_log)

\* The same, as long as no signature is in the chain twice.
TreeMatchesChainUnlessReplayed == SignatureOnce => TreeMatchesChain

\* Is the deposit among the entries that fetch_deposits can see?
InReach(d) ==
  \E i \in 1..Len(l1_log) : l1_log[i] = d /\ i + FetchLimit > Len(l1_log)

\* A deposit that L1 has confirmed is credited, whatever crashes, errors and lost
\* blocks come between, or FetchLimit later transactions have pushed it out of reach
\* before: as long as the watcher can fetch it, it does so until its receipt is
\* committed.
DepositsCreditedInReach ==
  \A d \in Deposits : InReach(d) ~> (d \in st_receipts \/ ~InReach(d))

\* No deposit is lost: "a crash never double-credits or loses a deposit (the watcher
\* re-fetches uncredited deposits from L1)" (node.rs).
DepositsCredited ==
  \A d \in Deposits : (\E i \in 1..Len(l1_log) : l1_log[i] = d) ~> (d \in st_receipts)
=============================================================================
