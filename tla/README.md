# TLA+ verification of Zul

Zul is a single-sequencer L2 on Solana: it executes SVM transactions and an
enshrined shielded pool, takes SOL and SPL deposits from L1, settles its blocks on L1
in batches and pays withdrawals out there against a Merkle root. This directory
models the parts of it in which steps of several actors meet, checks them with
TLC on small instances and proves invariants of them with TLAPS for all values of the
constants.

## The system

| part | state | operations | meets |
|---|---|---|---|
| mempool (`zul-node/mempool.rs`) | queue, signature index, counter per payer | push, drain | RPC threads, producer |
| sequencer (`zul-node/node.rs`) | tip, blockhash queue, pending deposits, withdrawals tree | admit, submit, try_produce_block, restart | mempool, store, watcher, pool |
| executor (`zul-executor`) | seen signatures, account writes of a block | execute_block | sequencer, store |
| store (`zul-store`) | blocks, accounts, receipts, nullifiers, metadata | commit_block, set_withdrawals_root, lookups | all |
| deposit watcher (`zul-node/bridge.rs`) | none of its own | fetch, filter on receipts, enqueue | L1, sequencer |
| batcher (`zul-node/l1.rs`, `zul-bridge/batch.rs`) | cursor, next batch number | build_batcher, run_once | store, L1 client |
| L1 client (`zul-bridge/rpc.rs`) | the transaction it polls for | send_and_confirm, account reads | L1 programs |
| L1 programs (`programs/`) | batch records, vaults, claim accounts, DA log | post_batch, post_chunk, deposits, claims | batcher, users |
| recovery (`zul-bridge/recover.rs`) | none | reassemble, verify | DA log, batch records |
| shielded pool (`zul-privacy`) | commitment tree, root ring, nullifiers | shield, transfer, unshield | sequencer, circuits |
| claim tool (`zul-l1-claim`) | a proof and its root | fetch, wait for the root, claim | node, L1 |
| Merkle trees (`zul-store/smt.rs`, `withdraw_smt.rs`, `zul-settlement/smt.rs`) | nodes | apply_updates, prove, verify | store, sequencer, claims |
| RPC server (`zul-rpc/server.rs`) | subscriptions, requests in progress | subscribe, push, queries, paging | store, tip, broadcast channel |
| indexer (`indexer/`) | its tables and cursor | tick, indexSlot, indexTransaction | RPC server, its database |
| explorer, SDK | see "Not modelled" | | |

What is hard about it: request threads and the producer share the mempool and the
tip under separate locks; a block is built in memory and committed in one step, but
the withdrawals root is persisted in a second one; the watcher sees the same deposit
many times; executor, pool, deposits and withdrawals write the accounts of one block
one after the other, each over its own view of the others' writes; readers of the
store do not wait for the tip's lock; an L1 transaction whose poll timed out may land
later; the batcher re-derives its position from L1 in two reads; a process may die between any two
steps. The hazards are listed with their lines in `PROJECT.json`.

## The modules

| module | models | state | 
|---|---|---|
| `Mempool` | `mempool.rs` | `queue`, `pending`, `per_payer` |
| `Sequencer` | admission, block production, watcher, crash and restart; an INSTANCE of `Mempool` | `rpc`, `l1_log`, `fetched`, `pending_deposits`, the block under construction (`blk_*`), the memory (`tip_*`, `tree`), the store (`st_*`) |
| `Batcher` | batcher thread, L1 client, `post_batch`, `post_chunk`, recovery's checks | `chain`, `st_root`, `batches`, `da_log`, `out`, `late`, `b_*` |
| `SettlementLog` | abstract specification of settlement: a growing, gapless prefix of the chain | `chain`, `settled` |
| `BlockWrites` | the account writes of a block: executor, pool overlays, merge, wrapped and native credits and burns, commit and loss | `store`, `final_accounts`, `overlay`, `token_overlay`, `writes` |
| `ShieldedPool` | native notes: processor, nullifiers, root ring, lamport moves, block commit and loss | `st_*` committed, `blk_*` running block, `within` |
| `PoolTree` | the incremental commitment tree and the circuits' inclusion check, against the whole tree | `filled_subtrees`, `root`, `next_leaf_index` |
| `Smt` | the state tree with the store's node table, the withdrawals tree, the program's proof check, against the whole tree | `accounts`, `nodes`, `state_root`, `wtree` |
| `Rpc` | the node as its RPC clients see it: commits, notifications, subscriptions, queries with a context, paging | `blocks`, `tip`, `locked`, `notes`, `sub`, `rd`, `pg` |
| `Indexer` | the indexer; extends `Rpc`, so both run together | `ix`, `lastSlot`, `block_rows`, `tx_rows`, `address_rows` |
| `Bridge` | deposits, asset routing, withdrawals, claims, the claim tool, from end to end | `vault`, `inbox`, `roots`, `claimed`, `native`, `wrapped`, `tree`, `st_root`, `tool` |
| `MempoolProofs`, `SequencerProofs`, `BatcherProofs`, `ShieldedPoolProofs`, `BridgeProofs`, `RpcProofs`, `IndexerProofs` | theorems, see "What is proved" | |
| `MC*` | instances for TLC; sums over accounts that only TLC evaluates | |

How state and actions correspond to the code:

* **Mempool.** `Push` is `push` when it accepts; its refusals (`PushAccepts`) are the
  code's early returns, in order. `Drain` is `drain`, with the counters of payers
  that reach zero removed.
* **Sequencer.** A request is `AdmitRecent`, `AdmitFresh`, `Submit`: the two reads of
  `admit` and the `push`, each under its own lock. `ProduceDrain` empties both queues
  before the tip lock is taken; `StartBlock` takes the lock and sorts the
  transactions by kind; `ExecSvm`, `ExecPool`, `CreditDeposit` and `Withdraw` handle
  one item each into the block's writes, in the code's order; `Commit` is
  `commit_block`; `Publish` inserts the leaves and persists the root, whose failure
  is only logged. `ProduceError` is any `?` before the commit. `Crash` keeps the store
  and L1 only; `Restart` is `Node::new` with `rebuild_withdrawals`. The block hash of
  slot n is n. `Seen` is what pool, deposits and withdrawals read of an account that the
  executor drained: a deletion falls back to the committed balance. `ExecSvm` is a
  transfer with instructions after it: when one of those fails the transfer stays in the
  executor's results (`blk_bal`), since `execute_block` collects the accounts of an executed
  transaction whatever its status, while the transaction processor goes on without it
  (`blk_loaded`). `blk_drift` counts what is created or lost when a step writes over a
  balance it did not see. Amounts are in fee units; the withdrawals root is the tree
  itself, since the root is injective in its leaves.
* **Batcher.** `ReadCursor` and `ReadNumber` are the two requests of `build_batcher`.
  `Collect`, `Send` and `Confirm` are `run_once`; the withdrawals root is read at the
  record's `Send`. `PostFails` is any error or timeout of a poll: the transaction moves
  to `late`, from which it lands (`LandLate`) or expires (`Expire`). `PostOther` is a chunk
  of somebody else, which the DA log accepts like any other. `CrashRestart` restarts the
  process. A payload has one chunk per block, and stands for its bytes and its DA hash.
  While the authority is low on funds the thread sleeps, a stuttering step.
* **ShieldedPool.** A note is its leaf index, and so is its nullifier, which binds the
  index; dummy inputs have numbers below 1. A root is the number of leaves under it.
  A proof verifies exactly when the circuit's statement holds. A transaction that
  finds the tree full keeps what it had done by then, as the code does. `move_lamports`
  reads both balances before it writes both, so the fee of a transaction that the
  collector pays and an amount that the vault pays itself are created; `st_minted` counts
  them.
* **BlockWrites.** The phases of `try_produce_block`: transactions of the executor
  (`SvmTransfer`, `SvmTokenTransfer`, `SvmClose`, `SvmFailed`, `SvmFailedLater`) over the
  processor's view (`loaded`) into `final_accounts`, `EndSvm` with the fees and the deletions,
  pool transactions over `overlay` and `token_overlay`, `Merge`, then credits and burns through `View`, which is `writes` or else the store. An account is its
  lamports and its data, that is a token amount, the mint's supply or the number of
  commitments. `overlapped` records that a block handled an account in two ways: the
  pool wrote data of an account that was already written (`Clash`), a native step read
  one that the executor had deleted (`Stale`), or a transaction replaced what a failed one
  had left (`Undone`).
* **Smt.** Pure operators named as in the code; a hash is the tuple of what is hashed,
  so hashing is injective. Both trees share `PathWrites`, `Prove` and `Verifies`, as
  their code is the same at two depths; the settlement program's walk is written out
  (`l1_verify`), since it is other code.
* **Rpc.** The producer holds the tip's lock from `CommitBlock` over `Notify` to `Unlock`;
  what reads the tip (`Context`, `Tick`) waits for it, what reads the store does not. A
  subscription is accepted, looks at the store (signatures only), subscribes to the
  channel and receives; the channel keeps its last `Capacity` blocks. A query reads
  each key in its own transaction and the tip last. A page is two transactions, the
  lookup of `before` and the scan; a lookup that fails counts as no `before`
  (`PageUnresolved`).
* **Indexer.** One step per database call. `Fail` ends a tick anywhere, as an exception
  or a restart does; an error of `addressSignature.create` is caught by the code and
  ends nothing (`swallowed`).
* **Bridge.** One step per deposit, credit, withdrawal, batch and claim; what happens
  between them is the subject of `Sequencer` and `Batcher`. The withdrawals tree has one
  place per path (`PathOf`), the 32 bits of a key that the shallow tree looks at, so that
  different withdrawals may share a place. A withdrawal's leaf enters the tree after its
  block is committed (`Publish`), when persisting the root may fail; a batch posts the root
  that the store has at that moment, and there is a batch only for blocks with
  transactions. `DepositedElsewhere` is a `Deposited` event in the logs of a transaction
  that lists the config account but did not come from the settlement program:
  `deposit_in_tx` does not tell it apart, and `unbacked` counts its amount. `gas_mint` is
  chosen once, so both configurations are in one run.

`SettlementLog` is the abstract specification; `Batcher` implements it under the
mapping `settled <- Settled`, the union of the payloads' blocks (`SettlesPrefix`).

## The runs

| run | shows | instance |
|---|---|---|
| `mempool` | index and counters exact, n queued transactions need n / limit payers, arrival order kept, everything queued leaves | 9 transactions, 3 payers, capacity 4 |
| `sequencer` | exactly-once deposits, one inclusion and recency of SVM transactions, root backed by burns, tree equal to the chain's, supply accounted for | 2 SVM transfers, a pool transaction, a withdrawal, a deposit, 3 submissions, 1 fault |
| `sequencer_live` | every deposit is credited, through 2 faults, unless it falls out of the fetch window first | 2 deposits, 1 withdrawal, 1 other L1 transaction, a window of 2 |
| `batcher` | records faithful, no block skipped, roots grow, data in the DA log before the record, refinement of `SettlementLog` | 3 slots, interval 2, 2 faults, a chunk of somebody else |
| `batcher_live` | every non-empty block is settled | 2 slots, 2 faults, a chunk of somebody else |
| `pool` | no double spend, exact root ring, vault covers the notes, only self-moves create lamports | 2 payers, ring of 2, 3 leaves, 2 blocks |
| `block_writes` | tokens conserved, lamports accounted for, notes backed, after the merge of all writes of a block, unless an account was handled in two ways | 2 users, 4 transactions, 2 blocks |
| `trees` | state root, stored nodes, proofs and claim proofs exact against the whole tree; the pool's incremental root and its inclusion paths likewise | batches of 3 updates over 4 keys at depth 3; 3 withdrawals at depth 2; all fillings at depth 3 |
| `rpc` | pushes in order and complete, answers within their context, paging complete, indexer complete and live | 3 blocks, 3 transactions, 2 addresses, 1 restart, 2 faults of the indexer |
| `bridge` | custody covers all claims on it, a claim pays a burn once, only a later withdrawal displaces one, the claim tool ends once its root is settled | 2 deposits, 2 withdrawals on 2 paths, 2 batches, 2 mints, with and without gas mint |

`TypeOK` of `Mempool` and of `ShieldedPool` is proved below. In `Sequencer`, `Batcher`,
`Bridge` and `BlockWrites` it documents the state; it is an invariant of the same
instances when it is added to their configurations, and so is `Batcher!NothingSkipped`,
which is proved and which `SettlesPrefix` implies.

Two runs show a disagreement between the code and what the repository says of it:

| run | statement that fails |
|---|---|
| `sequencer_replay` | `SignatureOnce`: a withdrawal or pool transaction submitted again after the drain is included twice; only SVM transactions are looked up in the store |
| `block_writes_overlap` | `TokensConserved`: a token account written by the executor and the pool in one block keeps the executor's amount, and the tokens no longer add up to the supply |

### Stronger statements

The modules also define statements that are stronger than the ones checked and that
TLC refutes when they are added to the instance named here:

* `DepositsCredited` (`MCSequencerLive.cfg`): a deposit followed by as many other
  transactions as the fetch window holds (100 in the code) before it is credited is not
  seen again, although the comment of `apply_deposits` says "a crash never double-credits
  or loses a deposit".
* `SupplyConserved` (`MCSequencer.cfg`): the lamports of an account that a block drains
  come back when a pool transaction, deposit or withdrawal of the block touches it, and
  a transaction after a failed one writes over what that one left.
* `Recoverable` (`MCBatcher.cfg`): a retried batch has its chunks twice in the DA log, and
  somebody else's chunk may stand under its number; recovery takes and concatenates
  them all.
* `EveryCustodyCovers` (`MCBridge.cfg`): with a gas mint, SOL deposits are held as
  lamports and redeemed as wSOL. `CustodyCovers` then takes the two custodies together.
* `EveryWithdrawalProvable` (`MCTrees.cfg`): a withdrawal whose path agrees with an older
  one's on the 32 bits of the shallow tree takes its place.
* `SignatureNotified` (`MCRpc.cfg`): a block notified between the look at the store and the
  subscription to the channel, or overwritten in it, is never pushed.
* `AddressesIndexed` (`MCRpc.cfg`): every error of the insertion of an address row is
  taken for a duplicate.
* `TreeMatchesChain` (`MCSequencerReplay.cfg`): `rebuild_withdrawals` reads a status by
  signature, and a failed second copy of a withdrawal hides the first.
* `RecoveryVerifies` (`MCBatcher.cfg`): a late record landing between the two reads of
  `build_batcher` makes it post a range again.
* `SettledClaimable` (`MCBatcher.cfg`, no faults needed): the root is persisted after
  the block, and the batcher may read between the two.
* `RecordFaithful` with `Interval` above `RangeLimit`: the record covers slots the range
  query did not return.
* `VaultExact` (`MCShieldedPool.cfg`): a transfer that fills the tree with its first
  output keeps its nullifiers and that output.
* `LamportsConserved` (`MCShieldedPool.cfg`): the collector's fee to itself and an unshield
  to the vault create lamports.
* `NativeFullyBacked` (`MCBridge.cfg`): new wrapped accounts get rent lamports that no
  deposit backs.
* `BurnsClaimable` (`MCBridge.cfg`): a withdrawal replaces the leaf of an older one with
  the same path bits, and one that reuses a recipient and nonce finds the claim account
  taken.
* `ToolWaitEnds` (`MCBridge.cfg`): the claim tool waits for a root that never comes when
  another withdrawal changes it before it is posted, when persisting it failed, or when
  it was persisted only after the batch that settles its block and no further block has
  transactions.

Of the properties whose name ends in a proviso, these provisos are cases that happen
in the code, and what the property shows is that there is no other: lagging and the
window of `signatureSubscribe` (`...UnlessLagged`, `...UnlessMissed`), swallowed errors
(`...UnlessSwallowed`), repeated signatures (`...UnlessRepeated`, `...UnlessReplayed`),
accounts handled in two ways (`...UnlessOverlapped`), colliding withdrawals
(`...UnlessDisplaced`), and a scan with more accounts than its limit in
`AnswersWithinContext`.

### Bounds

Every bound is a constant named `Max...` in a guard. They are chosen so that each
hazard fits: one drained transaction submitted again before its block commits takes
two submissions; a crash between commit and publication, or a lost block, takes one
fault; a late record overlapping a retry takes two faults and three slots; the
ring of two roots wraps within three leaves; a hash leaves the blockhash queue of
two within a heartbeat and a block; of three nonces two share a path, so that two
withdrawals collide with and without a reused nonce; three L1 transactions overflow a
fetch window of two. In `BlockWrites` a token can be shielded in one block and paid
out in the next, an account can be drained and credited in one, and the vault is among
the payees. In `Smt` two of the four keys are neighbours and collide in the shallow tree. In `Rpc` the channel has capacity one, so
that a subscriber lags after two blocks, a page has two entries of up to three, the
scan's limit is below the number of accounts, and a signature can be included twice;
its run has one kind of client at a time, since clients share nothing but the node.
`bridge` likewise follows either the deposits, credits and claims or the claim tool (see
`MCBridge`), and `sequencer` identifies states that differ only in which of its two equal
SVM transfers is which. `Others` of `Batcher` is one chunk under the first batch's number
and index: the batcher never reads the DA log, so more of them only add equal cases.
`MaxPendingDeposits` bounds how often the watcher enqueues a deposit again.
Deadlock is not checked where the bounds let the system come to rest.

### Fairness

* The producer and watcher threads loop for ever and the process is restarted after a
  crash (`Sequencer!FairSpec`): the loops in `main.rs` and `bridge.rs` have no exit, and
  they log errors and go on.
* The batcher thread loops for ever; a transaction it waits for lands unless the wait
  is given up, which costs a fault (`Batcher!FairSpec`). Faults are bounded and the
  authority has the funds to post, so liveness says: if L1 answers from some time on and
  the authority stays funded, everything settles.
* The producer drains the mempool on every pass (`Mempool!FairSpec`).
* A block that is committed is notified and the lock released, and the task of a
  subscription runs on (`Rpc!NodeFairness`, `SubscriberFairness`): tokio polls every ready
  task. Blocks and subscriptions themselves are not assumed to come.
* The indexer's loop calls `tick` again after every failure (`main.ts`); failures are
  bounded.
* The batcher, the credit of deposits and the claim tool's polling are fair
  (`Bridge!Fairness`).

Users, claims, deposits and late landings are never assumed to happen.

## What is proved

The theorems hold for every value of the constants that meets the named assumption
of the module (`SigAssumption`, `PayerAssumption` and `LimitAssumption`;
`SequencerAssumption`; `BatcherAssumption`; `PoolAssumption`; `BridgeAssumption`;
`RpcAssumption`; `IndexerAssumption`), bounds included. None of
the properties is inductive as it stands; each module of proofs gives the
strengthening.

| theorem | property | for every |
|---|---|---|
| `MempoolInvariant`, `IndexAlwaysExact`, `CountersAlwaysExact` | `TypeOK`, `QueueIndexed`, `PayersCounted`, `WithinLimits` | capacity, limit, block size |
| `DepositsCreditedOnce` | `DepositOnce` | set of deposits, number of faults and re-fetches |
| `SvmTransactionsOnce`, `SvmAlwaysRecent` | `SvmOnce`, `SvmRecent` | set of transactions, queue length, faults |
| `BatcherInvariant`, `RecordsAlwaysFaithful`, `NoBlockSkipped` | `RecordFaithful`, `NothingSkipped` | chain, faults, interval up to `RangeLimit` |
| `SettlementImplementsLog` | `SettlesPrefix` | the same |
| `RecordsHaveTheirData` | `DataAvailable` | the same, and any chunks of others |
| `PoolTyped`, `NoNoteSpentTwice`, `RingAlwaysExact` | `TypeOK`, `SpendOnce`, `RingExact` | payers, fee, ring length, tree capacity |
| `PaidWasBurnedTheorem`, `ClaimableTheorem` | `PaidWasBurned`, `BurnsClaimableUnlessDisplaced` | users, recipients, nonces, paths, mints, fees, number of batches and claims |
| `AnswersTheorem` | `AnswersWithinContext` | blocks, accounts, owners, scan limit, restarts |
| `IndexedTheorem`, `AddressesTheorem` | `IndexedUpToCursor`, `AddressesIndexedUnlessSwallowed` | blocks, batch size, failures, restarts |

* **Mempool** (`MempoolInv`). Index and queue are in bijection, and a counter is the
  number of queue positions of its payer. The one lemma of substance is that a
  payer's share of a queue is its share of the first k entries plus its share of
  the rest (`PaidBySplit`), which is what `drain` subtracts.
* **Deposits** (`DepositInv`). `DepositOnce` speaks of the store; the invariant adds that
  the running block's credits agree with its own receipts and the store's. A credit
  and its receipt are written together, so losing a block loses both.
* **SVM transactions** (`SvmInv`). A transaction of the running block has its signature
  in the block's seen set and was not in the store when it was accepted, and no
  block commits in between. For recency, the blockhash queue holds consecutive slots
  that end at the tip, in memory and in the store, so that a restart restores it.
* **Batcher** (`BInv`). A record can land only under the number that is next. Whoever
  holds that number (the thread's `Batcher`, the record it waits for or a record it
  gave up) starts at a slot below which everything is settled (`StartOK`); when one
  record lands, the number of all the others is used up. The cursor read by
  `resume_cursor_slot` may be stale when the number is read, but what is below it stays
  settled, which is why an overlap can happen and a gap cannot. The theorems assume
  `RangeLimit >= Interval`, without which they are false (see "Stronger statements").
  The refinement maps an accepted `post_batch` to `Settle`, a block to `Produce` and
  everything else to a stutter. For the data (`DInv`): the chunks below `b_next` are in the
  log, a record is sent when `b_next` has passed the last one, and nothing leaves the log.
* **Pool** (`IInv`). Counted spends have left their nullifiers in the block's set or in
  the store, and the two sets are disjoint. Place i of the ring holds the root of as
  many insertions ago as i lies behind the current place, going around.
* **Bridge** (`BridgeInv`). Leaves of the tree, and so of every root, are burned
  withdrawals; payments and claim accounts correspond one to one. That a withdrawal
  stays claimable is in the invariant itself, with its provisos: only a later leaf on its
  path displaces it from the tree, and only a payment of its recipient and nonce sets its
  claim account, which was made for an earlier withdrawal or for itself.
* **Queries** (`QueryInv`). The tip is the newest block whenever the lock is free, and a
  commit leaves what the store answered at earlier slots (`HistoryKept`). Each value read
  so far is the store's at some slot since the request; the tip is read last.
* **Indexer** (`IndexInv`). Below the tick's frontier everything is stored, and within the
  running slot everything up to the current transaction but for its remaining
  addresses. The tick ends at or below the tip, where every slot has a block, so the
  branch that passes over a slot is never taken. Rows are right as long as no signature
  is included twice.

### Only model-checked

* Liveness (`EventuallyDrained`, `DepositsCreditedInReach`, `EventuallySettled`,
  `ToolWaitEndsOnceSettled`, `SignatureNotifiedUnlessMissed`, `BlocksEventuallyIndexed`):
  fairness is out of the prover's reach.
* `SupplyAccounted`, `OnlySelfMovesMint`, `VaultCovers`, `CustodyCovers` and the properties of
  `BlockWrites` on tokens and lamports: they are sums over accounts and notes.
* `NoOvertaking` and `FullNeedsManyPayers` of `Mempool`; `RootBacked` and
  `TreeMatchesChainUnlessReplayed` of `Sequencer`; `RootsGrow` of `Batcher`;
  `PushedUnlessLagged` and `PagesExactUnlessRepeated` of `Rpc`.
* `PoolTree` and `Smt`: what their recursive functions compute needs an induction over
  levels and batches.

## Not modelled

* Proof verification, Poseidon and field arithmetic (`verifier.rs`, `poseidon.rs`,
  `field.rs`): a proof is taken to verify exactly when its statement holds.
* The program runtime of the SVM, which is a library: transfers of lamports and
  tokens, a close and failures before and after a transfer stand for programs. That it
  rolls a failed transaction back for the rest of the batch is taken from the library.
  Sysvars and simulation.
* Hash functions and encodings of the trees: a hash is the tuple of what is hashed.
* L1 transactions with more than one deposit event, of which `deposit_in_tx` takes the
  first.
* `request_airdrop`, the health probe, `getProgramAccounts` and the RPC methods with
  constant answers; JSON, encodings, configuration, metrics, explorer and SDK: no shared
  state that the modelled parts depend on. `deposit.rs` is not called by the node.
* The decoding of instructions in the indexer.
* Panics and the poisoning of locks.
