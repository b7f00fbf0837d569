------------------------------ MODULE Batcher ------------------------------
(***************************************************************************)
(* Settlement of the L2 chain on L1: the batcher thread (zul-node/src/l1.rs *)
(* and zul-bridge/src/batch.rs), its RPC client (zul-bridge/src/rpc.rs),   *)
(* the post_batch instruction of the settlement program, the DA log and    *)
(* what disaster recovery reads back (rpc.rs, recover.rs).                 *)
(*                                                                         *)
(* The client sends one transaction at a time and polls for it.  A poll    *)
(* that fails or times out abandons the transaction, which may still land: *)
(* it is kept in late until it lands or its blockhash expires.             *)
(*                                                                         *)
(* The L2 chain has a block in every slot from 1.  A withdrawals root is   *)
(* the number of withdrawals below it.  A payload stands for its           *)
(* compressed bytes and for its DA hash; it has one chunk per block.       *)
(***************************************************************************)
EXTENDS Integers, Sequences, FiniteSets, Bags

CONSTANTS Interval,    \* batch_interval_slots, at least 1
          RangeLimit,  \* the limit of block_slots_in_range (10_000 in batch.rs)
          \* bounds of the model
          MaxSlot, MaxFaults, Others

ASSUME BatcherAssumption ==
  /\ Interval \in Nat \ {0} /\ RangeLimit \in Nat \ {0}
  /\ {MaxSlot, MaxFaults} \subseteq Nat /\ Others \subseteq Nat \X Nat

Kinds == {"empty", "txs", "withdraw"}

VARIABLES
  chain,       \* committed L2 blocks
  publishing,  \* the producer is between commit_block and set_withdrawals_root
  st_root,     \* the store: META_WITHDRAWALS_ROOT
  batches,     \* L1: batch accounts; batch_count is the length
  da_log,      \* L1: bag of chunks ever posted
  out,         \* the transaction the client waits for
  out_st,      \* none, sent, ok, failed
  late,        \* abandoned transactions that may still land
  b_pc,        \* the batcher thread: cursor, number, ready, send, wait
  b_booted,    \* it has a Batcher to fall back on
  b_read,      \* build_batcher: the cursor it has read
  b_cursor, b_no,     \* Batcher: cursor_slot, next_batch_no
  b_payload, b_state, \* run_once: payload and last_state_root
  b_next,      \* run_once: chunks confirmed so far
  faults       \* counter of the bound

l2Vars == <<chain, publishing, st_root>>
l1Vars == <<batches, da_log>>
netVars == <<out, out_st, late>>
batcherVars == <<b_cursor, b_no>>
runVars == <<b_payload, b_state, b_next>>
vars == <<l2Vars, l1Vars, netVars, b_pc, b_booted, b_read, batcherVars, runVars, faults>>

Min2(a, b) == IF a < b THEN a ELSE b

Withdrawals(c, n) == Cardinality({s \in 1..Min2(n, Len(c)) : c[s] = "withdraw"})

NonEmpty(a, b) == {s \in a..b : s \in 1..Len(chain) /\ chain[s] # "empty"}

Payloads == [batch_no : Nat, first_slot : Nat, last_slot : Nat, blocks : SUBSET Nat]
NoPayload == [batch_no |-> 0, first_slot |-> 0, last_slot |-> 0, blocks |-> {}]

\* chunk_payload and post_da_chunk: the pieces of a payload.
Chunk(p, i) == [batch_no |-> p.batch_no, chunk_index |-> i, data |-> p]
ChunkCount(p) == Cardinality(p.blocks)
Chunks(p) == {Chunk(p, i) : i \in 0..ChunkCount(p) - 1}

BatchRecord(p, state, root) ==
  [batch_no |-> p.batch_no, first_slot |-> p.first_slot, last_slot |-> p.last_slot,
   state_root |-> state, withdrawals_root |-> root, da_hash |-> p]

\* The two instructions the batcher sends.
PostChunkIx(p, i) == [kind |-> "chunk", arg |-> Chunk(p, i)]
PostBatchIx(r) == [kind |-> "batch", arg |-> r]
NoIx == [kind |-> "none", arg |-> NoPayload]

Init ==
  /\ chain = <<>> /\ publishing = FALSE /\ st_root = 0
  /\ batches = <<>> /\ da_log = EmptyBag
  /\ out = NoIx /\ out_st = "none" /\ late = {}
  /\ b_pc = "cursor" /\ b_booted = FALSE /\ b_read = 1
  /\ b_cursor = 1 /\ b_no = 0
  /\ b_payload = NoPayload /\ b_state = 0 /\ b_next = 0
  /\ faults = 0

----------------------------------------------------------------------------
\* The L2 producer

CommitBlock(kind) ==
  /\ ~publishing /\ Len(chain) < MaxSlot
  /\ chain' = Append(chain, kind)
  /\ publishing' = (kind = "withdraw")
  /\ UNCHANGED <<st_root, l1Vars, netVars, b_pc, b_booted, b_read, batcherVars, runVars,
                 faults>>

\* The new root is persisted after the commit; a failure is only logged.
PublishRoot ==
  /\ publishing
  /\ publishing' = FALSE
  /\ \/ st_root' = Withdrawals(chain, Len(chain)) /\ UNCHANGED faults
     \/ faults < MaxFaults /\ faults' = faults + 1 /\ UNCHANGED st_root
  /\ UNCHANGED <<chain, l1Vars, netVars, b_pc, b_booted, b_read, batcherVars, runVars>>

----------------------------------------------------------------------------
\* L1: the two programs and the network

\* Mutant: batch numbers need not follow each other.
PostBatchAcceptsAny(r) == r.last_slot >= r.first_slot

\* post_batch: the batch account is fresh and the number is the next one.
PostBatchAccepts(r) == r.batch_no = Len(batches) /\ r.last_slot >= r.first_slot

\* A sent transaction executes; post_chunk accepts every chunk of a payload.
Execute(ix) ==
  IF ix.kind = "chunk"
  THEN da_log' = da_log (+) SetToBag({ix.arg}) /\ UNCHANGED batches
  ELSE /\ UNCHANGED da_log
       /\ IF PostBatchAccepts(ix.arg) THEN batches' = Append(batches, ix.arg)
                                      ELSE UNCHANGED batches

\* Somebody else posts a chunk, under number o[1] and index o[2]: the DA log takes any
\* signer's.
PostOther(o) ==
  LET c == Chunk([NoPayload EXCEPT !.batch_no = o[1]], o[2])
  IN
  /\ c \notin BagToSet(da_log) /\ da_log' = da_log (+) SetToBag({c})
  /\ UNCHANGED <<l2Vars, batches, netVars, b_pc, b_booted, b_read, batcherVars, runVars,
                 faults>>

Fails(ix) == ix.kind = "batch" /\ ~PostBatchAccepts(ix.arg)

\* The awaited transaction lands.
Land ==
  /\ out_st = "sent"
  /\ Execute(out)
  /\ out_st' = IF Fails(out) THEN "failed" ELSE "ok"
  /\ UNCHANGED <<l2Vars, out, late, b_pc, b_booted, b_read, batcherVars, runVars, faults>>

\* An abandoned transaction lands after all.
LandLate(m) ==
  /\ m \in late
  /\ Execute(m.ix)
  /\ late' = late \ {m}
  /\ UNCHANGED <<l2Vars, out, out_st, b_pc, b_booted, b_read, batcherVars, runVars, faults>>

\* An abandoned transaction's blockhash expires.
Expire(m) ==
  /\ m \in late
  /\ late' = late \ {m}
  /\ UNCHANGED <<l2Vars, l1Vars, out, out_st, b_pc, b_booted, b_read, batcherVars, runVars,
                 faults>>

----------------------------------------------------------------------------
\* build_batcher, at boot and after a failed run_once

\* Mutant: the slot after the last settled one is taken for settled.
ReadCursorPast ==
  /\ b_pc = "cursor"
  /\ b_read' = IF batches = <<>> THEN 1 ELSE batches[Len(batches)].last_slot + 2
  /\ b_pc' = "number"
  /\ UNCHANGED <<l2Vars, l1Vars, netVars, b_booted, batcherVars, runVars, faults>>

\* resume_cursor_slot: one past the last settled slot.
ReadCursor ==
  /\ b_pc = "cursor"
  /\ b_read' = IF batches = <<>> THEN 1 ELSE batches[Len(batches)].last_slot + 1
  /\ b_pc' = "number"
  /\ UNCHANGED <<l2Vars, l1Vars, netVars, b_booted, batcherVars, runVars, faults>>

\* Batcher::new reads the batch count in a request of its own.
ReadNumber ==
  /\ b_pc = "number"
  /\ b_cursor' = b_read /\ b_no' = Len(batches)
  /\ b_pc' = "ready" /\ b_booted' = TRUE
  /\ UNCHANGED <<l2Vars, l1Vars, netVars, b_read, runVars, faults>>

\* Mutant: the thread ends when L1 cannot be read.
BuildFailsForGood ==
  /\ b_pc \in {"cursor", "number"} /\ faults < MaxFaults
  /\ faults' = faults + 1
  /\ b_pc' = "stopped"
  /\ UNCHANGED <<l2Vars, l1Vars, netVars, b_booted, b_read, batcherVars, runVars>>

\* A read fails: boot starts over, a running thread keeps its old Batcher.
BuildFails ==
  /\ b_pc \in {"cursor", "number"} /\ faults < MaxFaults
  /\ faults' = faults + 1
  /\ b_pc' = IF b_booted THEN "ready" ELSE "cursor"
  /\ UNCHANGED <<l2Vars, l1Vars, netVars, b_booted, b_read, batcherVars, runVars>>

----------------------------------------------------------------------------
\* run_once

\* Mutant: a batch of one slot too many.
TipOffByOne == Min2(Len(chain), b_cursor + Interval)

\* The loop's bound on a batch.
Tip == Min2(Len(chain), b_cursor + Interval - 1)

\* The slots block_slots_in_range returns.
LastRead == Min2(Tip, b_cursor + RangeLimit - 1)

\* Up to the first post: read the blocks, and either pass over an empty window
\* or build the payload.  While the authority is low on funds the thread sleeps.
Collect ==
  /\ b_pc = "ready" /\ Len(chain) >= b_cursor
  /\ IF NonEmpty(b_cursor, LastRead) = {}
     THEN b_cursor' = Tip + 1 /\ UNCHANGED <<b_pc, b_no, runVars>>
     ELSE /\ b_payload' = [batch_no |-> b_no, first_slot |-> b_cursor, last_slot |-> Tip,
                           blocks |-> NonEmpty(b_cursor, LastRead)]
          /\ b_state' = LastRead /\ b_next' = 0
          /\ b_pc' = "send"
          /\ UNCHANGED batcherVars
  /\ UNCHANGED <<l2Vars, l1Vars, netVars, b_booted, b_read, faults>>

\* Mutant: the record goes out before the last chunk.
SendEarly ==
  /\ b_pc = "send"
  /\ out' = IF b_next < ChunkCount(b_payload) - 1 THEN PostChunkIx(b_payload, b_next)
            ELSE PostBatchIx(BatchRecord(b_payload, b_state, st_root))
  /\ out_st' = "sent" /\ b_pc' = "wait"
  /\ UNCHANGED <<l2Vars, l1Vars, late, b_booted, b_read, batcherVars, runVars, faults>>

\* The next chunk, or after the last one the record, whose withdrawals root is
\* read now.
Send ==
  /\ b_pc = "send"
  /\ out' = IF b_next < ChunkCount(b_payload) THEN PostChunkIx(b_payload, b_next)
            ELSE PostBatchIx(BatchRecord(b_payload, b_state, st_root))
  /\ out_st' = "sent" /\ b_pc' = "wait"
  /\ UNCHANGED <<l2Vars, l1Vars, late, b_booted, b_read, batcherVars, runVars, faults>>

\* Confirmed: go on with the next chunk, or the batch is done.
Confirm ==
  /\ b_pc = "wait" /\ out_st = "ok"
  /\ out' = NoIx /\ out_st' = "none"
  /\ IF out.kind = "chunk"
     THEN b_next' = b_next + 1 /\ b_pc' = "send" /\ UNCHANGED batcherVars
     ELSE /\ b_cursor' = b_payload.last_slot + 1 /\ b_no' = b_no + 1
          /\ b_pc' = "ready" /\ UNCHANGED b_next
  /\ UNCHANGED <<l2Vars, l1Vars, late, b_booted, b_read, b_payload, b_state, faults>>

\* Where an abandoned transaction goes; the fault's number tells equal ones apart.
Abandoned == IF out_st = "sent" THEN late \cup {[id |-> faults, ix |-> out]} ELSE late

\* The transaction failed, or the poll timed out or could not be made: run_once
\* returns the error and the thread re-derives its Batcher from L1.
PostFails ==
  /\ b_pc = "wait" /\ out_st \in {"sent", "ok", "failed"}
  /\ out_st # "failed" => faults < MaxFaults
  /\ faults' = IF out_st = "failed" THEN faults ELSE faults + 1
  /\ late' = Abandoned /\ out' = NoIx /\ out_st' = "none"
  /\ b_pc' = "cursor"
  /\ UNCHANGED <<l2Vars, l1Vars, b_booted, b_read, batcherVars, runVars>>

\* The process dies and starts again: Node::new rebuilds the withdrawals tree
\* and persists its root before the batcher thread starts.
CrashRestart ==
  /\ faults < MaxFaults /\ faults' = faults + 1
  /\ st_root' = Withdrawals(chain, Len(chain)) /\ publishing' = FALSE
  /\ late' = Abandoned /\ out' = NoIx /\ out_st' = "none"
  /\ b_pc' = "cursor" /\ b_booted' = FALSE /\ b_read' = 1
  /\ b_cursor' = 1 /\ b_no' = 0
  /\ b_payload' = NoPayload /\ b_state' = 0 /\ b_next' = 0
  /\ UNCHANGED <<chain, l1Vars>>

Batching == ReadCursor \/ ReadNumber \/ Collect \/ Send \/ Confirm

Next ==
  \/ (\E kind \in Kinds : CommitBlock(kind)) \/ PublishRoot
  \/ (\E o \in Others : PostOther(o))
  \/ Land \/ (\E m \in late : LandLate(m) \/ Expire(m))
  \/ Batching \/ BuildFails \/ PostFails \/ CrashRestart

Spec == Init /\ [][Next]_vars

\* The thread loops for ever with a funded authority, a transaction it waits for
\* lands unless the wait is given up, and a failed transaction is seen to have failed.
FairSpec ==
  /\ Spec
  /\ WF_vars(Batching) /\ WF_vars(Land)
  /\ WF_vars(PostFails /\ out_st = "failed")

----------------------------------------------------------------------------
\* Disaster recovery: zul-recover

\* fetch_settlement_batches: the chunks posted under a batch's number, sorted by
\* index and concatenated, hash to the record's DA hash.
Reassembled(r) ==
  LET parts == {c \in BagToSet(da_log) : c.batch_no = r.batch_no}
  IN  parts = Chunks(r.da_hash) /\ \A c \in parts : da_log[c] = 1

\* recover::verify: numbers from 0, ranges one after the other, no empty
\* payload, every block within its batch's range.
Verify(bs) ==
  \A i \in 1..Len(bs) :
    /\ bs[i].batch_no = i - 1
    /\ i > 1 => bs[i].first_slot > bs[i - 1].last_slot
    /\ bs[i].da_hash.blocks # {}
    /\ \A s \in bs[i].da_hash.blocks : s \in bs[i].first_slot..bs[i].last_slot

----------------------------------------------------------------------------
Records == [batch_no : Nat, first_slot : Nat, last_slot : Nat, state_root : Nat,
            withdrawals_root : Nat, da_hash : Payloads]
Ixs == [kind : {"chunk"}, arg : [batch_no : Nat, chunk_index : Nat, data : Payloads]]
         \cup [kind : {"batch"}, arg : Records]

\* Every variable has its type; a transaction is awaited exactly in wait.
TypeOK ==
  /\ chain \in Seq(Kinds) /\ publishing \in BOOLEAN /\ st_root \in Nat
  /\ batches \in Seq(Records) /\ IsABag(da_log)
  /\ out \in Ixs \cup {NoIx} /\ out_st \in {"none", "sent", "ok", "failed"}
  /\ out_st = "none" <=> out = NoIx
  /\ b_pc = "wait" <=> out # NoIx
  /\ late \subseteq [id : Nat, ix : Ixs]
  /\ b_pc \in {"cursor", "number", "ready", "send", "wait"} /\ b_booted \in BOOLEAN
  /\ b_read \in Nat /\ b_cursor \in Nat \ {0} /\ b_no \in Nat
  /\ b_payload \in Payloads /\ b_state \in Nat /\ b_next \in Nat /\ faults \in Nat

Settled == UNION {batches[i].da_hash.blocks : i \in 1..Len(batches)}

\* "Batch all non-empty blocks in [cursor_slot, tip_slot]": every record on L1
\* commits to exactly the non-empty blocks of its range and to the state after
\* the range's last block.
RecordFaithful ==
  \A i \in 1..Len(batches) :
    LET r == batches[i]
    IN  /\ r.da_hash.blocks = NonEmpty(r.first_slot, r.last_slot)
        /\ r.state_root = r.last_slot

\* Nothing is skipped: every non-empty block up to the last slot of any batch on
\* L1 is in some batch, whatever timed out, landed late or was re-derived.
NothingSkipped ==
  \A i \in 1..Len(batches) : NonEmpty(1, batches[i].last_slot) \subseteq Settled

\* The posted withdrawals roots only grow, so a claim that a batch supports is
\* supported by every later one: no late record brings an old root back.
RootsGrow ==
  \A i, j \in 1..Len(batches) :
    i < j => batches[i].withdrawals_root <= batches[j].withdrawals_root

\* A record is never ahead of its data: when the record of a batch is on L1 every
\* chunk of its payload is in the DA log, whatever timed out, was given up or landed
\* late before it.
DataAvailable ==
  \A i \in 1..Len(batches) : Chunks(batches[i].da_hash) \subseteq BagToSet(da_log)

\* Every batch on L1 can be recovered from the DA log, also after a chunk was posted
\* again or somebody else used its number: "Recover every settlement batch from L1".
Recoverable == \A i \in 1..Len(batches) : Reassembled(batches[i])

\* What is on L1 passes recovery's checks: "L1 is the source of truth, so a
\* restarted sequencer never re-posts".
RecoveryVerifies == Verify(batches)

\* A withdrawal is "claimable on L1 once settled": the root posted with the batch
\* that settles its block covers it.
SettledClaimable ==
  \A i \in 1..Len(batches) :
    Withdrawals(chain, batches[i].last_slot) <= batches[i].withdrawals_root

\* The settled blocks are the non-empty blocks of a growing prefix of the chain.
Log == INSTANCE SettlementLog WITH settled <- Settled
SettlesPrefix == Log!Spec

\* Every non-empty block is settled in the end.
EventuallySettled ==
  \A s \in 1..MaxSlot : (s \in NonEmpty(1, MaxSlot)) ~> (s \in Settled)
=============================================================================
