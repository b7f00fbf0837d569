--------------------------- MODULE BatcherProofs ---------------------------
(***************************************************************************)
(* For any batch interval that one range query can return, any chain and   *)
(* any faults: every record on L1 commits to exactly the non-empty blocks  *)
(* of its range and has its data in the DA log, no block is skipped, and   *)
(* settlement implements SettlementLog.                                    *)
(*                                                                         *)
(* The argument: a batch record can only land under the next number.       *)
(* Whoever holds that number, the thread's Batcher or a record on its way, *)
(* starts at a slot below which everything is settled; the moment one      *)
(* record lands, the numbers of all others are used up.                    *)
(***************************************************************************)
EXTENDS Batcher, FiniteSetTheorems, TLAPS

IsSeq(q) == \E S : q \in Seq(S)

\* Every non-empty block below slot c is settled.
SettledBelow(c) ==
  /\ c \in 1..Len(chain) + 1
  /\ \A s \in 1..Len(chain) : (s < c /\ chain[s] # "empty") => s \in Settled

\* A range of the chain, with its non-empty blocks.
RangeOK(first, last, blocks) ==
  /\ first \in Nat \ {0} /\ last \in first..Len(chain)
  /\ blocks = NonEmpty(first, last)

\* Batch number n, if it is still free, starts at a slot that may be settled next.
StartOK(n, first) ==
  n \in Nat /\ n <= Len(batches) /\ (n = Len(batches) => SettledBelow(first))

\* A record on its way to L1.
RecordOK(r) ==
  /\ RangeOK(r.first_slot, r.last_slot, r.da_hash.blocks) /\ r.state_root = r.last_slot
  /\ StartOK(r.batch_no, r.first_slot)

\* A record on L1.
LandedOK(r) ==
  /\ RangeOK(r.first_slot, r.last_slot, r.da_hash.blocks) /\ r.state_root = r.last_slot
  /\ SettledBelow(r.last_slot + 1)

IxOK(ix) == ix.kind = "chunk" \/ (ix.kind = "batch" /\ RecordOK(ix.arg))

\* What run_once works on, and the record it waits for.
RunOK ==
  /\ b_pc \in {"send", "wait"} =>
       /\ b_payload.batch_no = b_no /\ b_payload.first_slot = b_cursor
       /\ RangeOK(b_payload.first_slot, b_payload.last_slot, b_payload.blocks)
       /\ b_state = b_payload.last_slot
  /\ (b_pc = "wait" /\ out.kind = "batch") =>
       out.arg.batch_no = b_no /\ out.arg.last_slot = b_payload.last_slot
  /\ (b_pc = "wait" /\ out.kind = "batch" /\ out_st = "ok") =>
       b_no < Len(batches) /\ SettledBelow(b_payload.last_slot + 1)

BInv ==
  /\ IsSeq(chain) /\ IsSeq(batches)
  /\ \A i \in 1..Len(batches) : LandedOK(batches[i])
  /\ SettledBelow(b_read)
  /\ b_cursor \in 1..Len(chain) + 1 /\ StartOK(b_no, b_cursor)
  /\ out_st # "none" => IxOK(out)
  /\ \A m \in late : IxOK(m.ix)
  /\ RunOK

----------------------------------------------------------------------------
\* What Append makes of a sequence.
LEMMA AppendSeq ==
  ASSUME NEW q, IsSeq(q), NEW e
  PROVE  /\ IsSeq(Append(q, e)) /\ Len(q) \in Nat
         /\ Len(Append(q, e)) = Len(q) + 1
         /\ Append(q, e)[Len(q) + 1] = e
         /\ \A i \in 1..Len(q) : Append(q, e)[i] = q[i]
  <1>1. PICK S : q \in Seq(S)
    BY DEF IsSeq
  <1>2. q \in Seq(S \cup {e})
    BY <1>1
  <1>3. Append(q, e) \in Seq(S \cup {e})
    BY <1>2
  <1> QED
    BY <1>2, <1>3 DEF IsSeq

LEMMA LenNat ==
  ASSUME NEW q, IsSeq(q)
  PROVE  Len(q) \in Nat
  BY DEF IsSeq

\* A landed record adds its blocks.
LEMMA SettledAppend ==
  ASSUME IsSeq(batches), NEW r, batches' = Append(batches, r)
  PROVE  Settled' = Settled \cup r.da_hash.blocks
  <1> DEFINE n == Len(batches)
  <1>1. /\ n \in Nat /\ Len(batches') = n + 1 /\ batches'[n + 1] = r
        /\ \A i \in 1..n : batches'[i] = batches[i]
    BY AppendSeq
  <1>2. \A i : i \in 1..n + 1 <=> (i \in 1..n \/ i = n + 1)
    BY <1>1
  <1> HIDE DEF n
  <1>3. ASSUME NEW s
        PROVE  s \in Settled' <=> s \in Settled \/ s \in r.da_hash.blocks
    <2>1. s \in Settled' <=> \E i \in 1..n + 1 : s \in batches'[i].da_hash.blocks
      BY <1>1, Zenon DEF Settled
    <2>2. s \in Settled <=> \E i \in 1..n : s \in batches[i].da_hash.blocks
      BY Zenon DEF Settled, n
    <2> QED
      BY <1>1, <1>2, <2>1, <2>2, Zenon
  <1> QED
    BY <1>3

\* The range that run_once collects.
LEMMA TipFacts ==
  ASSUME RangeLimit >= Interval, IsSeq(chain), b_cursor \in Nat \ {0},
         Len(chain) >= b_cursor
  PROVE  Tip \in b_cursor..Len(chain) /\ LastRead = Tip
  BY BatcherAssumption, LenNat DEF Tip, LastRead, Min2

----------------------------------------------------------------------------
LEMMA InitOK == Init => BInv
  <1> SUFFICES ASSUME Init PROVE BInv
    OBVIOUS
  <1>1. /\ chain = <<>> /\ batches = <<>> /\ b_read = 1 /\ b_cursor = 1 /\ b_no = 0
        /\ out_st = "none" /\ late = {} /\ b_pc = "cursor"
    BY DEF Init
  <1>2. <<>> \in Seq({}) /\ Len(<<>>) = 0
    OBVIOUS
  <1>3. SettledBelow(1)
    BY <1>1, <1>2 DEF SettledBelow
  <1>4. IsSeq(chain) /\ IsSeq(batches)
    BY <1>1, <1>2 DEF IsSeq
  <1>5. StartOK(b_no, b_cursor) /\ b_cursor \in 1..Len(chain) + 1
    BY <1>1, <1>2, <1>3 DEF StartOK
  <1> QED
    BY <1>1, <1>2, <1>3, <1>4, <1>5 DEF BInv, RunOK, IxOK

----------------------------------------------------------------------------
\* What every step keeps: facts about a range, a start and the settled blocks stay
\* true, and all records on L1 are in order.
Grows ==
  /\ IsSeq(chain') /\ IsSeq(batches')
  /\ Len(chain) <= Len(chain') /\ Len(batches) <= Len(batches')
  /\ \A c : SettledBelow(c) => SettledBelow(c)'
  /\ \A f, l, b : RangeOK(f, l, b) => RangeOK(f, l, b)'
  /\ \A n, f : StartOK(n, f) => StartOK(n, f)'
  /\ (\A i \in 1..Len(batches) : LandedOK(batches[i]))'

LEMMA StayGrows ==
  ASSUME BInv, UNCHANGED <<chain, batches>>
  PROVE  Grows
  <1>1. Settled' = Settled
    BY DEF Settled
  <1>2. Len(chain) \in Nat /\ Len(batches) \in Nat
    BY LenNat DEF BInv
  <1>3. \A c : SettledBelow(c)' = SettledBelow(c)
    BY <1>1 DEF SettledBelow
  <1>4. \A f, l, b : RangeOK(f, l, b)' = RangeOK(f, l, b)
    BY DEF RangeOK, NonEmpty
  <1>5. \A n, f : StartOK(n, f) => StartOK(n, f)'
    BY <1>3 DEF StartOK
  <1>6. (\A i \in 1..Len(batches) : LandedOK(batches[i]))'
    BY <1>3, <1>4 DEF LandedOK, BInv
  <1> QED
    BY <1>2, <1>3, <1>4, <1>5, <1>6 DEF Grows, BInv

\* A new block changes nothing about the slots that are there.
LEMMA CommitGrows ==
  ASSUME BInv, NEW k, chain' = Append(chain, k), UNCHANGED batches
  PROVE  Grows
  <1> DEFINE n == Len(chain)
  <1>1. /\ IsSeq(chain') /\ n \in Nat /\ Len(chain') = n + 1
        /\ \A i \in 1..n : chain'[i] = chain[i]
    BY AppendSeq DEF BInv
  <1>2. Settled' = Settled /\ Len(batches) \in Nat
    BY LenNat DEF Settled, BInv
  <1>3. ASSUME NEW c, SettledBelow(c)
        PROVE  SettledBelow(c)'
    <2>1. c \in 1..Len(chain') + 1
      BY <1>1, <1>3 DEF SettledBelow
    <2>2. ASSUME NEW s \in 1..Len(chain'), s < c
          PROVE  s \in 1..n
      BY <1>1, <1>3, <2>2 DEF SettledBelow
    <2> QED
      BY <1>1, <1>2, <1>3, <2>1, <2>2 DEF SettledBelow
  <1>4. ASSUME NEW f, NEW l, NEW b, RangeOK(f, l, b)
        PROVE  RangeOK(f, l, b)'
    <2>1. f \in Nat \ {0} /\ l \in f..n /\ l \in f..Len(chain')
      BY <1>1, <1>4 DEF RangeOK
    <2>2. \A s \in f..l : s \in 1..n /\ s \in 1..Len(chain') /\ chain'[s] = chain[s]
      BY <1>1, <2>1
    <2>3. NonEmpty(f, l)' = NonEmpty(f, l)
      BY <2>2 DEF NonEmpty
    <2> QED
      BY <1>4, <2>1, <2>3 DEF RangeOK
  <1>5. \A m, f : StartOK(m, f) => StartOK(m, f)'
    BY <1>3 DEF StartOK
  <1>6. (\A i \in 1..Len(batches) : LandedOK(batches[i]))'
    BY <1>3, <1>4 DEF LandedOK, BInv
  <1> QED
    BY <1>1, <1>2, <1>3, <1>4, <1>5, <1>6 DEF Grows, BInv

\* A record lands: everything up to its last slot is settled then, and all numbers
\* in use elsewhere are used up.
LEMMA LandGrows ==
  ASSUME BInv, UNCHANGED chain, NEW r, RecordOK(r), PostBatchAccepts(r),
         batches' = Append(batches, r)
  PROVE  Grows /\ SettledBelow(r.last_slot + 1)' /\ Len(batches') = r.batch_no + 1
  <1> DEFINE n == Len(batches)
  <1>1. /\ IsSeq(batches') /\ n \in Nat /\ Len(batches') = n + 1 /\ batches'[n + 1] = r
        /\ \A i \in 1..n : batches'[i] = batches[i]
    BY AppendSeq DEF BInv
  <1>2. Settled' = Settled \cup r.da_hash.blocks
    BY SettledAppend DEF BInv
  <1>3. Len(chain) \in Nat /\ Len(chain') = Len(chain)
    BY LenNat DEF BInv
  <1>4. r.batch_no = n /\ SettledBelow(r.first_slot)
    BY DEF PostBatchAccepts, RecordOK, StartOK
  <1>5. \A c : SettledBelow(c) => SettledBelow(c)'
    BY <1>2 DEF SettledBelow
  <1>6. \A f, l, b : RangeOK(f, l, b) => RangeOK(f, l, b)'
    BY DEF RangeOK, NonEmpty
  <1>7. \A m, f : StartOK(m, f) => StartOK(m, f)'
    BY <1>1 DEF StartOK
  <1>8. SettledBelow(r.last_slot + 1)'
    <2>1. /\ r.first_slot \in Nat \ {0} /\ r.last_slot \in r.first_slot..Len(chain)
          /\ r.da_hash.blocks = NonEmpty(r.first_slot, r.last_slot)
      BY DEF RecordOK, RangeOK
    <2>2. r.last_slot + 1 \in 1..Len(chain) + 1
      BY <1>3, <2>1
    <2>3. ASSUME NEW s \in 1..Len(chain), s < r.last_slot + 1, chain[s] # "empty"
          PROVE  s \in Settled'
      <3>1. s < r.first_slot \/ s \in r.first_slot..r.last_slot
        BY <1>3, <2>1, <2>3
      <3>2. CASE s < r.first_slot
        BY <1>2, <1>4, <2>3, <3>2 DEF SettledBelow
      <3>3. CASE s \in r.first_slot..r.last_slot
        BY <1>2, <2>1, <2>3, <3>3 DEF NonEmpty
      <3> QED
        BY <3>1, <3>2, <3>3
    <2> QED
      BY <2>2, <2>3 DEF SettledBelow
  <1>9. (\A i \in 1..Len(batches) : LandedOK(batches[i]))'
    <2> SUFFICES ASSUME NEW i \in 1..Len(batches')
                 PROVE  LandedOK(batches[i])'
      OBVIOUS
    <2>1. CASE i \in 1..n
      BY <1>1, <1>5, <1>6, <2>1 DEF BInv, LandedOK
    <2>2. CASE i = n + 1
      BY <1>1, <1>6, <1>8, <2>2 DEF RecordOK, LandedOK
    <2> QED
      BY <1>1, <2>1, <2>2
  <1> QED
    BY <1>1, <1>3, <1>4, <1>5, <1>6, <1>7, <1>8, <1>9 DEF Grows, BInv

LEMMA IxKeeps ==
  ASSUME Grows, NEW ix, IxOK(ix)
  PROVE  IxOK(ix)'
  BY DEF Grows, IxOK, RecordOK

\* What a step that leaves the thread's position alone keeps.
LEMMA PositionKeeps ==
  ASSUME BInv, Grows, UNCHANGED <<b_read, b_cursor, b_no>>
  PROVE  /\ SettledBelow(b_read)' /\ StartOK(b_no, b_cursor)'
         /\ b_cursor' \in 1..Len(chain') + 1
  <1>1. Len(chain) \in Nat /\ Len(chain') \in Nat /\ Len(chain) <= Len(chain')
    BY LenNat DEF BInv, Grows
  <1>2. SettledBelow(b_read)' /\ StartOK(b_no, b_cursor)'
    BY DEF BInv, Grows
  <1>3. b_cursor' \in 1..Len(chain') + 1
    BY <1>1 DEF BInv
  <1> QED
    BY <1>2, <1>3

LEMMA LateKeeps ==
  ASSUME BInv, Grows, late' \subseteq late \cup {[id |-> faults, ix |-> out]},
         out_st = "none" => late' \subseteq late
  PROVE  (\A m \in late : IxOK(m.ix))'
  <1> SUFFICES ASSUME NEW m \in late'
               PROVE  IxOK(m.ix)'
    OBVIOUS
  <1>1. IxOK(m.ix)
    BY DEF BInv
  <1> QED
    BY <1>1, IxKeeps

\* What a step outside the thread keeps of its run.
LEMMA RunKeeps ==
  ASSUME BInv, Grows,
         UNCHANGED <<b_pc, b_payload, b_state, b_no, b_cursor, out, out_st>>
  PROVE  RunOK' /\ (out_st # "none" => IxOK(out))'
  <1>1. b_no \in Nat /\ Len(batches) \in Nat /\ Len(batches') \in Nat
        /\ Len(batches) <= Len(batches')
    BY LenNat DEF BInv, Grows, StartOK
  <1>2. (b_pc \in {"send", "wait"} =>
          /\ b_payload.batch_no = b_no /\ b_payload.first_slot = b_cursor
          /\ RangeOK(b_payload.first_slot, b_payload.last_slot, b_payload.blocks)
          /\ b_state = b_payload.last_slot)'
    BY DEF BInv, RunOK, Grows
  <1>3. ((b_pc = "wait" /\ out.kind = "batch") =>
          out.arg.batch_no = b_no /\ out.arg.last_slot = b_payload.last_slot)'
    BY DEF BInv, RunOK
  <1>4. ((b_pc = "wait" /\ out.kind = "batch" /\ out_st = "ok") =>
          b_no < Len(batches) /\ SettledBelow(b_payload.last_slot + 1))'
    BY <1>1 DEF BInv, RunOK, Grows
  <1>5. (out_st # "none" => IxOK(out))'
    BY IxKeeps DEF BInv
  <1> QED
    BY <1>2, <1>3, <1>4, <1>5 DEF RunOK

\* A transaction executes: nothing happens to the records, or a record lands.
LEMMA ExecuteGrows ==
  ASSUME BInv, UNCHANGED chain, NEW ix, IxOK(ix), Execute(ix)
  PROVE  /\ Grows
         /\ (ix.kind = "batch" /\ ~Fails(ix)) =>
              /\ SettledBelow(ix.arg.last_slot + 1)' /\ Len(batches') = ix.arg.batch_no + 1
  <1>1. CASE ix.kind = "chunk"
    BY <1>1, StayGrows DEF Execute
  <1>2. CASE ix.kind = "batch" /\ PostBatchAccepts(ix.arg)
    BY <1>2, LandGrows DEF Execute, IxOK
  <1>3. CASE ix.kind = "batch" /\ ~PostBatchAccepts(ix.arg)
    BY <1>3, StayGrows DEF Execute, Fails
  <1> QED
    BY <1>1, <1>2, <1>3 DEF IxOK

LEMMA LandOK ==
  ASSUME BInv, Land
  PROVE  BInv'
  <1>1. /\ UNCHANGED <<chain, out, late, b_pc, b_read, b_cursor, b_no, b_payload, b_state>>
        /\ out_st = "sent" /\ Execute(out) /\ out_st' = IF Fails(out) THEN "failed" ELSE "ok"
    BY DEF Land, l2Vars, batcherVars, runVars
  <1>2. IxOK(out)
    BY <1>1 DEF BInv
  <1>3. /\ Grows
        /\ (out.kind = "batch" /\ ~Fails(out)) =>
             /\ SettledBelow(out.arg.last_slot + 1)' /\ Len(batches') = out.arg.batch_no + 1
    BY <1>1, <1>2, ExecuteGrows
  <1>4. IxOK(out)'
    BY <1>1, <1>2, <1>3, IxKeeps
  <1>5. RunOK'
    <2>1. (b_pc \in {"send", "wait"} =>
            /\ b_payload.batch_no = b_no /\ b_payload.first_slot = b_cursor
            /\ RangeOK(b_payload.first_slot, b_payload.last_slot, b_payload.blocks)
            /\ b_state = b_payload.last_slot)'
      BY <1>1, <1>3 DEF BInv, RunOK, Grows
    <2>2. ((b_pc = "wait" /\ out.kind = "batch") =>
            out.arg.batch_no = b_no /\ out.arg.last_slot = b_payload.last_slot)'
      BY <1>1 DEF BInv, RunOK
    <2>3. ASSUME b_pc = "wait", out.kind = "batch", out_st' = "ok"
          PROVE  (b_no < Len(batches) /\ SettledBelow(b_payload.last_slot + 1))'
      <3>1. ~Fails(out) /\ out.arg.batch_no = b_no /\ out.arg.last_slot = b_payload.last_slot
        BY <1>1, <2>3 DEF BInv, RunOK
      <3>2. b_no \in Nat
        BY DEF BInv, StartOK
      <3> QED
        BY <1>1, <1>3, <2>3, <3>1, <3>2
    <2> QED
      BY <1>1, <2>1, <2>2, <2>3 DEF RunOK
  <1>6. /\ SettledBelow(b_read)' /\ StartOK(b_no, b_cursor)'
        /\ b_cursor' \in 1..Len(chain') + 1
    BY <1>1, <1>3, PositionKeeps
  <1>7. (\A m \in late : IxOK(m.ix))'
    BY <1>1, <1>3, LateKeeps
  <1> QED
    BY <1>3, <1>4, <1>5, <1>6, <1>7 DEF BInv, Grows

\* The steps of the producer and of transactions nobody waits for.
LEMMA OutsideOK ==
  ASSUME BInv, Grows, late' \subseteq late,
         UNCHANGED <<out, out_st, b_pc, b_read, b_cursor, b_no, b_payload, b_state>>
  PROVE  BInv'
  <1>1. RunOK' /\ (out_st # "none" => IxOK(out))'
    BY RunKeeps
  <1>2. /\ SettledBelow(b_read)' /\ StartOK(b_no, b_cursor)'
        /\ b_cursor' \in 1..Len(chain') + 1
    BY PositionKeeps
  <1>3. (\A m \in late : IxOK(m.ix))'
    BY LateKeeps
  <1> QED
    BY <1>1, <1>2, <1>3 DEF BInv, Grows

\* A step of the thread that waits for nothing and runs nothing afterwards.
LEMMA RestingOK ==
  ASSUME BInv, Grows, b_pc' \notin {"send", "wait"},
         late' \subseteq late \cup {[id |-> faults, ix |-> out]},
         out_st = "none" => late' \subseteq late,
         \/ out_st' = "none"
         \/ UNCHANGED <<out, out_st>>,
         SettledBelow(b_read)', StartOK(b_no, b_cursor)', b_cursor' \in 1..Len(chain') + 1
  PROVE  BInv'
  <1>1. (\A m \in late : IxOK(m.ix))'
    BY LateKeeps
  <1>2. (out_st # "none" => IxOK(out))'
    BY IxKeeps DEF BInv
  <1>3. RunOK'
    BY DEF RunOK
  <1> QED
    BY <1>1, <1>2, <1>3 DEF BInv, Grows

LEMMA ReadCursorOK ==
  ASSUME BInv, ReadCursor
  PROVE  BInv'
  <1>1. /\ UNCHANGED <<chain, batches, out, out_st, late, b_cursor, b_no>> /\ b_pc' = "number"
        /\ b_read' = IF batches = <<>> THEN 1 ELSE batches[Len(batches)].last_slot + 1
    BY DEF ReadCursor, l2Vars, l1Vars, netVars, batcherVars
  <1>2. Grows
    BY <1>1, StayGrows
  <1>3. SettledBelow(b_read')
    <2>1. CASE batches = <<>>
      <3>1. Len(chain) \in Nat /\ b_read' = 1
        BY <1>1, <2>1, LenNat DEF BInv
      <3> QED
        BY <3>1 DEF SettledBelow
    <2>2. CASE batches # <<>>
      <3>1. PICK S : batches \in Seq(S)
        BY DEF BInv, IsSeq
      <3>2. Len(batches) \in 1..Len(batches)
        BY <2>2, <3>1
      <3> QED
        BY <1>1, <2>2, <3>2 DEF BInv, LandedOK
    <2> QED
      BY <2>1, <2>2
  <1>4. SettledBelow(b_read)'
    BY <1>2, <1>3 DEF Grows
  <1>5. StartOK(b_no, b_cursor)' /\ b_cursor' \in 1..Len(chain') + 1
    BY <1>1, <1>2 DEF BInv, Grows
  <1> QED
    BY <1>1, <1>2, <1>4, <1>5, RestingOK

LEMMA ReadNumberOK ==
  ASSUME BInv, ReadNumber
  PROVE  BInv'
  <1>1. /\ UNCHANGED <<chain, batches, out, out_st, late, b_read>> /\ b_pc' = "ready"
        /\ b_cursor' = b_read /\ b_no' = Len(batches)
    BY DEF ReadNumber, l2Vars, l1Vars, netVars
  <1>2. Grows
    BY <1>1, StayGrows
  <1>3. SettledBelow(b_read) /\ Len(batches) \in Nat
    BY LenNat DEF BInv
  <1>4. SettledBelow(b_read)'
    BY <1>1, <1>2, <1>3 DEF Grows
  <1>5. StartOK(Len(batches), b_read)
    BY <1>3 DEF StartOK
  <1>6. StartOK(b_no, b_cursor)'
    BY <1>1, <1>2, <1>5 DEF Grows
  <1>7. b_cursor' \in 1..Len(chain') + 1
    BY <1>1, <1>3 DEF SettledBelow
  <1> QED
    BY <1>1, <1>2, <1>4, <1>6, <1>7, RestingOK

\* build_batcher or a post fails, or the process dies.
LEMMA FailOK ==
  ASSUME BInv, BuildFails \/ PostFails
  PROVE  BInv'
  <1>1. UNCHANGED <<chain, batches, b_read, b_cursor, b_no>>
    BY DEF BuildFails, PostFails, l2Vars, l1Vars, batcherVars
  <1>2. /\ b_pc' \notin {"send", "wait"}
        /\ out_st' = "none" \/ UNCHANGED <<out, out_st>>
    BY DEF BuildFails, PostFails, netVars
  <1>3. /\ late' \subseteq late \cup {[id |-> faults, ix |-> out]}
        /\ out_st = "none" => late' \subseteq late
    BY DEF BuildFails, PostFails, netVars, Abandoned
  <1>4. Grows
    BY <1>1, StayGrows
  <1> QED
    BY <1>1, <1>2, <1>3, <1>4, PositionKeeps, RestingOK

LEMMA CrashOK ==
  ASSUME BInv, CrashRestart
  PROVE  BInv'
  <1>1. /\ UNCHANGED <<chain, batches>> /\ b_read' = 1 /\ b_cursor' = 1 /\ b_no' = 0
        /\ b_pc' = "cursor" /\ out_st' = "none"
    BY DEF CrashRestart, l1Vars
  <1>2. /\ late' \subseteq late \cup {[id |-> faults, ix |-> out]}
        /\ out_st = "none" => late' \subseteq late
    BY DEF CrashRestart, Abandoned
  <1>3. Grows /\ Len(chain) \in Nat /\ Len(batches) \in Nat
    BY <1>1, StayGrows, LenNat DEF BInv
  <1>4. SettledBelow(1)
    BY <1>3 DEF SettledBelow
  <1>5. SettledBelow(b_read)' /\ b_cursor' \in 1..Len(chain') + 1
    BY <1>1, <1>3, <1>4 DEF Grows
  <1>6. StartOK(0, 1)
    BY <1>3, <1>4 DEF StartOK
  <1>7. StartOK(b_no, b_cursor)'
    BY <1>1, <1>3, <1>6 DEF Grows
  <1> QED
    BY <1>1, <1>2, <1>3, <1>5, <1>7, RestingOK

\* run_once reads its range: it passes over slots without transactions, or has the
\* payload of the whole range.
LEMMA CollectOK ==
  ASSUME RangeLimit >= Interval, BInv, Collect
  PROVE  BInv'
  <1>1. /\ UNCHANGED <<chain, batches, out, out_st, late, b_read, b_no>>
        /\ b_pc = "ready" /\ Len(chain) >= b_cursor
    BY DEF Collect, l2Vars, l1Vars, netVars, batcherVars
  <1>2. Grows /\ Len(chain) \in Nat /\ b_cursor \in 1..Len(chain) + 1 /\ IsSeq(chain)
    BY <1>1, StayGrows, LenNat DEF BInv
  <1>3. Tip \in b_cursor..Len(chain) /\ LastRead = Tip
    BY <1>1, <1>2, TipFacts
  <1>4. CASE NonEmpty(b_cursor, LastRead) = {}
    <2>1. b_cursor' = Tip + 1 /\ b_pc' = "ready"
      BY <1>1, <1>4 DEF Collect
    <2>2. ASSUME SettledBelow(b_cursor)
          PROVE  SettledBelow(Tip + 1)
      <3>1. Tip + 1 \in 1..Len(chain) + 1
        BY <1>2, <1>3
      <3>2. ASSUME NEW s \in 1..Len(chain), s < Tip + 1, chain[s] # "empty"
            PROVE  s < b_cursor
        <4>1. s \notin b_cursor..Tip
          BY <1>3, <1>4, <3>2 DEF NonEmpty
        <4> QED
          BY <1>2, <1>3, <3>2, <4>1
      <3> QED
        BY <2>2, <3>1, <3>2 DEF SettledBelow
    <2>3. StartOK(b_no, Tip + 1)
      BY <2>2 DEF BInv, StartOK
    <2>4. StartOK(b_no, b_cursor)' /\ SettledBelow(b_read)'
      BY <1>1, <1>2, <2>1, <2>3 DEF Grows, BInv
    <2>5. b_cursor' \in 1..Len(chain') + 1
      BY <1>1, <1>2, <1>3, <2>1
    <2> QED
      BY <1>1, <1>2, <2>1, <2>4, <2>5, RestingOK
  <1>5. CASE NonEmpty(b_cursor, LastRead) # {}
    <2>1. /\ b_payload' = [batch_no |-> b_no, first_slot |-> b_cursor, last_slot |-> Tip,
                            blocks |-> NonEmpty(b_cursor, Tip)]
          /\ b_state' = Tip /\ b_pc' = "send" /\ UNCHANGED <<b_cursor, b_no>>
      BY <1>3, <1>5 DEF Collect, batcherVars
    <2>2. RangeOK(b_cursor, Tip, NonEmpty(b_cursor, Tip))
      BY <1>2, <1>3 DEF RangeOK
    <2>3. RunOK'
      BY <1>2, <2>1, <2>2 DEF RunOK, Grows
    <2>4. /\ SettledBelow(b_read)' /\ StartOK(b_no, b_cursor)'
          /\ b_cursor' \in 1..Len(chain') + 1
      BY <1>1, <1>2, <2>1, PositionKeeps
    <2>5. (\A m \in late : IxOK(m.ix))' /\ (out_st # "none" => IxOK(out))'
      BY <1>1, <1>2, LateKeeps, IxKeeps DEF BInv
    <2> QED
      BY <1>2, <2>3, <2>4, <2>5 DEF BInv, Grows
  <1> QED
    BY <1>4, <1>5

\* The next chunk, or the record, goes out.
LEMMA SendOK ==
  ASSUME BInv, Send
  PROVE  BInv'
  <1> DEFINE r == BatchRecord(b_payload, b_state, st_root)
  <1>1. /\ UNCHANGED <<chain, batches, late, b_read, b_cursor, b_no, b_payload, b_state>>
        /\ b_pc = "send" /\ b_pc' = "wait" /\ out_st' = "sent"
        /\ out' = PostChunkIx(b_payload, b_next) \/ out' = PostBatchIx(r)
    BY DEF Send, l2Vars, l1Vars, batcherVars, runVars
  <1>2. Grows
    BY <1>1, StayGrows
  <1>3. /\ r.batch_no = b_no /\ r.first_slot = b_cursor /\ r.last_slot = b_payload.last_slot
        /\ r.da_hash.blocks = b_payload.blocks /\ r.state_root = b_payload.last_slot
        /\ RangeOK(b_cursor, b_payload.last_slot, b_payload.blocks)
    BY <1>1 DEF BatchRecord, BInv, RunOK
  <1> HIDE DEF r
  <1>4. RecordOK(r)
    BY <1>3 DEF RecordOK, BInv
  <1>5. /\ IxOK(out')
        /\ out'.kind = "batch" => out'.arg = r
    BY <1>1, <1>4 DEF IxOK, PostChunkIx, PostBatchIx
  <1>6. IxOK(out)'
    BY <1>2, <1>5 DEF Grows, IxOK, RecordOK
  <1>7. RunOK'
    BY <1>1, <1>2, <1>3, <1>5 DEF BInv, RunOK, Grows
  <1>8. /\ SettledBelow(b_read)' /\ StartOK(b_no, b_cursor)'
        /\ b_cursor' \in 1..Len(chain') + 1
    BY <1>1, <1>2, PositionKeeps
  <1>9. (\A m \in late : IxOK(m.ix))'
    BY <1>1, <1>2, LateKeeps
  <1> QED
    BY <1>2, <1>6, <1>7, <1>8, <1>9 DEF BInv, Grows

\* A confirmation: on to the next chunk, or past the batch.
LEMMA ConfirmOK ==
  ASSUME BInv, Confirm
  PROVE  BInv'
  <1>1. /\ UNCHANGED <<chain, batches, late, b_read, b_payload, b_state>>
        /\ b_pc = "wait" /\ out_st = "ok" /\ out_st' = "none"
    BY DEF Confirm, l2Vars, l1Vars
  <1>2. Grows
    BY <1>1, StayGrows
  <1>3. SettledBelow(b_read)' /\ (\A m \in late : IxOK(m.ix))'
    BY <1>1, <1>2, LateKeeps DEF BInv, Grows
  <1>4. CASE out.kind = "chunk"
    <2>1. b_pc' = "send" /\ UNCHANGED <<b_cursor, b_no>>
      BY <1>4 DEF Confirm, batcherVars
    <2>2. RunOK'
      BY <1>1, <1>2, <2>1 DEF BInv, RunOK, Grows
    <2>3. StartOK(b_no, b_cursor)' /\ b_cursor' \in 1..Len(chain') + 1
      BY <1>1, <1>2, <2>1, PositionKeeps
    <2> QED
      BY <1>1, <1>2, <1>3, <2>2, <2>3 DEF BInv, Grows
  <1>5. CASE out.kind = "batch"
    <2>1. b_pc' = "ready" /\ b_cursor' = b_payload.last_slot + 1 /\ b_no' = b_no + 1
      BY <1>5 DEF Confirm
    <2>2. b_no < Len(batches) /\ SettledBelow(b_payload.last_slot + 1)
      BY <1>1, <1>5 DEF BInv, RunOK
    <2>3. b_no \in Nat /\ Len(batches) \in Nat
      BY LenNat DEF BInv, StartOK
    <2>4. StartOK(b_no + 1, b_payload.last_slot + 1)
      BY <2>2, <2>3 DEF StartOK
    <2>5. StartOK(b_no, b_cursor)'
      BY <1>2, <2>1, <2>4 DEF Grows
    <2>6. b_cursor' \in 1..Len(chain') + 1
      BY <1>1, <2>1, <2>2 DEF SettledBelow
    <2> QED
      BY <1>1, <1>2, <1>3, <2>1, <2>5, <2>6, RestingOK
  <1> QED
    BY <1>1, <1>4, <1>5 DEF BInv, IxOK

LEMMA NextOK ==
  ASSUME RangeLimit >= Interval, BInv, [Next]_vars
  PROVE  BInv'
  <1>1. ASSUME NEW k \in Kinds, CommitBlock(k)
        PROVE  BInv'
    <2>1. /\ chain' = Append(chain, k) /\ UNCHANGED batches /\ late' \subseteq late
          /\ UNCHANGED <<out, out_st, b_pc, b_read, b_cursor, b_no, b_payload, b_state>>
      BY <1>1 DEF CommitBlock, l1Vars, netVars, batcherVars, runVars
    <2> QED
      BY <2>1, CommitGrows, OutsideOK
  <1>2. ASSUME NEW m \in late, LandLate(m)
        PROVE  BInv'
    <2>1. /\ UNCHANGED chain /\ Execute(m.ix) /\ late' \subseteq late
          /\ UNCHANGED <<out, out_st, b_pc, b_read, b_cursor, b_no, b_payload, b_state>>
      BY <1>2 DEF LandLate, l2Vars, batcherVars, runVars
    <2>2. IxOK(m.ix)
      BY DEF BInv
    <2>3. Grows
      BY <2>1, <2>2, ExecuteGrows
    <2> QED
      BY <2>1, <2>3, OutsideOK
  <1>3. CASE PublishRoot \/ (\E o \in Others : PostOther(o)) \/ (\E m \in late : Expire(m))
             \/ UNCHANGED vars
    <2>1. /\ UNCHANGED <<chain, batches>> /\ late' \subseteq late
          /\ UNCHANGED <<out, out_st, b_pc, b_read, b_cursor, b_no, b_payload, b_state>>
      BY <1>3 DEF PublishRoot, PostOther, Expire, vars, l2Vars, l1Vars, netVars, batcherVars,
                  runVars
    <2> QED
      BY <2>1, StayGrows, OutsideOK
  <1>4. CASE Batching
    BY <1>4, ReadCursorOK, ReadNumberOK, CollectOK, SendOK, ConfirmOK DEF Batching
  <1>5. CASE Land \/ BuildFails \/ PostFails \/ CrashRestart
    BY <1>5, LandOK, FailOK, CrashOK
  <1> QED
    BY <1>1, <1>2, <1>3, <1>4, <1>5 DEF Next

\* The inductive invariant, for every interval that one range query can return.
THEOREM BatcherInvariant ==
  ASSUME RangeLimit >= Interval
  PROVE  Spec => []BInv
  <1>1. Init => BInv
    BY InitOK
  <1>2. BInv /\ [Next]_vars => BInv'
    BY NextOK
  <1> QED
    BY <1>1, <1>2, PTL DEF Spec

\* Every record on L1 commits to exactly the non-empty blocks of its range and to
\* the state after it (RecordFaithful), whatever was lost, late or repeated.
THEOREM RecordsAlwaysFaithful ==
  ASSUME RangeLimit >= Interval
  PROVE  Spec => []RecordFaithful
  <1>1. BInv => RecordFaithful
    BY DEF BInv, LandedOK, RangeOK, RecordFaithful
  <1> QED
    BY <1>1, BatcherInvariant, PTL

\* Every non-empty block up to the last slot of any batch on L1 is in some batch
\* (NothingSkipped): re-deriving the cursor after a failure leaves no gap.
THEOREM NoBlockSkipped ==
  ASSUME RangeLimit >= Interval
  PROVE  Spec => []NothingSkipped
  <1>1. ASSUME BInv
        PROVE  NothingSkipped
    <2> SUFFICES ASSUME NEW i \in 1..Len(batches), NEW s \in NonEmpty(1, batches[i].last_slot)
                 PROVE  s \in Settled
      BY DEF NothingSkipped
    <2>1. /\ s \in 1..batches[i].last_slot /\ s \in 1..Len(chain) /\ chain[s] # "empty"
      BY DEF NonEmpty
    <2>2. SettledBelow(batches[i].last_slot + 1) /\ Len(chain) \in Nat
          /\ batches[i].last_slot + 1 \in 1..Len(chain) + 1
          /\ batches[i].last_slot \in batches[i].first_slot..Len(chain)
          /\ batches[i].first_slot \in Nat
      BY <1>1, LenNat DEF BInv, LandedOK, SettledBelow, RangeOK
    <2>3. s < batches[i].last_slot + 1
      BY <2>1, <2>2
    <2> QED
      BY <2>1, <2>2, <2>3 DEF SettledBelow
  <1> QED
    BY <1>1, BatcherInvariant, PTL

----------------------------------------------------------------------------
\* Settlement implements SettlementLog.

\* A record that lands settles a prefix of the chain.
LEMMA LandSettles ==
  ASSUME BInv, UNCHANGED chain, NEW r, RecordOK(r), PostBatchAccepts(r),
         batches' = Append(batches, r)
  PROVE  Log!Settle
  <1>1. /\ r.first_slot \in Nat \ {0} /\ r.last_slot \in r.first_slot..Len(chain)
        /\ r.da_hash.blocks = NonEmpty(r.first_slot, r.last_slot) /\ Len(chain) \in Nat
        /\ r.last_slot \in 1..Len(chain)
    BY LenNat DEF RecordOK, RangeOK, BInv
  <1>2. SettledBelow(r.first_slot)
    BY DEF PostBatchAccepts, RecordOK, StartOK
  <1>3. Settled' = Settled \cup r.da_hash.blocks
    BY SettledAppend DEF BInv
  <1>4. ASSUME NEW s
        PROVE  s \in Settled' <=> s \in Settled \/ s \in Log!NonEmptyUpTo(chain, r.last_slot)
    <2>1. ASSUME s \in r.da_hash.blocks
          PROVE  s \in Log!NonEmptyUpTo(chain, r.last_slot)
      BY <1>1, <2>1 DEF NonEmpty, Log!NonEmptyUpTo
    <2>2. ASSUME s \in Log!NonEmptyUpTo(chain, r.last_slot)
          PROVE  s \in Settled \/ s \in r.da_hash.blocks
      <3>1. s \in 1..Len(chain) /\ s <= r.last_slot /\ chain[s] # "empty"
        BY <2>2 DEF Log!NonEmptyUpTo
      <3>2. s < r.first_slot \/ s \in r.first_slot..r.last_slot
        BY <1>1, <3>1
      <3> QED
        BY <1>1, <1>2, <3>1, <3>2 DEF SettledBelow, NonEmpty
    <2> QED
      BY <1>3, <2>1, <2>2
  <1>5. Settled' = Settled \cup Log!NonEmptyUpTo(chain, r.last_slot)
    BY <1>4
  <1> QED
    BY <1>1, <1>5 DEF Log!Settle

LEMMA ExecuteSettles ==
  ASSUME BInv, UNCHANGED chain, NEW ix, IxOK(ix), Execute(ix)
  PROVE  Log!Settle \/ UNCHANGED <<chain, Settled>>
  <1>1. CASE ix.kind = "batch" /\ PostBatchAccepts(ix.arg)
    BY <1>1, LandSettles DEF Execute, IxOK
  <1>2. CASE ix.kind = "chunk" \/ ~PostBatchAccepts(ix.arg)
    BY <1>2 DEF Execute, Settled
  <1> QED
    BY <1>1, <1>2 DEF IxOK

LEMMA StepSettles ==
  ASSUME BInv, [Next]_vars
  PROVE  [Log!Next]_<<chain, Settled>>
  <1>1. ASSUME NEW k \in Kinds, CommitBlock(k)
        PROVE  Log!Produce
    BY <1>1 DEF CommitBlock, l1Vars, Settled, Log!Produce
  <1>2. ASSUME NEW m \in late, LandLate(m)
        PROVE  Log!Settle \/ UNCHANGED <<chain, Settled>>
    BY <1>2, ExecuteSettles DEF LandLate, l2Vars, BInv
  <1>3. ASSUME Land
        PROVE  Log!Settle \/ UNCHANGED <<chain, Settled>>
    BY <1>3, ExecuteSettles DEF Land, l2Vars, BInv
  <1>4. CASE PublishRoot \/ (\E o \in Others : PostOther(o)) \/ (\E m \in late : Expire(m))
             \/ Batching \/ BuildFails \/ PostFails \/ CrashRestart \/ UNCHANGED vars
    <2>1. UNCHANGED <<chain, batches>>
      BY <1>4, Zenon DEF PublishRoot, PostOther, Expire, Batching, ReadCursor, ReadNumber,
                  Collect, Send, Confirm, BuildFails, PostFails, CrashRestart, vars, l2Vars, l1Vars
    <2> QED
      BY <2>1 DEF Settled
  <1> QED
    BY <1>1, <1>2, <1>3, <1>4 DEF Next, Log!Next

\* Batches, chunks, confirmations, retries, late landings and restarts implement
\* the log of a growing settled prefix (SettlesPrefix).
THEOREM SettlementImplementsLog ==
  ASSUME RangeLimit >= Interval
  PROVE  Spec => SettlesPrefix
  <1>1. Init => Log!Init
    BY DEF Init, Log!Init, Settled
  <1>2. BInv /\ [Next]_vars => [Log!Next]_<<chain, Settled>>
    BY StepSettles
  <1> QED
    BY <1>1, <1>2, BatcherInvariant, PTL DEF Spec, SettlesPrefix, Log!Spec, Log!logVars

----------------------------------------------------------------------------
\* A record's data is in the DA log before the record is on L1.

InLog(c) == c \in BagToSet(da_log)

Backed(p) == \A c \in Chunks(p) : InLog(c)

IxBacked(ix) == ix.kind = "batch" => Backed(ix.arg.da_hash)

\* The chunks that run_once has seen confirmed, and the one it waits for.
SentOK ==
  /\ b_pc \in {"send", "wait"} =>
       /\ IsFiniteSet(b_payload.blocks) /\ b_next \in Nat
       /\ \A i \in 0..b_next - 1 : InLog(Chunk(b_payload, i))
  /\ (b_pc = "wait" /\ out.kind = "chunk") =>
       out.arg = Chunk(b_payload, b_next) /\ (out_st = "ok" => InLog(out.arg))

DInv ==
  /\ IsSeq(batches) /\ \A i \in 1..Len(batches) : Backed(batches[i].da_hash)
  /\ out_st # "none" => IxBacked(out)
  /\ \A m \in late : IxBacked(m.ix)
  /\ SentOK

\* Nothing leaves the DA log.
LogGrows == \A c : InLog(c) => InLog(c)'

LEMMA AddGrows ==
  ASSUME NEW c, da_log' = da_log (+) SetToBag({c})
  PROVE  LogGrows /\ InLog(c)'
  BY DEF LogGrows, InLog, BagToSet, SetToBag, (+)

LEMMA SameGrows ==
  ASSUME UNCHANGED da_log
  PROVE  LogGrows
  BY DEF LogGrows, InLog

LEMMA BackedKept ==
  ASSUME LogGrows
  PROVE  /\ \A p : Backed(p) => Backed(p)'
         /\ \A ix : IxBacked(ix) => IxBacked(ix)'
  <1>1. \A p : Chunks(p)' = Chunks(p)
    BY DEF Chunks, Chunk, ChunkCount
  <1>2. \A p : Backed(p) => Backed(p)'
    BY <1>1 DEF Backed, LogGrows
  <1> QED
    BY <1>2 DEF IxBacked

\* A transaction executes: a record lands only with its data.
LEMMA ExecuteBacked ==
  ASSUME DInv, NEW ix, IxOK(ix), IxBacked(ix), Execute(ix)
  PROVE  /\ LogGrows /\ IsSeq(batches')
         /\ (\A i \in 1..Len(batches) : Backed(batches[i].da_hash))'
         /\ ix.kind = "chunk" => InLog(ix.arg)'
  <1>1. CASE ix.kind = "chunk"
    <2>1. da_log' = da_log (+) SetToBag({ix.arg}) /\ UNCHANGED batches
      BY <1>1 DEF Execute
    <2>2. LogGrows /\ InLog(ix.arg)'
      BY <2>1, AddGrows
    <2> QED
      BY <2>1, <2>2, BackedKept DEF DInv
  <1>2. CASE ix.kind = "batch"
    <2>1. LogGrows
      BY <1>2, SameGrows DEF Execute
    <2>2. CASE UNCHANGED batches
      BY <1>2, <2>1, <2>2, BackedKept DEF DInv
    <2>3. CASE batches' = Append(batches, ix.arg)
      <3>1. /\ IsSeq(batches') /\ Len(batches) \in Nat /\ Len(batches') = Len(batches) + 1
            /\ batches'[Len(batches) + 1] = ix.arg
            /\ \A i \in 1..Len(batches) : batches'[i] = batches[i]
        BY <2>3, AppendSeq DEF DInv
      <3>2. ASSUME NEW i \in 1..Len(batches')
            PROVE  Backed(batches[i].da_hash)'
        <4>1. CASE i \in 1..Len(batches)
          BY <2>1, <3>1, <4>1, BackedKept DEF DInv
        <4>2. CASE i = Len(batches) + 1
          BY <1>2, <2>1, <3>1, <4>2, BackedKept DEF IxBacked
        <4> QED
          BY <3>1, <4>1, <4>2
      <3> QED
        BY <1>2, <2>1, <3>1, <3>2
    <2> QED
      BY <1>2, <2>2, <2>3 DEF Execute
  <1> QED
    BY <1>1, <1>2 DEF IxOK

\* What a step keeps that neither sends nor confirms.
LEMMA SentKept ==
  ASSUME DInv, LogGrows, UNCHANGED <<b_pc, b_payload, b_next, out>>,
         out_st' = "ok" => out_st = "ok" \/ (out.kind = "chunk" => InLog(out.arg)')
  PROVE  SentOK'
  <1>1. SentOK
    BY DEF DInv
  <1>2. \A p, i : Chunk(p, i)' = Chunk(p, i)
    BY DEF Chunk
  <1> QED
    BY <1>1, <1>2 DEF SentOK, LogGrows

LEMMA LateBacked ==
  ASSUME DInv, LogGrows, late' \subseteq late \cup {[id |-> faults, ix |-> out]},
         out_st = "none" => late' \subseteq late
  PROVE  (\A m \in late : IxBacked(m.ix))'
  <1> SUFFICES ASSUME NEW m \in late'
               PROVE  IxBacked(m.ix)'
    OBVIOUS
  <1>1. IxBacked(m.ix)
    BY DEF DInv
  <1> QED
    BY <1>1, BackedKept

\* A step that leaves L1 alone keeps its records.
LEMMA RecordsBacked ==
  ASSUME DInv, LogGrows, UNCHANGED batches
  PROVE  IsSeq(batches') /\ (\A i \in 1..Len(batches) : Backed(batches[i].da_hash))'
  BY BackedKept DEF DInv

\* A step of the thread after which it runs nothing.
LEMMA RestingBacked ==
  ASSUME DInv, UNCHANGED <<batches, da_log>>, b_pc' \notin {"send", "wait"},
         late' \subseteq late \cup {[id |-> faults, ix |-> out]},
         out_st = "none" => late' \subseteq late,
         \/ out_st' = "none"
         \/ UNCHANGED <<out, out_st>>
  PROVE  DInv'
  <1>1. LogGrows
    BY SameGrows
  <1>2. IsSeq(batches') /\ (\A i \in 1..Len(batches) : Backed(batches[i].da_hash))'
    BY <1>1, RecordsBacked
  <1>3. (\A m \in late : IxBacked(m.ix))'
    BY <1>1, LateBacked
  <1>4. (out_st # "none" => IxBacked(out))'
    BY <1>1, BackedKept DEF DInv
  <1>5. SentOK'
    BY DEF SentOK
  <1> QED
    BY <1>2, <1>3, <1>4, <1>5 DEF DInv

\* A step outside the thread that leaves the records alone.
LEMMA OutsideBacked ==
  ASSUME DInv, LogGrows, late' \subseteq late, UNCHANGED batches,
         UNCHANGED <<out, out_st, b_pc, b_payload, b_next>>
  PROVE  DInv'
  <1>1. IsSeq(batches') /\ (\A i \in 1..Len(batches) : Backed(batches[i].da_hash))'
    BY RecordsBacked
  <1>2. (\A m \in late : IxBacked(m.ix))'
    BY LateBacked
  <1>3. (out_st # "none" => IxBacked(out))'
    BY BackedKept DEF DInv
  <1>4. SentOK'
    BY SentKept
  <1> QED
    BY <1>1, <1>2, <1>3, <1>4 DEF DInv

LEMMA LandBacked ==
  ASSUME BInv, DInv, Land
  PROVE  DInv'
  <1>1. /\ UNCHANGED <<out, late, b_pc, b_payload, b_next>> /\ out_st = "sent" /\ Execute(out)
    BY DEF Land, runVars
  <1>2. IxOK(out) /\ IxBacked(out)
    BY <1>1 DEF BInv, DInv
  <1>3. /\ LogGrows /\ IsSeq(batches')
        /\ (\A i \in 1..Len(batches) : Backed(batches[i].da_hash))'
        /\ out.kind = "chunk" => InLog(out.arg)'
    BY <1>1, <1>2, ExecuteBacked
  <1>4. (\A m \in late : IxBacked(m.ix))'
    BY <1>1, <1>3, LateBacked
  <1>5. IxBacked(out)'
    BY <1>1, <1>2, <1>3, BackedKept
  <1>6. SentOK'
    BY <1>1, <1>3, SentKept
  <1> QED
    BY <1>3, <1>4, <1>5, <1>6 DEF DInv

LEMMA LandLateBacked ==
  ASSUME BInv, DInv, NEW m \in late, LandLate(m)
  PROVE  DInv'
  <1>1. /\ UNCHANGED <<out, out_st, b_pc, b_payload, b_next>> /\ Execute(m.ix)
        /\ late' \subseteq late
    BY DEF LandLate, runVars
  <1>2. IxOK(m.ix) /\ IxBacked(m.ix)
    BY DEF BInv, DInv
  <1>3. /\ LogGrows /\ IsSeq(batches')
        /\ (\A i \in 1..Len(batches) : Backed(batches[i].da_hash))'
    BY <1>1, <1>2, ExecuteBacked
  <1>4. (\A n \in late : IxBacked(n.ix))'
    BY <1>1, <1>3, LateBacked
  <1>5. (out_st # "none" => IxBacked(out))'
    BY <1>1, <1>3, BackedKept DEF DInv
  <1>6. SentOK'
    BY <1>1, <1>3, SentKept
  <1> QED
    BY <1>3, <1>4, <1>5, <1>6 DEF DInv

LEMMA CollectBacked ==
  ASSUME RangeLimit >= Interval, BInv, DInv, Collect
  PROVE  DInv'
  <1>1. /\ UNCHANGED <<batches, da_log, out, out_st, late>>
        /\ b_pc = "ready" /\ Len(chain) >= b_cursor
    BY DEF Collect, l1Vars, netVars
  <1>2. CASE NonEmpty(b_cursor, LastRead) = {}
    <2>1. b_pc' = "ready"
      BY <1>1, <1>2 DEF Collect
    <2> QED
      BY <1>1, <2>1, RestingBacked
  <1>3. CASE NonEmpty(b_cursor, LastRead) # {}
    <2>1. /\ b_payload'.blocks = NonEmpty(b_cursor, LastRead) /\ b_next' = 0
          /\ b_pc' = "send"
      BY <1>3 DEF Collect
    <2>2. b_cursor \in Int /\ LastRead \in Int
      <3>1. Len(chain) \in Nat /\ b_cursor \in 1..Len(chain) + 1 /\ IsSeq(chain)
        BY LenNat DEF BInv
      <3>2. Tip \in b_cursor..Len(chain) /\ LastRead = Tip
        BY <1>1, <3>1, TipFacts
      <3> QED
        BY <3>1, <3>2
    <2>3. IsFiniteSet(b_cursor..LastRead)
      BY <2>2, FS_Interval
    <2>4. IsFiniteSet(b_payload'.blocks)
      BY <2>1, <2>3, FS_Subset DEF NonEmpty
    <2>5. SentOK'
      BY <2>1, <2>4 DEF SentOK
    <2>6. LogGrows
      BY <1>1, SameGrows
    <2>7. IsSeq(batches') /\ (\A i \in 1..Len(batches) : Backed(batches[i].da_hash))'
      BY <1>1, <2>6, RecordsBacked
    <2>8. (\A m \in late : IxBacked(m.ix))' /\ (out_st # "none" => IxBacked(out))'
      BY <1>1, <2>6, LateBacked, BackedKept DEF DInv
    <2> QED
      BY <2>5, <2>7, <2>8 DEF DInv
  <1> QED
    BY <1>2, <1>3

\* The record goes out when every chunk has been confirmed.
LEMMA SendBacked ==
  ASSUME DInv, Send
  PROVE  DInv'
  <1>1. /\ UNCHANGED <<batches, da_log, late, b_payload, b_next>>
        /\ b_pc = "send" /\ b_pc' = "wait" /\ out_st' = "sent"
    BY DEF Send, l1Vars, runVars
  <1>2. /\ IsFiniteSet(b_payload.blocks) /\ b_next \in Nat
        /\ \A i \in 0..b_next - 1 : InLog(Chunk(b_payload, i))
    BY <1>1 DEF DInv, SentOK
  <1>3. ChunkCount(b_payload) \in Nat
    BY <1>2, FS_CardinalityType DEF ChunkCount
  <1>4. LogGrows
    BY <1>1, SameGrows
  <1>5. IsSeq(batches') /\ (\A i \in 1..Len(batches) : Backed(batches[i].da_hash))'
    BY <1>1, <1>4, RecordsBacked
  <1>6. (\A m \in late : IxBacked(m.ix))'
    BY <1>1, <1>4, LateBacked
  <1>7. /\ IxBacked(out')
        /\ out'.kind = "chunk" => out'.arg = Chunk(b_payload, b_next)
    <2>1. CASE b_next < ChunkCount(b_payload)
      BY <2>1 DEF Send, PostChunkIx, IxBacked
    <2>2. CASE ~(b_next < ChunkCount(b_payload))
      <3>1. out'.kind = "batch" /\ out'.arg.da_hash = b_payload
        BY <2>2 DEF Send, PostBatchIx, BatchRecord
      <3>2. 0..ChunkCount(b_payload) - 1 \subseteq 0..b_next - 1
        BY <1>2, <1>3, <2>2
      <3>3. Backed(b_payload)
        BY <1>2, <3>2, Zenon DEF Backed, Chunks
      <3> QED
        BY <3>1, <3>3 DEF IxBacked
    <2> QED
      BY <2>1, <2>2
  <1>8. IxBacked(out)'
    BY <1>4, <1>7, BackedKept
  <1>9. SentOK'
    <2>1. \A i \in 0..b_next - 1 : InLog(Chunk(b_payload, i))'
      BY <1>1, <1>2, <1>4 DEF LogGrows, Chunk
    <2>2. Chunk(b_payload, b_next)' = Chunk(b_payload, b_next)
      BY <1>1 DEF Chunk
    <2> QED
      BY <1>1, <1>2, <1>7, <2>1, <2>2 DEF SentOK
  <1> QED
    BY <1>5, <1>6, <1>8, <1>9 DEF DInv

LEMMA ConfirmBacked ==
  ASSUME BInv, DInv, Confirm
  PROVE  DInv'
  <1>1. /\ UNCHANGED <<batches, da_log, late, b_payload>>
        /\ b_pc = "wait" /\ out_st = "ok" /\ out_st' = "none"
    BY DEF Confirm, l1Vars
  <1>2. CASE out.kind = "chunk"
    <2>1. b_next' = b_next + 1 /\ b_pc' = "send"
      BY <1>2 DEF Confirm
    <2>2. /\ IsFiniteSet(b_payload.blocks) /\ b_next \in Nat
          /\ \A i \in 0..b_next - 1 : InLog(Chunk(b_payload, i))
          /\ InLog(Chunk(b_payload, b_next))
      BY <1>1, <1>2 DEF DInv, SentOK
    <2>3. \A i \in 0..(b_next + 1) - 1 : i \in 0..b_next - 1 \/ i = b_next
      BY <2>2
    <2>4. LogGrows
      BY <1>1, SameGrows
    <2>5. \A i \in 0..(b_next + 1) - 1 : InLog(Chunk(b_payload, i))
      BY <2>2, <2>3, Zenon
    <2>6. \A i \in 0..b_next' - 1 : InLog(Chunk(b_payload, i))'
      BY <1>1, <2>1, <2>4, <2>5 DEF LogGrows, Chunk
    <2>7. SentOK'
      BY <1>1, <2>1, <2>2, <2>6 DEF SentOK
    <2>8. IsSeq(batches') /\ (\A i \in 1..Len(batches) : Backed(batches[i].da_hash))'
      BY <1>1, <2>4, RecordsBacked
    <2>9. (\A m \in late : IxBacked(m.ix))'
      BY <1>1, <2>4, LateBacked
    <2> QED
      BY <1>1, <2>7, <2>8, <2>9 DEF DInv
  <1>3. CASE out.kind = "batch"
    <2>1. b_pc' = "ready"
      BY <1>3 DEF Confirm
    <2> QED
      BY <1>1, <2>1, RestingBacked
  <1> QED
    BY <1>1, <1>2, <1>3 DEF BInv, IxOK

LEMMA NextBacked ==
  ASSUME RangeLimit >= Interval, BInv, DInv, [Next]_vars
  PROVE  DInv'
  <1>1. CASE (\E k \in Kinds : CommitBlock(k)) \/ PublishRoot \/ (\E m \in late : Expire(m))
             \/ UNCHANGED vars
    <2>1. /\ UNCHANGED <<batches, da_log>> /\ late' \subseteq late
          /\ UNCHANGED <<out, out_st, b_pc, b_payload, b_next>>
      BY <1>1 DEF CommitBlock, PublishRoot, Expire, vars, l1Vars, netVars, runVars
    <2> QED
      BY <2>1, SameGrows, OutsideBacked
  <1>2. CASE \E o \in Others : PostOther(o)
    <2>1. PICK o \in Others : PostOther(o)
      BY <1>2
    <2>2. /\ UNCHANGED batches /\ late' \subseteq late
          /\ UNCHANGED <<out, out_st, b_pc, b_payload, b_next>>
      BY <2>1 DEF PostOther, netVars, runVars
    <2>3. LogGrows
      BY <2>1, AddGrows DEF PostOther
    <2> QED
      BY <2>2, <2>3, OutsideBacked
  <1>3. CASE ReadCursor \/ ReadNumber \/ BuildFails \/ PostFails \/ CrashRestart
    <2>1. UNCHANGED <<batches, da_log>> /\ b_pc' \notin {"send", "wait"}
      BY <1>3 DEF ReadCursor, ReadNumber, BuildFails, PostFails, CrashRestart, l1Vars
    <2>2. /\ late' \subseteq late \cup {[id |-> faults, ix |-> out]}
          /\ out_st = "none" => late' \subseteq late
      BY <1>3 DEF ReadCursor, ReadNumber, BuildFails, PostFails, CrashRestart, netVars, Abandoned
    <2>3. out_st' = "none" \/ UNCHANGED <<out, out_st>>
      BY <1>3 DEF ReadCursor, ReadNumber, BuildFails, PostFails, CrashRestart, netVars
    <2> QED
      BY <2>1, <2>2, <2>3, RestingBacked
  <1>4. CASE Land \/ \E m \in late : LandLate(m)
    BY <1>4, LandBacked, LandLateBacked
  <1>5. CASE Collect \/ Send \/ Confirm
    BY <1>5, CollectBacked, SendBacked, ConfirmBacked
  <1> QED
    BY <1>1, <1>2, <1>3, <1>4, <1>5 DEF Next, Batching

\* When a record is on L1 all its data is in the DA log (DataAvailable): a timeout, a
\* retry, a late landing or a restart never puts a record ahead of its chunks.
THEOREM RecordsHaveTheirData ==
  ASSUME RangeLimit >= Interval
  PROVE  Spec => []DataAvailable
  <1>1. Init => DInv
    <2> SUFFICES ASSUME Init PROVE DInv
      OBVIOUS
    <2>1. <<>> \in Seq({}) /\ Len(<<>>) = 0
      OBVIOUS
    <2>2. IsSeq(batches) /\ Len(batches) = 0
      BY <2>1 DEF Init, IsSeq
    <2> QED
      BY <2>2 DEF Init, DInv, SentOK
  <1>2. BInv /\ DInv /\ [Next]_vars => DInv'
    BY NextBacked
  <1>3. DInv => DataAvailable
    BY DEF DInv, DataAvailable, Backed, InLog
  <1> QED
    BY <1>1, <1>2, <1>3, BatcherInvariant, PTL DEF Spec
=============================================================================
