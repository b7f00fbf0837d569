--------------------------- MODULE IndexerProofs ---------------------------
(***************************************************************************)
(* For any blocks, batch size and number of failed ticks: what lies below  *)
(* the indexer's cursor is in its database.                                *)
(*                                                                         *)
(* The argument: a tick works its way up from the cursor, and leaves no    *)
(* slot below its frontier unstored; slots up to the tip have blocks, so   *)
(* none is passed over.  Without repeated signatures a row is the place of *)
(* its transaction, hence storing it again (a tick that is repeated)       *)
(* changes nothing.                                                        *)
(***************************************************************************)
EXTENDS Indexer, TLAPS

allVars == <<vars, indexerVars>>
IndexerStep == (Next /\ UNCHANGED indexerVars) \/ (IndexerNext /\ UNCHANGED vars)

\* A place in the chain.
At(s, i) == s \in 1..Len(blocks) /\ i \in 1..Len(blocks[s])

Fresh == ~repeated

Unrepeated ==
  \A s, t, i, j \in Nat : At(s, i) /\ At(t, j) /\ blocks[s][i] = blocks[t][j] => s = t /\ i = j

ChainOK ==
  /\ blocks \in Seq(Seq(Sigs))
  /\ tip \in Nat /\ tip <= Len(blocks)
  /\ Fresh => Unrepeated

Rows == [slot : Nat, index : Nat]

TablesOK ==
  /\ lastSlot \in Nat /\ lastSlot <= tip
  /\ tx_rows \in [Sigs -> Rows \cup {None}]
  /\ Fresh => \A x \in Sigs : tx_rows[x] # None =>
       At(tx_rows[x].slot, tx_rows[x].index) /\ blocks[tx_rows[x].slot][tx_rows[x].index] = x

\* Transaction i of slot s is stored, but for the addresses in rest.
Stored(s, i, rest) ==
  /\ tx_rows[blocks[s][i]] # None
  /\ swallowed \/ \A a \in Lists[blocks[s][i]] \ rest : <<a, blocks[s][i]>> \in address_rows

\* The slots a tick has passed, or the cursor.
Frontier == IF ix.pc = "idle" THEN lastSlot ELSE ix.slot - 1

TickOK ==
  /\ ix \in [pc : {"idle", "slot", "tx"}, upTo : Nat, slot : Nat, i : Nat,
             addresses : SUBSET Addrs]
  /\ ix.pc # "idle" =>
       lastSlot < ix.slot /\ ix.slot <= ix.upTo + 1 /\ lastSlot <= ix.upTo /\ ix.upTo <= tip
  /\ ix.pc = "tx" =>
       /\ ix.slot <= ix.upTo /\ ix.slot \in block_rows /\ ix.i <= Len(blocks[ix.slot])
       /\ \A i \in 1..ix.i : Stored(ix.slot, i, IF i = ix.i THEN ix.addresses ELSE {})
  /\ ix.addresses # {} => ix.pc = "tx" /\ ix.i > 0

StoredBelow ==
  \A s \in 1..Frontier :
    s \in block_rows /\ \A i \in 1..Len(blocks[s]) : Stored(s, i, {})

IndexInv == ChainOK /\ TablesOK /\ TickOK /\ StoredBelow

----------------------------------------------------------------------------
\* The invariant says what the two properties say of the slots below the cursor.
LEMMA IndexInvImplies == IndexInv => IndexedUpToCursor /\ AddressesIndexedUnlessSwallowed
<1> SUFFICES ASSUME IndexInv PROVE IndexedUpToCursor /\ AddressesIndexedUnlessSwallowed
  OBVIOUS
<1>1. ASSUME NEW s \in 1..lastSlot, NEW i \in DOMAIN blocks[s]
      PROVE  /\ s \in block_rows /\ Stored(s, i, {}) /\ At(s, i)
             /\ blocks[s][i] \in Sigs /\ s \in Nat /\ i \in Nat
  BY DEF IndexInv, ChainOK, TablesOK, TickOK, StoredBelow, Frontier, At
<1>2. ASSUME NEW s \in 1..lastSlot PROVE s \in block_rows
  BY DEF IndexInv, ChainOK, TablesOK, TickOK, StoredBelow, Frontier
<1>3. ASSUME NEW s \in 1..lastSlot, NEW i \in DOMAIN blocks[s], Fresh
      PROVE  tx_rows[blocks[s][i]] = [slot |-> s, index |-> i]
  <2> DEFINE r == tx_rows[blocks[s][i]]
  <2>1. r # None /\ r \in Rows
    BY <1>1 DEF Stored, IndexInv, TablesOK
  <2>2. At(r.slot, r.index) /\ blocks[r.slot][r.index] = blocks[s][i]
    <3>1. \A x \in Sigs : tx_rows[x] # None =>
            At(tx_rows[x].slot, tx_rows[x].index)
            /\ blocks[tx_rows[x].slot][tx_rows[x].index] = x
      BY <1>3, Zenon DEF IndexInv, TablesOK
    <3> QED BY <1>1, <2>1, <3>1, Zenon
  <2>3. r.slot = s /\ r.index = i
    <3>1. Unrepeated
      BY <1>3, Zenon DEF IndexInv, ChainOK
    <3>2. r.slot \in Nat /\ r.index \in Nat
      BY <2>1 DEF Rows
    <3>3. s \in Nat /\ i \in Nat /\ At(s, i)
      BY <1>1, <1>3
    <3> QED BY <2>2, <3>1, <3>2, <3>3, ZenonT(40) DEF Unrepeated
  <2> QED BY <2>1, <2>3 DEF Rows
<1>4. IndexedUpToCursor
  BY <1>1, <1>2, <1>3 DEF IndexedUpToCursor, Stored, Fresh
<1>5. AddressesIndexedUnlessSwallowed
  BY <1>1 DEF AddressesIndexedUnlessSwallowed, AddressesIndexed, Stored
<1> QED BY <1>4, <1>5

LEMMA IndexInit == Init /\ IndexerInit => IndexInv
<1> SUFFICES ASSUME Init, IndexerInit PROVE IndexInv
  OBVIOUS
<1>1. /\ blocks = <<>> /\ tip = 0 /\ lastSlot = 0 /\ tx_rows = [x \in Sigs |-> None]
      /\ ix = [pc |-> "idle", upTo |-> 0, slot |-> 0, i |-> 0, addresses |-> {}]
  BY DEF Init, IndexerInit, NoTick
<1>2. <<>> \in Seq(Seq(Sigs)) /\ Len(<<>>) = 0
  OBVIOUS
<1>3. ChainOK
  BY <1>1, <1>2 DEF ChainOK, Unrepeated, At
<1>4. TablesOK
  BY <1>1 DEF TablesOK
<1>5. TickOK /\ StoredBelow
  BY <1>1 DEF TickOK, StoredBelow, Frontier
<1> QED BY <1>3, <1>4, <1>5 DEF IndexInv

----------------------------------------------------------------------------
\* Node steps.  The chain only grows, so what is stored stays stored.
LEMMA IndexKept ==
  ASSUME blocks \in Seq(Seq(Sigs)), blocks' \in Seq(Seq(Sigs)), tip \in Nat, tip' \in Nat,
         IndexInv, ChainOK', UNCHANGED indexerVars, tip <= tip', Len(blocks) <= Len(blocks'),
         \A s \in 1..Len(blocks) : blocks'[s] = blocks[s],
         Fresh' => Fresh
  PROVE  IndexInv'
<1>1. /\ lastSlot' = lastSlot /\ tx_rows' = tx_rows /\ block_rows' = block_rows
      /\ address_rows' = address_rows /\ swallowed' = swallowed /\ ix' = ix
  BY DEF indexerVars, dbVars
<1>2. /\ blocks \in Seq(Seq(Sigs)) /\ blocks' \in Seq(Seq(Sigs))
      /\ tip \in Nat /\ tip' \in Nat /\ tip <= Len(blocks) /\ tip' <= Len(blocks')
      /\ lastSlot \in Nat /\ lastSlot <= tip
  BY DEF IndexInv, ChainOK, TablesOK
<1>3. ASSUME NEW s, NEW i, At(s, i) PROVE At(s, i)' /\ blocks'[s] = blocks[s]
  BY <1>2, <1>3 DEF At
<1>4. TablesOK'
  <2>1. lastSlot' \in Nat /\ lastSlot' <= tip' /\ tx_rows' \in [Sigs -> Rows \cup {None}]
    BY <1>1, <1>2 DEF IndexInv, TablesOK
  <2>2. ASSUME Fresh', NEW x \in Sigs, tx_rows[x] # None
        PROVE  /\ At(tx_rows[x].slot, tx_rows[x].index)'
               /\ blocks'[tx_rows[x].slot][tx_rows[x].index] = x
    <3>1. /\ At(tx_rows[x].slot, tx_rows[x].index)
          /\ blocks[tx_rows[x].slot][tx_rows[x].index] = x
      BY <2>2, Zenon DEF IndexInv, TablesOK
    <3>2. At(tx_rows[x].slot, tx_rows[x].index)'
      <4> DEFINE s == tx_rows[x].slot
                 i == tx_rows[x].index
      <4>1. s \in 1..Len(blocks) /\ i \in 1..Len(blocks[s])
        BY <3>1 DEF At
      <4> HIDE DEF s, i
      <4>2. s \in 1..Len(blocks') /\ i \in 1..Len(blocks'[s])
        BY <4>1, <1>2
      <4>3. s' = s /\ i' = i
        BY <1>1 DEF s, i
      <4>4. At(s, i)'
        BY <4>2, <4>3 DEF At
      <4> QED BY <4>4 DEF s, i
    <3> QED BY <3>1, <3>2, <1>3
  <2> QED BY <1>1, <2>1, <2>2, Zenon DEF TablesOK
<1>5. ASSUME NEW s \in 1..Len(blocks), NEW i \in 1..Len(blocks[s]), NEW rest, Stored(s, i, rest)
      PROVE  Stored(s, i, rest)'
  BY <1>1, <1>2, <1>5 DEF Stored
<1>6. StoredBelow'
  <2>1. Frontier' = Frontier /\ Frontier \in Int /\ Frontier <= Len(blocks)
    BY <1>1, <1>2 DEF Frontier, IndexInv, TickOK
  <2>2. ASSUME NEW s \in 1..Frontier PROVE s \in 1..Len(blocks) /\ blocks'[s] = blocks[s]
    BY <1>2, <2>1
  <2>3. ASSUME NEW s \in 1..Frontier, NEW i \in 1..Len(blocks[s])
        PROVE  s \in block_rows /\ Stored(s, i, {})
    BY DEF IndexInv, StoredBelow
  <2>4. ASSUME NEW s \in 1..Frontier PROVE s \in block_rows
    BY DEF IndexInv, StoredBelow
  <2> QED BY <1>1, <1>5, <2>1, <2>2, <2>3, <2>4, Zenon DEF StoredBelow
<1>7. TickOK'
  <2> DEFINE n == ix.slot
             taken == ix.i
  <2>1. n \in Nat /\ ix.upTo \in Nat /\ taken \in Nat
    BY DEF IndexInv, TickOK
  <2>2. ix.pc = "tx" => /\ lastSlot < n /\ n <= ix.upTo /\ ix.upTo <= tip
                        /\ taken <= Len(blocks[n])
    BY DEF IndexInv, TickOK
  <2>3. ASSUME NEW m \in Nat, lastSlot < m, m <= tip
        PROVE  m \in 1..Len(blocks) /\ blocks'[m] = blocks[m]
    BY <1>2, <2>3
  <2>4. ix.pc = "tx" => n \in 1..Len(blocks) /\ blocks'[n] = blocks[n]
    <3> HIDE DEF n
    <3>1. ix.pc = "tx" => lastSlot < n /\ n <= tip
      BY <1>2, <2>1, <2>2
    <3> QED BY <2>1, <2>3, <3>1
  <2>5. ASSUME ix.pc = "tx", NEW i \in 1..taken
        PROVE  Stored(n, i, IF i = taken THEN ix.addresses ELSE {})'
    <3> DEFINE rest == IF i = taken THEN ix.addresses ELSE {}
    <3>1. Stored(n, i, rest)
      BY <2>5 DEF IndexInv, TickOK
    <3> HIDE DEF n, rest, taken
    <3>2. n \in 1..Len(blocks) /\ i \in 1..Len(blocks[n])
      <4>1. n \in 1..Len(blocks) /\ taken <= Len(blocks[n])
        BY <2>2, <2>4, <2>5
      <4> QED BY <2>1, <4>1
    <3>3. n' = n /\ rest' = rest
      BY <1>1 DEF n, rest, taken
    <3>4. Stored(n, i, rest)'
      BY <1>1, <1>2, <3>1, <3>2, <3>3, SMTT(30) DEF Stored
    <3> QED BY <3>4 DEF rest
  <2>6. ix'.pc = "tx" => ix'.i <= Len(blocks'[ix'.slot])
    BY <1>1, <2>2, <2>4
  <2>7. ix'.pc # "idle" => /\ lastSlot' < ix'.slot /\ ix'.slot <= ix'.upTo + 1
                           /\ lastSlot' <= ix'.upTo /\ ix'.upTo <= tip'
    BY <1>1, <1>2, <2>1 DEF IndexInv, TickOK
  <2> QED BY <1>1, <2>5, <2>6, <2>7 DEF TickOK, IndexInv
<1> QED BY <1>4, <1>6, <1>7 DEF IndexInv

\* A block with no signature that was committed leaves every place unique.
LEMMA IndexCommit ==
  ASSUME IndexInv, UNCHANGED indexerVars, NEW txs \in Bodies, CommitBlock(txs)
  PROVE  IndexInv'
<1>1. /\ blocks \in Seq(Seq(Sigs)) /\ txs \in Seq(Sigs) /\ IsInjective(txs)
      /\ tip \in Nat /\ tip <= Len(blocks)
  BY RpcAssumption DEF IndexInv, ChainOK
<1>2. /\ blocks' = Append(blocks, txs) /\ tip' = tip
      /\ repeated' = (repeated \/ \E x \in Range(txs) : Committed(x))
  BY DEF CommitBlock
<1> DEFINE n == Len(blocks) + 1
<1>3. /\ blocks' \in Seq(Seq(Sigs)) /\ Len(blocks') = n /\ blocks'[n] = txs
      /\ \A s \in 1..Len(blocks) : blocks'[s] = blocks[s]
  BY <1>1, <1>2
<1>4. Fresh' => Fresh /\ \A x \in Range(txs) : ~Committed(x)
  BY <1>2, Zenon DEF Fresh
<1>5. ASSUME Fresh' PROVE Unrepeated'
  <2>1. Unrepeated
    BY <1>4, <1>5, Zenon DEF IndexInv, ChainOK
  <2>2. ASSUME NEW s \in 1..Len(blocks), NEW i \in 1..Len(blocks[s]), NEW j \in 1..Len(txs)
        PROVE  blocks[s][i] # txs[j]
    <3>1. txs[j] \in Range(txs)
      BY <1>1 DEF Range
    <3>2. ~(txs[j] \in Range(blocks[s]))
      BY <1>4, <1>5, <3>1, Zenon DEF Committed, Slots, Includes
    <3> QED BY <1>1, <3>2 DEF Range
  <2>3. ASSUME NEW i \in 1..Len(txs), NEW j \in 1..Len(txs), txs[i] = txs[j] PROVE i = j
    BY <1>1, <2>3 DEF IsInjective
  <2>4. ASSUME NEW s, NEW i, At(s, i)'
        PROVE  /\ s \in 1..n /\ i \in 1..Len(blocks'[s])
               /\ s # n => s \in 1..Len(blocks) /\ At(s, i) /\ blocks'[s] = blocks[s]
    BY <1>1, <1>3, <2>4, SMTT(30) DEF At
  <2>5. ASSUME NEW s \in Nat, NEW t \in Nat, NEW i \in Nat, NEW j \in Nat,
               At(s, i)', At(t, j)', blocks'[s][i] = blocks'[t][j]
        PROVE  s = t /\ i = j
    <3>1. CASE s # n /\ t # n
      BY <2>1, <2>4, <2>5, <3>1, Zenon DEF Unrepeated
    <3>2. CASE s = n /\ t = n
      BY <1>3, <2>3, <2>4, <2>5, <3>2
    <3>3. CASE s # n /\ t = n
      <4>1. s \in 1..Len(blocks) /\ i \in 1..Len(blocks[s]) /\ blocks'[s] = blocks[s]
        BY <2>4, <2>5, <3>3, Zenon
      <4>2. blocks'[t] = txs /\ j \in 1..Len(txs)
        BY <1>3, <2>4, <2>5, <3>3, Zenon
      <4> QED BY <2>2, <2>5, <4>1, <4>2, Zenon
    <3>4. CASE s = n /\ t # n
      <4>1. t \in 1..Len(blocks) /\ j \in 1..Len(blocks[t]) /\ blocks'[t] = blocks[t]
        BY <2>4, <2>5, <3>4, Zenon
      <4>2. blocks'[s] = txs /\ i \in 1..Len(txs)
        BY <1>3, <2>4, <2>5, <3>4, Zenon
      <4> QED BY <2>2, <2>5, <4>1, <4>2, Zenon
    <3> QED BY <3>1, <3>2, <3>3, <3>4
  <2> QED BY <2>5 DEF Unrepeated
<1>6. ChainOK'
  <2>1. tip' \in Nat /\ tip' <= Len(blocks')
    BY <1>1, <1>2, <1>3
  <2> QED BY <1>3, <1>5, <2>1, Zenon DEF ChainOK
<1>7. tip <= tip' /\ Len(blocks) <= Len(blocks') /\ tip' \in Nat
  BY <1>1, <1>2, <1>3
<1> QED BY <1>1, <1>3, <1>4, <1>6, <1>7, IndexKept

\* Steps that leave the blocks, and at most move the tip to the last of them.
LEMMA IndexStill ==
  ASSUME IndexInv, UNCHANGED indexerVars, blocks' = blocks, repeated' = repeated,
         tip' = tip \/ tip' = Len(blocks)
  PROVE  IndexInv'
<1>1. /\ blocks \in Seq(Seq(Sigs)) /\ tip \in Nat /\ tip <= Len(blocks)
      /\ Len(blocks) \in Nat
  BY DEF IndexInv, ChainOK
<1>2. Fresh' = Fresh /\ Unrepeated' = Unrepeated
  BY ZenonT(40) DEF Fresh, Unrepeated, At
<1>3. tip' \in Nat /\ tip <= tip' /\ tip' <= Len(blocks') /\ Len(blocks) <= Len(blocks')
  BY <1>1
<1>4. ChainOK'
  BY <1>1, <1>2, <1>3, Zenon DEF IndexInv, ChainOK
<1>5. \A s \in 1..Len(blocks) : blocks'[s] = blocks[s]
  BY Zenon
<1>6. blocks' \in Seq(Seq(Sigs))
  BY <1>1, Zenon
<1> QED BY <1>1, <1>2, <1>3, <1>4, <1>5, <1>6, IndexKept

LEMMA IndexNode == ASSUME IndexInv, UNCHANGED indexerVars, Next PROVE IndexInv'
<1>1. ASSUME NodeNext PROVE IndexInv'
  <2>1. CASE Notify \/ Unlock \/ Restart
    <3>1. blocks' = blocks /\ repeated' = repeated /\ (tip' = tip \/ tip' = Len(blocks))
      BY <2>1, Zenon DEF Notify, Unlock, Restart
    <3> QED BY <3>1, IndexStill
  <2> QED BY <1>1, <2>1, IndexCommit DEF NodeNext
<1>2. ASSUME \/ \E c \in Subscribers : SubscriberNext(c)
             \/ QueryNext \/ PagingNext
      PROVE  IndexInv'
  <2>1. UNCHANGED nodeVars
    BY <1>2, Zenon DEF SubscriberNext, Subscribe, SignatureCheck, Listen, Lagged, Recv,
         QueryNext, Query, ReadKey, Context, PagingNext, StartPaging, PageResolve,
         PageUnresolved, PageScan
  <2>2. blocks' = blocks /\ repeated' = repeated /\ tip' = tip
    BY <2>1 DEF nodeVars
  <2> QED BY <2>2, IndexStill
<1> QED BY <1>1, <1>2 DEF Next

----------------------------------------------------------------------------
\* Steps of the indexer.
LEMMA IndexTick ==
  ASSUME IndexInv, UNCHANGED vars, Tick \/ EndTick \/ Fail PROVE IndexInv'
<1>1. /\ blocks' = blocks /\ tip' = tip /\ repeated' = repeated
      /\ tx_rows' = tx_rows /\ block_rows' = block_rows /\ address_rows' = address_rows
      /\ swallowed' = swallowed
  BY Zenon DEF vars, nodeVars, Tick, EndTick, Fail, dbVars
<1>2. ChainOK'
  BY <1>1, Zenon DEF IndexInv, ChainOK, Fresh, Unrepeated, At
<1>3. \A s, i, rest : Stored(s, i, rest)' = Stored(s, i, rest)
  BY <1>1 DEF Stored
<1>4. /\ tip \in Nat /\ lastSlot \in Nat /\ lastSlot <= tip
      /\ ix.slot \in Nat /\ ix.upTo \in Nat
      /\ ix.pc # "idle" => lastSlot < ix.slot /\ ix.slot <= ix.upTo + 1
                           /\ lastSlot <= ix.upTo /\ ix.upTo <= tip
  BY DEF IndexInv, ChainOK, TablesOK, TickOK
<1>5. ASSUME lastSlot' \in Nat, lastSlot' <= tip PROVE TablesOK'
  <2>1. /\ tx_rows' \in [Sigs -> Rows \cup {None}]
        /\ Fresh' = Fresh /\ \A s, i \in Nat : At(s, i)' = At(s, i)
    BY <1>1 DEF IndexInv, TablesOK, Fresh, At
  <2>2. Fresh => \A x \in Sigs : tx_rows'[x] # None =>
          /\ At(tx_rows[x].slot, tx_rows[x].index)'
          /\ blocks'[tx_rows'[x].slot][tx_rows'[x].index] = x
    BY <1>1 DEF IndexInv, TablesOK, At
  <2> QED BY <1>1, <1>5, <2>1, <2>2 DEF TablesOK
<1>6. CASE Tick
  <2>1. /\ ix.pc = "idle" /\ tip > lastSlot /\ lastSlot' = lastSlot
        /\ ix' = [pc |-> "slot", slot |-> lastSlot + 1, i |-> 0, addresses |-> {},
                  upTo |-> IF tip < lastSlot + BatchSize THEN tip ELSE lastSlot + BatchSize]
    BY <1>6, Zenon DEF Tick, NoTick, getSlot, dbVars
  <2>2. TickOK' /\ Frontier' = Frontier
    BY <1>1, <1>4, <2>1, IndexerAssumption DEF TickOK, Frontier
  <2>3. StoredBelow'
    BY <1>1, <1>3, <2>2 DEF IndexInv, StoredBelow
  <2> QED BY <1>2, <1>4, <1>5, <2>1, <2>2, <2>3 DEF IndexInv
<1>7. CASE EndTick
  <2>1. /\ ix.pc = "slot" /\ ix.slot > ix.upTo /\ lastSlot' = ix.upTo
        /\ ix' = [pc |-> "idle", upTo |-> 0, slot |-> 0, i |-> 0, addresses |-> {}]
    BY <1>7 DEF EndTick, NoTick
  <2>2. TickOK' /\ Frontier' = Frontier
    BY <1>4, <2>1 DEF TickOK, Frontier
  <2>3. StoredBelow'
    BY <1>1, <1>3, <2>2 DEF IndexInv, StoredBelow
  <2> QED BY <1>2, <1>4, <1>5, <2>1, <2>2, <2>3 DEF IndexInv
<1>8. CASE Fail
  <2>1. /\ ix.pc # "idle" /\ lastSlot' = lastSlot
        /\ ix' = [pc |-> "idle", upTo |-> 0, slot |-> 0, i |-> 0, addresses |-> {}]
    BY <1>8 DEF Fail, NoTick, dbVars
  <2>2. TickOK' /\ Frontier' = lastSlot /\ Frontier \in Int /\ lastSlot <= Frontier
    BY <1>4, <2>1 DEF TickOK, Frontier
  <2>3. StoredBelow'
    BY <1>1, <1>3, <1>4, <2>2 DEF IndexInv, StoredBelow
  <2> QED BY <1>2, <1>4, <1>5, <2>1, <2>2, <2>3 DEF IndexInv
<1> QED BY <1>6, <1>7, <1>8

\* A slot of a tick has a block; once its transactions are stored the frontier moves.
LEMMA IndexSlots ==
  ASSUME IndexInv, UNCHANGED vars, IndexSlot \/ NextSlot PROVE IndexInv'
<1>1. /\ blocks' = blocks /\ tip' = tip /\ repeated' = repeated /\ lastSlot' = lastSlot
      /\ tx_rows' = tx_rows /\ address_rows' = address_rows /\ swallowed' = swallowed
  BY Zenon DEF vars, nodeVars, IndexSlot, NextSlot, dbVars
<1>2. ChainOK' /\ TablesOK'
  BY <1>1 DEF IndexInv, ChainOK, TablesOK, Fresh, Unrepeated, At
<1>3. \A s, i, rest : Stored(s, i, rest)' = Stored(s, i, rest)
  BY <1>1 DEF Stored
<1>4. /\ blocks \in Seq(Seq(Sigs)) /\ tip \in Nat /\ lastSlot \in Nat /\ tip <= Len(blocks)
      /\ ix \in [pc : {"idle", "slot", "tx"}, upTo : Nat, slot : Nat, i : Nat,
                 addresses : SUBSET Addrs]
      /\ ix.pc # "idle" => lastSlot < ix.slot /\ ix.slot <= ix.upTo + 1
                           /\ lastSlot <= ix.upTo /\ ix.upTo <= tip
  BY DEF IndexInv, ChainOK, TablesOK, TickOK
<1>5. CASE IndexSlot
  <2>1. ix.pc = "slot" /\ ix.slot <= ix.upTo /\ ix.slot \in Slots
    BY <1>4, <1>5 DEF IndexSlot, Slots
  <2>2. block_rows' = block_rows \cup {ix.slot} /\ ix' = [ix EXCEPT !.pc = "tx", !.i = 0]
    BY <1>5, <2>1 DEF IndexSlot
  <2>3. ix.addresses = {}
    BY <2>1 DEF IndexInv, TickOK
  <2>4. /\ ix' \in [pc : {"idle", "slot", "tx"}, upTo : Nat, slot : Nat, i : Nat,
                    addresses : SUBSET Addrs]
        /\ ix'.pc = "tx" /\ ix'.i = 0 /\ ix'.slot = ix.slot /\ ix'.upTo = ix.upTo
        /\ ix'.addresses = {}
    BY <1>4, <2>2, <2>3, Zenon
  <2>5. 0 <= Len(blocks'[ix'.slot])
    BY <1>1, <1>4, <2>1, <2>4 DEF Slots
  <2>6. TickOK'
    BY <1>1, <1>4, <2>1, <2>2, <2>4, <2>5 DEF TickOK
  <2>7. StoredBelow'
    BY <1>1, <1>3, <2>1, <2>2, <2>4 DEF IndexInv, StoredBelow, Frontier
  <2> QED BY <1>2, <2>6, <2>7 DEF IndexInv
<1>6. CASE NextSlot
  <2>1. /\ ix.pc = "tx" /\ ix.addresses = {} /\ ix.i = Len(blocks[ix.slot])
        /\ block_rows' = block_rows
    BY <1>6, Zenon DEF NextSlot, dbVars
  <2>2. ix' = [ix EXCEPT !.pc = "slot", !.slot = ix.slot + 1]
    BY <1>6, Zenon DEF NextSlot
  <2>3. /\ ix' \in [pc : {"idle", "slot", "tx"}, upTo : Nat, slot : Nat, i : Nat,
                    addresses : SUBSET Addrs]
        /\ ix'.pc = "slot" /\ ix'.slot = ix.slot + 1 /\ ix'.upTo = ix.upTo
        /\ ix'.addresses = {}
    <3>1. /\ ix \in [pc : {"idle", "slot", "tx"}, upTo : Nat, slot : Nat, i : Nat,
                     addresses : SUBSET Addrs]
          /\ ix.addresses = {}
      BY <1>4, <2>1, Zenon
    <3> DEFINE m == ix.slot + 1
    <3>2. m \in Nat
      BY <3>1
    <3>3. ix' = [ix EXCEPT !.pc = "slot", !.slot = m]
      BY <2>2, Zenon
    <3> HIDE DEF m
    <3>4. /\ ix' \in [pc : {"idle", "slot", "tx"}, upTo : Nat, slot : Nat, i : Nat,
                      addresses : SUBSET Addrs]
          /\ ix'.pc = "slot" /\ ix'.slot = m /\ ix'.upTo = ix.upTo /\ ix'.addresses = {}
      BY <3>1, <3>2, <3>3, Zenon
    <3> QED BY <3>4 DEF m
  <2>4. ix.slot <= ix.upTo
    BY <2>1 DEF IndexInv, TickOK
  <2>5. TickOK'
    BY <1>1, <1>4, <2>1, <2>3, <2>4 DEF TickOK
  <2>6. ix.slot \in block_rows
    BY <2>1 DEF IndexInv, TickOK
  <2>7. ASSUME NEW i \in 1..Len(blocks[ix.slot]) PROVE Stored(ix.slot, i, {})
    <3>1. Stored(ix.slot, i, IF i = ix.i THEN ix.addresses ELSE {})
      BY <2>1, Zenon DEF IndexInv, TickOK
    <3>2. (IF i = ix.i THEN ix.addresses ELSE {}) = {}
      BY <2>1
    <3> QED BY <3>1, <3>2, Zenon
  <2>8. Frontier = ix.slot - 1 /\ Frontier' = ix.slot
    BY <1>4, <2>1, <2>3 DEF Frontier
  <2>9. ASSUME NEW s \in 1..Frontier'
        PROVE  s \in block_rows /\ \A i \in 1..Len(blocks[s]) : Stored(s, i, {})
    <3>1. CASE s = ix.slot
      BY <2>6, <2>7, <3>1
    <3>2. CASE s # ix.slot
      <4>1. s \in 1..Frontier
        BY <1>4, <2>8, <3>2
      <4> QED BY <4>1 DEF IndexInv, StoredBelow
    <3> QED BY <3>1, <3>2
  <2>10. StoredBelow'
    BY <1>1, <1>3, <2>1, <2>9 DEF StoredBelow
  <2> QED BY <1>2, <2>5, <2>10 DEF IndexInv
<1> QED BY <1>5, <1>6

\* A transaction is stored.  Whatever row it had keeps its place, so no other
\* transaction's row is touched, and a row that was right stays right.
LEMMA IndexTransactions ==
  ASSUME IndexInv, UNCHANGED vars, IndexTransaction PROVE IndexInv'
<1> DEFINE n == ix.slot
           i == ix.i + 1
           sig == blocks[n][i]
           row == [slot |-> IF tx_rows[sig] = None THEN n ELSE tx_rows[sig].slot, index |-> i]
<1>1. /\ blocks' = blocks /\ tip' = tip /\ repeated' = repeated /\ lastSlot' = lastSlot
      /\ block_rows' = block_rows /\ address_rows' = address_rows /\ swallowed' = swallowed
  BY Zenon DEF vars, nodeVars, IndexTransaction
<1>2. /\ ix.pc = "tx" /\ ix.addresses = {} /\ i <= Len(blocks[n])
      /\ ix' = [ix EXCEPT !.i = i, !.addresses = Lists[sig]]
  BY DEF IndexTransaction
<1>3. tx_rows' = [tx_rows EXCEPT ![sig] = row]
  BY DEF IndexTransaction
<1>4. /\ blocks \in Seq(Seq(Sigs)) /\ tip \in Nat /\ lastSlot \in Nat /\ tip <= Len(blocks)
      /\ ix \in [pc : {"idle", "slot", "tx"}, upTo : Nat, slot : Nat, i : Nat,
                 addresses : SUBSET Addrs]
      /\ lastSlot < n /\ n <= ix.upTo /\ ix.upTo <= tip
      /\ tx_rows \in [Sigs -> Rows \cup {None}]
  BY <1>2 DEF IndexInv, ChainOK, TablesOK, TickOK
<1>5. n \in 1..Len(blocks) /\ i \in 1..Len(blocks[n]) /\ sig \in Sigs /\ i \in Nat /\ n \in Nat
  BY <1>2, <1>4, SMTT(30)
<1>6. row \in Rows /\ row # None /\ Lists[sig] \in SUBSET Addrs
  <2>1. Lists[sig] \in SUBSET Addrs
    <3>1. Lists \in [Sigs -> SUBSET Addrs]
      BY RpcAssumption, Zenon
    <3> QED BY <1>5, <3>1, Zenon
  <2>2. ASSUME row \in Rows PROVE row # None
    BY <2>2, IndexerAssumption, Zenon DEF Rows
  <2>3. CASE tx_rows[sig] = None
    <3>1. row = [slot |-> n, index |-> i]
      BY <2>3, Zenon
    <3>2. row \in Rows
      BY <1>5, <3>1 DEF Rows
    <3> QED BY <2>1, <2>2, <3>2, Zenon
  <2>4. CASE tx_rows[sig] # None
    <3>1. tx_rows[sig] \in Rows
      BY <1>4, <1>5, <2>4, Zenon
    <3>2. tx_rows[sig].slot \in Nat
      BY <3>1 DEF Rows
    <3>3. row = [slot |-> tx_rows[sig].slot, index |-> i]
      BY <2>4, Zenon
    <3>4. row \in Rows
      BY <1>5, <3>2, <3>3 DEF Rows
    <3> QED BY <2>1, <2>2, <3>4, Zenon
  <2> QED BY <2>3, <2>4
<1> HIDE DEF sig, row, n, i
<1>7. /\ tx_rows' \in [Sigs -> Rows \cup {None}]
      /\ tx_rows'[sig] = row /\ \A x \in Sigs : x # sig => tx_rows'[x] = tx_rows[x]
  <2>1. sig \in Sigs /\ row \in Rows \cup {None} /\ tx_rows \in [Sigs -> Rows \cup {None}]
    BY <1>4, <1>5, <1>6, Zenon
  <2> QED BY <1>3, <2>1
<1>8. ChainOK'
  BY <1>1, Zenon DEF IndexInv, ChainOK, Fresh, Unrepeated, At
<1>9. ASSUME Fresh PROVE row = [slot |-> n, index |-> i]
  <2>1. CASE tx_rows[sig] = None
    BY <2>1 DEF row
  <2>2. CASE tx_rows[sig] # None
    <3>1. At(tx_rows[sig].slot, tx_rows[sig].index)
          /\ blocks[tx_rows[sig].slot][tx_rows[sig].index] = sig
      BY <1>5, <1>9, <2>2, Zenon DEF IndexInv, TablesOK
    <3>2. At(n, i) /\ blocks[n][i] = sig
      BY <1>5 DEF At, sig
    <3>3. tx_rows[sig].slot \in Nat /\ tx_rows[sig].index \in Nat
      BY <1>4, <1>5, <2>2 DEF Rows
    <3>4. Unrepeated
      BY <1>9, Zenon DEF IndexInv, ChainOK
    <3>5. tx_rows[sig].slot = n
      BY <1>5, <3>1, <3>2, <3>3, <3>4, Zenon DEF Unrepeated
    <3> QED BY <2>2, <3>5 DEF row
  <2> QED BY <2>1, <2>2
<1>10. TablesOK'
  <2>1. ASSUME Fresh, NEW x \in Sigs, tx_rows'[x] # None
        PROVE  /\ At(tx_rows[x].slot, tx_rows[x].index)'
               /\ blocks'[tx_rows'[x].slot][tx_rows'[x].index] = x
    <3>1. CASE x = sig
      <4>1. tx_rows'[x].slot = n /\ tx_rows'[x].index = i
        BY <1>7, <1>9, <2>1, <3>1
      <4>2. blocks'[n][i] = x /\ n \in 1..Len(blocks') /\ i \in 1..Len(blocks'[n])
        BY <1>1, <1>5, <3>1 DEF sig
      <4> QED BY <4>1, <4>2, Zenon DEF At
    <3>2. CASE x # sig
      <4>1. tx_rows'[x] = tx_rows[x]
        BY <1>7, <3>2
      <4>2. At(tx_rows[x].slot, tx_rows[x].index)
            /\ blocks[tx_rows[x].slot][tx_rows[x].index] = x
        BY <2>1, <4>1, Zenon DEF IndexInv, TablesOK
      <4> QED BY <1>1, <4>1, <4>2, Zenon DEF At
    <3> QED BY <3>1, <3>2
  <2>2. Fresh' = Fresh
    BY <1>1 DEF Fresh
  <2>3. lastSlot' \in Nat /\ lastSlot' <= tip'
    BY <1>1, <1>4 DEF IndexInv, TablesOK
  <2> QED BY <1>7, <2>1, <2>2, <2>3, Zenon DEF TablesOK
<1>11. ASSUME NEW s \in 1..Len(blocks), NEW j \in 1..Len(blocks[s]), NEW rest,
              Stored(s, j, rest)
       PROVE  Stored(s, j, rest)'
  <2>1. blocks[s][j] \in Sigs
    BY <1>4
  <2>2. tx_rows'[blocks[s][j]] # None
    BY <1>6, <1>7, <1>11, <2>1, Zenon DEF Stored
  <2> QED BY <1>1, <1>11, <2>2, Zenon DEF Stored
<1>12. /\ ix' \in [pc : {"idle", "slot", "tx"}, upTo : Nat, slot : Nat, i : Nat,
                   addresses : SUBSET Addrs]
       /\ ix'.pc = "tx" /\ ix'.i = i /\ ix'.slot = n /\ ix'.upTo = ix.upTo
       /\ ix'.addresses = Lists[sig]
  <2>1. /\ ix' = [ix EXCEPT !.i = i, !.addresses = Lists[sig]] /\ ix.pc = "tx"
        /\ ix \in [pc : {"idle", "slot", "tx"}, upTo : Nat, slot : Nat, i : Nat,
                   addresses : SUBSET Addrs]
        /\ i \in Nat /\ Lists[sig] \in SUBSET Addrs /\ n = ix.slot
    BY <1>2, <1>4, <1>5, <1>6, Zenon DEF n
  <2> QED BY <2>1, Zenon
<1>13. ASSUME NEW j \in 1..i
       PROVE  Stored(ix.slot, j, IF j = ix.i THEN ix.addresses ELSE {})'
  <2>1. CASE j = i
    <3>1. blocks'[ix'.slot][j] = sig
      BY <1>1, <1>12, <2>1, Zenon DEF sig
    <3>2. (IF j = ix'.i THEN ix'.addresses ELSE {}) = Lists[sig]
      BY <1>12, <2>1, Zenon
    <3> QED BY <1>6, <1>7, <3>1, <3>2, Zenon DEF Stored
  <2>2. CASE j # i
    <3>1. j \in 1..ix.i /\ j \in 1..Len(blocks[n])
      BY <1>4, <1>5, <2>2 DEF i
    <3>2. Stored(n, j, IF j = ix.i THEN ix.addresses ELSE {})
      BY <1>2, <3>1, Zenon DEF IndexInv, TickOK, n
    <3>3. (IF j = ix.i THEN ix.addresses ELSE {}) = {}
      BY <1>2, Zenon
    <3>4. (IF j = ix'.i THEN ix'.addresses ELSE {}) = {}
      BY <1>12, <2>2, Zenon
    <3>5. blocks[n][j] \in Sigs /\ tx_rows'[blocks[n][j]] # None
      <4>1. blocks[n][j] \in Sigs
        BY <1>4, <1>5, <3>1
      <4> QED BY <1>6, <1>7, <3>2, <4>1, Zenon DEF Stored
    <3> QED BY <1>1, <1>12, <3>2, <3>3, <3>4, <3>5, Zenon DEF Stored
  <2> QED BY <2>1, <2>2
<1>14. TickOK'
  <2>1. n \in block_rows /\ ix.slot = n
    BY <1>2, Zenon DEF IndexInv, TickOK, n
  <2>2. /\ lastSlot < n /\ n <= ix.upTo /\ ix.upTo <= tip /\ n <= ix.upTo + 1
        /\ lastSlot <= ix.upTo /\ i <= Len(blocks[n]) /\ i > 0
    BY <1>2, <1>4, <1>5
  <2> QED BY <1>1, <1>12, <1>13, <2>1, <2>2, Zenon DEF TickOK
<1>15. StoredBelow'
  <2>1. Frontier' = Frontier /\ Frontier = n - 1
    BY <1>2, <1>12, Zenon DEF Frontier, n
  <2>2. ASSUME NEW s \in 1..Frontier PROVE s \in 1..Len(blocks)
    BY <1>5, <2>1
  <2>3. ASSUME NEW s \in 1..Frontier
        PROVE  s \in block_rows /\ \A j \in 1..Len(blocks[s]) : Stored(s, j, {})
    BY DEF IndexInv, StoredBelow
  <2> QED BY <1>1, <1>11, <2>1, <2>2, <2>3, Zenon DEF StoredBelow
<1> QED BY <1>8, <1>10, <1>14, <1>15 DEF IndexInv

\* An address is stored, or the error of storing it is swallowed.
LEMMA IndexAddresses ==
  ASSUME IndexInv, UNCHANGED vars, NEW a, IndexAddress(a) PROVE IndexInv'
<1> DEFINE n == ix.slot
           sig == blocks[n][ix.i]
<1>1. /\ blocks' = blocks /\ tip' = tip /\ repeated' = repeated /\ lastSlot' = lastSlot
      /\ block_rows' = block_rows /\ tx_rows' = tx_rows
  BY Zenon DEF vars, nodeVars, IndexAddress
<1>2. a \in ix.addresses /\ ix' = [ix EXCEPT !.addresses = ix.addresses \ {a}]
  BY Zenon DEF IndexAddress
<1>3. /\ swallowed' \/ <<a, sig>> \in address_rows'
      /\ address_rows \subseteq address_rows'
      /\ swallowed => swallowed'
  <2>1. \/ address_rows' = address_rows \cup {<<a, sig>>} /\ swallowed' = swallowed
        \/ address_rows' = address_rows /\ swallowed' = TRUE
    BY Zenon DEF IndexAddress
  <2> DEFINE p == <<a, sig>>
  <2> HIDE DEF p
  <2>2. CASE address_rows' = address_rows \cup {p} /\ swallowed' = swallowed
    BY <2>2, Zenon DEF p
  <2>3. CASE address_rows' = address_rows /\ swallowed' = TRUE
    BY <2>3, Zenon
  <2> QED BY <2>1, <2>2, <2>3, Zenon DEF p
<1>4. /\ ix.pc = "tx" /\ ix.i > 0
      /\ ix \in [pc : {"idle", "slot", "tx"}, upTo : Nat, slot : Nat, i : Nat,
                 addresses : SUBSET Addrs]
  BY <1>2, Zenon DEF IndexInv, TickOK
<1>5. /\ ix' \in [pc : {"idle", "slot", "tx"}, upTo : Nat, slot : Nat, i : Nat,
                  addresses : SUBSET Addrs]
      /\ ix'.pc = "tx" /\ ix'.i = ix.i /\ ix'.slot = n /\ ix'.upTo = ix.upTo
      /\ ix'.addresses = ix.addresses \ {a}
  <2>1. ix' = [ix EXCEPT !.addresses = ix.addresses \ {a}]
    BY <1>2, Zenon
  <2> QED BY <1>4, <2>1
<1> HIDE DEF n, sig
<1>6. ChainOK' /\ TablesOK'
  BY <1>1 DEF IndexInv, ChainOK, TablesOK, Fresh, Unrepeated, At
<1>7. ASSUME NEW s, NEW j, NEW rest, Stored(s, j, rest) PROVE Stored(s, j, rest)'
  BY <1>1, <1>3, <1>7, Zenon DEF Stored
<1>8. ASSUME NEW j \in 1..ix.i
      PROVE  Stored(ix.slot, j, IF j = ix.i THEN ix.addresses ELSE {})'
  <2>1. Stored(n, j, IF j = ix.i THEN ix.addresses ELSE {})
    BY <1>4, Zenon DEF IndexInv, TickOK, n
  <2>2. CASE j = ix.i
    <3>1. Stored(n, j, ix.addresses) /\ blocks[n][j] = sig
      BY <2>1, <2>2, Zenon DEF sig
    <3>2. /\ blocks'[ix'.slot][j] = sig
          /\ (IF j = ix'.i THEN ix'.addresses ELSE {}) = ix'.addresses
      BY <1>1, <1>5, <2>2, <3>1, Zenon
    <3>3. ASSUME NEW b \in Lists[sig] \ ix'.addresses
          PROVE  swallowed' \/ <<b, sig>> \in address_rows'
      BY <1>3, <1>5, <3>1, Zenon DEF Stored
    <3> QED BY <1>1, <3>1, <3>2, <3>3, Zenon DEF Stored
  <2>3. CASE j # ix.i
    <3>1. Stored(n, j, {}) /\ (IF j = ix'.i THEN ix'.addresses ELSE {}) = {}
      BY <1>5, <2>1, <2>3, Zenon
    <3> QED BY <1>1, <1>3, <1>5, <3>1, Zenon DEF Stored
  <2> QED BY <2>2, <2>3
<1>9. TickOK'
  <2>1. /\ n \in block_rows /\ lastSlot < n /\ n <= ix.upTo /\ n <= ix.upTo + 1
        /\ lastSlot <= ix.upTo /\ ix.upTo <= tip /\ ix.i <= Len(blocks[n])
    BY <1>4, Zenon DEF IndexInv, TickOK, n
  <2> QED BY <1>1, <1>4, <1>5, <1>8, <2>1, Zenon DEF TickOK
<1>10. StoredBelow'
  <2>1. Frontier' = Frontier
    BY <1>4, <1>5, Zenon DEF Frontier, n
  <2> QED BY <1>1, <1>7, <2>1, Zenon DEF IndexInv, StoredBelow
<1> QED BY <1>6, <1>9, <1>10 DEF IndexInv

LEMMA IndexNext == IndexInv /\ [IndexerStep]_allVars => IndexInv'
<1>1. ASSUME IndexInv, UNCHANGED vars, IndexerNext PROVE IndexInv'
  <2>1. CASE Tick \/ EndTick \/ Fail
    BY <1>1, <2>1, IndexTick
  <2>2. CASE IndexSlot \/ NextSlot
    BY <1>1, <2>2, IndexSlots
  <2>3. CASE IndexTransaction
    BY <1>1, <2>3, IndexTransactions
  <2>4. ASSUME NEW a \in Addrs, IndexAddress(a) PROVE IndexInv'
    BY <1>1, <2>4, IndexAddresses, Zenon
  <2> QED BY <1>1, <2>1, <2>2, <2>3, <2>4, Zenon DEF IndexerNext, IndexerProgress
<1>2. ASSUME IndexInv, UNCHANGED vars, UNCHANGED indexerVars PROVE IndexInv'
  <2>1. blocks' = blocks /\ repeated' = repeated /\ tip' = tip
    BY <1>2 DEF vars, nodeVars
  <2> QED BY <1>2, <2>1, IndexStill
<1> QED BY <1>1, <1>2, IndexNode, Zenon DEF IndexerStep, allVars

\* Whatever ticks fail, and whatever the node commits meanwhile: every block and every
\* transaction up to the cursor has its row, and unless a signature was included twice
\* the row says where the transaction is (tick, indexSlot, indexTransaction).
THEOREM IndexedTheorem == IndexerSpec => []IndexedUpToCursor
<1>1. Init /\ IndexerInit => IndexInv
  BY IndexInit
<1>2. IndexInv /\ [IndexerStep]_allVars => IndexInv'
  BY IndexNext
<1>3. IndexInv => IndexedUpToCursor
  BY IndexInvImplies
<1>4. IndexerSpec => Init /\ IndexerInit /\ [][IndexerStep]_allVars
  BY PTL DEF IndexerSpec, IndexerStep, allVars
<1> QED BY <1>1, <1>2, <1>3, <1>4, PTL

\* The same for the addresses: a transaction up to the cursor is found under each of
\* its addresses, unless an error was taken for a row that exists (indexTransaction).
THEOREM AddressesTheorem == IndexerSpec => []AddressesIndexedUnlessSwallowed
<1>1. Init /\ IndexerInit => IndexInv
  BY IndexInit
<1>2. IndexInv /\ [IndexerStep]_allVars => IndexInv'
  BY IndexNext
<1>3. IndexInv => AddressesIndexedUnlessSwallowed
  BY IndexInvImplies
<1>4. IndexerSpec => Init /\ IndexerInit /\ [][IndexerStep]_allVars
  BY PTL DEF IndexerSpec, IndexerStep, allVars
<1> QED BY <1>1, <1>2, <1>3, <1>4, PTL

=============================================================================
