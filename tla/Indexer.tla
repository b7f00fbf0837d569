------------------------------ MODULE Indexer ------------------------------
(***************************************************************************)
(* The indexer (src/indexer/src): it polls the node of Rpc for new slots   *)
(* and stores blocks, transactions and the signatures of addresses in its  *)
(* database, then moves its cursor.  A call of the node or of the database *)
(* may fail, which ends the tick; a later tick starts from the cursor.     *)
(***************************************************************************)
EXTENDS Rpc

CONSTANTS BatchSize, MaxFaults

ASSUME IndexerAssumption ==
  BatchSize \in Nat \ {0} /\ MaxFaults \in Nat /\ None \notin [slot : Nat, index : Nat]

VARIABLES
  ix,            \* the tick: pc, upTo, slot, transactions taken, addresses to store
  lastSlot,      \* syncState
  block_rows, tx_rows, address_rows,
  swallowed,     \* history: an error of addressSignature.create was caught
  faults

dbVars == <<lastSlot, block_rows, tx_rows, address_rows>>
indexerVars == <<ix, dbVars, swallowed, faults>>

NoTick == [pc |-> "idle", upTo |-> 0, slot |-> 0, i |-> 0, addresses |-> {}]

IndexerInit ==
  /\ ix = NoTick /\ lastSlot = 0
  /\ block_rows = {} /\ tx_rows = [x \in Sigs |-> None] /\ address_rows = {}
  /\ swallowed = FALSE /\ faults = 0

\* getSlot with the block that is being produced.
getSlotNext == tip + 1

\* getSlot one slot behind.
getSlotBehind == tip - 1

getSlot == tip

Tick ==
  LET upTo == IF getSlot < lastSlot + BatchSize THEN getSlot ELSE lastSlot + BatchSize
  IN /\ ix.pc = "idle" /\ ~locked /\ getSlot > lastSlot
     /\ ix' = [NoTick EXCEPT !.pc = "slot", !.upTo = upTo, !.slot = lastSlot + 1]
     /\ UNCHANGED <<dbVars, swallowed, faults>>

\* indexSlot: a slot without a block is passed over.
IndexSlot ==
  LET found == ix.slot \in Slots
  IN /\ ix.pc = "slot" /\ ix.slot <= ix.upTo
     /\ block_rows' = IF found THEN block_rows \cup {ix.slot} ELSE block_rows
     /\ ix' = IF found THEN [ix EXCEPT !.pc = "tx", !.i = 0] ELSE [ix EXCEPT !.slot = @ + 1]
     /\ UNCHANGED <<lastSlot, tx_rows, address_rows, swallowed, faults>>

\* IndexTransaction that takes a row for an indexed transaction.
IndexTransactionOnce ==
  LET i == ix.i + 1
      sig == blocks[ix.slot][i]
      slot == IF tx_rows[sig] = None THEN ix.slot ELSE tx_rows[sig].slot
  IN /\ ix.pc = "tx" /\ ix.addresses = {} /\ i <= Len(blocks[ix.slot])
     /\ tx_rows' = [tx_rows EXCEPT ![sig] = [slot |-> slot, index |-> i]]
     /\ ix' = [ix EXCEPT !.i = i,
                         !.addresses = IF tx_rows[sig] = None THEN Lists[sig] ELSE {}]
     /\ UNCHANGED <<lastSlot, block_rows, address_rows, swallowed, faults>>

\* indexTransaction: an existing row keeps its slot and takes the new index.
IndexTransaction ==
  LET i == ix.i + 1
      sig == blocks[ix.slot][i]
      slot == IF tx_rows[sig] = None THEN ix.slot ELSE tx_rows[sig].slot
  IN /\ ix.pc = "tx" /\ ix.addresses = {} /\ i <= Len(blocks[ix.slot])
     /\ tx_rows' = [tx_rows EXCEPT ![sig] = [slot |-> slot, index |-> i]]
     /\ ix' = [ix EXCEPT !.i = i, !.addresses = Lists[sig]]
     /\ UNCHANGED <<lastSlot, block_rows, address_rows, swallowed, faults>>

\* addressSignature.create: whatever fails is taken for a row that exists.
IndexAddress(a) ==
  /\ a \in ix.addresses
  /\ ix' = [ix EXCEPT !.addresses = @ \ {a}]
  /\ \/ /\ address_rows' = address_rows \cup {<<a, blocks[ix.slot][ix.i]>>}
        /\ UNCHANGED <<swallowed, faults>>
     \/ /\ faults < MaxFaults /\ faults' = faults + 1
        /\ swallowed' = TRUE
        /\ UNCHANGED address_rows
  /\ UNCHANGED <<lastSlot, block_rows, tx_rows>>

NextSlot ==
  /\ ix.pc = "tx" /\ ix.addresses = {} /\ ix.i = Len(blocks[ix.slot])
  /\ ix' = [ix EXCEPT !.pc = "slot", !.slot = @ + 1]
  /\ UNCHANGED <<dbVars, swallowed, faults>>

\* The cursor moves once all slots of the tick are stored.
EndTick ==
  /\ ix.pc = "slot" /\ ix.slot > ix.upTo
  /\ lastSlot' = ix.upTo
  /\ ix' = NoTick
  /\ UNCHANGED <<block_rows, tx_rows, address_rows, swallowed, faults>>

\* An error of any other call, or a restart of the indexer.
Fail ==
  /\ ix.pc # "idle" /\ faults < MaxFaults /\ faults' = faults + 1
  /\ ix' = NoTick
  /\ UNCHANGED <<dbVars, swallowed>>

IndexerProgress ==
  \/ Tick
  \/ IndexSlot
  \/ IndexTransaction
  \/ \E a \in Addrs : IndexAddress(a)
  \/ NextSlot
  \/ EndTick

IndexerNext == IndexerProgress \/ Fail

IndexerSpec ==
  /\ Init /\ IndexerInit
  /\ [][\/ Next /\ UNCHANGED indexerVars
        \/ IndexerNext /\ UNCHANGED vars]_<<vars, indexerVars>>

----------------------------------------------------------------------------
\* Up to the cursor every block and every transaction has its row, and unless a
\* signature was included twice the row says where the transaction is (tick,
\* indexSlot and indexTransaction, which skip what the node does not have).
IndexedUpToCursor ==
  \A s \in 1..lastSlot :
    /\ s \in block_rows
    /\ \A i \in DOMAIN blocks[s] :
         /\ tx_rows[blocks[s][i]] # None
         /\ ~repeated => tx_rows[blocks[s][i]] = [slot |-> s, index |-> i]

\* Up to the cursor the transactions of an address are found under it.
AddressesIndexed ==
  \A s \in 1..lastSlot : \A i \in DOMAIN blocks[s] : \A a \in Lists[blocks[s][i]] :
    <<a, blocks[s][i]>> \in address_rows

\* The same unless an error other than a row that exists was caught (the catch of
\* indexTransaction).
AddressesIndexedUnlessSwallowed == swallowed \/ AddressesIndexed

\* Every block is indexed in the end, whatever ticks fail (main retries them).
IndexerCatchesUp == \A s \in 1..MaxSlot : tip >= s ~> lastSlot >= s

=============================================================================
