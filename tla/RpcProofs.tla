----------------------------- MODULE RpcProofs -----------------------------
(***************************************************************************)
(* For any accounts, transactions, owners and limits: the answers of the   *)
(* RPC server lie between their request and their context slot.            *)
(***************************************************************************)
EXTENDS Rpc, TLAPS, FiniteSetTheorems

Keys == Addrs \cup Sigs \cup Holders

\* What the store answered for each key at each slot up to now.
History == [k \in Keys |-> [s \in 0..Len(blocks) |-> ValueAt(k, s)]]

NodeOK ==
  /\ blocks \in Seq(Seq(Sigs))
  /\ tip \in Nat /\ locked \in BOOLEAN
  /\ tip <= Len(blocks)
  /\ ~locked => tip = Len(blocks)

\* The last slot a query's values can be of.
Horizon == IF rd.pc = "answered" THEN rd.context ELSE Len(blocks)

QueryOK ==
  /\ rd = [pc |-> rd.pc, keys |-> rd.keys, vals |-> rd.vals, from |-> rd.from,
           context |-> rd.context]
  /\ rd.keys \in Seq(Keys)
  /\ \E V : rd.vals \in Seq(V)
  /\ rd.from \in Nat /\ rd.context \in Nat
  /\ rd.from <= Len(blocks) /\ rd.context <= Len(blocks)
  /\ Len(rd.vals) <= Len(rd.keys)
  /\ rd.pc = "answered" => Len(rd.vals) = Len(rd.keys)
  /\ rd.pc \in {"reading", "answered"} =>
       \A i \in 1..Len(rd.vals) : \E s \in rd.from..Horizon :
         rd.vals[i] = History[rd.keys[i]][s]

QueryInv == NodeOK /\ QueryOK

\* A scan is complete if there are no more accounts than its limit: the accounts
\* before one of them are fewer than all (scan_accounts_by_owner).
LEMMA ScanComplete ==
  ASSUME NEW s, ~(Cardinality(Existing(s)) > ScanLimit)
  PROVE  scan_accounts_by_owner(s) = Existing(s)
<1> DEFINE E == Existing(s)
<1>1. IsFiniteSet(E) /\ Cardinality(E) \in Nat
  BY RpcAssumption, FS_Subset, FS_CardinalityType DEF Existing
<1>2. ASSUME NEW a \in E PROVE Cardinality({b \in E : Rank[b] < Rank[a]}) < ScanLimit
  <2> DEFINE B == {b \in E : Rank[b] < Rank[a]}
  <2>1. B \subseteq E /\ a \notin B
    BY RpcAssumption DEF Existing
  <2>2. /\ Cardinality(B) \in Nat
        /\ Cardinality(B) <= Cardinality(E) /\ Cardinality(B) # Cardinality(E)
    BY <1>1, <2>1, FS_Subset, FS_CardinalityType
  <2>3. ScanLimit \in Nat
    BY RpcAssumption
  <2> QED BY <1>1, <2>2, <2>3
<1> QED BY <1>2 DEF scan_accounts_by_owner

\* A commit leaves what the store held at earlier slots (commit_block appends).
LEMMA HistoryKept ==
  ASSUME blocks \in Seq(Seq(Sigs)), NEW txs \in Seq(Sigs), blocks' = Append(blocks, txs)
  PROVE  \A k \in Keys : \A s \in 0..Len(blocks) : History'[k][s] = History[k][s]
<1> SUFFICES ASSUME NEW k \in Keys, NEW s \in 0..Len(blocks)
             PROVE  History'[k][s] = History[k][s]
  OBVIOUS
<1>1. Len(blocks') = Len(blocks) + 1 /\ \A t \in 1..s : blocks'[t] = blocks[t]
  OBVIOUS
<1>2. ASSUME NEW j PROVE VersionAt(j, s)' = VersionAt(j, s)
  <2> DEFINE at == {t \in 1..s : IF j \in Sigs THEN Includes(t, j) ELSE Writes(t, j)}
  <2>1. at' = at
    BY <1>1 DEF Includes, Writes
  <2> HIDE DEF at
  <2>2. (IF at = {} THEN 0 ELSE CHOOSE t \in at : \A u \in at : u <= t)'
          = IF at = {} THEN 0 ELSE CHOOSE t \in at : \A u \in at : u <= t
    BY <2>1
  <2> QED BY <2>2 DEF VersionAt, at
<1>3. Existing(s)' = Existing(s)
  BY <1>2 DEF Existing
<1>4. scan_accounts_by_owner(s)' = scan_accounts_by_owner(s)
  BY <1>3 DEF scan_accounts_by_owner
<1>5. ValueAt(k, s)' = ValueAt(k, s)
  BY <1>2, <1>4 DEF ValueAt, getTokenAccountsByOwner
<1> QED BY <1>1, <1>5 DEF History

LEMMA QueryInit == Init => QueryInv
<1> SUFFICES ASSUME Init PROVE QueryInv
  OBVIOUS
<1>1. NodeOK
  <2>1. <<>> \in Seq(Seq(Sigs)) /\ Len(<<>>) = 0
    OBVIOUS
  <2>2. blocks = <<>> /\ tip = 0 /\ locked = FALSE
    BY DEF Init
  <2>3. locked \in BOOLEAN
    BY <2>2, Zenon
  <2>4. blocks \in Seq(Seq(Sigs)) /\ tip \in Nat /\ tip = Len(blocks) /\ tip <= Len(blocks)
    BY <2>1, <2>2
  <2> QED BY <2>3, <2>4, Zenon DEF NodeOK
<1>2. <<>> \in Seq(Keys) /\ Len(<<>>) = 0 /\ Len(blocks) \in Nat
  BY <1>1 DEF NodeOK
<1>3. /\ rd = [pc |-> "idle", keys |-> <<>>, vals |-> <<>>, from |-> 0, context |-> 0]
      /\ rd.pc = "idle" /\ rd.keys = <<>> /\ rd.vals = <<>> /\ rd.from = 0 /\ rd.context = 0
  BY DEF Init, NoQuery
<1>4. \E V : rd.vals \in Seq(V)
  BY <1>2, <1>3
<1> QED BY <1>1, <1>2, <1>3, <1>4 DEF QueryInv, QueryOK

\* Steps that leave the store, the tip and the query alone.
LEMMA QueryStutter == ASSUME QueryInv, UNCHANGED <<blocks, tip, locked, rd>> PROVE QueryInv'
<1>1. History' = History
  BY DEF History, ValueAt, getTokenAccountsByOwner, scan_accounts_by_owner, Existing,
         VersionAt, Includes, Writes
<1> QED BY <1>1 DEF QueryInv, NodeOK, QueryOK, Horizon

\* Steps that move the tip or the lock, and at most end the query.
LEMMA QueryTip ==
  ASSUME QueryInv, NodeOK', blocks' = blocks,
         rd' = rd \/ rd' = [rd EXCEPT !.pc = IF @ = "reading" THEN "failed" ELSE @]
  PROVE  QueryInv'
<1>1. History' = History
  BY DEF History, ValueAt, getTokenAccountsByOwner, scan_accounts_by_owner, Existing,
         VersionAt, Includes, Writes
<1>2. CASE rd' = rd
  BY <1>1, <1>2 DEF QueryInv, QueryOK, Horizon
<1>3. CASE rd' = [rd EXCEPT !.pc = IF @ = "reading" THEN "failed" ELSE @]
  <2>1. /\ rd'.keys = rd.keys /\ rd'.vals = rd.vals
        /\ rd'.from = rd.from /\ rd'.context = rd.context
        /\ rd' = [pc |-> rd'.pc, keys |-> rd'.keys, vals |-> rd'.vals, from |-> rd'.from,
                  context |-> rd'.context]
        /\ rd'.pc \in {"reading", "answered"} => rd'.pc = rd.pc
    BY <1>3 DEF QueryInv, QueryOK
  <2> QED BY <1>1, <2>1 DEF QueryInv, QueryOK, Horizon
<1> QED BY <1>2, <1>3

LEMMA QueryCommit == ASSUME QueryInv, NEW txs \in Bodies, CommitBlock(txs) PROVE QueryInv'
<1>1. blocks \in Seq(Seq(Sigs)) /\ txs \in Seq(Sigs) /\ blocks' = Append(blocks, txs)
  BY RpcAssumption DEF QueryInv, NodeOK, CommitBlock
<1>2. \A k \in Keys : \A s \in 0..Len(blocks) : History'[k][s] = History[k][s]
  BY <1>1, HistoryKept
<1>3. NodeOK' /\ Len(blocks') = Len(blocks) + 1
  BY <1>1 DEF QueryInv, NodeOK, CommitBlock
<1>4. rd' = rd
  BY DEF CommitBlock
<1>5. ASSUME rd.pc \in {"reading", "answered"}, NEW i \in 1..Len(rd.vals)
      PROVE  \E s \in rd.from..Horizon' : rd.vals[i] = History'[rd.keys[i]][s]
  <2>1. PICK s \in rd.from..Horizon : rd.vals[i] = History[rd.keys[i]][s]
    BY <1>5 DEF QueryInv, QueryOK
  <2>2. s \in 0..Len(blocks) /\ s \in rd.from..Horizon'
    BY <1>1, <1>3, <1>4, <2>1 DEF QueryInv, QueryOK, Horizon
  <2>3. rd.keys[i] \in Keys
    BY DEF QueryInv, QueryOK
  <2> QED BY <1>2, <2>1, <2>2, <2>3
<1> QED BY <1>1, <1>3, <1>4, <1>5 DEF QueryInv, QueryOK

LEMMA QueryRead == ASSUME QueryInv, ReadKey PROVE QueryInv'
<1> DEFINE k == rd.keys[Len(rd.vals) + 1]
           v == ValueAt(k, Len(blocks))
<1>1. /\ rd.pc = "reading" /\ Len(rd.vals) < Len(rd.keys)
      /\ rd' = [rd EXCEPT !.vals = Append(rd.vals, v)]
      /\ UNCHANGED <<blocks, tip, locked>>
  BY DEF ReadKey, nodeVars
<1>2. PICK V : rd.vals \in Seq(V)
  BY DEF QueryInv, QueryOK
<1>3. rd.vals \in Seq(V \cup {v}) /\ Append(rd.vals, v) \in Seq(V \cup {v})
  BY <1>2
<1>4. History' = History
  BY <1>1 DEF History, ValueAt, getTokenAccountsByOwner, scan_accounts_by_owner, Existing,
         VersionAt, Includes, Writes
<1>5. k \in Keys /\ v = History[k][Len(blocks)]
  BY <1>1, <1>2 DEF QueryInv, QueryOK, NodeOK, History
<1> HIDE DEF v
<1>6. /\ rd'.keys = rd.keys /\ rd'.vals = Append(rd.vals, v) /\ rd'.pc = rd.pc
      /\ rd'.from = rd.from /\ rd'.context = rd.context
      /\ rd' = [pc |-> rd'.pc, keys |-> rd'.keys, vals |-> rd'.vals, from |-> rd'.from,
                context |-> rd'.context]
  BY <1>1, Zenon DEF QueryInv, QueryOK
<1>7. ASSUME NEW i \in 1..Len(rd'.vals)
      PROVE  \E s \in rd.from..Len(blocks) : rd'.vals[i] = History[rd.keys[i]][s]
  <2>1. CASE i = Len(rd.vals) + 1
    <3>1. rd'.vals[i] = v /\ rd.keys[i] = k /\ Len(blocks) \in rd.from..Len(blocks)
      BY <1>2, <1>3, <1>6, <2>1 DEF QueryInv, QueryOK, NodeOK
    <3> QED BY <3>1, <1>5
  <2>2. CASE i \in 1..Len(rd.vals)
    <3>1. rd'.vals[i] = rd.vals[i]
      BY <1>2, <1>3, <1>6, <2>2
    <3> QED BY <3>1, <1>1, <2>2 DEF QueryInv, QueryOK, Horizon
  <2> QED BY <1>2, <1>3, <1>6, <2>1, <2>2
<1>8. Len(rd'.vals) <= Len(rd'.keys)
  BY <1>1, <1>2, <1>3, <1>6 DEF QueryInv, QueryOK
<1>9. NodeOK'
  BY <1>1 DEF QueryInv, NodeOK
<1> QED BY <1>1, <1>3, <1>4, <1>6, <1>7, <1>8, <1>9 DEF QueryInv, QueryOK, Horizon

LEMMA QueryNextInv == ASSUME QueryInv, [Next]_vars PROVE QueryInv'
<1>1. CASE NodeNext
  <2>1. ASSUME NEW txs \in Bodies, CommitBlock(txs) PROVE QueryInv'
    BY <2>1, QueryCommit
  <2>2. CASE Notify
    <3>1. NodeOK' /\ blocks' = blocks /\ rd' = rd
      BY <2>2 DEF Notify, QueryInv, NodeOK
    <3> QED BY <3>1, QueryTip
  <2>3. CASE Unlock
    <3>1. NodeOK' /\ blocks' = blocks /\ rd' = rd
      BY <2>3, Zenon DEF Unlock, QueryInv, NodeOK
    <3> QED BY <3>1, QueryTip
  <2>4. CASE Restart
    <3>1. NodeOK' /\ blocks' = blocks
      <4>1. tip' = Len(blocks) /\ locked' = FALSE /\ blocks' = blocks
        BY <2>4 DEF Restart
      <4>2. locked' \in BOOLEAN
        BY <4>1, Zenon
      <4>3. /\ blocks' \in Seq(Seq(Sigs)) /\ tip' \in Nat
            /\ tip' = Len(blocks') /\ tip' <= Len(blocks')
        BY <4>1 DEF QueryInv, NodeOK
      <4> QED BY <4>1, <4>2, <4>3, Zenon DEF NodeOK
    <3>2. rd' = [rd EXCEPT !.pc = IF @ = "reading" THEN "failed" ELSE @]
      BY <2>4 DEF Restart
    <3> QED BY <3>1, <3>2, QueryTip
  <2> QED BY <1>1, <2>1, <2>2, <2>3, <2>4 DEF NodeNext
<1>2. CASE \E c \in Subscribers : SubscriberNext(c)
  <2>1. UNCHANGED <<blocks, tip, locked, rd>>
    BY <1>2, Zenon DEF SubscriberNext, Subscribe, SignatureCheck, Listen, Lagged, Recv, nodeVars
  <2> QED BY <2>1, QueryStutter
<1>3. CASE QueryNext
  <2>1. ASSUME NEW keys \in Seq(Keys), Query(keys) PROVE QueryInv'
    <3>1. /\ rd' = [pc |-> "reading", keys |-> keys, vals |-> <<>>, from |-> tip, context |-> 0]
          /\ UNCHANGED <<blocks, tip, locked>>
      BY <2>1, Zenon DEF Query, NoQuery, nodeVars
    <3>2. /\ rd'.pc = "reading" /\ rd'.keys = keys /\ rd'.vals = <<>> /\ rd'.from = tip
          /\ rd'.context = 0
      BY <3>1
    <3>3. <<>> \in Seq(Keys) /\ Len(<<>>) = 0 /\ Len(keys) \in Nat
      OBVIOUS
    <3>4. \E V : rd'.vals \in Seq(V)
      BY <3>2, <3>3
    <3>5. NodeOK'
      BY <3>1 DEF QueryInv, NodeOK
    <3> QED BY <3>1, <3>2, <3>3, <3>4, <3>5 DEF QueryInv, QueryOK, NodeOK
  <2>2. ASSUME NEW keys \in {<<k>> : k \in Addrs \cup Sigs \cup Holders} \cup Addrs \X Addrs
        PROVE  keys \in Seq(Keys)
    <3>1. CASE keys \in {<<k>> : k \in Keys}
      <4>1. PICK k \in Keys : keys = <<k>>
        BY <3>1
      <4> QED BY <4>1
    <3>2. CASE keys \in Addrs \X Addrs
      <4>1. PICK k \in Addrs, l \in Addrs : keys = <<k, l>>
        BY <3>2
      <4>2. k \in Keys /\ l \in Keys
        BY DEF Keys
      <4> QED BY <4>1, <4>2
    <3> QED BY <2>2, <3>1, <3>2 DEF Keys
  <2>3. CASE Context
    <3>1. /\ rd.pc = "reading" /\ Len(rd.vals) = Len(rd.keys) /\ ~locked
          /\ rd' = [rd EXCEPT !.pc = "answered", !.context = tip]
          /\ UNCHANGED <<blocks, tip, locked>>
      BY <2>3 DEF Context, nodeVars
    <3>2. /\ rd'.keys = rd.keys /\ rd'.vals = rd.vals /\ rd'.from = rd.from
          /\ rd'.pc = "answered" /\ rd'.context = tip
          /\ rd' = [pc |-> rd'.pc, keys |-> rd'.keys, vals |-> rd'.vals, from |-> rd'.from,
                    context |-> rd'.context]
      BY <3>1, ZenonT(40) DEF QueryInv, QueryOK
    <3>3. History' = History
      BY <3>1 DEF History, ValueAt, getTokenAccountsByOwner, scan_accounts_by_owner, Existing,
             VersionAt, Includes, Writes
    <3>4. tip = Len(blocks) /\ Horizon = Len(blocks) /\ Horizon' = Len(blocks)
      BY <3>1, <3>2 DEF Horizon, QueryInv, NodeOK
    <3>5. NodeOK'
      BY <3>1 DEF QueryInv, NodeOK
    <3> QED BY <3>1, <3>2, <3>3, <3>4, <3>5 DEF QueryInv, QueryOK, NodeOK
  <2> QED BY <1>3, <2>1, <2>2, <2>3, QueryRead DEF QueryNext
<1>4. CASE PagingNext
  <2>1. UNCHANGED <<blocks, tip, locked, rd>>
    BY <1>4, Zenon DEF PagingNext, StartPaging, PageResolve, PageUnresolved,
                PageScan, nodeVars
  <2> QED BY <2>1, QueryStutter
<1>5. CASE UNCHANGED vars
  BY <1>5, QueryStutter DEF vars, nodeVars
<1> QED BY <1>1, <1>2, <1>3, <1>4, <1>5 DEF Next

LEMMA QueryWithin == QueryInv => AnswersWithinContext
<1> SUFFICES ASSUME QueryInv, rd.pc = "answered", NEW i \in DOMAIN rd.keys
             PROVE  \E s \in rd.from..rd.context :
                      /\ rd.vals[i] = ValueAt(rd.keys[i], s)
                      /\ rd.keys[i] \in Holders =>
                           \/ Cardinality(Existing(s)) > ScanLimit
                           \/ rd.vals[i] = {a \in Existing(s) : Holder[a] = rd.keys[i]}
  BY DEF AnswersWithinContext
<1>1. i \in 1..Len(rd.vals) /\ rd.keys[i] \in Keys /\ Horizon = rd.context
  BY DEF QueryInv, QueryOK, Horizon
<1>2. PICK s \in rd.from..rd.context : rd.vals[i] = History[rd.keys[i]][s]
  BY <1>1 DEF QueryInv, QueryOK
<1>3. s \in 0..Len(blocks)
  BY <1>2 DEF QueryInv, QueryOK, NodeOK
<1>4. rd.vals[i] = ValueAt(rd.keys[i], s)
  BY <1>1, <1>2, <1>3 DEF History
<1>5. ASSUME rd.keys[i] \in Holders, ~(Cardinality(Existing(s)) > ScanLimit)
      PROVE  rd.vals[i] = {a \in Existing(s) : Holder[a] = rd.keys[i]}
  BY <1>4, <1>5, ScanComplete DEF ValueAt, getTokenAccountsByOwner
<1> QED BY <1>2, <1>4, <1>5

\* Whatever is committed while a query reads, and whenever the node restarts: an
\* answer holds, key by key, what the store had at a slot between the request and the
\* context slot (getBalance, getMultipleAccounts, getTokenAccountsByOwner,
\* getSignatureStatuses, with current_slot read last under the tip lock).
THEOREM AnswersTheorem == Spec => []AnswersWithinContext
<1>1. Init => QueryInv
  BY QueryInit
<1>2. QueryInv /\ [Next]_vars => QueryInv'
  BY QueryNextInv
<1>3. QueryInv => AnswersWithinContext
  BY QueryWithin
<1> QED BY <1>1, <1>2, <1>3, PTL DEF Spec

=============================================================================
