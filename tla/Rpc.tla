-------------------------------- MODULE Rpc --------------------------------
(***************************************************************************)
(* The JSON-RPC and WebSocket server (zul-rpc/src/server.rs) over a node   *)
(* that commits blocks (zul-node/src/node.rs, zul-store/src/store.rs): the *)
(* subscriptions and their broadcast channel, queries that answer with a   *)
(* context slot, and paging through the signatures of an address.          *)
(*                                                                         *)
(* A block is the sequence of its transactions' signatures, its slot is    *)
(* its position.  A transaction writes the accounts it lists, and an       *)
(* account's value is the slot of its last write.  The tip lock is held    *)
(* from before a block's commit until after its notification, so whoever   *)
(* reads the tip waits; readers of the store and subscribers do not.       *)
(***************************************************************************)
EXTENDS Integers, Sequences, FiniteSets, Functions, TLC

CONSTANTS Sigs, Addrs,
          Lists,       \* the accounts a transaction lists
          Rank,        \* the order of the accounts' keys
          Holder,      \* the owner that a token account's data names
          Subscribers, \* WebSocket subscriptions
          None,
          Word,        \* the largest slot and index
          Capacity,    \* of the broadcast channel
          Limit,       \* of a page
          ScanLimit,   \* 10_000
          \* bounds of the model
          Bodies,      \* the blocks' transactions
          MaxSlot, MaxTxs, MaxRounds, MaxPages, MaxRestarts

ASSUME RpcAssumption ==
  /\ Lists \in [Sigs -> SUBSET Addrs]
  /\ IsFiniteSet(Addrs) /\ Rank \in [Addrs -> Nat] /\ IsInjective(Rank)
  /\ DOMAIN Holder = Addrs
  /\ {Word, Capacity, Limit, ScanLimit, MaxSlot, MaxTxs, MaxRounds, MaxPages, MaxRestarts}
       \subseteq Nat
  /\ MaxSlot <= Word /\ MaxTxs <= Word
  /\ \A txs \in Bodies : txs \in Seq(Sigs) /\ IsInjective(txs) /\ Len(txs) <= MaxTxs
  /\ Capacity > 0 /\ Limit > 0

VARIABLES
  blocks,    \* committed blocks
  tip,       \* tip.slot
  locked,    \* the producer holds the tip lock
  notes,     \* slots sent to the broadcast channel
  repeated,  \* history: a signature was included twice
  restarts,
  sub,       \* subscriptions
  rd,        \* a query
  pg         \* a client that pages through an address

nodeVars == <<blocks, tip, locked, notes, repeated, restarts>>
vars == <<nodeVars, sub, rd, pg>>

----------------------------------------------------------------------------
Slots == 1..Len(blocks)

\* Block s lists account a; signature x is in block s.
Writes(s, a) == \E i \in DOMAIN blocks[s] : a \in Lists[blocks[s][i]]
Includes(s, x) == x \in Range(blocks[s])

\* The newest slot up to s that wrote an account or included a signature.
VersionAt(k, s) ==
  LET at == {t \in 1..s : IF k \in Sigs THEN Includes(t, k) ELSE Writes(t, k)}
  IN IF at = {} THEN 0 ELSE CHOOSE t \in at : \A u \in at : u <= t

\* The locator of a committed signature: commit_block overwrites an older one.
locator(x) ==
  LET s == VersionAt(x, Len(blocks))
  IN [slot |-> s, index |-> CHOOSE i \in DOMAIN blocks[s] : blocks[s][i] = x]

Committed(x) == \E s \in Slots : Includes(s, x)

NoSub == [pc |-> "none", kind |-> None, target |-> None, from |-> 0, pos |-> 0,
          out |-> <<>>, missed |-> FALSE, lagged |-> FALSE]
NoQuery == [pc |-> "idle", keys |-> <<>>, vals |-> <<>>, from |-> 0, context |-> 0]
NoPaging == [pc |-> "idle", address |-> None, before |-> None, until |-> None, cursor |-> None,
             as_of |-> 0, fresh |-> <<>>, all |-> <<>>, rounds |-> 0, pages |-> 0,
             unresolved |-> FALSE]

Init ==
  /\ blocks = <<>> /\ tip = 0 /\ locked = FALSE /\ notes = <<>>
  /\ repeated = FALSE /\ restarts = 0
  /\ sub = [c \in Subscribers |-> NoSub]
  /\ rd = NoQuery
  /\ pg = NoPaging

----------------------------------------------------------------------------
\* CommitBlock with the notification sent first.
CommitBlockNotified(txs) ==
  /\ ~locked /\ Len(blocks) < MaxSlot
  /\ locked' = TRUE
  /\ blocks' = Append(blocks, txs)
  /\ repeated' = (repeated \/ \E x \in Range(txs) : Committed(x))
  /\ notes' = Append(notes, Len(blocks) + 1)
  /\ UNCHANGED <<tip, restarts, sub, rd, pg>>

\* The producer: a block with distinct transactions is committed under the lock.
CommitBlock(txs) ==
  /\ ~locked /\ Len(blocks) < MaxSlot
  /\ locked' = TRUE
  /\ blocks' = Append(blocks, txs)
  /\ repeated' = (repeated \/ \E x \in Range(txs) : Committed(x))
  /\ UNCHANGED <<tip, notes, restarts, sub, rd, pg>>

Receivers == {c \in Subscribers : sub[c].pc = "listening"}

AnyoneListens == Receivers # {}

\* The tip moves, and the block is sent to the channel if anyone listens.
Notify ==
  /\ locked /\ tip < Len(blocks)
  /\ tip' = Len(blocks)
  /\ notes' = IF AnyoneListens THEN Append(notes, Len(blocks)) ELSE notes
  /\ sub' = [c \in Subscribers |->
               IF sub[c].pc = "checked" /\ Includes(Len(blocks), sub[c].target)
               THEN [sub[c] EXCEPT !.missed = TRUE] ELSE sub[c]]
  /\ UNCHANGED <<blocks, locked, repeated, restarts, rd, pg>>

Unlock ==
  /\ locked /\ tip = Len(blocks)
  /\ locked' = FALSE
  /\ UNCHANGED <<blocks, tip, notes, repeated, restarts, sub, rd, pg>>

\* The node restarts with the tip of its store: connections and requests end.
Restart ==
  /\ restarts < MaxRestarts /\ restarts' = restarts + 1
  /\ tip' = Len(blocks) /\ locked' = FALSE
  /\ sub' = [c \in Subscribers |-> [sub[c] EXCEPT !.pc = IF @ = "none" THEN @ ELSE "gone"]]
  /\ rd' = [rd EXCEPT !.pc = IF @ = "reading" THEN "failed" ELSE @]
  /\ pg' = [pg EXCEPT !.pc = IF @ = "scan" THEN "resolve" ELSE @]
  /\ UNCHANGED <<blocks, notes, repeated>>

----------------------------------------------------------------------------
\* Subscriptions.  A handler runs from accept to the end of its loop.
Targets(kind) ==
  CASE kind = "slot" -> {None}
    [] kind = "signature" -> Sigs
    [] kind = "account" -> Addrs

Subscribe(c, kind, target) ==
  /\ sub[c].pc = "none"
  /\ sub' = [sub EXCEPT ![c] = [NoSub EXCEPT !.pc = "accepted", !.kind = kind, !.target = target]]
  /\ UNCHANGED <<nodeVars, rd, pg>>

\* signatureSubscribe without its look at the store.
SignatureCheckSkipped(c) ==
  /\ sub[c].pc = "accepted" /\ sub[c].kind = "signature"
  /\ sub' = [sub EXCEPT ![c].pc = "checked"]
  /\ UNCHANGED <<nodeVars, rd, pg>>

\* signatureSubscribe first looks for the transaction in the store.
SignatureCheck(c) ==
  /\ sub[c].pc = "accepted" /\ sub[c].kind = "signature"
  /\ sub' = [sub EXCEPT ![c] =
               IF Committed(sub[c].target)
               THEN [@ EXCEPT !.pc = "done", !.out = <<locator(sub[c].target).slot>>]
               ELSE [@ EXCEPT !.pc = "checked"]]
  /\ UNCHANGED <<nodeVars, rd, pg>>

\* ctx.subscribe(): the receiver starts at what is sent next.
Listen(c) ==
  /\ sub[c].pc = IF sub[c].kind = "signature" THEN "checked" ELSE "accepted"
  /\ sub' = [sub EXCEPT ![c].pc = "listening", ![c].pos = Len(notes) + 1, ![c].from = tip + 1]
  /\ UNCHANGED <<nodeVars, rd, pg>>

\* What a subscription pushes of block s.
Matches(c, s) ==
  CASE sub[c].kind = "slot" -> TRUE
    [] sub[c].kind = "signature" -> Includes(s, sub[c].target)
    [] sub[c].kind = "account" -> Writes(s, sub[c].target)

Oldest == IF Len(notes) > Capacity THEN Len(notes) - Capacity + 1 ELSE 1

\* RecvError::Lagged: what was overwritten is skipped.
Lagged(c) ==
  /\ sub[c].pc = "listening" /\ sub[c].pos < Oldest
  /\ sub' = [sub EXCEPT ![c].pos = Oldest, ![c].lagged = TRUE]
  /\ UNCHANGED <<nodeVars, rd, pg>>

\* rx.recv(), and the push; a signature's subscription fires once.
Recv(c) ==
  /\ sub[c].pc = "listening" /\ sub[c].pos \in Oldest..Len(notes)
  /\ LET s == notes[sub[c].pos]
     IN sub' = [sub EXCEPT ![c] =
                  [@ EXCEPT !.pos = @ + 1,
                            !.out = IF Matches(c, s) THEN Append(@, s) ELSE @,
                            !.pc = IF sub[c].kind = "signature" /\ Matches(c, s)
                                   THEN "done" ELSE @]]
  /\ UNCHANGED <<nodeVars, rd, pg>>

----------------------------------------------------------------------------
Existing(s) == {a \in Addrs : VersionAt(a, s) > 0}

\* The first accounts, in the order of their keys, up to the limit.
scan_accounts_by_owner(s) ==
  {a \in Existing(s) : Cardinality({b \in Existing(s) : Rank[b] < Rank[a]}) < ScanLimit}

\* Those of a token owner: the limit applies before the owner is looked at.
getTokenAccountsByOwner(o, s) == {a \in scan_accounts_by_owner(s) : Holder[a] = o}

Holders == Range(Holder)

\* What the store answers for a key at slot s.
ValueAt(k, s) == IF k \in Holders THEN getTokenAccountsByOwner(k, s) ELSE VersionAt(k, s)

\* Queries: each key is read in a transaction of its own, then the tip.
Query(keys) ==
  /\ rd.pc = "idle"
  /\ rd' = [NoQuery EXCEPT !.pc = "reading", !.keys = keys, !.from = tip]
  /\ UNCHANGED <<nodeVars, sub, pg>>

\* getBalance, getAccountInfo, getMultipleAccounts, getSignatureStatuses,
\* getTokenAccountsByOwner.
ReadKey ==
  /\ rd.pc = "reading" /\ Len(rd.vals) < Len(rd.keys)
  /\ rd' = [rd EXCEPT !.vals = Append(@, ValueAt(rd.keys[Len(@) + 1], Len(blocks)))]
  /\ UNCHANGED <<nodeVars, sub, pg>>

\* The context slot taken when the request came.
ContextFromRequest ==
  /\ rd.pc = "reading" /\ Len(rd.vals) = Len(rd.keys) /\ ~locked
  /\ rd' = [rd EXCEPT !.pc = "answered", !.context = rd.from]
  /\ UNCHANGED <<nodeVars, sub, pg>>

\* with_context(current_slot()): reading the tip waits for the producer.
Context ==
  /\ rd.pc = "reading" /\ Len(rd.vals) = Len(rd.keys) /\ ~locked
  /\ rd' = [rd EXCEPT !.pc = "answered", !.context = tip]
  /\ UNCHANGED <<nodeVars, sub, pg>>

----------------------------------------------------------------------------
\* getSignaturesForAddress.  The index's keys invert slot and index, so that
\* ascending keys are newest first.
addr_sig_key(e) == <<Word - e.slot, Word - e.index>>
KeyLess(e, f) ==
  LET k == addr_sig_key(e) l == addr_sig_key(f)
  IN k[1] < l[1] \/ (k[1] = l[1] /\ k[2] < l[2])

SigOf(e) == blocks[e.slot][e.index]

\* The index of an address at slot s, newest first.
Listing(a, s) ==
  LET places == [n \in 1..(s * MaxTxs) |-> [slot |-> 1 + ((n - 1) \div MaxTxs),
                                            index |-> 1 + ((n - 1) % MaxTxs)]]
      lists(e) == e.index \in DOMAIN blocks[e.slot] /\ a \in Lists[SigOf(e)]
  IN SortSeq(SelectSeq(places, lists), KeyLess)

\* Entries after a cursor that is taken with the entry itself.
signatures_from(a, cursor, limit) ==
  LET after == SelectSeq(Listing(a, Len(blocks)),
                         LAMBDA e : cursor = None \/ ~KeyLess(e, cursor))
  IN SubSeq(after, 1, IF Len(after) < limit THEN Len(after) ELSE limit)

\* Up to limit entries strictly after the cursor.
signatures_for_address(a, cursor, limit) ==
  LET after == SelectSeq(Listing(a, Len(blocks)),
                         LAMBDA e : cursor = None \/ KeyLess(cursor, e))
  IN SubSeq(after, 1, IF Len(after) < limit THEN Len(after) ELSE limit)

\* The entries of a page up to the signature until.
CutAt(entries, until) ==
  LET hits == {i \in DOMAIN entries : SigOf(entries[i]) = until}
  IN IF hits = {} THEN entries
     ELSE SubSeq(entries, 1, (CHOOSE i \in hits : \A j \in hits : i <= j) - 1)

\* A client starts to read an address, up to the newest signature it knows.
StartPaging(a) ==
  /\ pg.pc = "idle" /\ pg.rounds < MaxRounds
  /\ a = pg.address \/ pg.address = None
  /\ pg' = [pg EXCEPT !.pc = "resolve", !.address = a, !.before = None, !.rounds = @ + 1,
                      !.until = IF pg.all = <<>> THEN None ELSE SigOf(pg.all[1]),
                      !.fresh = <<>>, !.as_of = Len(blocks)]
  /\ UNCHANGED <<nodeVars, sub, rd>>

\* before is resolved to the locator of its transaction ...
PageResolve ==
  /\ pg.pc = "resolve" /\ pg.pages < MaxPages
  /\ pg' = [pg EXCEPT !.pc = "scan", !.pages = @ + 1,
                      !.cursor = IF pg.before = None THEN None ELSE locator(pg.before)]
  /\ UNCHANGED <<nodeVars, sub, rd>>

\* ... or to nothing when the store cannot be read, as if no before was given ...
PageUnresolved ==
  /\ pg.pc = "resolve" /\ pg.pages < MaxPages /\ pg.before # None
  /\ pg' = [pg EXCEPT !.pc = "scan", !.pages = @ + 1, !.cursor = None, !.unresolved = TRUE]
  /\ UNCHANGED <<nodeVars, sub, rd>>

\* ... and the page read in another transaction.  A short page is the last one.
PageScan ==
  LET page == CutAt(signatures_for_address(pg.address, pg.cursor, Limit), pg.until)
      fresh == pg.fresh \o page
      last == Len(page) < Limit
  IN /\ pg.pc = "scan"
     /\ pg' = [pg EXCEPT !.pc = IF last THEN "idle" ELSE "resolve",
                         !.as_of = IF pg.cursor = None THEN Len(blocks) ELSE @,
                         !.before = IF last THEN None ELSE SigOf(page[Len(page)]),
                         !.fresh = IF last THEN <<>> ELSE fresh,
                         !.all = IF last THEN fresh \o @ ELSE @]
     /\ UNCHANGED <<nodeVars, sub, rd>>

----------------------------------------------------------------------------
NodeNext ==
  \/ \E txs \in Bodies : CommitBlock(txs)
  \/ Notify
  \/ Unlock
  \/ Restart

SubscriberNext(c) ==
  \/ \E kind \in {"slot", "signature", "account"} :
       \E target \in Targets(kind) : Subscribe(c, kind, target)
  \/ SignatureCheck(c)
  \/ Listen(c)
  \/ Lagged(c)
  \/ Recv(c)

QueryNext ==
  \/ \E keys \in {<<k>> : k \in Addrs \cup Sigs \cup Holders} \cup Addrs \X Addrs : Query(keys)
  \/ ReadKey
  \/ Context

PagingNext ==
  \/ \E a \in Addrs : StartPaging(a)
  \/ PageResolve
  \/ PageUnresolved
  \/ PageScan

Next ==
  \/ NodeNext
  \/ \E c \in Subscribers : SubscriberNext(c)
  \/ QueryNext
  \/ PagingNext

Spec == Init /\ [][Next]_vars

\* A block once begun is finished, and a subscription's handler runs on.
NodeFairness == WF_vars(Notify) /\ WF_vars(Unlock)
SubscriberFairness ==
  \A c \in Subscribers : WF_vars(SignatureCheck(c) \/ Listen(c) \/ Lagged(c) \/ Recv(c))

----------------------------------------------------------------------------
\* What a subscription pushes (Recv) are slots that concern it, each once and in
\* order, and none before a read of the tip can show it.  One that listens, has taken
\* everything from the channel and never lagged has pushed every block that concerns
\* it since it listens: notifications are skipped (try_produce_block, receiver_count)
\* only when nobody would get them.
PushedUnlessLagged ==
  \A c \in Subscribers :
    /\ \A i, j \in DOMAIN sub[c].out : i < j => sub[c].out[i] < sub[c].out[j]
    /\ \A i \in DOMAIN sub[c].out :
         /\ Matches(c, sub[c].out[i])
         /\ sub[c].out[i] <= tip \/ (locked /\ sub[c].kind = "signature")
    /\ sub[c].pc = "listening" /\ sub[c].pos > Len(notes) /\ ~sub[c].lagged =>
         Range(sub[c].out) = {s \in sub[c].from..tip : Matches(c, s)}

SignatureConfirmed(c) == sub[c].out # <<>> \/ sub[c].pc = "gone"
AwaitsCommitted(c) ==
  sub[c].pc # "none" /\ sub[c].kind = "signature" /\ Committed(sub[c].target)

\* A client of signatureSubscribe is told of its transaction, whether that is
\* committed before it subscribed or after.
SignatureNotified == \A c \in Subscribers : AwaitsCommitted(c) ~> SignatureConfirmed(c)

\* The same unless the block's notification came between the look at the store and
\* the subscription to the channel, or was overwritten in the channel.
SignatureNotifiedUnlessMissed ==
  \A c \in Subscribers :
    AwaitsCommitted(c) ~> SignatureConfirmed(c) \/ sub[c].missed \/ sub[c].lagged

\* An answer with a context slot holds, key by key, what the store had at some slot
\* from the request up to the context: never a value newer than the context
\* (current_slot is read last, and waits for the block being committed), nor one
\* older than the request.  A scan by owner is complete unless there are more
\* accounts than its limit.
AnswersWithinContext ==
  rd.pc = "answered" =>
    \A i \in DOMAIN rd.keys : \E s \in rd.from..rd.context :
      /\ rd.vals[i] = ValueAt(rd.keys[i], s)
      /\ rd.keys[i] \in Holders =>
           \/ Cardinality(Existing(s)) > ScanLimit
           \/ rd.vals[i] = {a \in Existing(s) : Holder[a] = rd.keys[i]}

\* A client that pages through an address while blocks are committed ends with every
\* entry that was there when its last listing began (signatures_for_address), and each
\* once and newest first unless a before could not be resolved, which lists from the
\* newest entry again.  If no signature was included twice, that is: the cursor of such
\* a signature is that of its newest inclusion.
PagesExactUnlessRepeated ==
  pg.pc = "idle" /\ ~repeated /\ pg.address # None =>
    /\ Range(pg.all) = Range(Listing(pg.address, pg.as_of))
    /\ ~pg.unresolved => pg.all = Listing(pg.address, pg.as_of)

=============================================================================
