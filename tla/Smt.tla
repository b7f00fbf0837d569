-------------------------------- MODULE Smt --------------------------------
(***************************************************************************)
(* The sparse Merkle trees: the state tree over all accounts               *)
(* (zul-store/src/smt.rs) with the store operations that keep it, and the  *)
(* shallow tree of withdrawals (zul-node/src/withdraw_smt.rs) with its     *)
(* verifier in the settlement program (programs/zul-settlement/src/smt.rs).*)
(*                                                                         *)
(* A path is a sequence of bits, a node key a depth and a prefix.  Hashes  *)
(* are injective with separated domains: the hash of two nodes is their    *)
(* pair, a leaf's hash a triple.  Both trees address a leaf by the same    *)
(* path; the shallow one looks at its first WDepth bits only.              *)
(***************************************************************************)
EXTENDS Naturals, Sequences, FiniteSets, SequencesExt, TLC

CONSTANTS SmtDepth,     \* SMT_DEPTH of the state tree
          WDepth,    \* WITHDRAW_DEPTH
          Pubkeys,
          PathOf,    \* key_path: at least SmtDepth bits for every pubkey
          Hashes,    \* account hashes
          None, EmptyHash,
          \* bounds of the model
          MaxUpdates, MaxWithdrawals

ASSUME SmtAssumption ==
  /\ {SmtDepth, WDepth} \subseteq Nat \ {0} /\ None \notin Hashes
  /\ \A p \in Pubkeys : PathOf[p] \in Seq({0, 1}) /\ Len(PathOf[p]) >= SmtDepth
  /\ \A p, q \in Pubkeys : SubSeq(PathOf[p], 1, SmtDepth) = SubSeq(PathOf[q], 1, SmtDepth) => p = q

----------------------------------------------------------------------------
\* Hashes and node keys

node_hash(left, right) == <<left, right>>
leaf_hash(pubkey, account_hash) == <<"leaf", pubkey, account_hash>>

\* The hashes of the empty subtrees of a tree, by depth.
empties(D) ==
  LET e[d \in 0..D] == IF d = D THEN EmptyHash ELSE node_hash(e[d + 1], e[d + 1])
  IN  e

\* The bit that leads from depth d - 1 to depth d, and the path to the sibling.
path_bit(path, d) == path[d]
flip_bit(path, d) == [path EXCEPT ![d] = 1 - @]

\* A node's storage key: its depth and the path masked to that many bits.
node_key(d, path) == <<d, SubSeq(path, 1, d)>>

\* What a table of nodes holds at a depth on a path.
get_node(nodes, D, d, path) ==
  LET k == node_key(d, path) IN IF k \in DOMAIN nodes THEN nodes[k] ELSE empties(D)[d]

\* The hash of a node from its child on a path and the child's sibling.
Parent(path, d, child, sibling) ==
  IF path_bit(path, d) = 1 THEN node_hash(sibling, child) ELSE node_hash(child, sibling)

\* The nodes from a new leaf up to the root, with siblings from a table.
PathWrites(nodes, D, path, leaf) ==
  LET at[d \in 0..D] ==
        IF d = D THEN leaf
        ELSE Parent(path, d + 1, at[d + 1], get_node(nodes, D, d + 1, flip_bit(path, d + 1)))
  IN  [k \in {node_key(d, path) : d \in 0..D} |-> at[k[1]]]

\* A proof walks from the leaf, i = 0, up to the root.  A sibling that is an empty
\* subtree is left out and its bit in the bitmap is clear.
Prove(nodes, D, path) ==
  LET sibling(i) == get_node(nodes, D, D - i, flip_bit(path, D - i))
      bitmap == [i \in 0..D - 1 |-> sibling(i) # empties(D)[D - i]]
      listed == SelectSeq([j \in 1..D |-> j - 1], LAMBDA i : bitmap[i])
  IN  [bitmap |-> bitmap, siblings |-> [j \in 1..Len(listed) |-> sibling(listed[j])]]

\* Mutant: siblings left over are ignored.
VerifiesLeftover(D, root, path, leaf, proof) ==
  LET used(i) == Cardinality({j \in 0..i - 1 : proof.bitmap[j]})
      sibling(i) == IF proof.bitmap[i] THEN proof.siblings[used(i) + 1] ELSE empties(D)[D - i]
      current[i \in 0..D] ==
        IF i = 0 THEN leaf ELSE Parent(path, D - (i - 1), current[i - 1], sibling(i - 1))
  IN  used(D) <= Len(proof.siblings) /\ current[D] = root

\* Does a leaf with a proof make the root?  Every set bit takes the next sibling,
\* and all must be used.
Verifies(D, root, path, leaf, proof) ==
  LET used(i) == Cardinality({j \in 0..i - 1 : proof.bitmap[j]})
      sibling(i) == IF proof.bitmap[i] THEN proof.siblings[used(i) + 1] ELSE empties(D)[D - i]
      current[i \in 0..D] ==
        IF i = 0 THEN leaf ELSE Parent(path, D - (i - 1), current[i - 1], sibling(i - 1))
  IN  used(D) = Len(proof.siblings) /\ current[D] = root

----------------------------------------------------------------------------
\* The state tree: smt.rs

LeafOf(pubkey, account_hash) ==
  IF account_hash = None THEN EmptyHash ELSE leaf_hash(pubkey, account_hash)

\* Mutant: each update reads the committed nodes only.
apply_updates_no_overlay(source, updates) ==
  FoldLeft(LAMBDA overlay, u : PathWrites(source, SmtDepth, PathOf[u[1]], LeafOf(u[1], u[2]))
                                 @@ overlay,
           [k \in {} |-> EmptyHash], updates)

\* node_writes of a batch: every update sees the ones before it.
apply_updates(source, updates) ==
  FoldLeft(LAMBDA overlay, u : PathWrites(overlay @@ source, SmtDepth, PathOf[u[1]],
                                          LeafOf(u[1], u[2])) @@ overlay,
           [k \in {} |-> EmptyHash], updates)

\* The root after a batch.
new_root(source, node_writes) == get_node(node_writes @@ source, SmtDepth, 0, <<>>)

prove(source, pubkey) == Prove(source, SmtDepth, PathOf[pubkey])
verify(root, pubkey, account_hash, proof) ==
  Verifies(SmtDepth, root, PathOf[pubkey], LeafOf(pubkey, account_hash), proof)

\* Dirty nodes are stored, those that became empty removed.
write_smt_nodes(table, node_writes) ==
  LET written == node_writes @@ table
      empty(k) == k \in DOMAIN node_writes /\ node_writes[k] = empties(SmtDepth)[k[1]]
  IN  [k \in {j \in DOMAIN written : ~empty(j)} |-> written[k]]

----------------------------------------------------------------------------
\* The withdrawals tree: withdraw_smt.rs, and its verifier on L1

withdraw_apply(tree, pubkey, account_hash) ==
  PathWrites(tree, WDepth, PathOf[pubkey], leaf_hash(pubkey, account_hash)) @@ tree
withdraw_root(tree) == get_node(tree, WDepth, 0, <<>>)
withdraw_prove(tree, pubkey) == Prove(tree, WDepth, PathOf[pubkey])
withdraw_verify(root, pubkey, account_hash, proof) ==
  Verifies(WDepth, root, PathOf[pubkey], leaf_hash(pubkey, account_hash), proof)

\* Mutant: the walk takes its siblings from the root down.
l1_verify_top_down(root, pubkey, account_hash, proof) ==
  LET path == PathOf[pubkey]
      step(w, i) == [w EXCEPT !.current = Parent(path, i + 1, @,
                       IF proof.bitmap[i] /\ w.cursor < Len(proof.siblings)
                       THEN proof.siblings[w.cursor + 1] ELSE empties(WDepth)[i + 1]),
                              !.cursor = IF proof.bitmap[i] THEN @ + 1 ELSE @]
      end == FoldLeft(step, [current |-> leaf_hash(pubkey, account_hash), cursor |-> 0],
                      [j \in 1..WDepth |-> j - 1])
  IN  end.cursor = Len(proof.siblings) /\ end.current = root

\* The settlement program's walk, with its cursor; it gives up when a sibling is
\* missing.
l1_verify(root, pubkey, account_hash, proof) ==
  LET path == PathOf[pubkey]
      missing(w, i) == proof.bitmap[i] /\ w.cursor = Len(proof.siblings)
      sibling(w, i) == IF proof.bitmap[i] THEN proof.siblings[w.cursor + 1]
                       ELSE empties(WDepth)[WDepth - i]
      step(w, i) ==
        IF ~w.ok \/ missing(w, i) THEN [w EXCEPT !.ok = FALSE]
        ELSE [ok |-> TRUE,
              cursor |-> IF proof.bitmap[i] THEN w.cursor + 1 ELSE w.cursor,
              current |-> Parent(path, WDepth - i, w.current, sibling(w, i))]
      end == FoldLeft(step, [ok |-> TRUE, cursor |-> 0,
                             current |-> leaf_hash(pubkey, account_hash)],
                      [j \in 1..WDepth |-> j - 1])
  IN  end.ok /\ end.cursor = Len(proof.siblings) /\ end.current = root

----------------------------------------------------------------------------
\* The store and the node that keep the trees

VARIABLES
  accounts,    \* T_ACCOUNTS: the account hash, None for no account
  nodes,       \* T_SMT
  state_root,  \* META_STATE_ROOT
  wtree,       \* the node's withdrawals tree, in memory
  withdrawals  \* history: the leaves inserted into it, in order

stateVars == <<accounts, nodes, state_root>>
withdrawVars == <<wtree, withdrawals>>

NoNodes == [k \in {} |-> EmptyHash]

\* Batches of leaf updates: a pubkey with its account hash, or None to delete it.
Updates == BoundedSeq(Pubkeys \X (Hashes \cup {None}), MaxUpdates)

WriteAccounts(table, updates) ==
  FoldLeft(LAMBDA a, u : [a EXCEPT ![u[1]] = u[2]], table, updates)

\* initialize_genesis on an empty store: the allocations, then the accounts of the
\* runtime; a key that occurs twice keeps its last account.  Later calls write
\* nothing.
InitializeGenesis(updates) ==
  /\ \A i \in 1..Len(updates) : updates[i][2] # None
  /\ accounts = WriteAccounts([p \in Pubkeys |-> None], updates)
  /\ nodes = write_smt_nodes(NoNodes, apply_updates(NoNodes, updates))
  /\ state_root = new_root(NoNodes, apply_updates(NoNodes, updates))

SmtInit ==
  /\ \E updates \in Updates : InitializeGenesis(updates)
  /\ wtree = NoNodes /\ withdrawals = <<>>

\* prepare_state_update and commit_block: the writes of a block, one per account, in
\* the order of a hash map, in one transaction; None deletes.
CommitBlock(updates) ==
  LET node_writes == apply_updates(nodes, updates)
  IN /\ updates # <<>>
     /\ \A i, j \in 1..Len(updates) : updates[i][1] = updates[j][1] => i = j
     /\ accounts' = WriteAccounts(accounts, updates)
     /\ nodes' = write_smt_nodes(nodes, node_writes)
     /\ state_root' = new_root(nodes, node_writes)
     /\ UNCHANGED withdrawVars

\* A committed withdrawal enters the shallow tree; there is no removal.
CommitWithdrawal(pubkey, account_hash) ==
  /\ Len(withdrawals) < MaxWithdrawals
  /\ wtree' = withdraw_apply(wtree, pubkey, account_hash)
  /\ withdrawals' = Append(withdrawals, <<pubkey, account_hash>>)
  /\ UNCHANGED stateVars

BlockNext == \E updates \in Updates : CommitBlock(updates)
WithdrawalNext == \E pubkey \in Pubkeys, h \in Hashes : CommitWithdrawal(pubkey, h)

----------------------------------------------------------------------------
\* The whole tree, node by node: the reference for the sparse one.
Reference ==
  LET leaf(p) ==
        LET here == {q \in Pubkeys : SubSeq(PathOf[q], 1, SmtDepth) = p}
        IN  IF here = {} THEN EmptyHash
            ELSE LET q == CHOOSE q \in here : TRUE IN LeafOf(q, accounts[q])
      node[d \in 0..SmtDepth] ==
        IF d = SmtDepth THEN [p \in [1..SmtDepth -> {0, 1}] |-> leaf(p)]
        ELSE LET below == node[d + 1]
             IN  [p \in [1..d -> {0, 1}] |-> node_hash(below[Append(p, 0)], below[Append(p, 1)])]
  IN  node

\* The state root in the block header is the root of the whole tree over the
\* committed accounts, in whatever order a batch's updates come (apply_updates), with
\* deletions, neighbours and repeated keys in one batch; and the store holds exactly
\* the nodes that are not empty, with their hashes (write_smt_nodes): a deletion
\* leaves nothing behind, and nothing stale is read by the next block.
StateTreeIsReference ==
  LET ref == Reference
      full == {<<d, p>> : d \in 0..SmtDepth, p \in UNION {[1..d -> {0, 1}] : d \in 0..SmtDepth}}
      kept == {k \in full : k[2] \in DOMAIN ref[k[1]] /\ ref[k[1]][k[2]] # empties(SmtDepth)[k[1]]}
  IN  /\ state_root = ref[0][<<>>]
      /\ nodes = [k \in kept |-> ref[k[1]][k[2]]]

\* A proof with a sibling more or less.
Tampered(proof) ==
  {[proof EXCEPT !.siblings = Append(@, EmptyHash)]} \cup
  (IF proof.siblings = <<>> THEN {} ELSE {[proof EXCEPT !.siblings = Front(@)]})

\* prove_account: the proof of a key verifies against the committed root for the
\* account that is stored there, or for its absence, and for nothing else; and not
\* when a sibling is missing or left over.
ProofsExact ==
  \A p \in Pubkeys : LET proof == prove(nodes, p) IN
    /\ \A h \in Hashes \cup {None} : verify(state_root, p, h, proof) <=> h = accounts[p]
    /\ \A bad \in Tampered(proof) : ~verify(state_root, p, accounts[p], bad)

\* The withdrawal that the shallow tree holds for a pubkey's path: the last one
\* inserted on its first WDepth bits.
Newest(pubkey) ==
  LET same == {i \in 1..Len(withdrawals) :
                 SubSeq(PathOf[withdrawals[i][1]], 1, WDepth) = SubSeq(PathOf[pubkey], 1, WDepth)}
  IN  IF same = {} THEN None ELSE withdrawals[CHOOSE i \in same : \A j \in same : j <= i]

\* The proof that the node serves for a withdrawal is accepted by the settlement
\* program against the node's root exactly if the tree holds that withdrawal, so
\* it is claimable unless a later one has the same first WDepth path bits; and the
\* node's own check agrees with the program's, on tampered proofs as well.
ClaimProofsExact ==
  LET wroot == withdraw_root(wtree)
  IN  \A p \in Pubkeys, h \in Hashes : LET proof == withdraw_prove(wtree, p) IN
        /\ l1_verify(wroot, p, h, proof) <=> Newest(p) = <<p, h>>
        /\ withdraw_verify(wroot, p, h, proof) <=> l1_verify(wroot, p, h, proof)
        /\ \A bad \in Tampered(proof) : ~l1_verify(wroot, p, h, bad)

\* "claimable on L1 once settled": the newest withdrawal of every pubkey is
\* provable.
EveryWithdrawalProvable ==
  \A i \in 1..Len(withdrawals) :
    (\A j \in i + 1..Len(withdrawals) : withdrawals[j][1] # withdrawals[i][1])
    => Newest(withdrawals[i][1]) = withdrawals[i]
=============================================================================
