------------------------------ MODULE PoolTree ------------------------------
(***************************************************************************)
(* The shielded pool's append-only commitment tree (zul-privacy/state.rs)  *)
(* and the inclusion check of the circuits (circuits/lib/merkle.circom).   *)
(*                                                                         *)
(* The code keeps one left sibling per level and computes each new root    *)
(* from them; the reference is the whole binary tree over the leaves,      *)
(* padded with the empty leaf.  The hash of two nodes is their pair.       *)
(***************************************************************************)
EXTENDS Naturals, Sequences

CONSTANTS Depth,        \* TREE_DEPTH
          Commitments,  \* leaves that may be inserted
          EmptyLeaf

ASSUME TreeAssumption == Depth \in Nat \ {0} /\ EmptyLeaf \notin Commitments

VARIABLES filled_subtrees,  \* the last left node of every level
          root,             \* the newest root
          next_leaf_index,
          leaves            \* what was inserted, for the reference

treeVars == <<filled_subtrees, root, next_leaf_index, leaves>>

Levels == 0..Depth - 1
Capacity == 2^Depth

\* zero_hashes: the empty subtrees, leaf level first.
zeros[l \in 0..Depth] == IF l = 0 THEN EmptyLeaf ELSE <<zeros[l - 1], zeros[l - 1]>>

Init ==
  /\ filled_subtrees = [l \in Levels |-> zeros[l]]
  /\ root = zeros[Depth]
  /\ next_leaf_index = 0
  /\ leaves = <<>>

\* Is the node of a leaf's path at a level a left child?
IsLeft(index, l) == (index \div 2^l) % 2 = 0

\* Mutant: a left child is paired with its level's kept node, not the empty subtree.
PathEmptyRight(leaf) ==
  LET path[l \in 0..Depth] ==
        IF l = 0 THEN leaf
        ELSE IF IsLeft(next_leaf_index, l - 1)
             THEN <<path[l - 1], filled_subtrees[l - 1]>>
             ELSE <<filled_subtrees[l - 1], path[l - 1]>>
  IN  path

\* The nodes from a new leaf up to the new root: a left child is paired with the
\* empty subtree, a right child with the left sibling kept for its level.
Path(leaf) ==
  LET path[l \in 0..Depth] ==
        IF l = 0 THEN leaf
        ELSE IF IsLeft(next_leaf_index, l - 1)
             THEN <<path[l - 1], zeros[l - 1]>>
             ELSE <<filled_subtrees[l - 1], path[l - 1]>>
  IN  path

\* PoolState::insert; a full tree answers TreeFull and changes nothing.
Insert(leaf) ==
  /\ next_leaf_index < Capacity
  /\ filled_subtrees' = [l \in Levels |-> IF IsLeft(next_leaf_index, l) THEN Path(leaf)[l]
                                          ELSE filled_subtrees[l]]
  /\ root' = Path(leaf)[Depth]
  /\ next_leaf_index' = next_leaf_index + 1
  /\ leaves' = Append(leaves, leaf)

Next == \E leaf \in Commitments : Insert(leaf)

Spec == Init /\ [][Next]_treeVars

----------------------------------------------------------------------------
\* The reference tree, level by level; the root is node 0 of level Depth.
LeafAt(i) == IF i < Len(leaves) THEN leaves[i + 1] ELSE EmptyLeaf
Tree ==
  LET node[l \in 0..Depth] ==
        IF l = 0 THEN [i \in 0..Capacity - 1 |-> LeafAt(i)]
        ELSE [i \in 0..2^(Depth - l) - 1 |-> <<node[l - 1][2 * i], node[l - 1][2 * i + 1]>>]
  IN  node

Sibling(i) == IF i % 2 = 0 THEN i + 1 ELSE i - 1

\* A wallet's authentication path for a leaf.
PathElements(tree, index) == [l \in Levels |-> tree[l][Sibling(index \div 2^l)]]

\* MerkleInclusion: the root that a leaf and a path make.
Inclusion(leaf, index, path_elements) ==
  LET level[l \in 0..Depth] ==
        IF l = 0 THEN leaf
        ELSE IF IsLeft(index, l - 1) THEN <<level[l - 1], path_elements[l - 1]>>
             ELSE <<path_elements[l - 1], level[l - 1]>>
  IN  level[Depth]

\* The root that insert published is the root of the whole tree, and under it the
\* circuit accepts every inserted leaf at its index with its path, and no other
\* commitment at that index with that path.
InclusionSound ==
  LET tree == Tree
  IN  /\ root = tree[Depth][0]
      /\ \A i \in 0..Len(leaves) - 1 : \A leaf \in Commitments :
            Inclusion(leaf, i, PathElements(tree, i)) = root <=> leaf = leaves[i + 1]
=============================================================================
