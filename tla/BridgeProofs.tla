---------------------------- MODULE BridgeProofs ----------------------------
(***************************************************************************)
(* For any users, recipients, nonces, path bits, mints, gas mint, fees and *)
(* amounts: a claim pays a withdrawal that was burned and each at most     *)
(* once, and a withdrawal stays claimable until it is paid, unless a later *)
(* one has its path bits or an earlier one its recipient and nonce.        *)
(*                                                                         *)
(* The argument: leaves of the tree, of the persisted root and so of every *)
(* posted root are burned withdrawals, a leaf that is about to enter the   *)
(* tree is the last one burned, so what it displaces came before it, and a *)
(* claim account stands for exactly one payment.                           *)
(***************************************************************************)
EXTENDS Bridge, TLAPS, FiniteSetTheorems

Pair(leaf) == <<leaf.recipient, leaf.nonce>>

IsBurned(leaf) == \E i \in 1..Len(burns) : burns[i] = leaf

\* A root or the tree has burned withdrawals only.
Backed(t) == \A leaf \in Named : t[KeyOf(leaf)] = leaf => IsBurned(leaf)

TreeOK == tree = [k \in Paths |-> tree[k]] /\ Backed(tree) /\ Backed(st_root)

\* The leaf about to enter the tree is the last one burned.
PublishingOK ==
  publishing # NoLeaf => Len(burns) > 0 /\ publishing = burns[Len(burns)]

RootsOK == (\E S : roots \in Seq(S)) /\ \A b \in 1..Len(roots) : Backed(roots[b])

\* The tool's leaf is one that can be named, and the batch it found exists.
ToolOK ==
  /\ tool.pc \in {"waiting", "found"} => tool.leaf \in Named
  /\ tool.pc = "found" => tool.batch \in 1..Len(roots)

\* Payments and claim accounts correspond one to one.
PaidOK ==
  /\ paid \in Seq(Named) /\ burns \in Seq(Named)
  /\ \A i \in 1..Len(paid) : IsBurned(paid[i]) /\ Pair(paid[i]) \in claimed
  /\ \A i, j \in 1..Len(paid) : Pair(paid[i]) = Pair(paid[j]) => i = j
  /\ \A c \in claimed : \E i \in 1..Len(paid) : c = Pair(paid[i])

BridgeInv ==
  PaidOK /\ TreeOK /\ PublishingOK /\ RootsOK /\ ToolOK /\ BurnsClaimableUnlessDisplaced

----------------------------------------------------------------------------
\* A leaf that can be named has a place in the tree, and is not the empty leaf.
LEMMA NamedLeaf ==
  ASSUME NEW leaf \in Named
  PROVE  KeyOf(leaf) \in Paths /\ PathBits(leaf) = KeyOf(leaf) /\ leaf # NoLeaf
<1>1. leaf.amount \in Amounts /\ leaf.recipient \in Recipients /\ leaf.nonce \in Nonces
  BY DEF Named
<1>2. KeyOf(leaf) \in Paths
  BY <1>1, BridgeAssumption DEF KeyOf, LeafKey
<1>3. NoLeaf.amount = 0 /\ leaf.amount # 0
  BY <1>1, BridgeAssumption DEF NoLeaf
<1>4. PathBits(leaf) = KeyOf(leaf)
  BY DEF PathBits, KeyOf, LeafKey
<1> QED BY <1>2, <1>3, <1>4

LEMMA BridgeInit == Init => BridgeInv
<1> SUFFICES ASSUME Init PROVE BridgeInv
  OBVIOUS
<1>1. /\ paid = <<>> /\ burns = <<>> /\ roots = <<>> /\ claimed = {}
      /\ tree = EmptyTree /\ st_root = EmptyTree /\ publishing = NoLeaf /\ tool.pc = "idle"
  BY DEF Init, IdleTool
<1>2. <<>> \in Seq(Named) /\ Len(<<>>) = 0
  OBVIOUS
<1>3. PaidOK
  BY <1>1, <1>2 DEF PaidOK
<1>4. TreeOK
  <2>1. tree = [k \in Paths |-> tree[k]]
    BY <1>1 DEF EmptyTree
  <2>2. ASSUME NEW leaf \in Named PROVE EmptyTree[KeyOf(leaf)] # leaf
    BY NamedLeaf DEF EmptyTree
  <2> QED BY <1>1, <2>1, <2>2 DEF TreeOK, Backed
<1>5. RootsOK /\ ToolOK /\ PublishingOK
  BY <1>1, <1>2 DEF RootsOK, ToolOK, PublishingOK
<1>6. BurnsClaimableUnlessDisplaced
  BY <1>1, <1>2 DEF BurnsClaimableUnlessDisplaced
<1> QED BY <1>3, <1>4, <1>5, <1>6 DEF BridgeInv

\* A later withdrawal has the path bits of the i-th, or an earlier one its recipient
\* and nonce.
Excused(i) ==
  \/ \E j \in i + 1..Len(burns) : PathBits(burns[j]) = PathBits(burns[i])
  \/ \E j \in 1..i - 1 : /\ burns[j].recipient = burns[i].recipient
                        /\ burns[j].nonce = burns[i].nonce

LEMMA SamePair ==
  ASSUME burns \in Seq(Named), NEW i \in 1..Len(burns), NEW j \in 1..Len(burns), ~Excused(i),
         Pair(burns[j]) = Pair(burns[i])
  PROVE  j = i
<1>1. burns[j].recipient = burns[i].recipient /\ burns[j].nonce = burns[i].nonce
  BY DEF Pair
<1>2. PathBits(burns[j]) = PathBits(burns[i])
  BY <1>1 DEF PathBits
<1>3. j = i \/ j \in i + 1..Len(burns) \/ j \in 1..i - 1
  OBVIOUS
<1> QED BY <1>1, <1>2, <1>3, Zenon DEF Excused

\* A payment of a burned withdrawal that has no claim account.
LEMMA PayOutOK ==
  ASSUME BridgeInv, NEW leaf \in Named, IsBurned(leaf), Pair(leaf) \notin claimed, PayOut(leaf),
         UNCHANGED <<burns, tree, publishing>>
  PROVE  PaidOK' /\ BurnsClaimableUnlessDisplaced'
<1>1. /\ paid \in Seq(Named) /\ burns \in Seq(Named)
      /\ paid' = Append(paid, leaf) /\ claimed' = claimed \cup {Pair(leaf)}
      /\ burns' = burns /\ tree' = tree /\ publishing' = publishing
  BY DEF PayOut, Pair, BridgeInv, PaidOK
<1> DEFINE n == Len(paid) + 1
<1>2. /\ paid' \in Seq(Named) /\ Len(paid') = n /\ paid'[n] = leaf
      /\ \A i \in 1..Len(paid) : paid'[i] = paid[i]
      /\ Len(paid) \in Nat
  BY <1>1
<1>3. \A l : IsBurned(l)' <=> IsBurned(l)
  BY <1>1 DEF IsBurned
<1>4. ASSUME NEW i \in 1..n PROVE i = n \/ i \in 1..Len(paid)
  BY <1>2
<1>5. PaidOK'
  <2>1. ASSUME NEW i \in 1..n PROVE IsBurned(paid'[i]) /\ Pair(paid'[i]) \in claimed'
    BY <1>1, <1>2, <1>4 DEF BridgeInv, PaidOK
  <2>2. ASSUME NEW i \in 1..n, NEW j \in 1..n, Pair(paid'[i]) = Pair(paid'[j]) PROVE i = j
    BY <1>2, <1>4, <2>2 DEF BridgeInv, PaidOK
  <2>3. ASSUME NEW c \in claimed' PROVE \E i \in 1..n : c = Pair(paid'[i])
    <3>1. CASE c = Pair(leaf)
      BY <1>2, <3>1
    <3>2. CASE c \in claimed
      <4>1. PICK i \in 1..Len(paid) : c = Pair(paid[i])
        BY <3>2 DEF BridgeInv, PaidOK
      <4> QED BY <1>2, <4>1
    <3> QED BY <1>1, <3>1, <3>2
  <2>4. (\A i \in 1..Len(paid) : IsBurned(paid[i]) /\ Pair(paid[i]) \in claimed)'
    BY <1>1, <1>2, <2>1 DEF IsBurned, Pair
  <2>5. (\A i, j \in 1..Len(paid) : Pair(paid[i]) = Pair(paid[j]) => i = j)'
    BY <1>2, <2>2 DEF Pair
  <2>6. (\A c \in claimed : \E i \in 1..Len(paid) : c = Pair(paid[i]))'
    BY <1>2, <2>3 DEF Pair
  <2> QED BY <1>1, <1>2, <2>4, <2>5, <2>6, SMTT(30) DEF PaidOK
<1>6. BurnsClaimableUnlessDisplaced'
  <2> SUFFICES ASSUME NEW i \in 1..Len(burns), ~Excused(i)
               PROVE  \/ \E k \in 1..Len(paid') : paid'[k] = burns[i]
                      \/ /\ tree[KeyOf(burns[i])] = burns[i] \/ publishing = burns[i]
                         /\ Pair(burns[i]) \notin claimed'
    BY <1>1, Zenon DEF BurnsClaimableUnlessDisplaced, Claimable, Pair, KeyOf, LeafKey, Excused,
                       PathBits
  <2>1. Claimable(burns[i])
    BY Zenon DEF BridgeInv, BurnsClaimableUnlessDisplaced, Excused
  <2>2. CASE \E k \in 1..Len(paid) : paid[k] = burns[i]
    BY <1>2, <2>2
  <2>3. CASE /\ tree[KeyOf(burns[i])] = burns[i] \/ publishing = burns[i]
             /\ Pair(burns[i]) \notin claimed
    <3>1. CASE Pair(burns[i]) = Pair(leaf)
      <4>1. PICK j \in 1..Len(burns) : burns[j] = leaf
        BY DEF IsBurned
      <4>2. j = i
        BY <1>1, <3>1, <4>1, SamePair
      <4> QED BY <1>2, <4>1, <4>2
    <3>2. CASE Pair(burns[i]) # Pair(leaf)
      BY <1>1, <2>3, <3>2
    <3> QED BY <3>1, <3>2
  <2> QED BY <2>1, <2>2, <2>3, Zenon DEF Claimable, Pair
<1> QED BY <1>5, <1>6

\* Steps that burn and pay nothing.
LEMMA NothingBurnedOrPaid ==
  ASSUME BridgeInv, UNCHANGED <<paid, burns, claimed, tree, publishing, st_root>>
  PROVE  PaidOK' /\ TreeOK' /\ PublishingOK' /\ BurnsClaimableUnlessDisplaced'
<1>1. /\ paid' = paid /\ burns' = burns /\ claimed' = claimed /\ tree' = tree
      /\ publishing' = publishing /\ st_root' = st_root
  OBVIOUS
<1>2. PaidOK'
  BY <1>1 DEF BridgeInv, PaidOK, IsBurned, Pair
<1>3. TreeOK' /\ PublishingOK'
  BY <1>1, Zenon DEF BridgeInv, TreeOK, Backed, IsBurned, KeyOf, LeafKey, PublishingOK
<1>4. BurnsClaimableUnlessDisplaced'
  BY <1>1, Zenon DEF BridgeInv, BurnsClaimableUnlessDisplaced, Claimable, KeyOf, LeafKey, PathBits
<1> QED BY <1>2, <1>3, <1>4

\* A leaf of a root or of the tree is burned.
LEMMA ProvedIsBurned ==
  ASSUME BridgeInv, NEW leaf \in Named, NEW b \in 1..Len(roots), ClaimAccepts(b, leaf)
  PROVE  IsBurned(leaf) /\ Pair(leaf) \notin claimed
  BY DEF BridgeInv, RootsOK, Backed, ClaimAccepts, Pair

\* A withdrawal adds one burn, and its leaf is about to enter the tree.
LEMMA WithdrawOK ==
  ASSUME BridgeInv,
         NEW u \in Users, NEW r \in Recipients, NEW asset \in AssetIds, NEW amount \in Amounts,
         NEW nonce \in Nonces, Withdraw(u, r, asset, amount, nonce)
  PROVE  BridgeInv'
<1> DEFINE leaf == Leaf(r, asset, amount, nonce)
           n == Len(burns) + 1
<1>1. leaf \in Named
  BY DEF Leaf, Named
<1>2. /\ burns' = Append(burns, leaf) /\ publishing' = leaf /\ publishing = NoLeaf
      /\ tree' = tree /\ st_root' = st_root
      /\ roots' = roots /\ paid' = paid /\ claimed' = claimed /\ tool' = tool
  BY DEF Withdraw, l1Vars
<1> HIDE DEF leaf
<1>4. burns \in Seq(Named) /\ paid \in Seq(Named)
  BY DEF BridgeInv, PaidOK
<1>5. /\ burns' \in Seq(Named) /\ Len(burns') = n /\ burns'[n] = leaf /\ Len(burns) \in Nat
      /\ \A i \in 1..Len(burns) : burns'[i] = burns[i]
  BY <1>1, <1>2, <1>4
<1>6. ASSUME NEW l, IsBurned(l) PROVE IsBurned(l)'
  BY <1>5, <1>6 DEF IsBurned
<1>7. PaidOK'
  <2>1. (\A i \in 1..Len(paid) : IsBurned(paid[i]) /\ Pair(paid[i]) \in claimed)'
    BY <1>2, <1>6, Zenon DEF BridgeInv, PaidOK, IsBurned, Pair
  <2>2. (\A i, j \in 1..Len(paid) : Pair(paid[i]) = Pair(paid[j]) => i = j)'
    BY <1>2, Zenon DEF BridgeInv, PaidOK, Pair
  <2>3. (\A c \in claimed : \E i \in 1..Len(paid) : c = Pair(paid[i]))'
    BY <1>2, Zenon DEF BridgeInv, PaidOK, Pair
  <2> QED BY <1>2, <1>4, <1>5, <2>1, <2>2, <2>3 DEF PaidOK
<1>8. ASSUME NEW t, Backed(t) PROVE \A l \in Named : t[KeyOf(l)] = l => IsBurned(l)'
  BY <1>6, <1>8, Zenon DEF Backed
<1>9. TreeOK'
  <2>1. Backed(tree)' /\ Backed(st_root)'
    BY <1>2, <1>8, Zenon DEF BridgeInv, TreeOK, Backed, IsBurned, KeyOf, LeafKey
  <2> QED BY <1>2, <2>1 DEF BridgeInv, TreeOK
<1>10. RootsOK'
  <2>1. (\A b \in 1..Len(roots) : Backed(roots[b]))'
    BY <1>2, <1>8, Zenon DEF BridgeInv, RootsOK, Backed, IsBurned, KeyOf, LeafKey
  <2>2. (\E S : roots \in Seq(S))'
    BY <1>2 DEF BridgeInv, RootsOK
  <2> QED BY <2>1, <2>2 DEF RootsOK
<1>11. ToolOK' /\ PublishingOK'
  BY <1>2, <1>5 DEF BridgeInv, ToolOK, PublishingOK
<1>12. BurnsClaimableUnlessDisplaced'
  <2> SUFFICES ASSUME NEW i \in 1..n, ~Excused(i)'
               PROVE  \/ \E k \in 1..Len(paid) : paid[k] = burns'[i]
                      \/ /\ tree[KeyOf(burns'[i])] = burns'[i] \/ leaf = burns'[i]
                         /\ Pair(burns'[i]) \notin claimed
    BY <1>2, <1>5, Zenon DEF BurnsClaimableUnlessDisplaced, Claimable, Pair, KeyOf, LeafKey,
                             Excused, PathBits
  <2>1. CASE i = n
    <3>1. ASSUME Pair(leaf) \in claimed PROVE FALSE
      <4>1. PICK k \in 1..Len(paid) : Pair(leaf) = Pair(paid[k])
        BY <3>1 DEF BridgeInv, PaidOK
      <4>2. PICK j \in 1..Len(burns) : burns[j] = paid[k]
        BY DEF BridgeInv, PaidOK, IsBurned
      <4>3. j \in 1..n - 1 /\ burns'[j] = paid[k]
        BY <1>5, <4>2
      <4>4. burns'[j].recipient = burns'[n].recipient /\ burns'[j].nonce = burns'[n].nonce
        BY <1>5, <4>1, <4>3 DEF Pair
      <4> QED BY <2>1, <4>3, <4>4, Zenon DEF Excused
    <3> QED BY <1>5, <2>1, <3>1
  <2>2. CASE i \in 1..Len(burns)
    <3>1. burns'[i] = burns[i]
      BY <1>5, <2>2
    <3>2. ~Excused(i)
      <4>1. ASSUME NEW j \in i + 1..Len(burns), PathBits(burns[j]) = PathBits(burns[i])
            PROVE  FALSE
        <5>1. j \in i + 1..Len(burns') /\ burns'[j] = burns[j]
          BY <1>5, <2>2
        <5>2. PathBits(burns'[j]) = PathBits(burns'[i])
          BY <3>1, <4>1, <5>1
        <5> QED BY <5>1, <5>2, Zenon DEF Excused, PathBits
      <4>2. ASSUME NEW j \in 1..i - 1, burns[j].recipient = burns[i].recipient,
                   burns[j].nonce = burns[i].nonce
            PROVE  FALSE
        <5>1. burns'[j] = burns[j]
          BY <1>5, <2>2
        <5> QED BY <3>1, <4>2, <5>1, Zenon DEF Excused
      <4> QED BY <4>1, <4>2, Zenon DEF Excused
    <3>3. Claimable(burns[i])
      BY <2>2, <3>2, Zenon DEF BridgeInv, BurnsClaimableUnlessDisplaced, Excused
    <3>4. burns[i] # NoLeaf
      <4>1. burns[i] \in Named
        BY <1>4, <2>2
      <4> QED BY <4>1, NamedLeaf
    <3> QED BY <1>2, <3>1, <3>3, <3>4, Zenon DEF Claimable, Pair
  <2> QED BY <1>5, <2>1, <2>2
<1> QED BY <1>7, <1>9, <1>10, <1>11, <1>12 DEF BridgeInv

\* The leaf of a committed block enters the tree, and the root may be persisted.
LEMMA PublishOK ==
  ASSUME BridgeInv, publishing' = NoLeaf, tree' = Published, st_root' \in {st_root, tree'},
         UNCHANGED <<paid, burns, claimed, roots, tool>>
  PROVE  BridgeInv'
<1>1. /\ paid' = paid /\ burns' = burns /\ claimed' = claimed /\ roots' = roots
      /\ tool' = tool
  OBVIOUS
<1>2. burns \in Seq(Named) /\ Len(burns) \in Nat
  BY DEF BridgeInv, PaidOK
<1>3. PaidOK'
  BY <1>1 DEF BridgeInv, PaidOK, IsBurned, Pair
<1>4. RootsOK' /\ ToolOK' /\ PublishingOK'
  BY <1>1, Zenon DEF BridgeInv, RootsOK, Backed, IsBurned, KeyOf, LeafKey, ToolOK, PublishingOK
<1>5. CASE publishing = NoLeaf
  <2>1. tree' = tree
    BY <1>5 DEF Published
  <2>2. TreeOK'
    BY <1>1, <2>1, Zenon DEF BridgeInv, TreeOK, Backed, IsBurned, KeyOf, LeafKey
  <2>3. BurnsClaimableUnlessDisplaced'
    BY <1>1, <1>5, <2>1, Zenon
       DEF BridgeInv, BurnsClaimableUnlessDisplaced, Claimable, KeyOf, LeafKey, PathBits
  <2> QED BY <1>3, <1>4, <2>2, <2>3 DEF BridgeInv
<1>6. CASE publishing # NoLeaf
  <2> DEFINE n == Len(burns)
             leaf == burns[n]
  <2>1. n \in 1..Len(burns) /\ publishing = leaf
    BY <1>2, <1>6 DEF BridgeInv, PublishingOK
  <2>2. leaf \in Named /\ IsBurned(leaf)
    BY <1>2, <2>1 DEF IsBurned
  <2>3. tree' = [tree EXCEPT ![KeyOf(leaf)] = leaf]
    BY <1>6, <2>1 DEF Published
  <2>4. KeyOf(leaf) \in Paths
    BY <2>2, NamedLeaf
  <2> HIDE DEF leaf
  <2>5. /\ tree'[KeyOf(leaf)] = leaf
        /\ \A k \in Paths : k # KeyOf(leaf) => tree'[k] = tree[k]
        /\ tree' = [k \in Paths |-> tree'[k]]
    BY <2>3, <2>4 DEF BridgeInv, TreeOK
  <2>6. ASSUME NEW l \in Named, tree'[KeyOf(l)] = l PROVE IsBurned(l)
    <3>1. KeyOf(l) \in Paths
      BY NamedLeaf
    <3>2. CASE KeyOf(l) = KeyOf(leaf)
      BY <2>2, <2>5, <2>6, <3>2
    <3>3. CASE KeyOf(l) # KeyOf(leaf)
      BY <2>5, <2>6, <3>1, <3>3 DEF BridgeInv, TreeOK, Backed
    <3> QED BY <3>2, <3>3
  <2>7. Backed(tree)'
    BY <1>1, <2>6, Zenon DEF Backed, IsBurned, KeyOf, LeafKey
  <2>8. Backed(st_root)'
    <3>1. CASE st_root' = st_root
      BY <1>1, <3>1, Zenon DEF BridgeInv, TreeOK, Backed, IsBurned, KeyOf, LeafKey
    <3>2. CASE st_root' = tree'
      BY <1>1, <2>6, <3>2, Zenon DEF Backed, IsBurned, KeyOf, LeafKey
    <3> QED BY <3>1, <3>2
  <2>9. TreeOK'
    BY <2>5, <2>7, <2>8 DEF TreeOK
  <2>10. BurnsClaimableUnlessDisplaced'
    <3> SUFFICES ASSUME NEW i \in 1..Len(burns), ~Excused(i)
                 PROVE  \/ \E k \in 1..Len(paid) : paid[k] = burns[i]
                        \/ tree'[KeyOf(burns[i])] = burns[i] /\ Pair(burns[i]) \notin claimed
      BY <1>1, Zenon DEF BurnsClaimableUnlessDisplaced, Claimable, Pair, KeyOf, LeafKey, Excused,
                         PathBits
    <3>1. Claimable(burns[i]) /\ burns[i] \in Named
      <4>1. Claimable(burns[i])
        BY Zenon DEF BridgeInv, BurnsClaimableUnlessDisplaced, Excused
      <4>2. burns[i] \in Named
        BY <1>2
      <4> QED BY <4>1, <4>2
    <3>2. CASE i = n
      BY <2>1, <2>5, <3>1, <3>2, Zenon DEF Claimable, Pair, leaf
    <3>3. CASE i # n
      <4>1. n \in i + 1..Len(burns)
        BY <1>2, <3>3
      <4>2. PathBits(burns[i]) # PathBits(leaf)
        BY <4>1, Zenon DEF Excused, leaf
      <4>3. KeyOf(burns[i]) \in Paths /\ KeyOf(burns[i]) # KeyOf(leaf) /\ burns[i] # leaf
        BY <2>2, <3>1, <4>2, NamedLeaf
      <4> QED BY <2>1, <2>5, <3>1, <4>3, Zenon DEF Claimable, Pair
    <3> QED BY <3>2, <3>3
  <2> QED BY <1>3, <1>4, <2>9, <2>10 DEF BridgeInv
<1> QED BY <1>5, <1>6

\* The trees stay backed when nothing is burned.
LEMMA TreeKept ==
  ASSUME BridgeInv, burns' = burns, tree' = tree, publishing' = publishing, st_root' = st_root
  PROVE  TreeOK' /\ PublishingOK'
  BY Zenon DEF BridgeInv, TreeOK, Backed, IsBurned, KeyOf, LeafKey, PublishingOK

\* Roots stay backed when the list of roots only grows by the persisted one.
LEMMA RootsKept ==
  ASSUME BridgeInv, burns' = burns, roots' \in {roots, Append(roots, st_root)}
  PROVE  RootsOK' /\ Len(roots') >= Len(roots) /\ Len(roots) \in Nat
<1>1. PICK S : roots \in Seq(S)
  BY DEF BridgeInv, RootsOK
<1>2. CASE roots' = roots
  <2>1. RootsOK'
    BY <1>2 DEF BridgeInv, RootsOK, Backed, IsBurned, KeyOf, LeafKey
  <2> QED BY <1>1, <1>2, <2>1
<1>3. CASE roots' = Append(roots, st_root)
  <2> DEFINE T == S \cup {st_root}
  <2>1. roots \in Seq(T) /\ st_root \in T
    BY <1>1
  <2> HIDE DEF T
  <2>2. /\ roots' \in Seq(T) /\ Len(roots') = Len(roots) + 1 /\ roots'[Len(roots) + 1] = st_root
        /\ Len(roots) \in Nat /\ \A b \in 1..Len(roots) : roots'[b] = roots[b]
    BY <1>3, <2>1
  <2>3. ASSUME NEW b \in 1..Len(roots'), NEW leaf \in Named, roots'[b][KeyOf(leaf)] = leaf
        PROVE  IsBurned(leaf)
    <3>1. b = Len(roots) + 1 \/ b \in 1..Len(roots)
      BY <2>2
    <3> QED BY <2>2, <2>3, <3>1 DEF BridgeInv, RootsOK, TreeOK, Backed
  <2>4. (\A b \in 1..Len(roots) : Backed(roots[b]))'
    BY <2>3 DEF Backed, IsBurned, KeyOf, LeafKey
  <2>5. (\E X : roots \in Seq(X))'
    BY <2>2
  <2> QED BY <2>2, <2>4, <2>5 DEF RootsOK
<1> QED BY <1>2, <1>3

LEMMA BridgeStep == BridgeInv /\ [Next]_vars => BridgeInv'
<1> SUFFICES ASSUME BridgeInv, [Next]_vars PROVE BridgeInv'
  OBVIOUS
<1>1. ASSUME UNCHANGED <<paid, burns, claimed, treeVars, roots, tool>> PROVE BridgeInv'
  <2>1. ToolOK'
    BY <1>1 DEF BridgeInv, ToolOK
  <2>2. UNCHANGED <<paid, burns, claimed, tree, publishing, st_root>>
    BY <1>1 DEF treeVars
  <2> QED BY <1>1, <2>1, <2>2, NothingBurnedOrPaid, RootsKept DEF BridgeInv
<1>2. ASSUME DepositNext PROVE BridgeInv'
  BY <1>1, <1>2, Zenon
     DEF DepositNext, DepositSol, DepositSpl, DepositedElsewhere, l1Vars, l2Vars
<1>4. ASSUME PostBatch PROVE BridgeInv'
  <2>1. /\ UNCHANGED <<paid, burns, claimed, tree, publishing, st_root>> /\ tool' = tool
        /\ burns' = burns /\ roots' = Append(roots, st_root)
    BY <1>4 DEF PostBatch, treeVars
  <2>2. RootsOK' /\ Len(roots') >= Len(roots) /\ Len(roots) \in Nat
    BY <2>1, RootsKept
  <2>3. Len(roots') \in Nat
    BY <2>2 DEF RootsOK
  <2>4. ToolOK'
    BY <2>1, <2>2, <2>3 DEF BridgeInv, ToolOK
  <2> QED BY <2>1, <2>2, <2>4, NothingBurnedOrPaid DEF BridgeInv
<1>5. ASSUME Credit PROVE BridgeInv'
  BY <1>1, <1>5 DEF Credit, l1Vars
<1>6. ASSUME NEW b \in 1..Len(roots), NEW leaf \in Named, Claim(b, leaf) PROVE BridgeInv'
  <2>1. /\ ClaimAccepts(b, leaf) /\ PayOut(leaf)
        /\ roots' = roots /\ burns' = burns /\ tool' = tool
        /\ UNCHANGED <<burns, tree, publishing>> /\ st_root' = st_root
    BY <1>6 DEF Claim, l2Vars, treeVars
  <2>2. PaidOK' /\ BurnsClaimableUnlessDisplaced'
    BY <2>1, ProvedIsBurned, PayOutOK
  <2>3. TreeOK' /\ PublishingOK'
    BY <2>1, TreeKept
  <2>4. ToolOK'
    BY <2>1 DEF BridgeInv, ToolOK
  <2> QED BY <2>1, <2>2, <2>3, <2>4, RootsKept DEF BridgeInv
<1>7. ASSUME NEW u \in Users, NEW r \in Recipients, NEW asset \in AssetIds,
             NEW amount \in Amounts, NEW n \in Nonces, Withdraw(u, r, asset, amount, n)
      PROVE  BridgeInv'
  BY <1>7, WithdrawOK
<1>8. ASSUME NEW leaf \in Named, ToolFetch(leaf) PROVE BridgeInv'
  <2>1. /\ UNCHANGED <<paid, burns, claimed, tree, publishing, st_root>>
        /\ roots' = roots /\ burns' = burns
    BY <1>8 DEF ToolFetch, l1Vars, l2Vars, treeVars
  <2>2. tool'.pc = "waiting" /\ tool'.leaf = leaf
    BY <1>8 DEF ToolFetch
  <2>3. ToolOK'
    BY <2>2 DEF ToolOK
  <2> QED BY <2>1, <2>3, NothingBurnedOrPaid, RootsKept DEF BridgeInv
<1>9. ASSUME ToolFind PROVE BridgeInv'
  <2>1. /\ UNCHANGED <<paid, burns, claimed, tree, publishing, st_root>>
        /\ roots' = roots /\ burns' = burns
    BY <1>9 DEF ToolFind, l1Vars, l2Vars, treeVars
  <2>2. PICK b \in 1..Len(roots) : tool' = [pc |-> "found", leaf |-> tool.leaf, batch |-> b]
    BY <1>9 DEF ToolFind
  <2>3. tool'.leaf = tool.leaf /\ tool'.batch = b /\ tool.leaf \in Named
    BY <1>9, <2>2 DEF ToolFind, BridgeInv, ToolOK
  <2>4. ToolOK'
    BY <2>1, <2>3 DEF ToolOK
  <2> QED BY <2>1, <2>4, NothingBurnedOrPaid, RootsKept DEF BridgeInv
<1>10. ASSUME ToolClaim PROVE BridgeInv'
  <2>1. /\ UNCHANGED <<burns, tree, publishing>> /\ st_root' = st_root
        /\ roots' = roots /\ burns' = burns
        /\ tool' = IdleTool /\ tool.pc = "found"
    BY <1>10 DEF ToolClaim, l2Vars, treeVars
  <2>2. tool.leaf \in Named /\ tool.batch \in 1..Len(roots)
    BY <2>1 DEF BridgeInv, ToolOK
  <2>3. ToolOK'
    BY <2>1 DEF ToolOK, IdleTool
  <2>4. PaidOK' /\ TreeOK' /\ PublishingOK' /\ BurnsClaimableUnlessDisplaced'
    <3>1. CASE ClaimAccepts(tool.batch, tool.leaf) /\ PayOut(tool.leaf)
      BY <2>1, <2>2, <3>1, TreeKept, ProvedIsBurned, PayOutOK
    <3>2. CASE UNCHANGED <<vault, claimed, paid>>
      BY <2>1, <3>2, NothingBurnedOrPaid
    <3> QED BY <1>10, <3>1, <3>2 DEF ToolClaim
  <2> QED BY <2>1, <2>3, <2>4, RootsKept DEF BridgeInv
<1>11. ASSUME Publish \/ RestartNode PROVE BridgeInv'
  BY <1>11, PublishOK, Zenon DEF Publish, RestartNode, l1Vars
<1>12. ASSUME OtherBlock PROVE BridgeInv'
  BY <1>1, <1>12 DEF OtherBlock, l1Vars
<1>13. ASSUME UNCHANGED vars PROVE BridgeInv'
  BY <1>1, <1>13 DEF vars, l1Vars, l2Vars
<1>14. CASE ChainNext
  BY <1>4, <1>5, <1>7, <1>11, <1>12, <1>14 DEF ChainNext
<1>15. CASE ClaimNext \/ ToolNext
  BY <1>6, <1>8, <1>9, <1>10, <1>15 DEF ClaimNext, ToolNext
<1> QED
  BY <1>2, <1>13, <1>14, <1>15 DEF Next

LEMMA BridgeInvariant == Spec => []BridgeInv
  BY BridgeInit, BridgeStep, PTL DEF Spec

\* A claim pays a withdrawal that was burned, and each burn at most once, whatever
\* root it is proved against, for claim_withdrawal, claim_withdrawal_spl and the
\* claim account both create.
THEOREM PaidWasBurnedTheorem == Spec => []PaidWasBurned
<1>1. BridgeInv => PaidWasBurned
  <2> SUFFICES ASSUME BridgeInv, NEW i \in 1..Len(paid)
               PROVE  Cardinality({j \in 1..Len(paid) : paid[j] = paid[i]})
                        <= Cardinality({j \in 1..Len(burns) : burns[j] = paid[i]})
    BY Zenon DEF PaidWasBurned
  <2> DEFINE P == {j \in 1..Len(paid) : paid[j] = paid[i]}
             B == {j \in 1..Len(burns) : burns[j] = paid[i]}
  <2>1. P = {i}
    <3>1. \A j \in 1..Len(paid) : Pair(paid[i]) = Pair(paid[j]) => i = j
      BY DEF BridgeInv, PaidOK
    <3> QED BY <3>1
  <2>2. Cardinality(P) = 1
    BY <2>1, FS_Singleton, Zenon
  <2>3. PICK k : k \in B
    BY DEF BridgeInv, PaidOK, IsBurned
  <2>4. Len(burns) \in Nat /\ B \subseteq 1..Len(burns)
    BY DEF BridgeInv, PaidOK
  <2>5. IsFiniteSet(B)
    <3>1. IsFiniteSet(1..Len(burns))
      BY <2>4, FS_Interval
    <3> HIDE DEF B
    <3> QED BY <2>4, <3>1, FS_Subset, Zenon
  <2>6. {k} \subseteq B
    BY <2>3
  <2>7. Cardinality({k}) = 1 /\ Cardinality({k}) <= Cardinality(B)
    BY <2>5, <2>6, FS_Singleton, FS_Subset, Zenon
  <2> QED BY <2>2, <2>7
<1> QED BY <1>1, BridgeInvariant, PTL

\* A burned withdrawal is paid, or its leaf is in the tree or about to enter it and
\* its claim account does not exist, unless a later withdrawal has its path bits
\* (withdraw_smt::apply replaces the leaf) or an earlier one its recipient and nonce:
\* nothing else that apply_withdraws, the batcher or other claims do takes it away.
THEOREM ClaimableTheorem == Spec => []BurnsClaimableUnlessDisplaced
<1>1. BridgeInv => BurnsClaimableUnlessDisplaced
  BY DEF BridgeInv
<1> QED BY <1>1, BridgeInvariant, PTL

=============================================================================
