---------------------------- MODULE ShieldedPool ----------------------------
(***************************************************************************)
(* The enshrined shielded pool (zul-privacy: service.rs, processor.rs,     *)
(* state.rs) with native notes, as try_produce_block drives it: the pool   *)
(* transactions of a block run one after the other on private copies of    *)
(* the pool state, the balances and the nullifiers, which the block's      *)
(* commit makes durable together, or which are lost with the block.        *)
(*                                                                         *)
(* A note is its leaf index, from 1, and leaves gives its amount.  The     *)
(* nullifier binds the leaf index, so a nullifier is the index; a dummy    *)
(* input of amount zero has a nullifier of its own, a number below 1.  A   *)
(* root is the number of leaves under it.  A proof verifies exactly when   *)
(* the circuit's statement holds (circuits/transfer.circom,                *)
(* unshield.circom).                                                       *)
(*                                                                         *)
(* A refused transaction without effect is a stuttering step.              *)
(***************************************************************************)
EXTENDS Integers, Sequences, FiniteSets

CONSTANTS Payers,        \* fee payers, the collector possibly among them
          Collector, Vault,
          Genesis,       \* initial lamports
          Fee,           \* flat_fee
          RootHistory,   \* ROOT_HISTORY
          TreeCapacity,  \* 2^TREE_DEPTH
          \* bounds of the model
          MaxAmount, Dummies, MaxBlocks

Accounts == Payers \cup {Collector, Vault}

ASSUME PoolAssumption ==
  /\ Genesis \in [Accounts -> Nat] /\ Collector # Vault /\ Vault \notin Payers
  /\ Fee \in Nat /\ RootHistory \in Nat \ {0} /\ TreeCapacity \in Nat
  /\ MaxAmount \in Nat /\ Dummies \subseteq {n \in Int : n < 1} /\ MaxBlocks \in Nat

VARIABLES
  st_pool, st_bal,     \* committed: pool state account, lamports
  st_spent,            \* committed nullifiers
  st_spends,           \* the notes that successful, committed transactions spent
  st_minted,           \* lamports that moves of an account to itself have created
  blk_pool, blk_bal,   \* the running block: state, overlay
  within,              \* BlockNullifiers.within
  blk_spends, blk_minted,
  dirty,               \* state_dirty
  blocks               \* counter of the bound

stVars == <<st_pool, st_bal, st_spent, st_spends, st_minted>>
vars == <<stVars, blk_pool, blk_bal, within, blk_spends, blk_minted, dirty, blocks>>

\* PoolState::new: the root of the empty tree is known, the other places of the
\* ring hold zero bytes, which no root equals.
NoRoot == -1
NewPool ==
  [leaves |-> <<>>, current |-> 0,
   roots |-> [i \in 0..RootHistory - 1 |-> IF i = 0 THEN 0 ELSE NoRoot]]

Init ==
  /\ st_pool = NewPool /\ st_bal = Genesis /\ st_spent = {} /\ st_spends = <<>>
  /\ blk_pool = NewPool /\ blk_bal = Genesis /\ within = {} /\ blk_spends = <<>>
  /\ st_minted = 0 /\ blk_minted = 0 /\ dirty = FALSE /\ blocks = 0

----------------------------------------------------------------------------
IsKnownRoot(p, n) == n # NoRoot /\ \E i \in 0..RootHistory - 1 : p.roots[i] = n

Full(p) == Len(p.leaves) >= TreeCapacity

\* Mutant: the ring's index does not wrap.
InsertNoWrap(p, amount) ==
  LET i == p.current + 1
  IN  [leaves |-> Append(p.leaves, amount), current |-> i,
       roots |-> [p.roots EXCEPT ![i] = Len(p.leaves) + 1]]

\* Mutant: the new root replaces the current one.
InsertInPlace(p, amount) ==
  LET i == (p.current + 1) % RootHistory
  IN  [leaves |-> Append(p.leaves, amount), current |-> i,
       roots |-> [p.roots EXCEPT ![p.current] = Len(p.leaves) + 1]]

\* PoolState::insert when there is room.
Insert(p, amount) ==
  LET i == (p.current + 1) % RootHistory
  IN  [leaves |-> Append(p.leaves, amount), current |-> i,
       roots |-> [p.roots EXCEPT ![i] = Len(p.leaves) + 1]]

\* The outputs of a transaction, inserted one after the other until the tree is
\* full.
InsertAll(p, outs) ==
  IF outs = <<>> \/ Full(p) THEN p
  ELSE LET q == Insert(p, outs[1])
       IN  IF Len(outs) = 1 \/ Full(q) THEN q ELSE Insert(q, outs[2])

AllFit(p, outs) == Len(p.leaves) + Len(outs) <= TreeCapacity

\* Mutant: only committed nullifiers are looked up.
IsSpentStoreOnly(nf) == nf \in st_spent

\* BlockNullifiers::contains
IsSpent(nf) == nf \in within \/ nf \in st_spent

\* move_lamports reads both balances before it writes both, so an account that moves
\* lamports to itself gains them.
MoveLamports(bal, from, to, n) ==
  LET rest == IF bal[from] >= n THEN bal[from] - n ELSE 0
  IN  [[bal EXCEPT ![from] = rest] EXCEPT ![to] = bal[to] + n]

\* apply_one once the processor has accepted: the flat fee, then the public amount.
ApplyMoves(payer, from, to, n) ==
  MoveLamports(MoveLamports(blk_bal, payer, Collector, Fee), from, to, n)

\* What those moves create: the fee that the collector pays itself, the amount that
\* the vault pays itself.
SelfMoved(payer, from, to, n) ==
  (IF payer = Collector THEN Fee ELSE 0) + (IF from = to THEN n ELSE 0)
Moves(payer, from, to, n) ==
  /\ blk_bal' = ApplyMoves(payer, from, to, n)
  /\ blk_minted' = blk_minted + SelfMoved(payer, from, to, n)

\* What the circuits let a prover claim about an input under root n.
Inputs(p, n) == 1..n \cup Dummies
AmountOf(p, nf) == IF nf < 1 THEN 0 ELSE p.leaves[nf]

Spend(nfs) == blk_spends' = blk_spends \o nfs

----------------------------------------------------------------------------
\* Shield: the commitment binds the public amount, which moves to the vault.
Shield(payer, amount) ==
  /\ blocks < MaxBlocks
  /\ blk_bal[payer] >= amount + Fee
  /\ amount > 0 /\ ~Full(blk_pool)
  /\ blk_pool' = Insert(blk_pool, amount)
  /\ Moves(payer, payer, Vault, amount)
  /\ dirty' = TRUE
  /\ UNCHANGED <<stVars, within, blk_spends, blocks>>

\* Transfer: two distinct unspent inputs, two outputs and a fee out of the pool.
\* The nullifiers are recorded before the outputs are inserted; when the tree
\* fills up meanwhile the transaction is refused with what it has done left.
Transfer(payer, n, a, b, outs, fee) ==
  /\ blocks < MaxBlocks
  /\ blk_bal[payer] >= Fee /\ blk_bal[Vault] >= fee
  /\ IsKnownRoot(blk_pool, n)
  /\ a # b /\ ~IsSpent(a) /\ ~IsSpent(b)
  /\ {a, b} \subseteq Inputs(blk_pool, n)
  /\ AmountOf(blk_pool, a) + AmountOf(blk_pool, b) = outs[1] + outs[2] + fee
  /\ within' = within \cup {a, b}
  /\ blk_pool' = InsertAll(blk_pool, outs)
  /\ IF AllFit(blk_pool, outs)
     THEN /\ Moves(payer, Vault, Collector, fee)
          /\ Spend(<<a, b>>) /\ dirty' = TRUE
     ELSE UNCHANGED <<blk_bal, blk_minted, blk_spends, dirty>>
  /\ UNCHANGED <<stVars, blocks>>

\* Mutant: the change note is not accounted for.
UnshieldKeepsAll(payer, n, a, change, amount, recipient) ==
  /\ blocks < MaxBlocks
  /\ blk_bal[payer] >= Fee /\ blk_bal[Vault] >= amount
  /\ amount > 0 /\ IsKnownRoot(blk_pool, n) /\ ~IsSpent(a)
  /\ a \in 1..n /\ AmountOf(blk_pool, a) >= amount
  /\ change = AmountOf(blk_pool, a)
  /\ within' = within \cup {a}
  /\ blk_pool' = InsertAll(blk_pool, <<change>>)
  /\ IF AllFit(blk_pool, <<change>>)
     THEN /\ Moves(payer, Vault, recipient, amount)
          /\ Spend(<<a>>) /\ dirty' = TRUE
     ELSE UNCHANGED <<blk_bal, blk_minted, blk_spends, dirty>>
  /\ UNCHANGED <<stVars, blocks>>

\* Mutant: the fee leaves the payer and reaches nobody.
UnshieldBurnsFee(payer, n, a, change, amount, recipient) ==
  /\ blocks < MaxBlocks
  /\ blk_bal[payer] >= Fee /\ blk_bal[Vault] >= amount
  /\ amount > 0 /\ IsKnownRoot(blk_pool, n) /\ ~IsSpent(a)
  /\ a \in 1..n /\ AmountOf(blk_pool, a) = amount + change
  /\ within' = within \cup {a}
  /\ blk_pool' = InsertAll(blk_pool, <<change>>)
  /\ IF AllFit(blk_pool, <<change>>)
     THEN /\ blk_bal' = MoveLamports([blk_bal EXCEPT ![payer] = @ - Fee],
                                     Vault, recipient, amount)
          /\ blk_minted' = blk_minted + SelfMoved(payer, Vault, recipient, amount)
          /\ Spend(<<a>>) /\ dirty' = TRUE
     ELSE UNCHANGED <<blk_bal, blk_minted, blk_spends, dirty>>
  /\ UNCHANGED <<stVars, blocks>>

\* Unshield: one unspent input, a change note, the rest to a public recipient, which
\* may be any account.
Unshield(payer, n, a, change, amount, recipient) ==
  /\ blocks < MaxBlocks
  /\ blk_bal[payer] >= Fee /\ blk_bal[Vault] >= amount
  /\ amount > 0 /\ IsKnownRoot(blk_pool, n) /\ ~IsSpent(a)
  /\ a \in 1..n /\ AmountOf(blk_pool, a) = amount + change
  /\ within' = within \cup {a}
  /\ blk_pool' = InsertAll(blk_pool, <<change>>)
  /\ IF AllFit(blk_pool, <<change>>)
     THEN /\ Moves(payer, Vault, recipient, amount)
          /\ Spend(<<a>>) /\ dirty' = TRUE
     ELSE UNCHANGED <<blk_bal, blk_minted, blk_spends, dirty>>
  /\ UNCHANGED <<stVars, blocks>>

\* The block commits: balances and nullifiers always, the pool state account
\* when a transaction succeeded.
Commit ==
  /\ blocks < MaxBlocks /\ blocks' = blocks + 1
  /\ st_pool' = (IF dirty THEN blk_pool ELSE st_pool)
  /\ st_bal' = blk_bal
  /\ st_spent' = st_spent \cup within
  /\ st_spends' = st_spends \o blk_spends /\ st_minted' = st_minted + blk_minted
  /\ blk_pool' = st_pool' /\ within' = {} /\ blk_spends' = <<>> /\ blk_minted' = 0
  /\ dirty' = FALSE
  /\ UNCHANGED blk_bal

\* An error or a crash before the commit: the block is gone.
Lose ==
  /\ blocks < MaxBlocks /\ blocks' = blocks + 1
  /\ blk_pool' = st_pool /\ blk_bal' = st_bal
  /\ within' = {} /\ blk_spends' = <<>> /\ blk_minted' = 0 /\ dirty' = FALSE
  /\ UNCHANGED stVars

Amounts == 0..MaxAmount

Next ==
  \/ \E payer \in Payers, amount \in Amounts : Shield(payer, amount)
  \/ \E payer \in Payers, n \in 0..Len(blk_pool.leaves), v, w \in Amounts :
       \E a, b \in Inputs(blk_pool, n) :
         LET fee == AmountOf(blk_pool, a) + AmountOf(blk_pool, b) - v - w
         IN  fee \in Amounts /\ Transfer(payer, n, a, b, <<v, w>>, fee)
  \/ \E payer \in Payers, recipient \in Accounts, n \in 0..Len(blk_pool.leaves),
        change, amount \in Amounts :
       \E a \in 1..n : Unshield(payer, n, a, change, amount, recipient)
  \/ Commit \/ Lose

Spec == Init /\ [][Next]_vars

----------------------------------------------------------------------------
Pools == [leaves : Seq(Nat), current : 0..RootHistory - 1,
          roots : [0..RootHistory - 1 -> Nat \cup {NoRoot}]]

\* Every variable has its type; no balance goes below zero.
TypeOK ==
  /\ st_pool \in Pools /\ blk_pool \in Pools
  /\ st_bal \in [Accounts -> Nat] /\ blk_bal \in [Accounts -> Nat]
  /\ st_spent \subseteq Int /\ within \subseteq Int
  /\ st_spends \in Seq(Int) /\ blk_spends \in Seq(Int)
  /\ st_minted \in Nat /\ blk_minted \in Nat
  /\ dirty \in BOOLEAN /\ blocks \in Nat

\* No note is spent twice by successful transactions of the chain, within a block
\* or across blocks, and after blocks that were lost: every spend that counts
\* leaves its nullifier behind.
SpendOnce ==
  \A i, j \in 1..Len(st_spends) : st_spends[i] = st_spends[j] => i = j

\* The ring holds the last RootHistory roots, in the store and in the block: a
\* proof made at most RootHistory - 1 insertions ago is not refused, an older one
\* is.
RingExact ==
  \A p \in {st_pool, blk_pool} : \A n \in 0..Len(p.leaves) :
    IsKnownRoot(p, n) <=> n > Len(p.leaves) - RootHistory
=============================================================================
