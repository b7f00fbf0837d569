--------------------------- MODULE MCShieldedPool ---------------------------
(* Small instances of the shielded pool.                                    *)
EXTENDS ShieldedPool, FiniteSetsExt

CONSTANTS A

MCGenesis == [a \in Accounts |-> IF a = A THEN 4 ELSE IF a = Collector THEN 2 ELSE 0]
MCDummies == {0, -1}

Lamports(bal) == MapThenSumSet(LAMBDA a : bal[a], Accounts)
Unspent == {i \in 1..Len(st_pool.leaves) : i \notin st_spent}
Notes(S) == MapThenSumSet(LAMBDA i : st_pool.leaves[i], S)

\* The vault covers the unspent notes of the committed tree, even after a
\* transaction failed half way on a full tree.
VaultCovers == st_bal[Vault] >= Notes(Unspent)

\* The vault holds exactly the unspent notes: a refused transaction leaves
\* nothing behind, "the processor itself does not mutate on failure".
VaultExact == st_bal[Vault] = Notes(Unspent)

\* "The pool only moves lamports" (node.rs): over commits, lost blocks and transactions
\* refused half way the lamports of all accounts are those of the genesis and what the
\* committed moves of an account to itself created, and nothing else mints or burns.
\* Such a move is the vault's payment to itself, an unshield whose recipient is the
\* vault, or a flat fee that the collector pays.
OnlySelfMovesMint == Lamports(st_bal) = Lamports(Genesis) + st_minted

\* Conservation without that exception.
LamportsConserved == Lamports(st_bal) = Lamports(Genesis)
=============================================================================
