------------------------------ MODULE MCTrees ------------------------------
(* The Merkle trees: all histories of up to three updates a block over four *)
(* accounts, of three withdrawals, and all insertion sequences of two       *)
(* commitments into the pool's tree of eight leaves, up to the full tree.   *)
EXTENDS Smt, PoolTree

CONSTANTS a1, a2, a3, a4

VARIABLE part

vars == <<part, stateVars, withdrawVars, treeVars>>

\* a1 and a2 are neighbours in the state tree and share their path in the
\* withdrawals tree.
MCPathOf == (a1 :> <<0, 0, 0>>) @@ (a2 :> <<0, 0, 1>>) @@ (a3 :> <<0, 1, 1>>)
              @@ (a4 :> <<1, 1, 0>>)

\* The trees share nothing: a behaviour exercises one of them.
TreesInit ==
  /\ part \in {"accounts", "withdrawals", "pool"}
  /\ SmtInit /\ Init
  /\ part # "accounts" => accounts = [p \in Pubkeys |-> None]

TreesNext ==
  /\ UNCHANGED part
  /\ \/ part = "accounts" /\ BlockNext /\ UNCHANGED treeVars
     \/ part = "withdrawals" /\ WithdrawalNext /\ UNCHANGED treeVars
     \/ part = "pool" /\ Next /\ UNCHANGED <<stateVars, withdrawVars>>

TreesSpec == TreesInit /\ [][TreesNext]_vars
=============================================================================
