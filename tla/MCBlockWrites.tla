--------------------------- MODULE MCBlockWrites ---------------------------
(***************************************************************************)
(* Two users, one of whom holds one wrapped token and the other an empty   *)
(* token account, with lamports for four fees and for one.  Four           *)
(* transactions over two blocks are enough for a token to be shielded and  *)
(* paid out, for an account to be drained and credited in one block, and   *)
(* for the executor, the pool and the bridge to write the same account.    *)
(***************************************************************************)
EXTENDS BlockWrites

CONSTANTS A, B

MCLamports == (A :> 4) @@ (B :> 1)
MCTokens == (A :> 1) @@ (B :> 0)
MCPayees == {Wallet(B), Wallet(Vault), Ata(A), PoolState}

=============================================================================
