----------------------------- MODULE MCMempool -----------------------------
(* A mempool of four places for three payers and one unsigned transaction. *)
EXTENDS Mempool, TLC

CONSTANTS a1, a2, a3, a4, b1, b2, c1, c2, blank, A, B, C

MCTxs == {a1, a2, a3, a4, b1, b2, c1, c2, blank}
MCSigs == 1..7
MCPayers == {A, B, C}

\* a3 carries the same first signature as a2.
MCSigOf == (a1 :> 1) @@ (a2 :> 2) @@ (a3 :> 2) @@ (b1 :> 3) @@ (b2 :> 4)
             @@ (c1 :> 5) @@ (a4 :> 6) @@ (c2 :> 7) @@ (blank :> NoSig)
MCPayerOf == (a1 :> A) @@ (a2 :> A) @@ (a3 :> A) @@ (b1 :> B) @@ (b2 :> B)
               @@ (c1 :> C) @@ (a4 :> A) @@ (c2 :> C) @@ (blank :> NoPayer)
=============================================================================
