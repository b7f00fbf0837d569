------------------------------ MODULE MCBridge ------------------------------
(***************************************************************************)
(* Small instances of the bridge: claims by anybody, without and with a    *)
(* gas mint, or the tool, which shares only the roots and the claims with  *)
(* them.  The keys of two of the three nonces share their path bits.       *)
(***************************************************************************)
EXTENDS Bridge

CONSTANTS U, F, R, W, Z

VARIABLE client

MCPathOf == [rn \in Recipients \X Nonces |-> IF rn[2] = 2 THEN "p2" ELSE "p1"]

MCInit == Init /\ client \in {"claims", "tool"} /\ (client = "tool" => gas_mint = NoMint)

ToolDeposit == \E to \in Depositees, amount \in Amounts : DepositSol(to, amount)

MCNext ==
  /\ UNCHANGED client
  /\ \/ ChainNext
     \/ client = "claims" /\ (DepositNext \/ ClaimNext)
     \/ client = "tool" /\ (ToolDeposit \/ ToolNext)

MCSpec == MCInit /\ [][MCNext]_<<vars, client>> /\ Fairness
=============================================================================
