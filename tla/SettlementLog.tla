--------------------------- MODULE SettlementLog ---------------------------
(***************************************************************************)
(* What settlement promises the chain: the settled blocks are always the   *)
(* non-empty blocks of a prefix of the chain, and the prefix only grows.   *)
(* Nothing is said of batches, chunks, confirmations or retries.           *)
(***************************************************************************)
EXTENDS Naturals, Sequences

CONSTANT Kinds    \* what a block may hold; "empty" is a heartbeat block

VARIABLES chain,    \* the committed L2 blocks
          settled   \* slots of the blocks published on L1

logVars == <<chain, settled>>

\* The non-empty blocks up to a slot.
NonEmptyUpTo(c, n) == {s \in 1..Len(c) : s <= n /\ c[s] # "empty"}

Init == chain = <<>> /\ settled = {}

Produce == (\E k \in Kinds : chain' = Append(chain, k)) /\ UNCHANGED settled

Settle ==
  /\ \E n \in 1..Len(chain) : settled' = settled \cup NonEmptyUpTo(chain, n)
  /\ UNCHANGED chain

Next == Produce \/ Settle

Spec == Init /\ [][Next]_logVars
=============================================================================
