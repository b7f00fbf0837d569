----------------------------- MODULE MCBatcher -----------------------------
(* Small instances of the batcher: chains of three or four blocks, batches  *)
(* of at most two slots, up to two faults, and a chunk of somebody else     *)
(* under the number and index of the first batch's first chunk.             *)
EXTENDS Batcher

MCOthers == {<<0, 0>>}
=============================================================================
