--------------------------- MODULE MCBlockManager ---------------------------
(* A small pool for TLC: three interchangeable sequences, tables of up to  *)
(* two blocks and a pool that two full tables exhaust but for one block.   *)
EXTENDS BlockManager, TLC

SeqSymmetry == Permutations(Seqs)
=============================================================================
