--------------------------- MODULE MCMemoryLimiter ---------------------------
(* A small memory limiter for TLC.                                         *)
EXTENDS MemoryLimiter, TLC

CONSTANTS b1, b2, b3

MCBlocks == {b1, b2, b3}
MCSizes == {1, 2}
MCLimits == {5, 8}
Symmetry == Permutations(MCBlocks)
=============================================================================
