------------------------- MODULE MCMemoryConfigCache -------------------------
(* Instances of MemoryConfigCache for TLC.                                 *)
EXTENDS MemoryConfigCache, TLC

Symmetry == Permutations(Slots) \cup Permutations(Callers) \cup Permutations(Configs)
=============================================================================
