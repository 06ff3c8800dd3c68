--------------------------- MODULE MCConfigLoader ---------------------------
(* Instances of ConfigLoader for TLC.                                      *)
EXTENDS ConfigLoader, TLC

Symmetry == Permutations(Opens) \cup Permutations(Factories) \cup Permutations(Slots)
=============================================================================
