--------------------------- MODULE MCLsmMapping ---------------------------
(* Model-checking instances of LsmMapping. *)
EXTENDS LsmMapping, TLC

BlockSymmetry == Permutations(LogicalBlocks) \cup Permutations(PhysicalSectors)
===========================================================================
