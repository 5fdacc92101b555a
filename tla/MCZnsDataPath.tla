--------------------------- MODULE MCZnsDataPath ---------------------------
(* Model-checking instances of ZnsDataPath. *)
EXTENDS ZnsDataPath, TLC

\* Zone capacities in sectors.
FourAndFive == (0 :> 4) @@ (1 :> 5)
ThreeByTwo  == [z \in 0..2 |-> 2]

BlockSymmetry == Permutations(LogicalBlocks)
=============================================================================
