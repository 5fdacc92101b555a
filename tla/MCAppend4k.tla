----------------------------- MODULE MCAppend4k -----------------------------
(* Model-checking instances of Append4k. *)
EXTENDS Append4k, TLC

ThreadSymmetry == Permutations(Threads)
=============================================================================
