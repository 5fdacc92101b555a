---------------------------- MODULE MCSstSearch ----------------------------
(* Model-checking instances of SstSearch. *)
EXTENDS SstSearch
=============================================================================
