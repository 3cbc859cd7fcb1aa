---------------------------- MODULE MCDirectory ----------------------------
(* Directory with few names and small blocks.                              *)
EXTENDS Directory
Symmetry == Permutations(Name)
=============================================================================
