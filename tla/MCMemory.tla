------------------------------ MODULE MCMemory ------------------------------
(* Memory with four pages and two block sizes for TLC. *)
EXTENDS Memory, TLC

CONSTANTS d1, d2

MCBlocks == [d \in Desc |-> 2]
MCSymmetry == Permutations(Desc)
=============================================================================
