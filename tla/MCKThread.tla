----------------------------- MODULE MCKThread -----------------------------
(* A small instance of KThread for TLC: a slice is one tick, or none. *)
EXTENDS KThread, TLC

CONSTANTS main, idl, cleaner, k1, k2, p1, p2, null, l1

MCPrioTicks == [p \in {1, 2, 3} |-> 0]
MCSlice == [p \in {1, 2, 3} |-> IF p = 2 THEN 1 ELSE 0]

ProcSymmetry == Permutations(Proc)
=============================================================================
