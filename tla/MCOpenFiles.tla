---------------------------- MODULE MCOpenFiles ----------------------------
(* OpenFiles with two processes and two names for TLC. *)
EXTENDS OpenFiles, TLC

CONSTANTS p1, p2, f1, f2

Symmetry == Permutations({p1, p2}) \cup Permutations({f1, f2})
=============================================================================
