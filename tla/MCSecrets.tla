----------------------------- MODULE MCSecrets -----------------------------
(* Secrets with texts shorter than a block, and longer than a hash.         *)
EXTENDS Secrets
MCText == [t \in {EMPTY, "short", "long"} |-> IF t = EMPTY THEN 0 ELSE IF t = "short" THEN 8 ELSE 40]
Symmetry == Permutations(File) \cup Permutations(Key) \cup Permutations(Loader)
=============================================================================
