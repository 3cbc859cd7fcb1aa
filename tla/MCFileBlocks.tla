---------------------------- MODULE MCFileBlocks ----------------------------
(* FileBlocks with two files on a small partition.                         *)
EXTENDS FileBlocks
Symmetry == Permutations(File)
=============================================================================
