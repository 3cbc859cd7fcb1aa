------------------------------- MODULE MCIde -------------------------------
(* Ide with two threads and commands of at most two sectors.               *)
EXTENDS Ide
=============================================================================
