----------------------------- MODULE MCIoQueue -----------------------------
(* Small instances of IoQueue: a keyboard with one reader, and a pipe      *)
(* with one writer and one reader, and after a fork two readers.           *)
EXTENDS IoQueue

CONSTANTS r1, r2, w1, null
=============================================================================
