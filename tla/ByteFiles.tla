----------------------------- MODULE ByteFiles -----------------------------
(***************************************************************************)
(* What the calls on the contents of a file promise: a file is a sequence  *)
(* of cells, a write replaces a range and fills the gap before it with     *)
(* zeros, a cut shortens the file or zeroes a range, and nothing else      *)
(* changes a file.  About a Damaged file nothing is promised.              *)
(***************************************************************************)
EXTENDS Integers, Sequences

CONSTANTS File, Bytes, MAX_SIZE, Damaged

VARIABLE content

Larger(m, n) == IF m > n THEN m ELSE n

Init == content = [f \in File |-> <<>>]

Write(f, off, n, v) ==
    /\ content[f] # Damaged
    /\ content' = [content EXCEPT ![f] =
           [i \in 1..Larger(Len(@), off + n) |->
               IF i \in (off + 1)..(off + n) THEN v
               ELSE IF i <= Len(@) THEN @[i] ELSE 0]]

Cut(f, off, n) ==
    /\ content[f] # Damaged
    /\ off < Len(content[f])
    /\ content' = [content EXCEPT ![f] =
           IF off + n >= Len(@) THEN SubSeq(@, 1, off)
           ELSE [i \in 1..Len(@) |-> IF i \in (off + 1)..(off + n) THEN 0 ELSE @[i]]]

\* A power cut in the middle of a call, or a write known to lose its end
Damage(S) == content' = [f \in File |-> IF f \in S THEN Damaged ELSE content[f]]

Next ==
    \/ \E f \in File, off \in 0..MAX_SIZE, n \in 0..MAX_SIZE :
           \/ \E v \in Bytes : Write(f, off, n, v)
           \/ Cut(f, off, n)
    \/ \E S \in SUBSET File : Damage(S)

Spec == Init /\ [][Next]_content
=============================================================================
