------------------------------ MODULE NameTree ------------------------------
(***************************************************************************)
(* What the calls on paths promise: a tree of names.  A file or directory  *)
(* appears only under an existing directory and only where nothing was; a  *)
(* file is removed alone, a directory with everything below it.            *)
(***************************************************************************)
EXTENDS Integers, Sequences

CONSTANT Path      \* sequences of names; the root is not among them

VARIABLE kind      \* path -> "none", "regular" or "directory"

ParentIsDir(p) == Len(p) = 1 \/ kind[SubSeq(p, 1, Len(p) - 1)] = "directory"

Below(p) == {q \in Path : Len(q) >= Len(p) /\ SubSeq(q, 1, Len(p)) = p}

Init == kind = [p \in Path |-> "none"]

Create(p, k) ==
    /\ kind[p] = "none" /\ ParentIsDir(p)
    /\ kind' = [kind EXCEPT ![p] = k]

Remove(p) ==
    /\ kind[p] # "none"
    /\ kind' = [q \in Path |-> IF q \in Below(p) THEN "none" ELSE kind[q]]

Next == \E p \in Path : Create(p, "regular") \/ Create(p, "directory") \/ Remove(p)

Spec == Init /\ [][Next]_kind
=============================================================================
