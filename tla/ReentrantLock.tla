--------------------------- MODULE ReentrantLock ---------------------------
(***************************************************************************)
(* What struct lock promises its callers, without semaphores, lists or     *)
(* interrupt flags: each thread holds each lock some number of times, and  *)
(* a lock is entered from outside only when no thread is inside.           *)
(***************************************************************************)
EXTENDS Naturals

CONSTANTS Client, Lock, MAX_NEST

VARIABLE held    \* held[t][l]: how often t is inside l

Free(l) == \A t \in Client : held[t][l] = 0

Init == held = [t \in Client |-> [l \in Lock |-> 0]]

Enter(t, l) == /\ Free(l)
               /\ held' = [held EXCEPT ![t][l] = 1]

Reenter(t, l) == /\ held[t][l] > 0
                 /\ held[t][l] < MAX_NEST
                 /\ held' = [held EXCEPT ![t][l] = @ + 1]

Leave(t, l) == /\ held[t][l] > 0
               /\ held' = [held EXCEPT ![t][l] = @ - 1]

Next == \E t \in Client, l \in Lock :
            Enter(t, l) \/ Reenter(t, l) \/ Leave(t, l)

Spec == Init /\ [][Next]_held
=============================================================================
