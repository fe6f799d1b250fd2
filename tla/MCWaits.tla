------------------------------ MODULE MCWaits ------------------------------
(* Small instances of Waits. *)
EXTENDS Waits, TLC

CONSTANTS t1, t2, t3, o1, o2

MCTwo == {t1, t2}
MCThree == {t1, t2, t3}
MCOne == {o1}
MCPair == {o1, o2}

MCEveryKind == {"Manual", "Auto", "Semaphore", "Mutant"}

\* The threads are interchangeable, and so are the objects.
MCSymmetry == Permutations(Threads) \cup Permutations(Objects)
============================================================================
