---------------------------- MODULE MCHostCommit ----------------------------
(* Instances of HostCommit for TLC. *)
EXTENDS HostCommit, TLC

CONSTANTS t1, t2, e1, e2, a, b

TwoThreads == {t1, t2}
TwoEffects == {e1, e2}
TwoFiles == {a, b}

\* One patch changes both files, the other shares a file with it.
Overlapping == [e \in TwoEffects |-> IF e = e1 THEN {a, b} ELSE {b}]
SharedFile == {b}
Attempts == [e \in TwoEffects |-> IF e = e1 THEN 2 ELSE 1]

\* The two threads are interchangeable.
SwapThreads == Permutations(TwoThreads)
=============================================================================
