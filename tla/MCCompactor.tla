----------------------------- MODULE MCCompactor -----------------------------
(* Small instances of the compactor for TLC.                               *)
EXTENDS Compactor, TLC

CONSTANTS o1, o2, o3, j1, j2, l1, l2, l3, l4, r1, r2

TwoObjects == {o1, o2}
ThreeObjects == {o1, o2, o3}
OneJob == {j1}
TwoJobs == {j1, j2}
OneRun == {r1}
TwoRuns == {r1, r2}

\* The first object has two records, so that a part can end in the middle of
\* it; the last of three is in a job of its own.
AllLines == UNION {LinesOf[o] : o \in Objects}
SomeLines == [o \in Objects |->
                IF o = o1 THEN {l1, l2} ELSE IF o = o2 THEN {l3} ELSE {l4}]
OneLineEach == [o \in Objects |-> IF o = o1 THEN {l1} ELSE IF o = o2 THEN {l3} ELSE {l4}]
LastApart == [o \in Objects |-> IF o = o3 THEN j2 ELSE j1]

\* The runs are interchangeable.
RunSymmetry == Permutations(Runs)
=============================================================================
