------------------------------ MODULE MCWorker ------------------------------
(* Small instances of the workers for TLC.                                 *)
EXTENDS Worker, TLC

CONSTANTS m1, m2, m3, w1, w2, j1, j2

OneWorker == {w1}
TwoWorkers == {w1, w2}
OneMessage == {m1}
ThreeMessages == {m1, m2, m3}
OneJob == {j1}
TwoJobs == {j1, j2}

\* One job; or one of m1 and one of m2.
SameJob == [m \in Messages |-> j1]
SplitJobs == [m \in Messages |-> IF m = m1 THEN j1 ELSE j2]

NoPoison == {}
LastIsPoison == {m3}

\* Pods are interchangeable.
WorkerSymmetry == Permutations(Workers)

\* BOUND: the receives of a behaviour, two of tasks and one of the poison.
FewReceives == receives[m1] + receives[m2] <= 2 /\ receives[m3] <= 1
=============================================================================
