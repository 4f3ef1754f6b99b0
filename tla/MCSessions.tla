------------------------------ MODULE MCSessions ------------------------------
(* A small instance of the session pool for TLC: two tasks, three keys for a *)
(* pool of two, ids enough for the sessions closed or in grace beside them.  *)
EXTENDS Sessions, TLC

CONSTANTS t1, t2, k1, k2, k3, s1, s2, s3, s4

TwoTasks == {t1, t2}
ThreeKeys == {k1, k2, k3}
FourSessions == {s1, s2, s3, s4}

\* No definition tells two tasks, two keys or two sessions apart, and no
\* property of the run is a liveness property.
Symmetry == Permutations(Tasks) \cup Permutations(Keys) \cup Permutations(SessionIds)
=============================================================================
