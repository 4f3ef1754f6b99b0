------------------------------ MODULE MCDispatch ------------------------------
(* A small instance of the dispatch of bulk requests for TLC.              *)
EXTENDS Dispatch, TLC

CONSTANTS r1, r2, a1, a2, a3, a4, a5, b1, u1, u2, u3, u4

TwoRequests == {r1, r2}
SixTasks == {a1, a2, a3, a4, a5, b1}

\* The first request: a URL listed twice, three distinct static tasks and a
\* dynamic one.  The second: one of the URLs again.
SomeTasks == [r \in Requests |-> IF r = r1 THEN <<a1, a2, a3, a4, a5>> ELSE <<b1>>]
SomeUrls == (a1 :> u1) @@ (a2 :> u2) @@ (a3 :> u1) @@ (a4 :> u3)
            @@ (a5 :> u4) @@ (b1 :> u1)
SomeDynamic == {a4}
=============================================================================
