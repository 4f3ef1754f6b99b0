---------------------------- MODULE MCRateLimiter ----------------------------
(* A small instance of the rate limiter for TLC.                            *)
EXTENDS RateLimiter, TLC

CONSTANTS t1, t2, t3, t4, p1, p2

FourTasks == {t1, t2, t3, t4}
TwoPods == {p1, p2}
SecondPod == {p2}
FirstApart == [t \in Tasks |-> IF t = t1 THEN p1 ELSE p2]

\* Two tasks of one limit, half a request per second, beside one of a higher
\* limit (the policy has changed between them) and one without a limit.
Rates == [t \in Tasks |-> CASE t = t3 -> 20 [] t = t4 -> 0 [] OTHER -> 5]

\* A task without a limit meets nobody: when it goes makes no difference, so it
\* goes first.
MCNext ==
    \/ \E t \in Tasks : GoUnlimited(t)
    \/ (\A t \in Tasks : Rate[t] = 0 => at[t] = "gone") /\ Next

MCSpec == Init /\ [][MCNext]_vars /\ Fairness
=============================================================================
