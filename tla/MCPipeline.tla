----------------------------- MODULE MCPipeline -----------------------------
(* A small instance of the workers and the compactor together for TLC.     *)
EXTENDS Pipeline, TLC

CONSTANTS m1, w1, j1, o1, o2, o3, r1

OneWorker == {w1}
OneMessage == {m1}
OneJob == {j1}
OneRun == {r1}
NoPoison == {}
SameJob == [m \in Messages |-> j1]

\* An object for either record of the message, and one for both.
AllObjects == {o1, o2, o3}
SamePrefix == [o \in Objects |-> j1]
RecordsOf ==
    [o \in Objects |-> CASE o = o1 -> {[msg |-> m1, rc |-> 1]}
                         [] o = o2 -> {[msg |-> m1, rc |-> 2]}
                         [] o = o3 -> {[msg |-> m1, rc |-> 1], [msg |-> m1, rc |-> 2]}]

\* Every job is eligible here (MinObjects): only a purge looks at an age, and a
\* run at its start for what may expire within it.  So an object may as well go
\* stale between two runs, and expire while one is compacting.
AgesMatter ==
    \A o \in Objects : age[o] \in {"fresh", "stale"} /\ age'[o] # age[o] =>
        \A r \in Runs : phase[r] = (IF age[o] = "fresh" THEN "idle" ELSE "compacting")
=============================================================================
