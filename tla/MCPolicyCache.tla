---------------------------- MODULE MCPolicyCache ----------------------------
(* Small instances of the policy cache for TLC.                            *)
EXTENDS PolicyCache, TLC

CONSTANTS c1, c2, def, gov

OneClient == {c1}
TwoClients == {c1, c2}
TwoDomains == {def, gov}
OnlyDefault == {def}
Unlimited == [hard |-> 0, soft |-> 0]

\* One sets the default rate, one the hard limit below it, one both; each may
\* be put under the domain it names or under the other.
SomeBodies ==
    {[name |-> gov, hard |-> 0, soft |-> 2], [name |-> gov, hard |-> 1, soft |-> 0],
     [name |-> def, hard |-> 2, soft |-> 1]}

ClientSymmetry == Permutations(Clients)
=============================================================================
