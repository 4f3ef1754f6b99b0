----------------------------- MODULE RateLimiter -----------------------------
(***************************************************************************)
(* The rate limiter of the workers (worker/scraping/security/rate_limiter) *)
(* over RedisCacheAdapter: every task that asks for a domain counts itself *)
(* under the key of the current second, and goes when the count is within  *)
(* its limit, else sleeps until the next second and tries again.           *)
(*                                                                         *)
(* Keys of different domains never meet: the tasks are those of a domain.  *)
(* All pods read one clock.  An answer may come in any later second.       *)
(***************************************************************************)
EXTENDS Naturals, FiniteSets

CONSTANTS
    Tasks,       \* tasks that call acquire for the domain
    Pods,
    PodOf,       \* the pod of each task
    Rate,        \* rate_limit_per_second of each task, in tenths; 0 for none
    RobotsPods,  \* BOUND: pods whose robots service may call Redis first
    MaxRepeats   \* BOUND: INCRs the Redis client sends again

ASSUME RateLimiterAssumption ==
    /\ IsFiniteSet(Tasks)
    /\ PodOf \in [Tasks -> Pods]
    /\ Rate \in [Tasks -> Nat]
    /\ RobotsPods \subseteq Pods
    /\ MaxRepeats \in Nat

VARIABLES
    clock,    \* the current second
    count,    \* the counter in Redis of every second so far
    link,     \* _client and _connected of each pod's adapter
    at,       \* where each task is in acquire
    key,      \* current_sec of each task
    got,      \* the count Redis has answered to each task
    repeats,
    blind,    \* HISTORY: tasks that went because their INCR failed
    denied    \* HISTORY: the times each task was put to sleep

vars == <<clock, count, link, at, key, got, repeats, blind, denied>>

Steps == {"asking", "calling", "pinging", "answered", "asleep", "gone"}

\* The type invariant: no task counts itself in a second that has not come.
RateTypeOK ==
    /\ clock \in Nat
    /\ count \in [0..clock -> Nat]
    /\ link \in [Pods -> {"new", "robots", "open", "broken"}]
    /\ at \in [Tasks -> Steps]
    /\ key \in [Tasks -> 0..clock]
    /\ got \in [Tasks -> Nat]
    /\ repeats \in 0..MaxRepeats
    /\ blind \subseteq Tasks
    /\ denied \in [Tasks -> Nat]

Init ==
    /\ clock = 0
    /\ count = [s \in {0} |-> 0]
    /\ link = [p \in Pods |-> "new"]
    /\ at = [t \in Tasks |-> "asking"]
    /\ key = [t \in Tasks |-> 0]
    /\ got = [t \in Tasks |-> 0]
    /\ repeats = 0
    /\ blind = {}
    /\ denied = [t \in Tasks |-> 0]

\* max_allowed: the limit in whole requests, one at least.
MaxAllowed(t) == IF Rate[t] < 10 THEN 1 ELSE Rate[t] \div 10

\* A plausible bug, used as a mutant of MayGo: the count taken for the number
\* of tasks that went before.
MayGoOneMore(t) == got[t] - 1 <= MaxAllowed(t)

MayGo(t) == got[t] <= MaxAllowed(t)

-----------------------------------------------------------------------------
(* Plausible bugs, used as mutants of the definitions that follow.         *)

\* The key is that of the second to come.
SecondRoundsUp == clock + 1

\* The wait is not computed from the second that was counted.
WakeAtOnce(t) ==
    /\ at[t] = "asleep"
    /\ at' = [at EXCEPT ![t] = "asking"]
    /\ UNCHANGED <<clock, count, link, key, got, repeats, blind, denied>>

\* A task that oversleeps the next second misses its turn.
WakeOnTheDot(t) ==
    /\ at[t] = "asleep"
    /\ clock = key[t] + 1
    /\ at' = [at EXCEPT ![t] = "asking"]
    /\ UNCHANGED <<clock, count, link, key, got, repeats, blind, denied>>

-----------------------------------------------------------------------------
(* acquire().                                                              *)

\* No limit: acquire returns at once.
GoUnlimited(t) ==
    /\ at[t] = "asking"
    /\ Rate[t] = 0
    /\ at' = [at EXCEPT ![t] = "gone"]
    /\ UNCHANGED <<clock, count, link, key, got, repeats, blind, denied>>

\* current_sec
Second == clock

\* The clock is read and incr() called: _get_client has the first caller of a
\* pod make the client and ping, and those that come meanwhile use the client.
Ask(t) ==
    /\ at[t] = "asking"
    /\ Rate[t] > 0
    /\ link[PodOf[t]] # "broken"
    /\ key' = [key EXCEPT ![t] = Second]
    /\ at' = [at EXCEPT ![t] = IF link[PodOf[t]] = "new" THEN "pinging" ELSE "calling"]
    /\ link' = [link EXCEPT ![PodOf[t]] = IF @ = "new" THEN "open" ELSE @]
    /\ UNCHANGED <<clock, count, got, repeats, blind, denied>>

\* incr() returns 1, the first of its second, to the tasks of a pod whose
\* first ping failed: they all go.
AskBlind(t) ==
    /\ at[t] = "asking"
    /\ Rate[t] > 0
    /\ link[PodOf[t]] = "broken"
    /\ key' = [key EXCEPT ![t] = Second]
    /\ at' = [at EXCEPT ![t] = "gone"]
    /\ blind' = blind \cup {t}
    /\ UNCHANGED <<clock, count, link, got, repeats, denied>>

\* The answer is within the limit.
Go(t) ==
    /\ at[t] = "answered"
    /\ MayGo(t)
    /\ at' = [at EXCEPT ![t] = "gone"]
    /\ UNCHANGED <<clock, count, link, key, got, repeats, blind, denied>>

\* It is over the limit: the task sleeps.
Sleep(t) ==
    /\ at[t] = "answered"
    /\ ~MayGo(t)
    /\ at' = [at EXCEPT ![t] = "asleep"]
    /\ denied' = [denied EXCEPT ![t] = @ + 1]
    /\ UNCHANGED <<clock, count, link, key, got, repeats, blind>>

\* The second it was counted in is over.
Wake(t) ==
    /\ at[t] = "asleep"
    /\ clock > key[t]
    /\ at' = [at EXCEPT ![t] = "asking"]
    /\ UNCHANGED <<clock, count, link, key, got, repeats, blind, denied>>

-----------------------------------------------------------------------------
(* RedisCacheAdapter.                                                      *)

\* The key is incremented, atomically, and the answer is under way.
Incr(t) ==
    /\ at[t] \in {"calling", "pinging"}
    /\ count' = [count EXCEPT ![key[t]] = @ + 1]
    /\ got' = [got EXCEPT ![t] = count[key[t]] + 1]
    /\ at' = [at EXCEPT ![t] = "answered"]
    /\ UNCHANGED <<clock, link, key, repeats, blind, denied>>

\* The answer is lost and the client sends the INCR again.
IncrAgain(t) ==
    /\ at[t] = "answered"
    /\ repeats < MaxRepeats
    /\ repeats' = repeats + 1
    /\ count' = [count EXCEPT ![key[t]] = @ + 1]
    /\ got' = [got EXCEPT ![t] = count[key[t]] + 1]
    /\ UNCHANGED <<clock, link, at, key, blind, denied>>

\* The robots service shares the adapter of the pod: its first call may be the
\* one that makes the client and pings.
RobotsPing(p) ==
    /\ p \in RobotsPods
    /\ link[p] = "new"
    /\ link' = [link EXCEPT ![p] = "robots"]
    /\ UNCHANGED <<clock, count, at, key, got, repeats, blind, denied>>

\* Its ping ends, while tasks use the client: if it fails the client is gone.
RobotsPinged(p) ==
    /\ link[p] = "robots"
    /\ \E status \in {"open", "broken"} : link' = [link EXCEPT ![p] = status]
    /\ UNCHANGED <<clock, count, at, key, got, repeats, blind, denied>>

\* The first ping fails: the pod never tries again, and incr() returns 1.
PingFails(t) ==
    /\ at[t] = "pinging"
    /\ link' = [link EXCEPT ![PodOf[t]] = "broken"]
    /\ at' = [at EXCEPT ![t] = "gone"]
    /\ blind' = blind \cup {t}
    /\ UNCHANGED <<clock, count, key, got, repeats, denied>>

\* The INCR raises, counted by Redis or not: incr() returns 1 too.
IncrFails(t) ==
    /\ at[t] \in {"calling", "pinging", "answered"}
    /\ at' = [at EXCEPT ![t] = "gone"]
    /\ blind' = blind \cup {t}
    /\ UNCHANGED <<clock, count, link, key, got, repeats, denied>>

-----------------------------------------------------------------------------

\* Time passes.  BOUND: the seconds in which no task asks are skipped.
Tick ==
    /\ \E t \in Tasks : at[t] # "asking" /\ key[t] = clock /\ Rate[t] > 0
    /\ clock' = clock + 1
    /\ count' = [s \in 0..clock + 1 |-> IF s \in 0..clock THEN count[s] ELSE 0]
    /\ UNCHANGED <<link, at, key, got, repeats, blind, denied>>

Begin(t) == GoUnlimited(t) \/ Ask(t) \/ AskBlind(t) \/ Wake(t)
Call(t) == Incr(t) \/ IncrAgain(t) \/ PingFails(t) \/ IncrFails(t)
Return(t) == Go(t) \/ Sleep(t)

Next ==
    \/ Tick
    \/ \E t \in Tasks : Begin(t) \/ Call(t) \/ Return(t)
    \/ \E p \in Pods : RobotsPing(p) \/ RobotsPinged(p)

Spec == Init /\ [][Next]_vars

\* Calls to Redis end (socket_timeout), the event loop runs, time passes.
Fairness ==
    /\ WF_vars(Tick)
    /\ \A t \in Tasks : WF_vars(Begin(t)) /\ WF_vars(Call(t)) /\ WF_vars(Return(t))

FairSpec == Spec /\ Fairness

-----------------------------------------------------------------------------

\* The tasks that went in the second s with a limit of n or less.
WentIn(s, n) ==
    {t \in Tasks : at[t] = "gone" /\ Rate[t] > 0 /\ key[t] = s /\ MaxAllowed(t) <= n}

Limits == {MaxAllowed(t) : t \in Tasks}

\* Among the tasks of all pods that count themselves in one second, and that
\* Redis answers, no more go than the limit they share.
RateBound ==
    \A s \in 0..clock, n \in Limits : Cardinality(WentIn(s, n) \ blind) <= n

\* A task loses at most one second to every other task of the domain and to
\* every repeated INCR: whatever the limits and delays, none is overtaken twice
\* by the same task.
WaitBound ==
    \A t \in Tasks :
        denied[t] <= repeats + Cardinality({u \in Tasks \ {t} :
            at[u] = "gone" \/ (at[u] = "answered" /\ MayGo(u))})

\* Every task is let go in the end.
EveryTaskGoes == \A t \in Tasks : <>(at[t] = "gone")
=============================================================================
