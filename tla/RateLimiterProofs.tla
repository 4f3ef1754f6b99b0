-------------------------- MODULE RateLimiterProofs --------------------------
(***************************************************************************)
(* Machine-checked proofs about the rate limiter, for every number of pods *)
(* and tasks and every limit.                                              *)
(***************************************************************************)
EXTENDS RateLimiter, FiniteSetTheorems, TLAPS

\* A limit is a positive number of requests.
LEMMA MaxAllowedType ==
    ASSUME NEW t \in Tasks
    PROVE  MaxAllowed(t) \in Nat /\ MaxAllowed(t) >= 1
BY RateLimiterAssumption DEF MaxAllowed

-----------------------------------------------------------------------------
(* Typing.                                                                 *)

\* Counting a task under a key that exists keeps the counters typed.
LEMMA CountType ==
    ASSUME RateTypeOK, NEW t \in Tasks,
           count' = [count EXCEPT ![key[t]] = @ + 1],
           got' = [got EXCEPT ![t] = count[key[t]] + 1]
    PROVE  /\ count' \in [0..clock -> Nat]
           /\ got' \in [Tasks -> Nat]
<1>1. key[t] \in 0..clock /\ count[key[t]] \in Nat
  BY DEF RateTypeOK
<1>2. count' \in [0..clock -> Nat]
  BY <1>1 DEF RateTypeOK
<1>3. got' \in [Tasks -> Nat]
  BY <1>1 DEF RateTypeOK
<1>4. QED
  BY <1>2, <1>3

\* The beginning of a round of acquire keeps the type.
LEMMA BeginType ==
    ASSUME RateTypeOK, NEW t \in Tasks, Begin(t)
    PROVE  RateTypeOK'
<1> USE RateLimiterAssumption DEF RateTypeOK
<1>1. CASE GoUnlimited(t)
  BY <1>1 DEF GoUnlimited, Steps
<1>2. CASE Ask(t)
  <2>1. Second \in 0..clock
    BY DEF Second
  <2>2. key' \in [Tasks -> 0..clock]
    BY <1>2, <2>1 DEF Ask
  <2>3. link' \in [Pods -> {"new", "robots", "open", "broken"}]
    BY <1>2 DEF Ask
  <2>4. (IF link[PodOf[t]] = "new" THEN "pinging" ELSE "calling") \in Steps
    BY DEF Steps
  <2>5. at' \in [Tasks -> Steps]
    BY <1>2, <2>4 DEF Ask
  <2>6. QED
    BY <1>2, <2>2, <2>3, <2>5 DEF Ask
<1>3. CASE AskBlind(t)
  BY <1>3 DEF AskBlind, Second, Steps
<1>4. CASE Wake(t)
  BY <1>4 DEF Wake, Steps
<1>5. QED
  BY <1>1, <1>2, <1>3, <1>4 DEF Begin

\* The call of Redis keeps the type.
LEMMA CallType ==
    ASSUME RateTypeOK, NEW t \in Tasks, Call(t)
    PROVE  RateTypeOK'
<1>1. CASE Incr(t)
  <2>1. /\ count' \in [0..clock -> Nat]
        /\ got' \in [Tasks -> Nat]
    BY <1>1, CountType DEF Incr
  <2>2. QED
    BY <1>1, <2>1 DEF RateTypeOK, Incr, Steps
<1>2. CASE IncrAgain(t)
  <2>1. /\ count' \in [0..clock -> Nat]
        /\ got' \in [Tasks -> Nat]
    BY <1>2, CountType DEF IncrAgain
  <2>2. repeats' \in 0..MaxRepeats
    BY <1>2, RateLimiterAssumption DEF RateTypeOK, IncrAgain
  <2>3. QED
    BY <1>2, <2>1, <2>2 DEF RateTypeOK, IncrAgain
<1>3. CASE PingFails(t)
  BY <1>3, RateLimiterAssumption DEF RateTypeOK, PingFails, Steps
<1>4. CASE IncrFails(t)
  BY <1>4 DEF RateTypeOK, IncrFails, Steps
<1>5. QED
  BY <1>1, <1>2, <1>3, <1>4 DEF Call

\* The passing of a second keeps the type: its counter starts at zero.
LEMMA TickType ==
    ASSUME RateTypeOK, Tick
    PROVE  RateTypeOK'
<1>1. clock' \in Nat /\ clock' = clock + 1 /\ 0..clock \subseteq 0..clock'
  BY DEF RateTypeOK, Tick
<1>2. count' \in [0..clock' -> Nat]
  BY <1>1 DEF RateTypeOK, Tick
<1>3. key' \in [Tasks -> 0..clock']
  BY <1>1 DEF RateTypeOK, Tick
<1>4. QED
  BY <1>1, <1>2, <1>3 DEF RateTypeOK, Tick

\* The type invariant is inductive.
LEMMA TypeStep ==
    ASSUME RateTypeOK, [Next]_vars
    PROVE  RateTypeOK'
<1>1. CASE Tick
  BY <1>1, TickType
<1>2. ASSUME NEW t \in Tasks, Begin(t) PROVE RateTypeOK'
  BY <1>2, BeginType
<1>3. ASSUME NEW t \in Tasks, Call(t) PROVE RateTypeOK'
  BY <1>3, CallType
<1>4. ASSUME NEW t \in Tasks, Go(t) PROVE RateTypeOK'
  BY <1>4 DEF RateTypeOK, Go, Steps
<1>5. ASSUME NEW t \in Tasks, Sleep(t) PROVE RateTypeOK'
  BY <1>5 DEF RateTypeOK, Sleep, Steps
<1>6. ASSUME NEW p \in Pods, RobotsPing(p) \/ RobotsPinged(p) PROVE RateTypeOK'
  BY <1>6 DEF RateTypeOK, RobotsPing, RobotsPinged
<1>7. CASE UNCHANGED vars
  BY <1>7 DEF RateTypeOK, vars
<1>8. QED
  BY <1>1, <1>2, <1>3, <1>4, <1>5, <1>6, <1>7 DEF Next, Return

\* The state of the limiter is well typed: no task counts itself in a second
\* that has not come, and every key in use has a counter (rate_limiter.py:42).
THEOREM RateTypeCorrect == Spec => []RateTypeOK
<1>1. Init => RateTypeOK
  BY RateLimiterAssumption DEF Init, RateTypeOK, Steps
<1>2. QED
  BY <1>1, TypeStep, PTL DEF Spec

-----------------------------------------------------------------------------
(* The limit.                                                              *)

\* The tasks that hold a count Redis gave them, and use or have used it.
Holder(t) ==
    \/ at[t] = "answered"
    \/ at[t] = "gone" /\ Rate[t] > 0 /\ t \notin blind

\* What INCR being atomic gives: the counts held under one key are different
\* numbers up to its counter.  And who went with one was within its limit.
CountsHeld ==
    \A t \in Tasks : Holder(t) => got[t] >= 1 /\ got[t] <= count[key[t]]

CountsDiffer ==
    \A t, u \in Tasks :
        Holder(t) /\ Holder(u) /\ t # u /\ key[t] = key[u] => got[t] # got[u]

GoneMayGo ==
    \A t \in Tasks : at[t] = "gone" /\ Holder(t) => MayGo(t)

LimitInv == RateTypeOK /\ CountsHeld /\ CountsDiffer /\ GoneMayGo

\* A step that changes no count held, and makes no new holder.
LEMMA NothingCounted ==
    ASSUME LimitInv,
           \A t \in Tasks : Holder(t)' => Holder(t) /\ key'[t] = key[t] /\ got'[t] = got[t],
           \A t \in Tasks : Holder(t) => count'[key[t]] = count[key[t]],
           \A t \in Tasks : Holder(t)' /\ at'[t] = "gone" => MayGo(t)
    PROVE  CountsHeld' /\ CountsDiffer' /\ GoneMayGo'
<1>1. CountsHeld'
  BY DEF LimitInv, CountsHeld
<1>2. CountsDiffer'
  BY DEF LimitInv, CountsDiffer
<1>3. ASSUME NEW t \in Tasks, at'[t] = "gone", Holder(t)' PROVE MayGo(t)'
  <2>1. MayGo(t) /\ got'[t] = got[t]
    BY <1>3
  <2>2. QED
    BY <2>1 DEF MayGo, MaxAllowed
<1>4. QED
  BY <1>1, <1>2, <1>3 DEF GoneMayGo

\* A task is given the next count of its key: nobody else has it.
LEMMA Counted ==
    ASSUME LimitInv, NEW t \in Tasks,
           at[t] # "gone",
           at' = [at EXCEPT ![t] = "answered"],
           count' = [count EXCEPT ![key[t]] = @ + 1],
           got' = [got EXCEPT ![t] = count[key[t]] + 1],
           UNCHANGED <<key, blind>>
    PROVE  CountsHeld' /\ CountsDiffer' /\ GoneMayGo'
<1> USE DEF LimitInv, RateTypeOK
<1>1. /\ key[t] \in 0..clock /\ count[key[t]] \in Nat
      /\ got'[t] = count[key[t]] + 1
      /\ count'[key[t]] = count[key[t]] + 1
      /\ at'[t] = "answered"
  OBVIOUS
<1>2. ASSUME NEW u \in Tasks, u # t
      PROVE  /\ Holder(u)' <=> Holder(u)
             /\ got'[u] = got[u] /\ at'[u] = at[u] /\ key'[u] = key[u]
             /\ got[u] \in Nat
  BY <1>2 DEF Holder
<1>3. ASSUME NEW u \in Tasks, u # t, Holder(u)
      PROVE  /\ got[u] >= 1 /\ got[u] <= count[key[u]]
             /\ count[key[u]] \in Nat
             /\ count[key[u]] <= count'[key[u]]
             /\ count'[key[u]] \in Nat
  <2>1. /\ got[u] >= 1 /\ got[u] <= count[key[u]]
        /\ key[u] \in 0..clock /\ count[key[u]] \in Nat
    BY <1>3 DEF CountsHeld
  <2>2. CASE key[u] = key[t]
    BY <1>1, <2>1, <2>2
  <2>3. CASE key[u] # key[t]
    BY <2>1, <2>3
  <2>4. QED
    BY <2>1, <2>2, <2>3
<1>4. CountsHeld'
  <2>1. ASSUME NEW u \in Tasks, Holder(u)'
        PROVE  got'[u] >= 1 /\ got'[u] <= count'[key'[u]]
    <3>1. CASE u = t
      BY <1>1, <3>1
    <3>2. CASE u # t
      BY <1>2, <1>3, <2>1, <3>2
    <3>3. QED
      BY <3>1, <3>2
  <2>2. QED
    BY <2>1 DEF CountsHeld
<1>5. ASSUME NEW u \in Tasks, u # t, Holder(u), key[u] = key[t]
      PROVE  got[u] # got'[t]
  BY <1>1, <1>2, <1>3, <1>5
<1>6. CountsDiffer'
  <2>1. ASSUME NEW u \in Tasks, NEW v \in Tasks,
               Holder(u)', Holder(v)', u # v, key'[u] = key'[v]
        PROVE  got'[u] # got'[v]
    <3>1. CASE u = t
      BY <1>2, <1>5, <2>1, <3>1
    <3>2. CASE v = t
      BY <1>2, <1>5, <2>1, <3>2
    <3>3. CASE u # t /\ v # t
      BY <1>2, <2>1, <3>3 DEF CountsDiffer
    <3>4. QED
      BY <3>1, <3>2, <3>3
  <2>2. QED
    BY <2>1 DEF CountsDiffer
<1>7. GoneMayGo'
  <2>1. ASSUME NEW u \in Tasks, at'[u] = "gone", Holder(u)' PROVE MayGo(u)'
    <3>1. u # t
      BY <1>1, <2>1
    <3>2. MayGo(u) /\ got'[u] = got[u]
      BY <1>2, <2>1, <3>1 DEF GoneMayGo
    <3>3. QED
      BY <3>2 DEF MayGo, MaxAllowed
  <2>2. QED
    BY <2>1 DEF GoneMayGo
<1>8. QED
  BY <1>4, <1>6, <1>7

\* The steps of one task other than INCR: it may leave the holders, or go with
\* the count it holds.
LEMMA TaskMoves ==
    ASSUME LimitInv, NEW t \in Tasks,
           UNCHANGED <<count, got>>,
           \A u \in Tasks \ {t} :
               /\ at'[u] = at[u] /\ key'[u] = key[u]
               /\ u \in blind' <=> u \in blind,
           Holder(t)' => Holder(t) /\ key'[t] = key[t] /\ MayGo(t)
    PROVE  CountsHeld' /\ CountsDiffer' /\ GoneMayGo'
<1>1. ASSUME NEW u \in Tasks, u # t PROVE Holder(u)' <=> Holder(u)
  BY <1>1 DEF Holder
<1>2. ASSUME NEW u \in Tasks, Holder(u)'
      PROVE  Holder(u) /\ key'[u] = key[u] /\ got'[u] = got[u]
  BY <1>1, <1>2
<1>3. ASSUME NEW u \in Tasks, Holder(u)', at'[u] = "gone" PROVE MayGo(u)
  <2>1. CASE u = t
    BY <1>3, <2>1
  <2>2. CASE u # t
    BY <1>1, <1>3, <2>2 DEF LimitInv, GoneMayGo
  <2>3. QED
    BY <2>1, <2>2
<1>4. QED
  BY <1>2, <1>3, NothingCounted

\* The invariant is inductive.
LEMMA LimitStep ==
    ASSUME LimitInv, [Next]_vars
    PROVE  LimitInv'
<1>1. RateTypeOK'
  BY TypeStep DEF LimitInv
<1> SUFFICES CountsHeld' /\ CountsDiffer' /\ GoneMayGo'
  BY <1>1 DEF LimitInv
<1>2. CASE Tick
  <2>1. ASSUME NEW t \in Tasks
        PROVE  /\ Holder(t)' <=> Holder(t)
               /\ key'[t] = key[t] /\ got'[t] = got[t] /\ at'[t] = at[t]
    BY <1>2 DEF Tick, Holder
  <2>2. ASSUME NEW t \in Tasks PROVE count'[key[t]] = count[key[t]]
    <3>1. key[t] \in 0..clock /\ key[t] \in 0..clock + 1
      BY DEF LimitInv, RateTypeOK
    <3>2. QED
      BY <1>2, <3>1 DEF Tick
  <2>3. QED
    BY <2>1, <2>2, NothingCounted DEF LimitInv, GoneMayGo
<1>3. ASSUME NEW t \in Tasks, Begin(t)
      PROVE  CountsHeld' /\ CountsDiffer' /\ GoneMayGo'
  <2>1. /\ UNCHANGED <<count, got>>
        /\ \A u \in Tasks \ {t} :
             /\ at'[u] = at[u] /\ key'[u] = key[u]
             /\ u \in blind' <=> u \in blind
    BY <1>3 DEF Begin, GoUnlimited, Ask, AskBlind, Wake, LimitInv, RateTypeOK
  <2>2. ~Holder(t)'
    BY <1>3 DEF Begin, GoUnlimited, Ask, AskBlind, Wake, LimitInv, RateTypeOK, Holder
  <2>3. QED
    BY <2>1, <2>2, TaskMoves
<1>4. ASSUME NEW t \in Tasks, Call(t)
      PROVE  CountsHeld' /\ CountsDiffer' /\ GoneMayGo'
  <2>1. CASE Incr(t)
    BY <2>1, Counted DEF Incr
  <2>2. CASE IncrAgain(t)
    <3>1. at' = [at EXCEPT ![t] = "answered"]
      BY <2>2 DEF IncrAgain, LimitInv, RateTypeOK
    <3>2. QED
      BY <2>2, <3>1, Counted DEF IncrAgain
  <2>3. CASE PingFails(t) \/ IncrFails(t)
    <3>1. /\ UNCHANGED <<count, got>>
          /\ \A u \in Tasks \ {t} :
               /\ at'[u] = at[u] /\ key'[u] = key[u]
               /\ u \in blind' <=> u \in blind
      BY <2>3 DEF PingFails, IncrFails, LimitInv, RateTypeOK
    <3>2. ~Holder(t)'
      BY <2>3 DEF PingFails, IncrFails, LimitInv, RateTypeOK, Holder
    <3>3. QED
      BY <3>1, <3>2, TaskMoves
  <2>4. QED
    BY <1>4, <2>1, <2>2, <2>3 DEF Call
<1>5. ASSUME NEW t \in Tasks, Return(t)
      PROVE  CountsHeld' /\ CountsDiffer' /\ GoneMayGo'
  <2>1. /\ UNCHANGED <<count, got>>
        /\ \A u \in Tasks \ {t} :
             /\ at'[u] = at[u] /\ key'[u] = key[u]
             /\ u \in blind' <=> u \in blind
    BY <1>5 DEF Return, Go, Sleep, LimitInv, RateTypeOK
  <2>2. Holder(t)' => Holder(t) /\ key'[t] = key[t] /\ MayGo(t)
    BY <1>5 DEF Return, Go, Sleep, LimitInv, RateTypeOK, Holder
  <2>3. QED
    BY <2>1, <2>2, TaskMoves
<1>6. ASSUME NEW p \in Pods, RobotsPing(p) \/ RobotsPinged(p)
      PROVE  CountsHeld' /\ CountsDiffer' /\ GoneMayGo'
  BY <1>6, NothingCounted DEF RobotsPing, RobotsPinged, Holder, LimitInv, GoneMayGo
<1>7. CASE UNCHANGED vars
  BY <1>7, NothingCounted DEF vars, Holder, LimitInv, GoneMayGo
<1>8. QED
  BY <1>2, <1>3, <1>4, <1>5, <1>6, <1>7 DEF Next

\* The counts of those that went are different numbers of 1..n: they are no
\* more than n.
LEMMA LimitInvBounds ==
    ASSUME LimitInv
    PROVE  RateBound
<1> SUFFICES ASSUME NEW s \in 0..clock, NEW n \in Limits
             PROVE  Cardinality(WentIn(s, n) \ blind) <= n
  BY DEF RateBound
<1> DEFINE W == WentIn(s, n) \ blind
           f == [t \in W |-> got[t]]
<1>1. n \in Nat
  BY MaxAllowedType DEF Limits
<1>2. ASSUME NEW t \in W
      PROVE  t \in Tasks /\ Holder(t) /\ key[t] = s /\ got[t] \in 1..n
  <2>1. t \in Tasks /\ Holder(t) /\ key[t] = s /\ MaxAllowed(t) <= n /\ MayGo(t)
    BY DEF WentIn, Holder, LimitInv, GoneMayGo
  <2>2. got[t] \in Nat /\ got[t] >= 1 /\ MaxAllowed(t) \in Nat
    BY <2>1, MaxAllowedType DEF LimitInv, CountsHeld, RateTypeOK
  <2>3. QED
    BY <1>1, <2>1, <2>2 DEF MayGo
<1>3. f \in Injection(W, 1..n)
  <2>1. f \in [W -> 1..n]
    BY <1>2
  <2>2. ASSUME NEW t \in W, NEW u \in W, f[t] = f[u] PROVE t = u
    BY <1>2, <2>2 DEF LimitInv, CountsDiffer
  <2>3. QED
    BY <2>1, <2>2 DEF Injection, IsInjective
<1>4. IsFiniteSet(1..n) /\ Cardinality(1..n) = n
  BY <1>1, FS_Interval
<1>5. Cardinality(W) <= Cardinality(1..n)
  BY <1>3, <1>4, FS_Injection
<1>6. QED
  BY <1>4, <1>5

LEMMA LimitInitially ==
    ASSUME Init
    PROVE  LimitInv
<1>1. RateTypeOK
  BY RateLimiterAssumption DEF Init, RateTypeOK, Steps
<1>2. \A t \in Tasks : ~Holder(t)
  BY DEF Init, Holder
<1>3. QED
  BY <1>1, <1>2 DEF LimitInv, CountsHeld, CountsDiffer, GoneMayGo

\* However many pods and tasks ask at once, however late Redis answers and
\* whichever INCRs fail or are repeated, no more tasks go in a second with an
\* answer of Redis than the limit they share (rate_limiter.py:47).
THEOREM RateLimitHolds == Spec => []RateBound
BY LimitInitially, LimitStep, LimitInvBounds, PTL DEF Spec

-----------------------------------------------------------------------------
(* How long a task may wait.                                               *)

\* Tasks that have gone, or hold an answer that lets them go.
Served(u) == at[u] = "gone" \/ (at[u] = "answered" /\ MayGo(u))

\* The seconds in which a task was counted, and those of them that let none
\* go: the first to be counted was, unless its INCR was repeated.
Counting == {s \in 0..clock : count[s] > 0}

Lost == {s \in Counting : \A u \in Tasks : Served(u) => key[u] # s}

\* The seconds in which a task may have been put to sleep.
Denials(t) == {s \in Counting : s < key[t] \/ (s = key[t] /\ at[t] \in {"asking", "asleep"})}

\* A task that asks again has not asked in this second; one without a limit
\* never sleeps.
Asking(t) ==
    /\ at[t] = "asking" /\ key[t] = clock => denied[t] = 0
    /\ Rate[t] = 0 => denied[t] = 0 /\ at[t] \in {"asking", "gone"}

WaitInv ==
    /\ Cardinality(Lost) <= repeats
    /\ \A t \in Tasks : denied[t] <= Cardinality(Denials(t)) /\ Asking(t)

LEMMA SomeSeconds ==
    ASSUME NEW n \in Nat, NEW S \in SUBSET (0..n)
    PROVE  /\ IsFiniteSet(S) /\ Cardinality(S) \in Nat
           /\ \A T \in SUBSET S : Cardinality(T) <= Cardinality(S)
<1>1. IsFiniteSet(0..n)
  BY FS_Interval
<1>2. IsFiniteSet(S)
  BY <1>1, FS_Subset
<1>3. QED
  BY <1>2, FS_Subset, FS_CardinalityType

\* A step in which no second is lost and no task put to sleep.
LEMMA NoneDenied ==
    ASSUME RateTypeOK, RateTypeOK', WaitInv, Lost' \subseteq Lost, UNCHANGED <<repeats, denied>>,
           \A t \in Tasks : Asking(t)' /\ (Denials(t) \subseteq Denials(t)' \/ denied[t] = 0)
    PROVE  WaitInv'
<1>1. Cardinality(Lost)' <= repeats'
  <2>1. Lost \in SUBSET (0..clock) /\ clock \in Nat
    BY DEF Lost, Counting, RateTypeOK
  <2>2. Cardinality(Lost') <= Cardinality(Lost)
    BY <2>1, SomeSeconds
  <2>3. Lost' \in SUBSET (0..clock)
    BY <2>1
  <2>4. Cardinality(Lost) \in Nat /\ Cardinality(Lost') \in Nat
    BY <2>1, <2>3, SomeSeconds
  <2>5. QED
    BY <2>2, <2>4, RateLimiterAssumption DEF WaitInv, RateTypeOK
<1>2. ASSUME NEW t \in Tasks
      PROVE  denied'[t] <= Cardinality(Denials(t))'
  <2>1. denied[t] \in Nat /\ denied[t] <= Cardinality(Denials(t))
    BY DEF WaitInv, RateTypeOK
  <2>2. Denials(t)' \in SUBSET (0..clock') /\ clock' \in Nat
    BY DEF Denials, Counting, RateTypeOK
  <2>3. Cardinality(Denials(t)') \in Nat
    BY <2>2, SomeSeconds
  <2>4. CASE Denials(t) \subseteq Denials(t)'
    <3>1. Cardinality(Denials(t)) <= Cardinality(Denials(t)')
      BY <2>2, <2>4, SomeSeconds
    <3>2. Cardinality(Denials(t)) \in Nat
      BY <2>2, <2>4, SomeSeconds
    <3>3. QED
      BY <2>1, <2>3, <3>1, <3>2
  <2>5. CASE denied[t] = 0
    BY <2>3, <2>5
  <2>6. QED
    BY <2>4, <2>5
<1>3. QED
  BY <1>1, <1>2 DEF WaitInv

\* A step that counts nothing and moves one task, which keeps its key and what
\* it was served.
LEMMA OneMoves ==
    ASSUME RateTypeOK, RateTypeOK', WaitInv, UNCHANGED <<clock, count, got, repeats, denied>>,
           NEW t \in Tasks, \A u \in Tasks \ {t} : at'[u] = at[u] /\ key'[u] = key[u],
           Served(t) => Served(t)' /\ key'[t] = key[t],
           Asking(t)', Denials(t) \subseteq Denials(t)' \/ denied[t] = 0
    PROVE  WaitInv'
<1>1. Counting' = Counting
  BY DEF Counting
<1>2. \A u \in Tasks : Served(u) => Served(u)' /\ key'[u] = key[u]
  BY DEF Served, MayGo
<1>3. Lost' \subseteq Lost
  BY <1>1, <1>2 DEF Lost
<1>4. \A u \in Tasks \ {t} : Asking(u)' /\ Denials(u)' = Denials(u)
  BY <1>1 DEF WaitInv, Asking, Denials
<1>5. QED
  BY <1>3, <1>4, NoneDenied

\* Redis has counted the task; the count is lost only if it was repeated.
LEMMA OneCounted ==
    ASSUME LimitInv, RateTypeOK', WaitInv, NEW t \in Tasks,
           count' = [count EXCEPT ![key[t]] = @ + 1],
           got' = [got EXCEPT ![t] = count[key[t]] + 1],
           at[t] \in {"calling", "pinging", "answered"}, at' = [at EXCEPT ![t] = "answered"],
           UNCHANGED <<clock, key, denied>>,
           \/ repeats' = repeats /\ at[t] # "answered"
           \/ repeats' = repeats + 1
    PROVE  WaitInv'
<1>0. /\ RateTypeOK /\ key[t] \in 0..clock /\ clock \in Nat
      /\ count[key[t]] \in Nat /\ got'[t] = count[key[t]] + 1
      /\ at'[t] = "answered" /\ \A u \in Tasks \ {t} : at'[u] = at[u] /\ got'[u] = got[u]
  BY DEF LimitInv, RateTypeOK
<1>1. \A s \in 0..clock : count'[s] = IF s = key[t] THEN count[s] + 1 ELSE count[s]
  BY <1>0 DEF RateTypeOK
<1>2. Counting' = Counting \cup {key[t]}
  BY <1>0, <1>1 DEF Counting, RateTypeOK
<1>3. \A u \in Tasks \ {t} : Served(u)' <=> Served(u)
  BY <1>0 DEF Served, MayGo
<1>4. Lost' \subseteq Lost \cup {key[t]}
  BY <1>2, <1>3 DEF Lost
<1>5. \A u \in Tasks : Asking(u)' /\ Denials(u) \subseteq Denials(u)'
  <2>1. \A u \in Tasks \ {t} : Asking(u)'
    BY <1>0 DEF WaitInv, Asking
  <2>2. Asking(t)'
    BY <1>0 DEF WaitInv, Asking
  <2>3. ASSUME NEW u \in Tasks
        PROVE  Denials(u) \subseteq Denials(u)'
    BY <1>0, <1>2 DEF Denials
  <2>4. QED
    BY <2>1, <2>2, <2>3
\* The first to be counted in a second may go.
<1>6. CASE repeats' = repeats /\ at[t] # "answered"
  <2>1. key[t] \in Lost' => key[t] \in Lost
    <3>1. CASE count[key[t]] = 0
      <4>1. MayGo(t)'
        BY <1>0, <3>1, MaxAllowedType DEF MayGo
      <4>2. Served(t)'
        BY <1>0, <4>1 DEF Served
      <4>3. QED
        BY <4>2 DEF Lost
    <3>2. CASE count[key[t]] # 0
      <4>1. key[t] \in Counting
        BY <1>0, <3>2 DEF Counting
      <4>2. ~Served(t)
        BY <1>6 DEF Served
      <4>3. QED
        BY <1>3, <4>1, <4>2 DEF Lost
    <3>3. QED
      BY <3>1, <3>2
  <2>2. Lost' \subseteq Lost
    BY <1>4, <2>1
  <2>3. QED
    BY <1>0, <1>5, <1>6, <2>2, NoneDenied
<1>7. CASE repeats' = repeats + 1
  <2>1. Lost \in SUBSET (0..clock) /\ Lost' \in SUBSET (0..clock)
    BY <1>0 DEF Lost, Counting
  <2>2. IsFiniteSet(Lost) /\ Cardinality(Lost) \in Nat /\ Cardinality(Lost') \in Nat
    BY <1>0, <2>1, SomeSeconds
  <2>3. /\ IsFiniteSet(Lost \cup {key[t]})
        /\ Cardinality(Lost \cup {key[t]}) \in Nat
        /\ Cardinality(Lost \cup {key[t]}) <= Cardinality(Lost) + 1
    <3>1. /\ IsFiniteSet(Lost \cup {key[t]})
          /\ Cardinality(Lost \cup {key[t]}) =
                IF key[t] \in Lost THEN Cardinality(Lost) ELSE Cardinality(Lost) + 1
      BY <2>2, FS_AddElement
    <3>2. QED
      BY <2>2, <3>1
  <2>4. Cardinality(Lost') <= Cardinality(Lost \cup {key[t]})
    BY <1>4, <2>3, FS_Subset
  <2>5. Cardinality(Lost)' <= repeats'
    BY <1>0, <1>7, <2>2, <2>3, <2>4, RateLimiterAssumption DEF WaitInv, RateTypeOK
  <2>6. ASSUME NEW u \in Tasks
        PROVE  denied'[u] <= Cardinality(Denials(u))'
    <3>1. Denials(u)' \in SUBSET (0..clock)
      BY <1>0 DEF Denials, Counting
    <3>2. Denials(u) \in SUBSET (0..clock)
      BY <1>0 DEF Denials, Counting
    <3>3. Cardinality(Denials(u)) <= Cardinality(Denials(u)')
      BY <1>0, <1>5, <3>1, SomeSeconds
    <3>4. Cardinality(Denials(u)) \in Nat /\ Cardinality(Denials(u)') \in Nat
      BY <1>0, <3>1, <3>2, SomeSeconds
    <3>5. QED
      BY <1>0, <3>3, <3>4 DEF WaitInv, RateTypeOK
  <2>7. QED
    BY <1>5, <2>5, <2>6 DEF WaitInv
<1>8. QED
  BY <1>6, <1>7

LEMMA WaitStep ==
    ASSUME LimitInv, WaitInv, [Next]_vars
    PROVE  WaitInv'
<1>0. RateTypeOK /\ RateTypeOK'
  BY TypeStep DEF LimitInv
<1>1. CASE Tick
  <2>1. clock' = clock + 1 /\ clock \in Nat /\ UNCHANGED <<at, key, got, repeats, denied>>
    BY <1>0, <1>1 DEF Tick, RateTypeOK
  <2>2. \A s \in 0..clock' : count'[s] = IF s \in 0..clock THEN count[s] ELSE 0
    BY <1>1, <2>1 DEF Tick
  <2>3. Counting' = Counting
    BY <2>1, <2>2 DEF Counting
  <2>4. Lost' = Lost /\ \A t \in Tasks : Denials(t)' = Denials(t)
    BY <2>1, <2>3 DEF Lost, Denials, Served, MayGo
  <2>5. \A t \in Tasks : Asking(t)'
    BY <1>0, <2>1 DEF WaitInv, Asking, RateTypeOK
  <2>6. QED
    BY <1>0, <2>1, <2>4, <2>5, NoneDenied
<1>2. ASSUME NEW t \in Tasks, Begin(t)
      PROVE  WaitInv'
  <2>1. UNCHANGED <<clock, count, got, repeats, denied>>
    BY <1>2 DEF Begin, GoUnlimited, Ask, AskBlind, Wake
  <2>2. \A u \in Tasks \ {t} : at'[u] = at[u] /\ key'[u] = key[u]
    BY <1>0, <1>2 DEF Begin, GoUnlimited, Ask, AskBlind, Wake, RateTypeOK
  <2>3. ~Served(t)
    BY <1>2 DEF Begin, GoUnlimited, Ask, AskBlind, Wake, Served
  <2>4. Asking(t)'
    <3>1. Asking(t) /\ at \in [Tasks -> Steps] /\ key \in [Tasks -> 0..clock]
      BY <1>0 DEF WaitInv, RateTypeOK
    <3>2. CASE GoUnlimited(t)
      BY <3>1, <3>2 DEF GoUnlimited, Asking
    <3>3. CASE Ask(t)
      BY <3>1, <3>3 DEF Ask, Asking
    <3>4. CASE AskBlind(t)
      BY <3>1, <3>4 DEF AskBlind, Asking
    <3>5. CASE Wake(t)
      BY <3>1, <3>5 DEF Wake, Asking
    <3> QED
      BY <1>2, <3>2, <3>3, <3>4, <3>5 DEF Begin
  <2>5. Denials(t) \subseteq Denials(t)' \/ denied[t] = 0
    <3>1. CASE GoUnlimited(t)
      BY <3>1 DEF GoUnlimited, WaitInv, Asking
    <3>2. CASE Ask(t) \/ AskBlind(t)
      <4>1. key'[t] = clock /\ at[t] = "asking"
        BY <1>0, <3>2 DEF Ask, AskBlind, Second, RateTypeOK
      <4>2. CASE key[t] = clock
        BY <4>1, <4>2 DEF WaitInv, Asking
      <4>3. CASE key[t] # clock
        <5>1. key[t] \in 0..clock /\ clock \in Nat
          BY <1>0 DEF RateTypeOK
        <5>2. \A s \in Counting : s < key[t] \/ s = key[t] => s < clock
          BY <4>3, <5>1 DEF Counting
        <5>3. QED
          BY <2>1, <4>1, <5>2 DEF Denials, Counting
      <4>4. QED
        BY <4>2, <4>3
    <3>3. CASE Wake(t)
      BY <1>0, <2>1, <3>3 DEF Wake, Denials, Counting, RateTypeOK
    <3>4. QED
      BY <1>2, <3>1, <3>2, <3>3 DEF Begin
  <2>6. QED
    BY <1>0, <2>1, <2>2, <2>3, <2>4, <2>5, OneMoves
<1>3. ASSUME NEW t \in Tasks, Call(t)
      PROVE  WaitInv'
  <2>1. CASE Incr(t)
    BY <1>0, <2>1, OneCounted DEF Incr
  <2>2. CASE IncrAgain(t)
    <3>1. at' = [at EXCEPT ![t] = "answered"]
      BY <1>0, <2>2 DEF IncrAgain, RateTypeOK
    <3>2. QED
      BY <1>0, <2>2, <3>1, OneCounted DEF IncrAgain
  <2>3. CASE PingFails(t) \/ IncrFails(t)
    <3>1. /\ UNCHANGED <<clock, count, key, got, repeats, denied>>
          /\ at' = [at EXCEPT ![t] = "gone"] /\ at[t] \in {"calling", "pinging", "answered"}
      BY <2>3 DEF PingFails, IncrFails
    <3>2. \A u \in Tasks \ {t} : at'[u] = at[u]
      BY <1>0, <3>1 DEF RateTypeOK
    <3>3. Served(t)' /\ Asking(t)'
      BY <1>0, <3>1 DEF RateTypeOK, Served, WaitInv, Asking
    <3>4. Denials(t) \subseteq Denials(t)'
      BY <3>1 DEF Denials, Counting
    <3>5. QED
      BY <1>0, <3>1, <3>2, <3>3, <3>4, OneMoves
  <2>4. QED
    BY <1>3, <2>1, <2>2, <2>3 DEF Call
<1>4. ASSUME NEW t \in Tasks, Go(t)
      PROVE  WaitInv'
  <2>1. /\ UNCHANGED <<clock, count, key, got, repeats, denied>>
        /\ at' = [at EXCEPT ![t] = "gone"] /\ at[t] = "answered"
    BY <1>4 DEF Go
  <2>2. \A u \in Tasks \ {t} : at'[u] = at[u]
    BY <1>0, <2>1 DEF RateTypeOK
  <2>3. Served(t)' /\ Asking(t)'
    BY <1>0, <2>1 DEF RateTypeOK, Served, WaitInv, Asking
  <2>4. Denials(t) \subseteq Denials(t)'
    BY <2>1 DEF Denials, Counting
  <2>5. QED
    BY <1>0, <2>1, <2>2, <2>3, <2>4, OneMoves
\* The task is denied in a second it had not been denied in.
<1>5. ASSUME NEW t \in Tasks, Sleep(t)
      PROVE  WaitInv'
  <2>1. /\ UNCHANGED <<clock, count, key, got, repeats>>
        /\ at[t] = "answered" /\ ~MayGo(t)
        /\ at'[t] = "asleep" /\ denied'[t] = denied[t] + 1
        /\ \A u \in Tasks \ {t} : at'[u] = at[u] /\ denied'[u] = denied[u]
    BY <1>0, <1>5 DEF Sleep, RateTypeOK
  <2>2. Counting' = Counting
    BY <2>1 DEF Counting
  <2>3. \A u \in Tasks : Served(u)' <=> Served(u)
    BY <2>1 DEF Served, MayGo
  <2>4. Lost' = Lost
    BY <2>1, <2>2, <2>3 DEF Lost
  <2>5. \A u \in Tasks : Asking(u)'
    BY <2>1 DEF WaitInv, Asking
  <2>6. \A u \in Tasks \ {t} : Denials(u)' = Denials(u)
    BY <2>1, <2>2 DEF Denials
  <2>7. key[t] \in Counting
    <3>1. got[t] <= count[key[t]] /\ got[t] \in Nat /\ key[t] \in 0..clock
      BY <1>0, <2>1 DEF LimitInv, CountsHeld, Holder, RateTypeOK
    <3>2. count[key[t]] \in Nat
      BY <1>0, <3>1 DEF RateTypeOK
    <3>3. got[t] > 1
      BY <2>1, <3>1, MaxAllowedType DEF MayGo
    <3>4. QED
      BY <3>1, <3>2, <3>3 DEF Counting
  <2>8. Denials(t)' = Denials(t) \cup {key[t]} /\ key[t] \notin Denials(t)
    <3>1. key[t] \in 0..clock /\ clock \in Nat
      BY <1>0 DEF RateTypeOK
    <3>2. QED
      BY <2>1, <2>2, <2>7, <3>1 DEF Denials, Counting
  <2>9. denied'[t] <= Cardinality(Denials(t))'
    <3>1. Denials(t) \in SUBSET (0..clock) /\ clock \in Nat
      BY <1>0 DEF Denials, Counting, RateTypeOK
    <3>2. IsFiniteSet(Denials(t)) /\ Cardinality(Denials(t)) \in Nat
      BY <3>1, SomeSeconds
    <3>3. Cardinality(Denials(t) \cup {key[t]}) = Cardinality(Denials(t)) + 1
      BY <2>8, <3>2, FS_AddElement
    <3>4. QED
      BY <1>0, <2>1, <2>8, <3>2, <3>3 DEF WaitInv, RateTypeOK
  <2>10. QED
    BY <2>1, <2>4, <2>5, <2>6, <2>9 DEF WaitInv
<1>6. ASSUME NEW p \in Pods, RobotsPing(p) \/ RobotsPinged(p)
      PROVE  WaitInv'
  BY <1>6 DEF RobotsPing, RobotsPinged, WaitInv, Lost, Denials, Asking, Counting, Served, MayGo
<1>7. CASE UNCHANGED vars
  BY <1>7 DEF vars, WaitInv, Lost, Denials, Asking, Counting, Served, MayGo
<1>8. QED
  BY <1>1, <1>2, <1>3, <1>4, <1>5, <1>6, <1>7 DEF Next, Return

\* A second a task was denied in is lost, or let another task go, each its own.
LEMMA WaitInvBounds ==
    ASSUME RateTypeOK, WaitInv
    PROVE  WaitBound
<1> SUFFICES ASSUME NEW t \in Tasks
             PROVE  denied[t] <= repeats + Cardinality({u \in Tasks \ {t} :
                        at[u] = "gone" \/ (at[u] = "answered" /\ MayGo(u))})
  BY DEF WaitBound
<1> DEFINE W == {u \in Tasks \ {t} : at[u] = "gone" \/ (at[u] = "answered" /\ MayGo(u))}
           K == {key[u] : u \in W}
<1>1. IsFiniteSet(W) /\ Cardinality(W) \in Nat
  BY RateLimiterAssumption, FS_Subset, FS_CardinalityType
<1>2. IsFiniteSet(K) /\ Cardinality(K) <= Cardinality(W) /\ Cardinality(K) \in Nat
  <2> DEFINE f == [u \in W |-> key[u]]
  <2>1. f \in Surjection(W, K)
    BY DEF Surjection
  <2> HIDE DEF W, K, f
  <2>2. QED
    BY <1>1, <2>1, FS_Surjection, FS_CardinalityType
<1>3. Denials(t) \subseteq Lost \cup K
  <2> SUFFICES ASSUME NEW s \in Denials(t), s \notin Lost
               PROVE  s \in K
    OBVIOUS
  <2>1. PICK u \in Tasks : Served(u) /\ key[u] = s
    BY DEF Denials, Lost
  <2>2. u # t
    BY <2>1 DEF Denials, Counting, Served, RateTypeOK
  <2>3. QED
    BY <2>1, <2>2 DEF Served
<1> HIDE DEF W, K
<1>4. Lost \in SUBSET (0..clock) /\ clock \in Nat
  BY DEF Lost, Counting, RateTypeOK
<1>5. IsFiniteSet(Lost) /\ Cardinality(Lost) \in Nat
  BY <1>4, SomeSeconds
<1>6. /\ IsFiniteSet(Lost \cup K) /\ Cardinality(Lost \cup K) \in Nat
      /\ Cardinality(Lost \cup K) <= Cardinality(Lost) + Cardinality(K)
  <2>1. Cardinality(Lost \cap K) \in Nat
    BY <1>5, FS_Subset, FS_CardinalityType
  <2>2. /\ IsFiniteSet(Lost \cup K)
        /\ Cardinality(Lost \cup K) = Cardinality(Lost) + Cardinality(K) - Cardinality(Lost \cap K)
    BY <1>2, <1>5, FS_Union
  <2>3. Cardinality(Lost \cup K) \in Nat
    BY <2>2, FS_CardinalityType
  <2>4. QED
    BY <1>2, <1>5, <2>1, <2>2, <2>3
<1>7. Cardinality(Denials(t)) <= Cardinality(Lost \cup K) /\ Cardinality(Denials(t)) \in Nat
  BY <1>3, <1>6, FS_Subset, FS_CardinalityType
<1>8. denied[t] \in Nat /\ repeats \in Nat
  BY RateLimiterAssumption DEF RateTypeOK
<1>9. denied[t] <= repeats + Cardinality(W)
  BY <1>1, <1>2, <1>5, <1>6, <1>7, <1>8 DEF WaitInv
<1>10. QED
  BY <1>9 DEF W

LEMMA WaitInitially ==
    ASSUME Init
    PROVE  WaitInv
<1>1. Counting = {}
  BY DEF Init, Counting
<1>2. Lost = {} /\ \A t \in Tasks : Denials(t) = {}
  BY <1>1 DEF Lost, Denials
<1>3. Cardinality({}) = 0
  BY FS_EmptySet
<1>4. QED
  BY <1>2, <1>3 DEF Init, WaitInv, Asking

\* However many pods and tasks ask at once, whatever their limits and however
\* late Redis answers, a task sleeps at most once for every other task and once
\* for every INCR that was repeated (rate_limiter.py:42-56).
THEOREM WaitIsBounded == Spec => []WaitBound
<1>1. LimitInv => RateTypeOK
  BY DEF LimitInv
<1>2. QED
  BY <1>1, LimitInitially, LimitStep, WaitInitially, WaitStep, WaitInvBounds, PTL DEF Spec
=============================================================================
