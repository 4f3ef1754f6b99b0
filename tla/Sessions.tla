------------------------------- MODULE Sessions -------------------------------
(***************************************************************************)
(* The pool of HTTP sessions of a worker (SecureNetworkClient): a task     *)
(* asks for the session of a key (domain, proxy, sticky id, headers) under *)
(* a lock and then uses it without one: first it waits, for as long as it  *)
(* takes, for one of the handles of the session, then the client timeout   *)
(* runs.  Meanwhile the session may be rotated or swept, and closed after  *)
(* a period of grace, or evicted, and closed at once.                      *)
(*                                                                         *)
(* Time is counted in ticks.  A sleep ends when its ticks have passed or   *)
(* later; a request ends by its timeout (curl) or sooner.                  *)
(***************************************************************************)
EXTENDS Naturals, FiniteSets, Sequences

CONSTANTS
    Tasks,           \* coroutines that make requests
    Keys,
    SessionIds,      \* BOUND: sessions that exist at one time
    Cleaner,         \* the coroutine of _cleanup_idle_sessions
    None,
    MaxPoolSize,     \* max_pool_size
    MinRequests,     \* min_requests_per_session
    MaxRequests,     \* max_requests_per_session
    Handles,         \* max_clients of an AsyncSession, 10 unless it is told (curl_cffi)
    ClientTimeout,   \* client_timeout
    Margin,          \* what the grace adds to it: 5 s
    IdleTimeout,     \* idle_timeout
    Period           \* between two sweeps: 15 s

ASSUME SessionsAssumption ==
    /\ Cleaner \notin Tasks
    /\ None \notin SessionIds \cup Keys
    /\ IsFiniteSet(Keys)
    /\ {MaxPoolSize, MinRequests, MaxRequests, Handles, Margin} \subseteq Nat \ {0}
    /\ {ClientTimeout, IdleTimeout, Period} \subseteq Nat

VARIABLES
    pool,      \* the keys of _pool
    since,     \* last_used: the keys of the pool handed out after each of them
    entry,     \* their entries: session, request_count, limit, time unused
    lockq,     \* who holds _lock, then who waits for it
    at,        \* where each task is
    want,      \* the key it asked for
    held,      \* the session it was given
    age,       \* ticks since its request has a handle
    status,    \* of a session: in the pool, in its grace, or closed
    left,      \* ticks of grace left
    cleaner,   \* _cleanup_task
    nap,       \* ticks until it wakes
    newer,     \* HISTORY: keys handed out since each task was given its session
    late       \* HISTORY: ticks it waited for a handle since that was retired, to Margin

vars == <<pool, since, entry, lockq, at, want, held, age, status, left, cleaner, nap,
          newer, late>>

NoEntry == [session |-> None, count |-> 0, limit |-> 0, idle |-> 0]

Init ==
    /\ pool = {}
    /\ since = [k \in Keys |-> {}]
    /\ entry = [k \in Keys |-> NoEntry]
    /\ lockq = <<>>
    /\ at = [t \in Tasks |-> "idle"]
    /\ want = [t \in Tasks |-> None]
    /\ held = [t \in Tasks |-> None]
    /\ age = [t \in Tasks |-> 0]
    /\ status = [s \in SessionIds |-> "closed"]
    /\ left = [s \in SessionIds |-> 0]
    /\ cleaner = "never"
    /\ nap = 0
    /\ newer = [t \in Tasks |-> {}]
    /\ late = [t \in Tasks |-> 0]

\* A plausible bug, used as a mutant of Grace: no margin.
GraceIsTimeout == ClientTimeout

Grace == ClientTimeout + Margin

\* A plausible bug, used as a mutant of Full: off by one.
FullAbove == Cardinality(pool) > MaxPoolSize

Full == Cardinality(pool) >= MaxPoolSize

\* min over last_used: every other key was handed out after this one.
Oldest(k) == k \in pool /\ pool \ {k} \subseteq since[k]

\* Some keys leave the pool.
Drop(ks) ==
    /\ pool' = pool \ ks
    /\ since' = [k \in Keys |-> IF k \in ks THEN {} ELSE since[k] \ ks]
    /\ entry' = [k \in Keys |-> IF k \in ks THEN NoEntry ELSE entry[k]]

\* The closed sessions nobody holds: a new one may take their id.
Unused == {s \in SessionIds : status[s] = "closed" /\ \A t \in Tasks : held[t] # s}

\* It is the task's turn with the lock.
Served(t) == lockq # <<>> /\ Head(lockq) = t /\ at[t] = "queued"

\* The task has a session and its request has not ended.
Holding(t) == at[t] \in {"waiting", "using"}

\* A handle of the session is free.
Free(s) == Cardinality({t \in Tasks : at[t] = "using" /\ held[t] = s}) < Handles

\* A plausible bug, used as a mutant of Hand: last_used keeps its old value when
\* the session of a key is used again.
HandKeepsAge(t, k, s) ==
    /\ held' = [held EXCEPT ![t] = s]
    /\ age' = [age EXCEPT ![t] = 0]
    /\ late' = [late EXCEPT ![t] = 0]
    /\ at' = [at EXCEPT ![t] = IF Free(s) THEN "using" ELSE "waiting"]
    /\ newer' = [u \in Tasks |-> IF Holding(u) THEN newer[u] \cup {k} ELSE {}]
    /\ pool' = pool \cup {k}
    /\ since' = [j \in Keys |-> IF j \notin pool THEN {} ELSE since[j] \cup ({k} \ {j})]
    /\ lockq' = Tail(lockq)

\* get_session returns session s to task t for key k, now the youngest, and
\* the task makes its request, which needs a handle of the session.
Hand(t, k, s) ==
    /\ held' = [held EXCEPT ![t] = s]
    /\ age' = [age EXCEPT ![t] = 0]
    /\ late' = [late EXCEPT ![t] = 0]
    /\ at' = [at EXCEPT ![t] = IF Free(s) THEN "using" ELSE "waiting"]
    /\ newer' = [u \in Tasks |-> IF Holding(u) THEN newer[u] \cup {k} ELSE {}]
    /\ pool' = pool \cup {k}
    /\ since' = [j \in Keys |-> IF j = k \/ j \notin pool THEN {} ELSE since[j] \cup {k}]
    /\ lockq' = Tail(lockq)

-----------------------------------------------------------------------------
(* get_session().                                                          *)

\* A task asks for the session of a key and for the lock.  BOUND: as long as
\* there are ids for the sessions that are asked for.
Ask(t) ==
    /\ at[t] = "idle"
    /\ Cardinality(Unused) > Cardinality({u \in Tasks : at[u] \in {"queued", "evicting"}})
    /\ \E k \in Keys : want' = [want EXCEPT ![t] = k]
    /\ at' = [at EXCEPT ![t] = "queued"]
    /\ lockq' = Append(lockq, t)
    /\ UNCHANGED <<pool, since, entry, held, age, status, left, cleaner, nap, newer, late>>

\* The session of the key serves once more.
Reuse(t) ==
    LET k == want[t]
        e == entry[k] IN
    /\ Served(t)
    /\ k \in pool
    /\ e.count + 1 <= e.limit
    /\ entry' = [entry EXCEPT ![k] = [session |-> e.session, count |-> e.count + 1,
                                      limit |-> e.limit, idle |-> 0]]
    /\ Hand(t, k, e.session)
    /\ UNCHANGED <<want, status, left, cleaner, nap>>

\* A plausible bug, used as a mutant of Make: a sweep that has ended is not
\* started again.
MakeStartsOnce(t, s) ==
    /\ \E n \in MinRequests..MaxRequests :
         entry' = [entry EXCEPT ![want[t]] =
                     [session |-> s, count |-> 1, limit |-> n, idle |-> 0]]
    /\ Hand(t, want[t], s)
    /\ IF cleaner = "never"
       THEN cleaner' = "asleep" /\ nap' = Period
       ELSE UNCHANGED <<cleaner, nap>>

\* Session s is made for the key of task t, and the sweep is started if none
\* runs.
Make(t, s) ==
    /\ \E n \in MinRequests..MaxRequests :
         entry' = [entry EXCEPT ![want[t]] =
                     [session |-> s, count |-> 1, limit |-> n, idle |-> 0]]
    /\ Hand(t, want[t], s)
    /\ IF cleaner \in {"never", "done"}
       THEN cleaner' = "asleep" /\ nap' = Period
       ELSE UNCHANGED <<cleaner, nap>>

\* A plausible bug, used as a mutant of Rotate: the old session is not retired.
RotateForgets(t) ==
    LET old == entry[want[t]] IN
    /\ Served(t)
    /\ want[t] \in pool
    /\ old.count + 1 > old.limit
    /\ \E s \in Unused : Make(t, s) /\ status' = [status EXCEPT ![s] = "pooled"]
    /\ UNCHANGED <<want, left>>

\* It is past its limit: it is retired and another one takes its place.
Rotate(t) ==
    LET old == entry[want[t]] IN
    /\ Served(t)
    /\ want[t] \in pool
    /\ old.count + 1 > old.limit
    /\ \E s \in Unused :
         /\ Make(t, s)
         /\ status' = [status EXCEPT ![old.session] = "grace", ![s] = "pooled"]
         /\ left' = [left EXCEPT ![old.session] = Grace]
    /\ UNCHANGED want

\* A key with no session, and room for one or room made for it.
Create(t) ==
    /\ \/ Served(t) /\ want[t] \notin pool /\ ~Full
       \/ at[t] = "evicting"
    /\ \E s \in Unused :
         /\ Make(t, s)
         /\ status' = [status EXCEPT ![s] = "pooled"]
    /\ UNCHANGED <<want, left>>

\* The pool is full: the oldest session is taken out and closed, whoever is
\* using it, and the task waits for that with the lock.
Evict(t) ==
    /\ Served(t)
    /\ want[t] \notin pool
    /\ Full
    /\ \E k \in Keys :
         /\ Oldest(k)
         /\ Drop({k})
         /\ status' = [status EXCEPT ![entry[k].session] = "closed"]
    /\ at' = [at EXCEPT ![t] = "evicting"]
    /\ newer' = [u \in Tasks |-> IF Holding(u) THEN newer[u] \cup {want[t]} ELSE {}]
    /\ UNCHANGED <<lockq, want, held, age, left, cleaner, nap, late>>

\* Another request of the session has ended: its handle serves this one, and
\* the client timeout begins to run.
TakeHandle(t) ==
    /\ at[t] = "waiting"
    /\ Free(held[t])
    /\ at' = [at EXCEPT ![t] = "using"]
    /\ UNCHANGED <<pool, since, entry, lockq, want, held, age, status, left, cleaner, nap,
                   newer, late>>

\* The request of the task ends, with or without an answer.
Finish(t) ==
    /\ at[t] = "using"
    /\ at' = [at EXCEPT ![t] = "idle"]
    /\ want' = [want EXCEPT ![t] = None]
    /\ held' = [held EXCEPT ![t] = None]
    /\ age' = [age EXCEPT ![t] = 0]
    /\ newer' = [newer EXCEPT ![t] = {}]
    /\ late' = [late EXCEPT ![t] = 0]
    /\ UNCHANGED <<pool, since, entry, lockq, status, left, cleaner, nap>>

-----------------------------------------------------------------------------
(* Closing.                                                                *)

\* _close_session_with_grace: closed, or given up with an error.
CloseRetired(s) ==
    /\ status[s] = "grace"
    /\ left[s] = 0
    /\ status' = [status EXCEPT ![s] = "closed"]
    /\ UNCHANGED <<pool, since, entry, lockq, at, want, held, age, left, cleaner, nap, newer,
                   late>>

\* _cleanup_idle_sessions: the sleep ends.
Wake ==
    /\ cleaner = "asleep"
    /\ nap = 0
    /\ cleaner' = "queued"
    /\ lockq' = Append(lockq, Cleaner)
    /\ UNCHANGED <<pool, since, entry, at, want, held, age, status, left, nap, newer, late>>

\* The entries idle for too long, and those at their limit.
Stale == {k \in pool : entry[k].idle > IdleTimeout \/ entry[k].count >= entry[k].limit}

\* The sweep retires their sessions, or ends when the pool is empty.
Sweep ==
    LET gone == {entry[k].session : k \in Stale} IN
    /\ lockq # <<>>
    /\ Head(lockq) = Cleaner
    /\ lockq' = Tail(lockq)
    /\ IF pool = {}
       THEN cleaner' = "done" /\ nap' = nap
       ELSE cleaner' = "asleep" /\ nap' = Period
    /\ Drop(Stale)
    /\ status' = [s \in SessionIds |-> IF s \in gone THEN "grace" ELSE status[s]]
    /\ left' = [s \in SessionIds |-> IF s \in gone THEN Grace ELSE left[s]]
    /\ UNCHANGED <<at, want, held, age, newer, late>>

Less(n) == IF n = 0 THEN 0 ELSE n - 1

\* Time passes, but not beyond the timeout of a request, nor while one could
\* take a free handle of an open session.  Idle times are counted up to the one
\* that matters.
Tick ==
    /\ \A t \in Tasks :
         /\ at[t] = "using" => age[t] < ClientTimeout
         /\ at[t] = "waiting" => ~Free(held[t]) \/ status[held[t]] = "closed"
    /\ age' = [t \in Tasks |-> IF at[t] = "using" THEN age[t] + 1 ELSE age[t]]
    /\ late' = [t \in Tasks |->
         IF at[t] = "waiting" /\ status[held[t]] = "grace" /\ late[t] < Margin
           THEN late[t] + 1 ELSE late[t]]
    /\ left' = [s \in SessionIds |-> Less(left[s])]
    /\ nap' = Less(nap)
    /\ entry' = [k \in Keys |->
         [entry[k] EXCEPT !.idle = IF k \in pool /\ @ <= IdleTimeout THEN @ + 1 ELSE @]]
    /\ UNCHANGED <<pool, since, lockq, at, want, held, status, cleaner, newer>>

-----------------------------------------------------------------------------

GetSession(t) == Reuse(t) \/ Rotate(t) \/ Create(t) \/ Evict(t)

Next ==
    \/ \E t \in Tasks : Ask(t) \/ GetSession(t) \/ TakeHandle(t) \/ Finish(t)
    \/ \E s \in SessionIds : CloseRetired(s)
    \/ Wake \/ Sweep \/ Tick

Spec == Init /\ [][Next]_vars

-----------------------------------------------------------------------------

\* The type invariant; the pool never passes its size, nor a session its limit.
SessionsTypeOK ==
    /\ pool \subseteq Keys
    /\ Cardinality(pool) <= MaxPoolSize
    /\ since \in [Keys -> SUBSET Keys]
    /\ entry \in [Keys -> [session : SessionIds \cup {None}, count : Nat, limit : Nat,
                           idle : Nat]]
    /\ \A k \in pool : entry[k].count \in 1..entry[k].limit
    /\ lockq \in Seq(Tasks \cup {Cleaner})
    /\ at \in [Tasks -> {"idle", "queued", "evicting", "waiting", "using"}]
    /\ want \in [Tasks -> Keys \cup {None}]
    /\ held \in [Tasks -> SessionIds \cup {None}]
    /\ age \in [Tasks -> 0..ClientTimeout]
    /\ status \in [SessionIds -> {"pooled", "grace", "closed"}]
    /\ left \in [SessionIds -> 0..Grace]
    /\ cleaner \in {"never", "asleep", "queued", "done"}
    /\ nap \in 0..Period
    /\ newer \in [Tasks -> SUBSET Keys]
    /\ late \in [Tasks -> 0..Margin]

\* Every session that is open without a date to be closed is the session of
\* one key of the pool, where the sweep will find it, and the other way round.
EveryOpenHasAKey ==
    /\ \A s \in SessionIds : status[s] = "pooled" => \E k \in pool : entry[k].session = s
    /\ \A k \in pool :
         entry[k].session \in SessionIds /\ status[entry[k].session] = "pooled"
    /\ \A j, k \in pool : j # k => entry[j].session # entry[k].session

\* The grace is long enough for the connections there are (client.py:45): a
\* session that was rotated or swept is closed under a request only if that was
\* still waiting for a handle the whole margin after.
GraceSuffices ==
    [][\A s \in SessionIds :
         status[s] = "grace" /\ status'[s] = "closed" =>
             \A t \in Tasks : held[t] = s => late[t] >= Margin]_vars

\* A session is closed under any other request only when, while the request went
\* on, as many other keys as the pool holds were handed out.
CutOnlyUnderPressure ==
    \A t \in Tasks :
        Holding(t) /\ status[held[t]] = "closed" =>
            Cardinality(newer[t] \ {want[t]}) >= MaxPoolSize \/ late[t] >= Margin

\* No session is kept for ever: while the pool has a session, the sweep that
\* will retire it runs, but for the moment in which a task makes room.
SweepIsThere == pool # {} => cleaner \in {"asleep", "queued"}
=============================================================================
