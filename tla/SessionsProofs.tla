---------------------------- MODULE SessionsProofs ----------------------------
(***************************************************************************)
(* Proofs about the session pool, for any number of tasks, keys and        *)
(* sessions and any limits and waits.                                      *)
(*                                                                         *)
(* What a task holds is one of three things.  In the pool, its key is what *)
(* the task asked for and was touched when it was handed out (InPool): the *)
(* keys younger than it are among those handed out since.  In its grace,   *)
(* the grace left makes up the whole with the age of the request and its   *)
(* wait for a handle, unless that was the margin (InGrace).  Closed, it    *)
(* was evicted, or the wait was the margin (CutOnlyUnderPressure).         *)
(***************************************************************************)
EXTENDS Sessions, FiniteSetTheorems, TLAPS

\* What an idle or waiting task has, and what the task that evicts has.
Asking ==
    \A t \in Tasks :
        /\ at[t] # "idle" => want[t] \in Keys
        /\ Holding(t) => held[t] \in SessionIds
        /\ ~Holding(t) => held[t] = None

Evicting ==
    \A t \in Tasks : at[t] = "evicting" =>
        /\ lockq # <<>> /\ Head(lockq) = t
        /\ want[t] \notin pool
        /\ ~Full

InPool ==
    \A t \in Tasks : Holding(t) /\ status[held[t]] = "pooled" =>
        /\ want[t] \in pool
        /\ entry[want[t]].session = held[t]
        /\ since[want[t]] \subseteq newer[t]

InGrace ==
    \A t \in Tasks : Holding(t) /\ status[held[t]] = "grace" =>
        late[t] >= Margin \/ left[held[t]] + late[t] + age[t] >= Grace

IInv ==
    /\ SessionsTypeOK /\ Asking /\ Evicting
    /\ EveryOpenHasAKey /\ SweepIsThere
    /\ InPool /\ InGrace /\ CutOnlyUnderPressure

-----------------------------------------------------------------------------

\* The constants are what they are for.
LEMMA Waits ==
    /\ MaxPoolSize \in Nat \ {0} /\ MinRequests \in Nat \ {0} /\ MaxRequests \in Nat \ {0}
    /\ Margin \in Nat \ {0}
    /\ ClientTimeout \in Nat /\ IdleTimeout \in Nat /\ Period \in Nat
    /\ Handles \in Nat
    /\ Grace \in Nat /\ Grace = ClientTimeout + Margin
BY SessionsAssumption DEF Grace

\* Sets of keys are finite.
LEMMA KeySets ==
    \A ks \in SUBSET Keys : IsFiniteSet(ks) /\ Cardinality(ks) \in Nat
BY SessionsAssumption, FS_Subset, FS_CardinalityType

THEOREM SessionsInit == Init => IInv
<1> SUFFICES ASSUME Init PROVE IInv
  OBVIOUS
<1>1. SessionsTypeOK
  <2>1. Cardinality({}) = 0 /\ <<>> \in Seq(Tasks \cup {Cleaner})
    BY FS_EmptySet
  <2>2. /\ 0 \in 0..ClientTimeout /\ 0 \in 0..Grace /\ 0 \in 0..Period /\ 0 \in 0..Margin
        /\ 0 <= MaxPoolSize
    BY Waits
  <2> QED
    BY <2>1, <2>2 DEF Init, SessionsTypeOK, NoEntry
<1>2. Asking /\ Evicting /\ InPool /\ InGrace /\ CutOnlyUnderPressure
  BY DEF Holding, Init, Asking, Evicting, InPool, InGrace, CutOnlyUnderPressure
<1>3. EveryOpenHasAKey /\ SweepIsThere
  BY DEF Init, EveryOpenHasAKey, SweepIsThere
<1> QED
  BY <1>1, <1>2, <1>3 DEF IInv

-----------------------------------------------------------------------------
(* Facts about the steps of get_session and of the sweep.                  *)

\* Who makes a session holds the lock, asks for a key that has no session or
\* whose session is retired, and finds room.
LEMMA MakeRoom ==
    ASSUME NEW t \in Tasks, IInv, Create(t)
    PROVE  /\ want[t] \in Keys \ pool /\ ~Holding(t) /\ ~Full
           /\ lockq # <<>> /\ Head(lockq) = t
BY DEF Holding, IInv, SessionsTypeOK, Asking, Evicting, Create, Served

\* The lock has one holder.
LEMMA OneHolder ==
    ASSUME NEW t \in Tasks, IInv, lockq # <<>>, Head(lockq) = t,
           NEW u \in Tasks, at[u] = "evicting"
    PROVE  u = t
BY DEF IInv, Evicting

\* Handing out keeps the types of what it changes.
LEMMA HandTypes ==
    ASSUME NEW t \in Tasks, NEW k \in Keys, NEW s \in SessionIds, IInv, Hand(t, k, s),
           lockq # <<>>, k \in pool \/ ~Full
    PROVE  /\ pool' \subseteq Keys /\ Cardinality(pool') <= MaxPoolSize
           /\ since' \in [Keys -> SUBSET Keys]
           /\ lockq' \in Seq(Tasks \cup {Cleaner})
           /\ at' \in [Tasks -> {"idle", "queued", "evicting", "waiting", "using"}]
           /\ held' \in [Tasks -> SessionIds \cup {None}]
           /\ age' \in [Tasks -> 0..ClientTimeout]
           /\ newer' \in [Tasks -> SUBSET Keys]
           /\ late' \in [Tasks -> 0..Margin]
<1>1. Cardinality(pool \cup {k}) <= MaxPoolSize
  <2>1. CASE k \in pool
    <3>1. pool \cup {k} = pool
      BY <2>1
    <3> QED
      BY <3>1 DEF IInv, SessionsTypeOK
  <2>2. CASE k \notin pool
    <3>1. IsFiniteSet(pool) /\ Cardinality(pool) \in Nat
      BY KeySets DEF IInv, SessionsTypeOK
    <3>2. Cardinality(pool \cup {k}) = Cardinality(pool) + 1
      BY <2>2, <3>1, FS_AddElement
    <3>3. Cardinality(pool) < MaxPoolSize
      BY <2>2, <3>1, Waits DEF Full
    <3> QED
      BY <3>1, <3>2, <3>3, Waits
  <2> QED
    BY <2>1, <2>2
<1>2. pool' \subseteq Keys /\ Cardinality(pool') <= MaxPoolSize
  BY <1>1 DEF IInv, SessionsTypeOK, Hand
<1>3. since' \in [Keys -> SUBSET Keys] /\ newer' \in [Tasks -> SUBSET Keys]
  BY DEF IInv, SessionsTypeOK, Hand
<1>4. lockq' \in Seq(Tasks \cup {Cleaner})
  BY DEF IInv, SessionsTypeOK, Hand
<1>5. /\ late' \in [Tasks -> 0..Margin]
      /\ at' \in [Tasks -> {"idle", "queued", "evicting", "waiting", "using"}]
      /\ held' \in [Tasks -> SessionIds \cup {None}]
      /\ age' \in [Tasks -> 0..ClientTimeout]
  BY Waits DEF IInv, SessionsTypeOK, Hand
<1> QED
  BY <1>2, <1>3, <1>4, <1>5

\* Dropping keys keeps the types of what it changes.
LEMMA DropTypes ==
    ASSUME NEW ks \in SUBSET pool, IInv, Drop(ks)
    PROVE  /\ pool' \subseteq Keys /\ Cardinality(pool') <= MaxPoolSize
           /\ since' \in [Keys -> SUBSET Keys]
           /\ entry' \in [Keys -> [session : SessionIds \cup {None}, count : Nat,
                                   limit : Nat, idle : Nat]]
           /\ \A k \in pool' : entry'[k] = entry[k] /\ since'[k] \subseteq since[k]
<1>1. pool \ ks \subseteq pool /\ pool \subseteq Keys
  BY DEF IInv, SessionsTypeOK
<1>2. Cardinality(pool \ ks) <= Cardinality(pool)
  BY <1>1, KeySets, FS_Subset
<1>3. pool' \subseteq Keys /\ Cardinality(pool') <= MaxPoolSize
  <2>1. Cardinality(pool \ ks) \in Nat /\ Cardinality(pool) \in Nat
    BY <1>1, KeySets
  <2> QED
    BY <1>1, <1>2, <2>1, Waits DEF IInv, SessionsTypeOK, Drop
<1>4. since' \in [Keys -> SUBSET Keys]
  BY DEF IInv, SessionsTypeOK, Drop
<1>5. entry' \in [Keys -> [session : SessionIds \cup {None}, count : Nat,
                           limit : Nat, idle : Nat]]
  BY DEF IInv, SessionsTypeOK, Drop, NoEntry
<1>6. \A k \in pool' : entry'[k] = entry[k] /\ since'[k] \subseteq since[k]
  BY <1>1 DEF Drop
<1> QED
  BY <1>3, <1>4, <1>5, <1>6

\* A session used once more keeps the types of the entries.
LEMMA ReuseTypes ==
    ASSUME NEW t \in Tasks, want[t] \in Keys, IInv, Reuse(t)
    PROVE  /\ entry' \in [Keys -> [session : SessionIds \cup {None}, count : Nat,
                                   limit : Nat, idle : Nat]]
           /\ entry'[want[t]].session = entry[want[t]].session
           /\ entry'[want[t]].count \in 1..entry'[want[t]].limit
           /\ \A k \in Keys \ {want[t]} : entry'[k] = entry[k]
<1> DEFINE e == entry[want[t]]
           f == [session |-> e.session, count |-> e.count + 1, limit |-> e.limit, idle |-> 0]
<1>1. entry' = [entry EXCEPT ![want[t]] = f] /\ e.count + 1 <= e.limit
  BY DEF Reuse
<1>2. e \in [session : SessionIds \cup {None}, count : Nat, limit : Nat, idle : Nat]
      /\ entry \in [Keys -> [session : SessionIds \cup {None}, count : Nat, limit : Nat,
                             idle : Nat]]
  BY DEF IInv, SessionsTypeOK
<1>3. f \in [session : SessionIds \cup {None}, count : Nat, limit : Nat, idle : Nat]
      /\ f.session = e.session /\ f.count \in 1..f.limit
  BY <1>1, <1>2
<1> HIDE DEF f
<1> QED
  BY <1>1, <1>2, <1>3

\* A session made keeps the types of the entries.
LEMMA MakeTypes ==
    ASSUME NEW t \in Tasks, want[t] \in Keys, NEW s \in SessionIds, IInv, Make(t, s)
    PROVE  /\ entry' \in [Keys -> [session : SessionIds \cup {None}, count : Nat,
                                   limit : Nat, idle : Nat]]
           /\ entry'[want[t]].session = s
           /\ entry'[want[t]].count \in 1..entry'[want[t]].limit
           /\ \A k \in Keys \ {want[t]} : entry'[k] = entry[k]
           /\ cleaner' \in {"asleep", "queued"} /\ nap' \in 0..Period
<1>1. PICK n \in MinRequests..MaxRequests :
        entry' = [entry EXCEPT ![want[t]] =
                    [session |-> s, count |-> 1, limit |-> n, idle |-> 0]]
  BY DEF Make
<1>2. n \in Nat /\ 1 <= n
  BY Waits
<1>3. entry' \in [Keys -> [session : SessionIds \cup {None}, count : Nat,
                          limit : Nat, idle : Nat]]
  BY <1>1, <1>2 DEF IInv, SessionsTypeOK
<1>4. /\ entry'[want[t]].session = s
      /\ entry'[want[t]].count \in 1..entry'[want[t]].limit
      /\ \A k \in Keys \ {want[t]} : entry'[k] = entry[k]
  BY <1>1, <1>2 DEF IInv, SessionsTypeOK
<1>5. cleaner' \in {"asleep", "queued"} /\ nap' \in 0..Period
  BY Waits DEF Make, IInv, SessionsTypeOK
<1> QED
  BY <1>3, <1>4, <1>5

-----------------------------------------------------------------------------

\* The types are kept.
LEMMA TypeStep == IInv /\ [Next]_vars => SessionsTypeOK'
<1> SUFFICES ASSUME IInv, [Next]_vars PROVE SessionsTypeOK'
  OBVIOUS
<1> USE Waits
<1>0. SessionsTypeOK
  BY DEF IInv
<1>1. ASSUME NEW t \in Tasks, Ask(t) PROVE SessionsTypeOK'
  BY <1>0, <1>1 DEF SessionsTypeOK, Ask
<1>2. ASSUME NEW t \in Tasks, Reuse(t) PROVE SessionsTypeOK'
  <2> DEFINE k == want[t]
  <2>1. k \in pool /\ k \in Keys /\ lockq # <<>> /\ entry[k].session \in SessionIds
        /\ Hand(t, k, entry[k].session)
    BY <1>0, <1>2 DEF IInv, Reuse, Served, SessionsTypeOK, EveryOpenHasAKey
  <2>2. entry' \in [Keys -> [session : SessionIds \cup {None}, count : Nat, limit : Nat,
                            idle : Nat]]
    BY <1>2, <2>1, ReuseTypes
  <2>3. \A j \in pool' : entry'[j].count \in 1..entry'[j].limit
    <3>1. pool' = pool
      BY <2>1 DEF Hand
    <3>2. entry'[k].count \in 1..entry'[k].limit /\ \A j \in Keys \ {k} : entry'[j] = entry[j]
      BY <1>2, <2>1, ReuseTypes
    <3>3. \A j \in pool : entry[j].count \in 1..entry[j].limit /\ j \in Keys
      BY <1>0 DEF SessionsTypeOK
    <3> QED
      BY <3>1, <3>2, <3>3, Zenon
  <2>4. UNCHANGED <<want, status, left, cleaner, nap>>
    BY <1>2 DEF Reuse
  <2> QED
    BY <1>0, <2>1, <2>2, <2>3, <2>4, HandTypes DEF SessionsTypeOK
<1>3. ASSUME NEW t \in Tasks, NEW s \in SessionIds, Make(t, s), want[t] \in Keys,
             lockq # <<>>, want[t] \in pool \/ ~Full, UNCHANGED want,
             status' \in [SessionIds -> {"pooled", "grace", "closed"}],
             left' \in [SessionIds -> 0..Grace]
      PROVE  SessionsTypeOK'
  <2>1. Hand(t, want[t], s)
    BY <1>3 DEF Make
  <2>2. \A j \in pool' : entry'[j].count \in 1..entry'[j].limit
    <3>1. pool' = pool \cup {want[t]}
      BY <2>1 DEF Hand
    <3>2. entry'[want[t]].count \in 1..entry'[want[t]].limit
          /\ \A k \in Keys \ {want[t]} : entry'[k] = entry[k]
      BY <1>3, MakeTypes
    <3> QED
      BY <1>0, <3>1, <3>2 DEF SessionsTypeOK
  <2> QED
    BY <1>0, <1>3, <2>1, <2>2, HandTypes, MakeTypes DEF SessionsTypeOK
<1>4. ASSUME NEW t \in Tasks, Rotate(t) PROVE SessionsTypeOK'
  <2>1. want[t] \in pool /\ want[t] \in Keys /\ lockq # <<>>
    BY <1>0, <1>4 DEF Rotate, Served, SessionsTypeOK
  <2>2. PICK s \in SessionIds :
          /\ Make(t, s)
          /\ status' = [status EXCEPT ![entry[want[t]].session] = "grace", ![s] = "pooled"]
          /\ left' = [left EXCEPT ![entry[want[t]].session] = Grace]
    BY <1>4 DEF Rotate, Unused
  <2>3. status' \in [SessionIds -> {"pooled", "grace", "closed"}]
    BY <1>0, <2>2, Zenon DEF SessionsTypeOK
  <2>5. left' \in [SessionIds -> 0..Grace]
    <3>1. Grace \in 0..Grace /\ left \in [SessionIds -> 0..Grace]
      BY <1>0 DEF SessionsTypeOK
    <3> QED
      BY <2>2, <3>1, Zenon
  <2>4. UNCHANGED want
    BY <1>4 DEF Rotate
  <2> QED
    BY <1>3, <2>1, <2>2, <2>3, <2>4, <2>5
<1>5. ASSUME NEW t \in Tasks, Create(t) PROVE SessionsTypeOK'
  <2>1. want[t] \in Keys /\ lockq # <<>> /\ ~Full
    BY <1>5, MakeRoom
  <2>2. PICK s \in SessionIds : Make(t, s) /\ status' = [status EXCEPT ![s] = "pooled"]
    BY <1>5 DEF Create, Unused
  <2>3. status' \in [SessionIds -> {"pooled", "grace", "closed"}]
        /\ left' \in [SessionIds -> 0..Grace] /\ UNCHANGED want
    BY <1>0, <1>5, <2>2 DEF SessionsTypeOK, Create
  <2> QED
    BY <1>3, <2>1, <2>2, <2>3
<1>6. ASSUME NEW t \in Tasks, Evict(t) PROVE SessionsTypeOK'
  <2>1. PICK k \in Keys : /\ Oldest(k) /\ Drop({k})
                          /\ status' = [status EXCEPT ![entry[k].session] = "closed"]
    BY <1>6 DEF Evict
  <2>2. {k} \in SUBSET pool
    BY <2>1 DEF Oldest
  <2>3. \A j \in pool' : entry'[j].count \in 1..entry'[j].limit
    BY <1>0, <2>1, <2>2, DropTypes DEF SessionsTypeOK, Drop
  <2>4. status' \in [SessionIds -> {"pooled", "grace", "closed"}]
    BY <1>0, <2>1 DEF SessionsTypeOK
  <2>5. at' \in [Tasks -> {"idle", "queued", "evicting", "waiting", "using"}]
    BY <1>0, <1>6 DEF SessionsTypeOK, Evict
  <2>6. newer' \in [Tasks -> SUBSET Keys]
    <3>1. want[t] \in Keys
      BY <1>6 DEF IInv, Asking, Evict, Served
    <3> QED
      BY <1>0, <1>6, <3>1 DEF SessionsTypeOK, Evict
  <2> QED
    BY <1>0, <1>6, <2>1, <2>2, <2>3, <2>4, <2>5, <2>6, DropTypes DEF SessionsTypeOK, Evict
<1>7. ASSUME NEW t \in Tasks, Finish(t) PROVE SessionsTypeOK'
  BY <1>0, <1>7 DEF SessionsTypeOK, Finish
<1>13. ASSUME NEW t \in Tasks, TakeHandle(t) PROVE SessionsTypeOK'
  BY <1>0, <1>13 DEF SessionsTypeOK, TakeHandle
<1>8. ASSUME NEW s \in SessionIds, CloseRetired(s) PROVE SessionsTypeOK'
  BY <1>0, <1>8 DEF SessionsTypeOK, CloseRetired
<1>9. CASE Wake
  BY <1>0, <1>9 DEF SessionsTypeOK, Wake
<1>10. CASE Sweep
  <2>1. Stale \in SUBSET pool /\ Drop(Stale)
    BY <1>10 DEF Stale, Sweep
  <2>2. \A j \in pool' : entry'[j].count \in 1..entry'[j].limit
    BY <1>0, <2>1, DropTypes DEF SessionsTypeOK, Drop
  <2>3. status' \in [SessionIds -> {"pooled", "grace", "closed"}]
        /\ left' \in [SessionIds -> 0..Grace]
    BY <1>0, <1>10 DEF SessionsTypeOK, Sweep
  <2>4. cleaner' \in {"never", "asleep", "queued", "done"} /\ nap' \in 0..Period
        /\ lockq' \in Seq(Tasks \cup {Cleaner})
    BY <1>0, <1>10 DEF SessionsTypeOK, Sweep
  <2>5. UNCHANGED <<at, want, held, age, newer, late>>
    BY <1>10 DEF Sweep
  <2> QED
    BY <1>0, <2>1, <2>2, <2>3, <2>4, <2>5, DropTypes DEF SessionsTypeOK
<1>11. CASE Tick
  <2>1. age' \in [Tasks -> 0..ClientTimeout]
    BY <1>0, <1>11 DEF SessionsTypeOK, Tick
  <2>2. left' \in [SessionIds -> 0..Grace] /\ nap' \in 0..Period
    BY <1>0, <1>11 DEF SessionsTypeOK, Tick, Less
  <2>3. entry' \in [Keys -> [session : SessionIds \cup {None}, count : Nat, limit : Nat,
                            idle : Nat]]
        /\ \A k \in Keys : entry'[k].count = entry[k].count /\ entry'[k].limit = entry[k].limit
    <3>1. \A k \in Keys : \E n \in Nat : entry'[k] = [entry[k] EXCEPT !.idle = n]
      <4> SUFFICES ASSUME NEW k \in Keys
                   PROVE  \E n \in Nat : entry'[k] = [entry[k] EXCEPT !.idle = n]
        OBVIOUS
      <4> DEFINE n == IF k \in pool /\ entry[k].idle <= IdleTimeout
                      THEN entry[k].idle + 1 ELSE entry[k].idle
      <4>1. n \in Nat
        BY <1>0 DEF SessionsTypeOK
      <4>2. entry'[k] = [entry[k] EXCEPT !.idle = n]
        BY <1>11 DEF Tick
      <4> QED
        BY <4>1, <4>2
    <3>2. DOMAIN entry' = Keys /\ entry' = [k \in Keys |-> entry'[k]]
      BY <1>11 DEF Tick
    <3>3. \A k \in Keys : entry[k] \in [session : SessionIds \cup {None}, count : Nat,
                                       limit : Nat, idle : Nat]
      BY <1>0 DEF SessionsTypeOK
    <3>4. \A k \in Keys : entry'[k] \in [session : SessionIds \cup {None}, count : Nat,
                                        limit : Nat, idle : Nat]
            /\ entry'[k].count = entry[k].count /\ entry'[k].limit = entry[k].limit
      BY <3>1, <3>3
    <3> QED
      BY <3>2, <3>4
  <2>4. UNCHANGED <<pool, since, lockq, at, want, held, status, cleaner, newer>>
    BY <1>11 DEF Tick
  <2>5. late' \in [Tasks -> 0..Margin]
    BY <1>0, <1>11 DEF SessionsTypeOK, Tick
  <2> QED
    BY <1>0, <2>1, <2>2, <2>3, <2>4, <2>5 DEF SessionsTypeOK
<1>12. CASE UNCHANGED vars
  BY <1>0, <1>12 DEF SessionsTypeOK, vars
<1> QED
  BY <1>1, <1>2, <1>4, <1>5, <1>6, <1>7, <1>8, <1>9, <1>10, <1>11, <1>12, <1>13
  DEF Next, GetSession

-----------------------------------------------------------------------------

\* Whom the lock serves is not the one that evicts, so that handing out leaves
\* nobody evicting.
LEMMA HandAsking ==
    ASSUME NEW t \in Tasks, NEW k \in Keys, NEW s \in SessionIds, IInv, Hand(t, k, s),
           lockq # <<>>, Head(lockq) = t, want[t] \in Keys, UNCHANGED want
    PROVE  Asking' /\ Evicting'
<1>1. /\ at' = [at EXCEPT ![t] = IF Free(s) THEN "using" ELSE "waiting"]
      /\ held' = [held EXCEPT ![t] = s]
      /\ at \in [Tasks -> {"idle", "queued", "evicting", "waiting", "using"}]
      /\ held \in [Tasks -> SessionIds \cup {None}]
  BY DEF Hand, IInv, SessionsTypeOK
<1>2. Asking'
  BY <1>1 DEF Holding, IInv, Asking
<1>3. \A u \in Tasks : at'[u] # "evicting"
  BY <1>1, OneHolder
<1> QED
  BY <1>2, <1>3 DEF Evicting

\* Who comes to the lock does not displace who has it.
LEMMA Waiting ==
    ASSUME SessionsTypeOK, NEW x \in Tasks \cup {Cleaner}, lockq # <<>>
    PROVE  Append(lockq, x) # <<>> /\ Head(Append(lockq, x)) = Head(lockq)
<1> DEFINE T == Tasks \cup {Cleaner}
<1>1. lockq \in Seq(T) /\ x \in T
  BY DEF SessionsTypeOK
<1> HIDE DEF T
<1> QED
  BY <1>1

\* A task has what its place says.
LEMMA AskingStep == IInv /\ [Next]_vars => Asking' /\ Evicting'
<1> SUFFICES ASSUME IInv, [Next]_vars PROVE Asking' /\ Evicting'
  OBVIOUS
<1>0. SessionsTypeOK /\ Asking /\ Evicting
  BY DEF IInv
<1>1. ASSUME NEW t \in Tasks, Ask(t) PROVE Asking' /\ Evicting'
  <2>1. PICK k \in Keys : want' = [want EXCEPT ![t] = k]
    BY <1>1 DEF Ask
  <2>2. /\ at' = [at EXCEPT ![t] = "queued"] /\ lockq' = Append(lockq, t)
        /\ UNCHANGED <<pool, held>> /\ at[t] = "idle"
    BY <1>1 DEF Ask
  <2>3. lockq # <<>> => lockq' # <<>> /\ Head(lockq') = Head(lockq)
    BY <1>0, <2>2, Waiting
  <2>4. Asking'
    BY <1>0, <2>1, <2>2 DEF Holding, SessionsTypeOK, Asking
  <2>5. ASSUME NEW u \in Tasks, at'[u] = "evicting"
        PROVE  u # t /\ at[u] = "evicting" /\ want'[u] = want[u]
    BY <1>0, <2>1, <2>2, <2>5 DEF SessionsTypeOK
  <2>6. Evicting'
    BY <1>0, <2>2, <2>3, <2>5 DEF Evicting, Full
  <2> QED
    BY <2>4, <2>6
<1>2. ASSUME NEW t \in Tasks, Reuse(t) PROVE Asking' /\ Evicting'
  <2>1. want[t] \in Keys /\ entry[want[t]].session \in SessionIds
        /\ lockq # <<>> /\ Head(lockq) = t /\ UNCHANGED want
        /\ Hand(t, want[t], entry[want[t]].session)
    BY <1>0, <1>2 DEF IInv, Reuse, Served, SessionsTypeOK, EveryOpenHasAKey
  <2> QED
    BY <2>1, HandAsking
<1>3. ASSUME NEW t \in Tasks, Rotate(t) PROVE Asking' /\ Evicting'
  <2>1. want[t] \in Keys /\ lockq # <<>> /\ Head(lockq) = t /\ UNCHANGED want
        /\ \E s \in SessionIds : Hand(t, want[t], s)
    BY <1>0, <1>3 DEF Rotate, Served, SessionsTypeOK, Unused, Make
  <2> QED
    BY <2>1, HandAsking
<1>4. ASSUME NEW t \in Tasks, Create(t) PROVE Asking' /\ Evicting'
  <2>1. want[t] \in Keys /\ lockq # <<>> /\ Head(lockq) = t
    BY <1>4, MakeRoom
  <2>2. UNCHANGED want /\ \E s \in SessionIds : Hand(t, want[t], s)
    BY <1>4 DEF Create, Unused, Make
  <2> QED
    BY <2>1, <2>2, HandAsking
<1>5. ASSUME NEW t \in Tasks, Evict(t) PROVE Asking' /\ Evicting'
  <2>1. PICK k \in Keys : k \in pool /\ pool' = pool \ {k}
    BY <1>5 DEF Evict, Oldest, Drop
  <2>2. /\ at' = [at EXCEPT ![t] = "evicting"] /\ UNCHANGED <<lockq, want, held>>
        /\ at[t] = "queued" /\ lockq # <<>> /\ Head(lockq) = t /\ want[t] \notin pool
    BY <1>5 DEF Evict, Served
  <2>3. Asking'
    BY <1>0, <2>2 DEF Holding, SessionsTypeOK, Asking
  <2>4. ~Full'
    <3>1. IsFiniteSet(pool) /\ Cardinality(pool) \in Nat /\ Cardinality(pool) <= MaxPoolSize
      BY <1>0, KeySets DEF SessionsTypeOK
    <3>2. Cardinality(pool') = Cardinality(pool) - 1
      BY <2>1, <3>1, FS_RemoveElement
    <3> QED
      BY <3>1, <3>2, Waits DEF Full
  <2>5. \A u \in Tasks : at'[u] = "evicting" => u = t
    BY <1>0, <2>2, OneHolder DEF SessionsTypeOK
  <2>6. Evicting'
    BY <2>1, <2>2, <2>4, <2>5 DEF Evicting
  <2> QED
    BY <2>3, <2>6
<1>6. ASSUME NEW t \in Tasks, Finish(t) PROVE Asking' /\ Evicting'
  <2>1. /\ at' = [at EXCEPT ![t] = "idle"] /\ want' = [want EXCEPT ![t] = None]
        /\ held' = [held EXCEPT ![t] = None] /\ Holding(t)
        /\ UNCHANGED <<pool, lockq>>
    BY <1>6 DEF Holding, Finish
  <2>2. Asking'
    BY <1>0, <2>1 DEF Holding, SessionsTypeOK, Asking
  <2>3. Evicting'
    BY <1>0, <2>1 DEF SessionsTypeOK, Evicting, Full
  <2> QED
    BY <2>2, <2>3
<1>13. ASSUME NEW t \in Tasks, TakeHandle(t) PROVE Asking' /\ Evicting'
  <2>1. /\ at' = [at EXCEPT ![t] = "using"] /\ at[t] = "waiting"
        /\ UNCHANGED <<pool, lockq, want, held>>
    BY <1>13 DEF TakeHandle
  <2>2. Asking'
    BY <1>0, <2>1 DEF SessionsTypeOK, Asking, Holding
  <2>3. Evicting'
    BY <1>0, <2>1 DEF SessionsTypeOK, Evicting, Full
  <2> QED
    BY <2>2, <2>3
<1>7. ASSUME UNCHANGED <<pool, lockq, at, want, held>> PROVE Asking' /\ Evicting'
  BY <1>0, <1>7 DEF Holding, Asking, Evicting, Full
<1>8. ASSUME NEW s \in SessionIds, CloseRetired(s) PROVE Asking' /\ Evicting'
  BY <1>7, <1>8 DEF CloseRetired
<1>9. CASE Wake
  <2>1. lockq' = Append(lockq, Cleaner) /\ UNCHANGED <<pool, at, want, held>>
    BY <1>9 DEF Wake
  <2>2. lockq # <<>> => lockq' # <<>> /\ Head(lockq') = Head(lockq)
    BY <1>0, <2>1, Waiting
  <2> QED
    BY <1>0, <2>1, <2>2 DEF Holding, Asking, Evicting, Full
<1>10. CASE Sweep
  <2>1. Head(lockq) = Cleaner /\ UNCHANGED <<at, want, held>>
    BY <1>10 DEF Sweep
  <2>2. \A u \in Tasks : at[u] # "evicting"
    BY <1>0, <2>1, SessionsAssumption DEF Evicting
  <2> QED
    BY <1>0, <2>1, <2>2 DEF Holding, Asking, Evicting
<1>11. CASE Tick
  BY <1>7, <1>11 DEF Tick
<1>12. CASE UNCHANGED vars
  BY <1>7, <1>12 DEF vars
<1> QED
  BY <1>1, <1>2, <1>3, <1>4, <1>5, <1>6, <1>8, <1>9, <1>10, <1>11, <1>12, <1>13
  DEF Next, GetSession

-----------------------------------------------------------------------------
(* The sessions of the pool and their keys.                                *)

\* Keys leave the pool and their sessions are no longer open without a date.
LEMMA DropOpen ==
    ASSUME NEW ks \in SUBSET pool, IInv, Drop(ks),
           \A s \in SessionIds : status'[s] = "pooled" <=>
               status[s] = "pooled" /\ \A k \in ks : entry[k].session # s
    PROVE  EveryOpenHasAKey'
<1>0. EveryOpenHasAKey /\ pool \subseteq Keys
  BY DEF IInv, SessionsTypeOK
<1>1. pool' = pool \ ks /\ \A k \in pool' : entry'[k] = entry[k]
  BY DropTypes DEF Drop
<1>2. \A s \in SessionIds : status'[s] = "pooled" => \E k \in pool' : entry'[k].session = s
  BY <1>0, <1>1 DEF EveryOpenHasAKey
<1>3. \A k \in pool' : entry'[k].session \in SessionIds /\ status'[entry'[k].session] = "pooled"
  BY <1>0, <1>1 DEF EveryOpenHasAKey
<1>4. \A j, k \in pool' : j # k => entry'[j].session # entry'[k].session
  BY <1>0, <1>1 DEF EveryOpenHasAKey
<1> QED
  BY <1>2, <1>3, <1>4 DEF EveryOpenHasAKey

\* A session is made for a key and the one the key had is retired.
LEMMA MakeOpen ==
    ASSUME NEW t \in Tasks, want[t] \in Keys, NEW s \in Unused, IInv, Make(t, s),
           \A x \in SessionIds : status'[x] = "pooled" <=>
               \/ x = s
               \/ status[x] = "pooled" /\ ~(want[t] \in pool /\ x = entry[want[t]].session)
    PROVE  EveryOpenHasAKey'
<1> DEFINE k == want[t]
<1>0. /\ EveryOpenHasAKey /\ pool \subseteq Keys /\ s \in SessionIds /\ status[s] = "closed"
      /\ pool' = pool \cup {k}
  BY DEF IInv, SessionsTypeOK, Unused, Make, Hand
<1>1. entry'[k].session = s /\ \A j \in Keys \ {k} : entry'[j] = entry[j]
  BY <1>0, MakeTypes
<1>2. \A x \in SessionIds : status'[x] = "pooled" => \E j \in pool' : entry'[j].session = x
  <2> SUFFICES ASSUME NEW x \in SessionIds, status'[x] = "pooled", x # s
               PROVE  \E j \in pool' : entry'[j].session = x
    BY <1>0, <1>1
  <2>1. status[x] = "pooled" /\ ~(k \in pool /\ x = entry[k].session)
    OBVIOUS
  <2>2. PICK j \in pool : entry[j].session = x
    BY <1>0, <2>1 DEF EveryOpenHasAKey
  <2>3. j # k /\ j \in pool'
    BY <1>0, <2>1, <2>2
  <2> QED
    BY <1>0, <1>1, <2>2, <2>3
<1>3. \A j \in pool \ {k} : /\ entry[j].session \in SessionIds /\ entry[j].session # s
                            /\ status[entry[j].session] = "pooled"
                            /\ (k \in pool => entry[j].session # entry[k].session)
  BY <1>0 DEF EveryOpenHasAKey
<1>4. \A j \in pool' : entry'[j].session \in SessionIds /\ status'[entry'[j].session] = "pooled"
  BY <1>0, <1>1, <1>3
<1>5. \A i, j \in pool' : i # j => entry'[i].session # entry'[j].session
  <2>1. \A i, j \in pool \ {k} : i # j => entry[i].session # entry[j].session
    BY <1>0 DEF EveryOpenHasAKey
  <2> QED
    BY <1>0, <1>1, <1>3, <2>1
<1> QED
  BY <1>2, <1>4, <1>5 DEF EveryOpenHasAKey

LEMMA OpenStep == IInv /\ [Next]_vars => EveryOpenHasAKey'
<1> SUFFICES ASSUME IInv, [Next]_vars PROVE EveryOpenHasAKey'
  OBVIOUS
<1>0. SessionsTypeOK /\ EveryOpenHasAKey
  BY DEF IInv
<1>1. ASSUME UNCHANGED <<pool, status>>, \A k \in Keys : entry'[k].session = entry[k].session
      PROVE  EveryOpenHasAKey'
  <2>1. \A k \in pool : entry'[k].session = entry[k].session
    BY <1>0, <1>1 DEF SessionsTypeOK
  <2>2. \A s \in SessionIds : status'[s] = "pooled" => \E k \in pool' : entry'[k].session = s
    BY <1>0, <1>1, <2>1 DEF EveryOpenHasAKey
  <2>3. \A k \in pool' :
          entry'[k].session \in SessionIds /\ status'[entry'[k].session] = "pooled"
    BY <1>0, <1>1, <2>1 DEF EveryOpenHasAKey
  <2>4. \A j, k \in pool' : j # k => entry'[j].session # entry'[k].session
    BY <1>0, <1>1, <2>1 DEF EveryOpenHasAKey
  <2> QED
    BY <2>2, <2>3, <2>4 DEF EveryOpenHasAKey
<1>2. ASSUME UNCHANGED <<pool, status, entry>> PROVE EveryOpenHasAKey'
  BY <1>1, <1>2
<1>3. ASSUME NEW t \in Tasks, Ask(t) PROVE EveryOpenHasAKey'
  BY <1>2, <1>3 DEF Ask
<1>4. ASSUME NEW t \in Tasks, Reuse(t) PROVE EveryOpenHasAKey'
  <2>1. want[t] \in pool /\ want[t] \in Keys
    BY <1>0, <1>4 DEF SessionsTypeOK, Reuse
  <2>2. pool' = pool /\ status' = status
    BY <1>4, <2>1 DEF Reuse, Hand
  <2>3. \A k \in Keys : entry'[k].session = entry[k].session
    BY <1>4, <2>1, ReuseTypes
  <2> QED
    BY <1>1, <2>2, <2>3
<1>5. ASSUME NEW t \in Tasks, Rotate(t) PROVE EveryOpenHasAKey'
  <2> DEFINE o == entry[want[t]].session
  <2>1. want[t] \in pool /\ want[t] \in Keys /\ o \in SessionIds /\ status[o] = "pooled"
    BY <1>0, <1>5 DEF SessionsTypeOK, Rotate, EveryOpenHasAKey
  <2>2. PICK s \in Unused : Make(t, s) /\ status' = [status EXCEPT ![o] = "grace", ![s] = "pooled"]
    BY <1>5 DEF Rotate
  <2>3. s \in SessionIds /\ s # o
    BY <2>1 DEF Unused
  <2>4. \A x \in SessionIds : status'[x] = "pooled" <=>
          \/ x = s
          \/ status[x] = "pooled" /\ ~(want[t] \in pool /\ x = entry[want[t]].session)
    BY <1>0, <2>1, <2>2, <2>3 DEF SessionsTypeOK
  <2>5. Make(t, s)
    BY <2>2
  <2> QED
    BY <2>1, <2>4, <2>5, MakeOpen
<1>6. ASSUME NEW t \in Tasks, Create(t) PROVE EveryOpenHasAKey'
  <2>1. want[t] \in Keys \ pool
    BY <1>6, MakeRoom
  <2>2. PICK s \in Unused : Make(t, s) /\ status' = [status EXCEPT ![s] = "pooled"]
    BY <1>6 DEF Create
  <2>3. \A x \in SessionIds : status'[x] = "pooled" <=> x = s \/ status[x] = "pooled"
    BY <1>0, <2>2 DEF SessionsTypeOK, Unused
  <2> QED
    BY <2>1, <2>2, <2>3, MakeOpen
<1>7. ASSUME NEW t \in Tasks, Evict(t) PROVE EveryOpenHasAKey'
  <2>1. PICK k \in Keys : /\ k \in pool /\ Drop({k})
                          /\ status' = [status EXCEPT ![entry[k].session] = "closed"]
    BY <1>7 DEF Evict, Oldest
  <2>2. \A s \in SessionIds : status'[s] = "pooled" <=>
          status[s] = "pooled" /\ \A j \in {k} : entry[j].session # s
    BY <1>0, <2>1 DEF SessionsTypeOK, EveryOpenHasAKey
  <2> QED
    BY <2>1, <2>2, DropOpen
<1>8. ASSUME NEW t \in Tasks, TakeHandle(t) \/ Finish(t) PROVE EveryOpenHasAKey'
  BY <1>2, <1>8 DEF TakeHandle, Finish
<1>9. ASSUME NEW s \in SessionIds, CloseRetired(s) PROVE EveryOpenHasAKey'
  <2>1. /\ status' = [status EXCEPT ![s] = "closed"] /\ status[s] = "grace"
        /\ UNCHANGED <<pool, entry>>
    BY <1>9 DEF CloseRetired
  <2>2. \A x \in SessionIds : status'[x] = "pooled" <=> status[x] = "pooled"
    BY <1>0, <2>1 DEF SessionsTypeOK
  <2> QED
    BY <1>0, <2>1, <2>2 DEF EveryOpenHasAKey
<1>10. CASE Wake
  BY <1>2, <1>10 DEF Wake
<1>11. CASE Sweep
  <2>1. Stale \in SUBSET pool /\ Drop(Stale)
    BY <1>11 DEF Stale, Sweep
  <2>2. status' = [s \in SessionIds |->
                     IF s \in {entry[k].session : k \in Stale} THEN "grace" ELSE status[s]]
    BY <1>11 DEF Sweep
  <2>3. \A s \in SessionIds : status'[s] = "pooled" <=>
          status[s] = "pooled" /\ \A k \in Stale : entry[k].session # s
    BY <2>2
  <2> QED
    BY <2>1, <2>3, DropOpen
<1>12. CASE Tick
  <2>1. \A k \in Keys : entry'[k].session = entry[k].session
    BY <1>0, <1>12 DEF SessionsTypeOK, Tick
  <2> QED
    BY <1>1, <1>12, <2>1 DEF Tick
<1>13. CASE UNCHANGED vars
  BY <1>2, <1>13 DEF vars
<1> QED
  BY <1>3, <1>4, <1>5, <1>6, <1>7, <1>8, <1>9, <1>10, <1>11, <1>12, <1>13
  DEF Next, GetSession

\* The sweep is started with the first session and stops with the last.
LEMMA SweepStep == IInv /\ [Next]_vars => SweepIsThere'
<1> SUFFICES ASSUME IInv, [Next]_vars PROVE SweepIsThere'
  OBVIOUS
<1>0. SweepIsThere
  BY DEF IInv
<1>1. ASSUME pool' \subseteq pool, UNCHANGED cleaner PROVE SweepIsThere'
  BY <1>0, <1>1 DEF SweepIsThere
<1>2. ASSUME NEW t \in Tasks, Rotate(t) PROVE SweepIsThere'
  <2>1. want[t] \in Keys /\ \E s \in SessionIds : Make(t, s)
    BY <1>2 DEF Rotate, Unused, IInv, SessionsTypeOK
  <2> QED
    BY <2>1, MakeTypes DEF SweepIsThere
<1>3. ASSUME NEW t \in Tasks, Create(t) PROVE SweepIsThere'
  <2>1. want[t] \in Keys
    BY <1>3, MakeRoom
  <2>2. \E s \in SessionIds : Make(t, s)
    BY <1>3 DEF Create, Unused
  <2> QED
    BY <2>1, <2>2, MakeTypes DEF SweepIsThere
<1>4. ASSUME NEW t \in Tasks, Ask(t) \/ Reuse(t) \/ Evict(t) \/ TakeHandle(t) \/ Finish(t)
      PROVE  SweepIsThere'
  BY <1>1, <1>4 DEF Ask, Reuse, Hand, Evict, Drop, TakeHandle, Finish
<1>5. ASSUME NEW s \in SessionIds, CloseRetired(s) PROVE SweepIsThere'
  BY <1>1, <1>5 DEF CloseRetired
<1>6. CASE Wake \/ Sweep
  BY <1>6 DEF Wake, Sweep, Drop, SweepIsThere
<1>7. CASE Tick \/ UNCHANGED vars
  BY <1>1, <1>7 DEF Tick, vars
<1> QED
  BY <1>2, <1>3, <1>4, <1>5, <1>6, <1>7 DEF Next, GetSession

-----------------------------------------------------------------------------
(* What the tasks hold.                                                    *)

\* The invariants about what a task holds, for one task.
Held(t) ==
    /\ status[held[t]] = "pooled" =>
         /\ want[t] \in pool
         /\ entry[want[t]].session = held[t]
         /\ since[want[t]] \subseteq newer[t]
    /\ status[held[t]] = "grace" =>
         late[t] >= Margin \/ left[held[t]] + late[t] + age[t] >= Grace
    /\ status[held[t]] = "closed" =>
         Cardinality(newer[t] \ {want[t]}) >= MaxPoolSize \/ late[t] >= Margin

LEMMA HeldIs ==
    (\A t \in Tasks : Holding(t) => Held(t))
        <=> InPool /\ InGrace /\ CutOnlyUnderPressure
BY Zenon DEF Held, InPool, InGrace, CutOnlyUnderPressure

LEMMA HeldWas == ASSUME IInv, NEW t \in Tasks, Holding(t) PROVE Held(t)
BY HeldIs DEF IInv

\* The pressure on a request only grows.
LEMMA Grows ==
    ASSUME NEW A \in SUBSET Keys, NEW B \in SUBSET Keys, A \subseteq B, NEW k,
           Cardinality(A \ {k}) >= MaxPoolSize
    PROVE  Cardinality(B \ {k}) >= MaxPoolSize
<1>1. IsFiniteSet(B \ {k}) /\ Cardinality(A \ {k}) \in Nat /\ Cardinality(B \ {k}) \in Nat
  BY KeySets
<1>2. Cardinality(A \ {k}) <= Cardinality(B \ {k})
  BY <1>1, FS_Subset
<1> QED
  BY <1>1, <1>2, Waits

\* A session is handed out; those held are as before, but the one that was in
\* the pool under its key is the one handed out or is retired.
LEMMA HandHeld ==
    ASSUME NEW t \in Tasks, NEW s \in SessionIds, want[t] \in Keys, ~Holding(t),
           IInv, Hand(t, want[t], s), UNCHANGED want,
           entry'[want[t]].session = s, status'[s] = "pooled",
           \A k \in Keys \ {want[t]} : entry'[k] = entry[k],
           \A u \in Tasks : Holding(u) =>
               \/ /\ status'[held[u]] = status[held[u]]
                  /\ left'[held[u]] = left[held[u]]
                  /\ status[held[u]] = "pooled" /\ want[u] = want[t] => held[u] = s
               \/ status'[held[u]] = "grace" /\ left'[held[u]] = Grace
    PROVE  InPool' /\ InGrace' /\ CutOnlyUnderPressure'
<1> DEFINE k == want[t]
<1>0. SessionsTypeOK /\ Asking
  BY DEF IInv
<1> SUFFICES ASSUME NEW u \in Tasks, Holding(u)' PROVE Held(u)'
  BY Zenon DEF Held, InPool, InGrace, CutOnlyUnderPressure
<1>1. /\ pool' = pool \cup {k} /\ k \in pool' /\ since'[k] = {}
      /\ \A j \in pool \ {k} : since'[j] = since[j] \cup {k}
  BY <1>0 DEF Hand, SessionsTypeOK
<1>2. CASE u = t
  <2>1. held'[u] = s /\ want'[u] = k
    BY <1>0, <1>2 DEF Hand, SessionsTypeOK
  <2> QED
    BY <1>1, <2>1 DEF Held
<1>3. CASE u # t
  <2>1. /\ Holding(u) /\ held'[u] = held[u] /\ age'[u] = age[u] /\ want'[u] = want[u]
        /\ newer'[u] = newer[u] \cup {k} /\ late'[u] = late[u]
    BY <1>0, <1>3 DEF Hand, SessionsTypeOK, Holding
  <2>2. Held(u) /\ want[u] \in Keys /\ held[u] \in SessionIds /\ newer[u] \in SUBSET Keys
        /\ age[u] \in Nat /\ late[u] \in Nat
    BY <1>0, <2>1, HeldWas DEF Holding, Asking, SessionsTypeOK
  <2>3. CASE status'[held[u]] = "grace" /\ left'[held[u]] = Grace
    BY <2>1, <2>2, <2>3, Waits DEF Held
  <2>4. CASE /\ status'[held[u]] = status[held[u]] /\ left'[held[u]] = left[held[u]]
             /\ status[held[u]] = "pooled" /\ want[u] = k => held[u] = s
    <3>1. status[held[u]] = "grace" =>
            late'[u] >= Margin \/ left'[held'[u]] + late'[u] + age'[u] >= Grace
      BY <2>1, <2>2, <2>4 DEF Held
    <3>2. status[held[u]] = "closed" =>
            Cardinality(newer'[u] \ {want'[u]}) >= MaxPoolSize \/ late'[u] >= Margin
      BY <2>1, <2>2, Grows DEF Held
    <3>3. ASSUME status[held[u]] = "pooled"
          PROVE  /\ want'[u] \in pool' /\ entry'[want'[u]].session = held'[u]
                 /\ since'[want'[u]] \subseteq newer'[u]
      BY <1>1, <2>1, <2>2, <2>4, <3>3 DEF Held
    <3> QED
      BY <2>1, <2>4, <3>1, <3>2, <3>3 DEF Held
  <2> QED
    BY <2>1, <2>3, <2>4
<1> QED
  BY <1>2, <1>3

LEMMA HeldStep == IInv /\ [Next]_vars => InPool' /\ InGrace' /\ CutOnlyUnderPressure'
<1> DEFINE Goal == InPool' /\ InGrace' /\ CutOnlyUnderPressure'
<1> SUFFICES ASSUME IInv, [Next]_vars PROVE Goal
  OBVIOUS
<1>0. SessionsTypeOK /\ Asking /\ EveryOpenHasAKey
  BY DEF IInv
<1>G. (\A u \in Tasks : Holding(u)' => Held(u)') => Goal
  BY Zenon DEF Held, InPool, InGrace, CutOnlyUnderPressure
<1>W. \A u \in Tasks : Holding(u) => /\ Held(u) /\ held[u] \in SessionIds
                                          /\ want[u] \in Keys /\ newer[u] \in SUBSET Keys
                                          /\ age[u] \in 0..ClientTimeout
                                          /\ late[u] \in 0..Margin
  BY <1>0, HeldWas DEF Holding, Asking, SessionsTypeOK
<1> HIDE DEF Goal
<1>1. ASSUME UNCHANGED <<pool, since, entry, status, left>>,
             \A u \in Tasks : Holding(u)' =>
               /\ Holding(u) /\ held'[u] = held[u] /\ want'[u] = want[u]
               /\ age'[u] = age[u] /\ newer'[u] = newer[u] /\ late'[u] = late[u]
      PROVE  Goal
  BY <1>G, <1>W, <1>1 DEF Held
<1>2. ASSUME NEW t \in Tasks, Ask(t) PROVE Goal
  <2>1. \A u \in Tasks : Holding(u)' => Holding(u) /\ want'[u] = want[u]
    BY <1>0, <1>2 DEF Holding, Ask, SessionsTypeOK
  <2> QED
    BY <1>1, <1>2, <2>1 DEF Ask
<1>3. ASSUME NEW t \in Tasks, Finish(t) PROVE Goal
  <2>1. \A u \in Tasks : Holding(u)' =>
          /\ Holding(u) /\ held'[u] = held[u] /\ want'[u] = want[u]
          /\ age'[u] = age[u] /\ newer'[u] = newer[u] /\ late'[u] = late[u]
    BY <1>0, <1>3 DEF Holding, Finish, SessionsTypeOK
  <2> QED
    BY <1>1, <1>3, <2>1 DEF Finish
<1>13. ASSUME NEW t \in Tasks, TakeHandle(t) PROVE Goal
  <2>1. \A u \in Tasks : Holding(u)' => Holding(u)
    BY <1>0, <1>13 DEF TakeHandle, SessionsTypeOK, Holding
  <2> QED
    BY <1>1, <1>13, <2>1 DEF TakeHandle
<1>4. ASSUME NEW t \in Tasks, Reuse(t) PROVE Goal
  <2> DEFINE s == entry[want[t]].session
  <2>1. /\ want[t] \in Keys /\ ~Holding(t) /\ Hand(t, want[t], s) /\ UNCHANGED want
        /\ s \in SessionIds /\ status[s] = "pooled" /\ status' = status /\ left' = left
    BY <1>0, <1>4 DEF Holding, Reuse, Served, SessionsTypeOK, EveryOpenHasAKey
  <2>2. entry'[want[t]].session = s /\ \A k \in Keys \ {want[t]} : entry'[k] = entry[k]
    BY <1>4, <2>1, ReuseTypes
  <2>3. \A u \in Tasks : Holding(u) =>
          /\ status'[held[u]] = status[held[u]] /\ left'[held[u]] = left[held[u]]
          /\ status[held[u]] = "pooled" /\ want[u] = want[t] => held[u] = s
    BY <1>W, <2>1 DEF Held
  <2>4. status'[s] = "pooled"
    BY <2>1
  <2> HIDE DEF s
  <2> QED
    BY <2>1, <2>2, <2>3, <2>4, HandHeld DEF Goal
<1>5. ASSUME NEW t \in Tasks, Rotate(t) PROVE Goal
  <2> DEFINE o == entry[want[t]].session
  <2>1. /\ want[t] \in Keys /\ ~Holding(t) /\ UNCHANGED want
        /\ o \in SessionIds /\ status[o] = "pooled"
    BY <1>0, <1>5 DEF Holding, Rotate, Served, SessionsTypeOK, EveryOpenHasAKey
  <2>2. PICK s \in Unused : /\ Make(t, s)
                            /\ status' = [status EXCEPT ![o] = "grace", ![s] = "pooled"]
                            /\ left' = [left EXCEPT ![o] = Grace]
    BY <1>5 DEF Rotate
  <2>3. s \in SessionIds /\ s # o /\ \A u \in Tasks : held[u] # s
    BY <2>1 DEF Unused
  <2>4. Hand(t, want[t], s) /\ entry'[want[t]].session = s
        /\ \A k \in Keys \ {want[t]} : entry'[k] = entry[k]
    BY <2>1, <2>2, <2>3, MakeTypes DEF Make
  <2>5. status'[s] = "pooled" /\ status'[o] = "grace" /\ left'[o] = Grace
        /\ \A x \in SessionIds \ {o, s} : status'[x] = status[x] /\ left'[x] = left[x]
    BY <1>0, <2>1, <2>2, <2>3 DEF SessionsTypeOK
  <2>6. \A u \in Tasks : Holding(u) =>
          \/ /\ status'[held[u]] = status[held[u]] /\ left'[held[u]] = left[held[u]]
             /\ status[held[u]] = "pooled" /\ want[u] = want[t] => held[u] = s
          \/ status'[held[u]] = "grace" /\ left'[held[u]] = Grace
    <3> SUFFICES ASSUME NEW u \in Tasks, Holding(u), held[u] # o
                 PROVE  /\ status'[held[u]] = status[held[u]] /\ left'[held[u]] = left[held[u]]
                        /\ status[held[u]] = "pooled" /\ want[u] = want[t] => held[u] = s
      BY <2>5
    <3> QED
      BY <1>W, <2>3, <2>5 DEF Held
  <2> QED
    BY <2>1, <2>3, <2>4, <2>5, <2>6, HandHeld DEF Goal
<1>6. ASSUME NEW t \in Tasks, Create(t) PROVE Goal
  <2>1. want[t] \in Keys \ pool /\ ~Holding(t)
    BY <1>6, MakeRoom
  <2>2. PICK s \in Unused : Make(t, s) /\ status' = [status EXCEPT ![s] = "pooled"]
                            /\ UNCHANGED <<want, left>>
    BY <1>6 DEF Create
  <2>3. s \in SessionIds /\ \A u \in Tasks : held[u] # s
    BY DEF Unused
  <2>4. Hand(t, want[t], s) /\ entry'[want[t]].session = s
        /\ \A k \in Keys \ {want[t]} : entry'[k] = entry[k]
    BY <2>1, <2>2, <2>3, MakeTypes DEF Make
  <2>5. status'[s] = "pooled" /\ \A x \in SessionIds \ {s} : status'[x] = status[x]
    BY <1>0, <2>2, <2>3 DEF SessionsTypeOK
  <2>6. \A u \in Tasks : Holding(u) =>
          /\ status'[held[u]] = status[held[u]] /\ left'[held[u]] = left[held[u]]
          /\ status[held[u]] = "pooled" /\ want[u] = want[t] => held[u] = s
    BY <1>W, <2>1, <2>2, <2>3, <2>5 DEF Held
  <2> QED
    BY <2>1, <2>2, <2>3, <2>4, <2>5, <2>6, HandHeld DEF Goal
<1>7. ASSUME NEW t \in Tasks, Evict(t) PROVE Goal
  <2>1. PICK k \in Keys : /\ Oldest(k) /\ Drop({k})
                          /\ status' = [status EXCEPT ![entry[k].session] = "closed"]
    BY <1>7 DEF Evict
  <2>2. k \in pool /\ pool \ {k} \subseteq since[k]
    BY <2>1 DEF Oldest
  <2>3. entry[k].session \in SessionIds
    BY <1>0, <2>2 DEF EveryOpenHasAKey
  <2>4. want[t] \in Keys \ pool /\ Full /\ at[t] = "queued"
    BY <1>0, <1>7 DEF Evict, Served, Asking
  <2>5. ASSUME NEW u \in Tasks, Holding(u)'
        PROVE  /\ Holding(u) /\ held'[u] = held[u] /\ want'[u] = want[u]
               /\ age'[u] = age[u] /\ newer'[u] = newer[u] \cup {want[t]}
               /\ late'[u] = late[u]
    BY <1>0, <1>7, <2>5 DEF Holding, Evict, SessionsTypeOK
  <2>6. ASSUME NEW u \in Tasks, Holding(u)' PROVE Held(u)'
    <3>1. /\ Held(u) /\ held[u] \in SessionIds /\ want[u] \in Keys
          /\ newer[u] \in SUBSET Keys
      BY <1>W, <2>5, <2>6
    <3>2. CASE held[u] = entry[k].session
      <4>1. status[held[u]] = "pooled"
        BY <1>0, <2>2, <3>2 DEF EveryOpenHasAKey
      <4>2. want[u] = k
        BY <1>0, <2>2, <3>1, <3>2, <4>1 DEF Held, EveryOpenHasAKey
      <4>3. since[k] \subseteq newer[u]
        BY <3>1, <4>1, <4>2 DEF Held
      <4>4. (pool \ {k}) \cup {want[t]} \subseteq newer'[u] \ {k}
        BY <2>2, <2>4, <2>5, <2>6, <4>3
      <4>5. Cardinality((pool \ {k}) \cup {want[t]}) = Cardinality(pool)
        <5>1. IsFiniteSet(pool) /\ IsFiniteSet(pool \ {k})
              /\ Cardinality(pool) \in Nat /\ Cardinality(pool \ {k}) \in Nat
          BY <1>0, KeySets DEF SessionsTypeOK
        <5>2. Cardinality(pool \ {k}) = Cardinality(pool) - 1
          BY <2>2, <5>1, FS_RemoveElement
        <5>3. Cardinality((pool \ {k}) \cup {want[t]}) = Cardinality(pool \ {k}) + 1
          BY <2>4, <5>1, FS_AddElement
        <5> QED
          BY <5>1, <5>2, <5>3
      <4>6. Cardinality(newer'[u] \ {k}) >= MaxPoolSize
        <5>1. newer'[u] \ {k} \in SUBSET Keys
          BY <2>4, <2>5, <2>6, <3>1
        <5>2. Cardinality((pool \ {k}) \cup {want[t]}) <= Cardinality(newer'[u] \ {k})
          BY <4>4, <5>1, KeySets, FS_Subset
        <5>3. Cardinality(newer'[u] \ {k}) \in Nat /\ Cardinality(pool) \in Nat
          BY <1>0, <5>1, KeySets DEF SessionsTypeOK
        <5> QED
          BY <2>4, <4>5, <5>2, <5>3, Waits DEF Full
      <4>7. status'[held'[u]] = "closed" /\ want'[u] = k
        BY <1>0, <2>1, <2>3, <2>5, <2>6, <3>2, <4>2 DEF SessionsTypeOK
      <4> QED
        BY <4>6, <4>7 DEF Held
    <3>3. CASE held[u] # entry[k].session
      <4>1. status'[held'[u]] = status[held[u]]
        BY <1>0, <2>1, <2>5, <2>6, <3>1, <3>3 DEF SessionsTypeOK
      <4>2. /\ left'[held'[u]] = left[held[u]] /\ age'[u] = age[u] /\ want'[u] = want[u]
            /\ late'[u] = late[u]
        BY <1>7, <2>5, <2>6 DEF Evict
      <4>3. status[held[u]] = "closed" =>
              Cardinality(newer'[u] \ {want'[u]}) >= MaxPoolSize \/ late'[u] >= Margin
        BY <2>4, <2>5, <2>6, <3>1, Grows DEF Held
      <4>4. ASSUME status[held[u]] = "pooled"
            PROVE  /\ want'[u] \in pool' /\ entry'[want'[u]].session = held'[u]
                   /\ since'[want'[u]] \subseteq newer'[u]
        <5>1. want[u] \in pool /\ entry[want[u]].session = held[u]
              /\ since[want[u]] \subseteq newer[u] /\ want[u] # k
          BY <3>1, <3>3, <4>4 DEF Held
        <5>2. want[u] \in pool'
          BY <2>1, <5>1 DEF Drop
        <5>3. entry'[want[u]] = entry[want[u]] /\ since'[want[u]] \subseteq since[want[u]]
          BY <2>1, <2>2, <5>2, DropTypes
        <5> QED
          BY <2>5, <2>6, <5>1, <5>2, <5>3
      <4> QED
        BY <3>1, <4>1, <4>2, <4>3, <4>4 DEF Held
    <3> QED
      BY <3>2, <3>3
  <2> QED
    BY <1>G, <2>6
<1>8. ASSUME NEW s \in SessionIds, CloseRetired(s) PROVE Goal
  <2>1. /\ status' = [status EXCEPT ![s] = "closed"] /\ status[s] = "grace" /\ left[s] = 0
        /\ UNCHANGED <<pool, since, entry, at, want, held, age, left, newer, late>>
    BY <1>8 DEF CloseRetired
  <2>2. ASSUME NEW u \in Tasks, Holding(u), held[u] = s PROVE late[u] >= Margin
    <3>1. Held(u) /\ age[u] \in 0..ClientTimeout /\ late[u] \in 0..Margin
      BY <1>W, <2>2
    <3>2. late[u] >= Margin \/ left[s] + late[u] + age[u] >= Grace
      BY <2>1, <2>2, <3>1 DEF Held
    <3> QED
      BY <2>1, <3>1, <3>2, Waits
  <2>3. \A u \in Tasks : Holding(u) =>
          status'[held[u]] = IF held[u] = s THEN "closed" ELSE status[held[u]]
    BY <1>0, <1>W, <2>1 DEF SessionsTypeOK
  <2>4. ASSUME NEW u \in Tasks, Holding(u) PROVE Held(u)'
    <3>1. CASE held[u] = s
      BY <2>1, <2>2, <2>3, <2>4, <3>1 DEF Held
    <3>2. CASE held[u] # s
      BY <1>W, <2>1, <2>3, <2>4, <3>2 DEF Held
    <3> QED
      BY <3>1, <3>2
  <2> QED
    BY <1>G, <2>1, <2>4 DEF Holding
<1>9. CASE Wake
  BY <1>1, <1>9 DEF Holding, Wake
<1>10. CASE Sweep
  <2> DEFINE gone == {entry[k].session : k \in Stale}
  <2>1. /\ Stale \in SUBSET pool /\ Drop(Stale) /\ UNCHANGED <<at, want, held, age, newer, late>>
        /\ status' = [s \in SessionIds |-> IF s \in gone THEN "grace" ELSE status[s]]
        /\ left' = [s \in SessionIds |-> IF s \in gone THEN Grace ELSE left[s]]
    BY <1>10 DEF Stale, Sweep
  <2>2. ASSUME NEW u \in Tasks, Holding(u) PROVE Held(u)'
    <3>1. Held(u) /\ held[u] \in SessionIds /\ want[u] \in Keys /\ age[u] \in Nat
          /\ late[u] \in Nat
      BY <1>W, <2>2
    <3>2. CASE held[u] \in gone
      <4>1. /\ status'[held'[u]] = "grace" /\ left'[held'[u]] = Grace
            /\ age'[u] = age[u] /\ late'[u] = late[u]
        BY <2>1, <3>1, <3>2
      <4> QED
        BY <3>1, <4>1, Waits DEF Held
    <3>3. CASE held[u] \notin gone
      <4>1. status'[held'[u]] = status[held[u]] /\ left'[held'[u]] = left[held[u]]
        BY <2>1, <3>1, <3>3
      <4>2. ASSUME status[held[u]] = "pooled"
            PROVE  /\ want'[u] \in pool' /\ entry'[want'[u]].session = held'[u]
                   /\ since'[want'[u]] \subseteq newer'[u]
        <5>1. want[u] \in pool /\ entry[want[u]].session = held[u]
              /\ since[want[u]] \subseteq newer[u] /\ want[u] \notin Stale
          BY <3>1, <3>3, <4>2 DEF Held
        <5>2. want[u] \in pool'
          BY <2>1, <5>1 DEF Drop
        <5>3. entry'[want[u]] = entry[want[u]] /\ since'[want[u]] \subseteq since[want[u]]
          BY <2>1, <5>2, DropTypes
        <5> QED
          BY <2>1, <5>1, <5>2, <5>3
      <4> QED
        BY <2>1, <3>1, <4>1, <4>2 DEF Held
    <3> QED
      BY <3>2, <3>3
  <2> QED
    BY <1>G, <2>1, <2>2 DEF Holding
<1>11. CASE Tick
  <2>1. /\ UNCHANGED <<pool, since, at, want, held, status, newer>>
        /\ left' = [s \in SessionIds |-> Less(left[s])]
        /\ age' = [t \in Tasks |-> IF at[t] = "using" THEN age[t] + 1 ELSE age[t]]
        /\ late' = [t \in Tasks |->
             IF at[t] = "waiting" /\ status[held[t]] = "grace" /\ late[t] < Margin
               THEN late[t] + 1 ELSE late[t]]
    BY <1>11 DEF Tick
  <2>2. \A k \in Keys : entry'[k].session = entry[k].session
    BY <1>0, <1>11 DEF SessionsTypeOK, Tick
  <2>3. ASSUME NEW u \in Tasks, Holding(u) PROVE Held(u)'
    <3>1. /\ Held(u) /\ held[u] \in SessionIds /\ want[u] \in Keys /\ age[u] \in Nat
          /\ left[held[u]] \in Nat /\ late[u] \in 0..Margin
      BY <1>0, <1>W, <2>3, Waits DEF SessionsTypeOK
    <3>2. /\ left'[held[u]] = Less(left[held[u]])
          /\ late'[u] \in 0..Margin /\ late'[u] >= late[u]
      BY <2>1, <2>3, <3>1, Waits
    <3>3. status[held[u]] = "grace" =>
            late'[u] >= Margin \/ late'[u] + age'[u] = late[u] + age[u] + 1
      BY <2>1, <2>3, <3>1, Waits DEF Holding
    <3>4. left'[held[u]] \in Nat /\ left'[held[u]] >= left[held[u]] - 1 /\ age'[u] \in Nat
      BY <2>1, <2>3, <3>1, <3>2 DEF Less
    <3>5. status[held[u]] = "grace" =>
            late'[u] >= Margin \/ left'[held[u]] + late'[u] + age'[u] >= Grace
      BY <3>1, <3>2, <3>3, <3>4, Waits DEF Held
    <3> QED
      BY <2>1, <2>2, <3>1, <3>2, <3>5, Waits DEF Held
  <2> QED
    BY <1>G, <2>1, <2>3 DEF Holding
<1>12. CASE UNCHANGED vars
  BY <1>1, <1>12 DEF Holding, vars
<1> QED
  BY <1>2, <1>3, <1>4, <1>5, <1>6, <1>7, <1>8, <1>9, <1>10, <1>11, <1>12, <1>13
  DEF Next, GetSession

-----------------------------------------------------------------------------
(* The theorems.                                                           *)

\* What the proofs use is an invariant of the session pool.
THEOREM SessionsInvariant == Spec => []IInv
<1>1. IInv /\ [Next]_vars => IInv'
  BY TypeStep, AskingStep, OpenStep, SweepStep, HeldStep DEF IInv
<1> QED
  BY <1>1, SessionsInit, PTL DEF Spec

\* The pool never passes its size, nor a session its limit of requests
\* (client.py:101, client.py:118).
THEOREM SessionsTyping == Spec => []SessionsTypeOK
<1>1. IInv => SessionsTypeOK
  BY DEF IInv
<1> QED
  BY <1>1, SessionsInvariant, PTL

\* No session is open without a key that leads to it, nor two keys to one.
THEOREM NoSessionIsLost == Spec => []EveryOpenHasAKey
<1>1. IInv => EveryOpenHasAKey
  BY DEF IInv
<1> QED
  BY <1>1, SessionsInvariant, PTL

\* While there are sessions in the pool the sweep runs.
THEOREM SweepRuns == Spec => []SweepIsThere
<1>1. IInv => SweepIsThere
  BY DEF IInv
<1> QED
  BY <1>1, SessionsInvariant, PTL

\* Only eviction closes a session under a request that has, or soon gets, one of
\* its handles, and only after as many other keys as the pool holds were handed
\* out (client.py:101-102).
THEOREM CutUnderPressure == Spec => []CutOnlyUnderPressure
<1>1. IInv => CutOnlyUnderPressure
  BY DEF IInv
<1> QED
  BY <1>1, SessionsInvariant, PTL

\* A session that was rotated or swept outlives every request that did not wait
\* for a handle the whole margin after that: the grace makes up for the timeout
\* and for any shorter wait (client.py:45-55).
THEOREM GraceIsEnough == Spec => GraceSuffices
<1> DEFINE Kept == \A s \in SessionIds :
              status[s] = "grace" /\ status'[s] = "closed" =>
                  \A t \in Tasks : held[t] = s => late[t] >= Margin
<1>1. IInv /\ [Next]_vars => [Kept]_vars
  <2> SUFFICES ASSUME IInv, [Next]_vars, NEW s \in SessionIds, NEW u \in Tasks,
                      status[s] = "grace", status'[s] = "closed", held[u] = s,
                      ~(late[u] >= Margin)
               PROVE  FALSE
    OBVIOUS
  <2>0. SessionsTypeOK /\ Asking /\ EveryOpenHasAKey /\ s # None
    BY SessionsAssumption DEF IInv
  <2>1. late[u] \in 0..Margin /\ age[u] \in 0..ClientTimeout
    BY <2>0 DEF SessionsTypeOK
  <2>8. left[s] + late[u] + age[u] >= Grace
    <3>1. Holding(u)
      BY <2>0 DEF Asking
    <3> QED
      BY <2>1, <3>1, Waits DEF IInv, InGrace
  <2>2. ASSUME NEW x \in SessionIds, CloseRetired(x) PROVE FALSE
    <3>1. x = s
      BY <2>0, <2>2 DEF CloseRetired, SessionsTypeOK
    <3>2. left[s] = 0
      BY <2>2, <3>1 DEF CloseRetired
    <3> QED
      BY <2>1, <2>8, <3>2, Waits
  <2>3. ASSUME NEW t \in Tasks, Rotate(t) PROVE FALSE
    <3>1. PICK x \in SessionIds :
            status' = [status EXCEPT ![entry[want[t]].session] = "grace", ![x] = "pooled"]
      BY <2>3 DEF Rotate, Unused
    <3> QED
      BY <2>0, <3>1 DEF SessionsTypeOK
  <2>4. ASSUME NEW t \in Tasks, Create(t) PROVE FALSE
    <3>1. PICK x \in SessionIds : status' = [status EXCEPT ![x] = "pooled"]
      BY <2>4 DEF Create, Unused
    <3> QED
      BY <2>0, <3>1 DEF SessionsTypeOK
  <2>5. ASSUME NEW t \in Tasks, Evict(t) PROVE FALSE
    <3>1. PICK k \in Keys : /\ k \in pool
                            /\ status' = [status EXCEPT ![entry[k].session] = "closed"]
      BY <2>5 DEF Evict, Oldest
    <3>2. status[entry[k].session] = "pooled"
      BY <2>0, <3>1 DEF EveryOpenHasAKey
    <3> QED
      BY <2>0, <3>1, <3>2 DEF SessionsTypeOK
  <2>6. CASE Sweep
    BY <2>6 DEF Sweep
  <2>7. ASSUME UNCHANGED status PROVE FALSE
    BY <2>7
  <2> QED
    BY <2>2, <2>3, <2>4, <2>5, <2>6, <2>7
    DEF Next, GetSession, Ask, Reuse, TakeHandle, Finish, Wake, Tick, vars
<1> QED
  BY <1>1, SessionsInvariant, PTL DEF Spec, GraceSuffices
=============================================================================
