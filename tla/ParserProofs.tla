----------------------------- MODULE ParserProofs -----------------------------
(***************************************************************************)
(* Machine-checked proofs about the parsers: the browser that the dynamic  *)
(* one shares, for any number of slots, any limit and any number of failed *)
(* launches and crashes; and what both make of every page, configuration   *)
(* and status: their verdicts, and what of a trap gets into a record.        *)
(***************************************************************************)
EXTENDS Browser, Extraction, FiniteSetTheorems, WellFoundedInduction, SequenceTheorems, TLAPS

-----------------------------------------------------------------------------
(* The shared browser.  Only the task at the head of the lock launches,    *)
(* and it does so when there is no browser (Launching): so there is never  *)
(* a second one.  The bound on the tasks of a browser is not inductive;    *)
(* Slots is: the tasks served and those that wait are no more than the     *)
(* count and the slots.                                                    *)

Launching ==
    \A p \in Parses : stage[p] = "launching" =>
        lockq # <<>> /\ Head(lockq) = p /\ browser = None

AtRest == running = "stopped" => \A p \in Parses : stage[p] = "idle"

Driven ==
    /\ browser # None => driver
    /\ driver => drivers > 0

Queued == {p \in Parses : stage[p] = "queued"}
Slots == served + Cardinality(Queued) <= count + Cardinality(Parses)

IInv ==
    /\ BrowserTypeOK /\ Launching /\ AtRest
    /\ OneBrowser /\ Driven /\ DriversBound
    /\ Slots /\ ServedBound

-----------------------------------------------------------------------------

\* The slots are finitely many, and so are the tasks that wait among them.
LEMMA QueuedFinite ==
    /\ IsFiniteSet(Queued) /\ Cardinality(Queued) \in Nat
    /\ IsFiniteSet(Parses) /\ Cardinality(Parses) \in Nat
    /\ Cardinality(Queued) <= Cardinality(Parses)
BY BrowserAssumption, FS_Subset, FS_CardinalityType DEF Queued

\* A task that stops waiting leaves one fewer behind.
LEMMA OneFewer ==
    ASSUME NEW p \in Parses, stage[p] = "queued", BrowserTypeOK, NEW st, st # "queued",
           stage' = [stage EXCEPT ![p] = st]
    PROVE  Cardinality(Queued') = Cardinality(Queued) - 1
<1>1. Queued' = Queued \ {p}
  BY DEF Queued, BrowserTypeOK
<1>2. p \in Queued
  BY DEF Queued
<1> QED
  BY <1>1, <1>2, QueuedFinite, FS_RemoveElement

\* A task that neither waits nor starts to wait does not change their number.
LEMMA AsMany ==
    ASSUME NEW p \in Parses, stage[p] # "queued", BrowserTypeOK, NEW st, st # "queued",
           stage' = [stage EXCEPT ![p] = st]
    PROVE  Queued' = Queued
BY DEF Queued, BrowserTypeOK

\* Not everybody waits while somebody does something else.
LEMMA SomebodyElse ==
    ASSUME NEW p \in Parses, stage[p] # "queued"
    PROVE  Cardinality(Queued) <= Cardinality(Parses) - 1
<1>1. Queued \subseteq Parses \ {p}
  BY DEF Queued
<1>2. Cardinality(Parses \ {p}) = Cardinality(Parses) - 1 /\ IsFiniteSet(Parses \ {p})
  BY QueuedFinite, FS_RemoveElement
<1> QED
  BY <1>1, <1>2, FS_Subset

-----------------------------------------------------------------------------

THEOREM BrowserInit == Init => IInv
<1> SUFFICES ASSUME Init PROVE IInv
  OBVIOUS
<1>1. Cardinality(Queued) = 0
  <2>1. Queued = {}
    BY DEF Init, Queued
  <2> QED
    BY <2>1, FS_EmptySet
<1>2. BrowserTypeOK
  <2>1. 0 \in Nat /\ 0 \in 0..MaxFailures /\ 0 \in 0..MaxCrashes /\ <<>> \in Seq(Parses)
    BY BrowserAssumption
  <2> QED
    BY <2>1 DEF Init, BrowserTypeOK
<1>5. Launching /\ AtRest
  BY DEF Init, Launching, AtRest
<1>3. OneBrowser /\ Driven /\ DriversBound
  BY DEF Init, OneBrowser, Driven, DriversBound
<1>4. Slots /\ ServedBound
  BY <1>1, QueuedFinite, BrowserAssumption DEF Init, Slots, ServedBound
<1> QED
  BY <1>2, <1>3, <1>4, <1>5 DEF IInv

\* The drivers that run are still a number when one ends.
LEMMA FewerDrivers ==
    ASSUME BrowserTypeOK, Driven, CloseBrowser
    PROVE  drivers' \in Nat /\ browser' = None /\ driver' = FALSE /\ alive' \subseteq Browsers
BY DEF BrowserTypeOK, Driven, CloseBrowser

\* The types are kept.
LEMMA TypeStep == IInv /\ [Next]_vars => BrowserTypeOK'
<1> SUFFICES ASSUME IInv, [Next]_vars PROVE BrowserTypeOK'
  OBVIOUS
<1> USE BrowserAssumption
<1>1. ASSUME NEW p \in Parses, Begin(p) PROVE BrowserTypeOK'
  BY <1>1 DEF IInv, BrowserTypeOK, Begin
<1>2. ASSUME NEW p \in Parses, Reuse(p) PROVE BrowserTypeOK'
  BY <1>2 DEF IInv, BrowserTypeOK, Reuse, Give, Holds
<1>3. ASSUME NEW p \in Parses, Recycle(p) PROVE BrowserTypeOK'
  BY <1>3, FewerDrivers DEF IInv, BrowserTypeOK, Recycle
<1>4. ASSUME NEW p \in Parses, First(p) PROVE BrowserTypeOK'
  BY <1>4 DEF IInv, BrowserTypeOK, First
<1>5. ASSUME NEW p \in Parses, Launch(p) PROVE BrowserTypeOK'
  BY <1>5 DEF IInv, BrowserTypeOK, Launch, Give, Fresh, Launching
<1>6. ASSUME NEW p \in Parses, LaunchFails(p) PROVE BrowserTypeOK'
  <2>1. failures' \in 0..MaxFailures
    BY <1>6 DEF IInv, BrowserTypeOK, LaunchFails
  <2>3. drivers' \in Nat
    BY <1>6 DEF IInv, BrowserTypeOK, LaunchFails
  <2>4. driver' \in BOOLEAN
    <3>1. driver' = driver \/ driver' = TRUE
      BY <1>6 DEF LaunchFails
    <3> QED
      BY <3>1, Zenon DEF IInv, BrowserTypeOK
  <2>2. lockq' \in Seq(Parses)
    BY <1>6 DEF IInv, BrowserTypeOK, LaunchFails, Launching
  <2> QED
    BY <1>6, <2>1, <2>2, <2>3, <2>4 DEF IInv, BrowserTypeOK, LaunchFails
<1>7. ASSUME NEW p \in Parses, Open(p) PROVE BrowserTypeOK'
  BY <1>7 DEF IInv, BrowserTypeOK, Open
<1>8. ASSUME NEW p \in Parses, End(p) PROVE BrowserTypeOK'
  BY <1>8 DEF IInv, BrowserTypeOK, End
<1>9. CASE Crash
  BY <1>9 DEF IInv, BrowserTypeOK, Crash
<1>10. CASE Stop
  BY <1>10 DEF IInv, BrowserTypeOK, Stop
<1>11. CASE CloseAtStop
  BY <1>11, FewerDrivers DEF IInv, BrowserTypeOK, CloseAtStop
<1>12. CASE UNCHANGED vars
  BY <1>12 DEF IInv, BrowserTypeOK, vars
<1> QED
  BY <1>1, <1>2, <1>3, <1>4, <1>5, <1>6, <1>7, <1>8, <1>9, <1>10, <1>11, <1>12
  DEF Next, GetBrowser

\* Only the head of the lock launches, and nothing is started after a stop.
LEMMA LaunchingStep == IInv /\ [Next]_vars => Launching' /\ AtRest'
<1> SUFFICES ASSUME IInv, [Next]_vars PROVE Launching' /\ AtRest'
  OBVIOUS
<1> USE BrowserAssumption DEF IInv, BrowserTypeOK, Launching, AtRest
<1>1. ASSUME NEW p \in Parses, Begin(p) PROVE Launching' /\ AtRest'
  BY <1>1 DEF Begin
<1>2. ASSUME NEW p \in Parses, Reuse(p) PROVE Launching' /\ AtRest'
  BY <1>2 DEF Reuse, Give, Holds
<1>3. ASSUME NEW p \in Parses, Recycle(p) PROVE Launching' /\ AtRest'
  BY <1>3 DEF Recycle, CloseBrowser, Holds
<1>4. ASSUME NEW p \in Parses, First(p) PROVE Launching' /\ AtRest'
  BY <1>4 DEF First, Holds
<1>5. ASSUME NEW p \in Parses, Launch(p) PROVE Launching' /\ AtRest'
  BY <1>5 DEF Launch, Give
<1>6. ASSUME NEW p \in Parses, LaunchFails(p) PROVE Launching' /\ AtRest'
  BY <1>6 DEF LaunchFails
<1>7. ASSUME NEW p \in Parses, Open(p) PROVE Launching' /\ AtRest'
  BY <1>7 DEF Open
<1>8. ASSUME NEW p \in Parses, End(p) PROVE Launching' /\ AtRest'
  BY <1>8 DEF End
<1>9. CASE Crash
  BY <1>9 DEF Crash
<1>10. CASE Stop
  BY <1>10 DEF Stop
<1>11. CASE CloseAtStop
  BY <1>11 DEF CloseAtStop, CloseBrowser
<1>12. CASE UNCHANGED vars
  BY <1>12 DEF vars
<1> QED
  BY <1>1, <1>2, <1>3, <1>4, <1>5, <1>6, <1>7, <1>8, <1>9, <1>10, <1>11, <1>12
  DEF Next, GetBrowser

\* There is one browser, and a driver for it.
LEMMA BrowserStep == IInv /\ [Next]_vars => OneBrowser' /\ Driven' /\ DriversBound'
<1> SUFFICES ASSUME IInv, [Next]_vars PROVE OneBrowser' /\ Driven' /\ DriversBound'
  OBVIOUS
<1> USE BrowserAssumption DEF OneBrowser, Driven, DriversBound
<1>1. ASSUME NEW p \in Parses, Begin(p) PROVE OneBrowser' /\ Driven' /\ DriversBound'
  BY <1>1 DEF IInv, Begin
<1>2. ASSUME NEW p \in Parses, Reuse(p) PROVE OneBrowser' /\ Driven' /\ DriversBound'
  BY <1>2 DEF IInv, Reuse, Give
<1>3. ASSUME NEW p \in Parses, Recycle(p) PROVE OneBrowser' /\ Driven' /\ DriversBound'
  BY <1>3 DEF IInv, BrowserTypeOK, AtRest, Recycle, CloseBrowser
<1>4. ASSUME NEW p \in Parses, First(p) PROVE OneBrowser' /\ Driven' /\ DriversBound'
  BY <1>4 DEF IInv, First
<1>5. ASSUME NEW p \in Parses, Launch(p) PROVE OneBrowser' /\ Driven' /\ DriversBound'
  <2>1. browser = None /\ alive = {} /\ running # "stopped"
    BY <1>5 DEF IInv, BrowserTypeOK, Launch, Launching, AtRest
  <2>2. PICK b \in Browsers : browser' = b /\ alive' = {b}
    BY <1>5, <2>1 DEF Launch, Fresh
  <2>3. drivers' = drivers + 1 /\ drivers <= failures /\ drivers \in Nat /\ driver'
        /\ failures' = failures /\ running' = running /\ failures \in Nat
    BY <1>5, <2>1 DEF IInv, BrowserTypeOK, Launch
  <2> QED
    BY <2>1, <2>2, <2>3
<1>6. ASSUME NEW p \in Parses, LaunchFails(p)
      PROVE  OneBrowser' /\ Driven' /\ DriversBound'
  <2>1. browser = None /\ running # "stopped"
    BY <1>6 DEF IInv, LaunchFails, Launching, AtRest
  <2> QED
    BY <1>6, <2>1 DEF IInv, BrowserTypeOK, LaunchFails
<1>7. ASSUME NEW p \in Parses, Open(p) PROVE OneBrowser' /\ Driven' /\ DriversBound'
  BY <1>7 DEF IInv, Open
<1>8. ASSUME NEW p \in Parses, End(p) PROVE OneBrowser' /\ Driven' /\ DriversBound'
  BY <1>8 DEF IInv, End
<1>9. CASE Crash
  BY <1>9 DEF IInv, Crash
<1>10. CASE Stop
  BY <1>10 DEF IInv, Stop
<1>11. CASE CloseAtStop
  BY <1>11 DEF IInv, BrowserTypeOK, CloseAtStop, CloseBrowser
<1>12. CASE UNCHANGED vars
  BY <1>12 DEF IInv, vars
<1> QED
  BY <1>1, <1>2, <1>3, <1>4, <1>5, <1>6, <1>7, <1>8, <1>9, <1>10, <1>11, <1>12
  DEF Next, GetBrowser

\* The tasks served and those that wait fit the count and the slots.
LEMMA SlotsStep == IInv /\ [Next]_vars => Slots' /\ ServedBound'
<1> SUFFICES ASSUME IInv, [Next]_vars PROVE Slots' /\ ServedBound'
  OBVIOUS
<1> USE BrowserAssumption, QueuedFinite DEF Slots, ServedBound
<1>0. served \in Nat /\ count \in Nat /\ BrowserTypeOK
  BY DEF IInv, BrowserTypeOK
<1>1. ASSUME NEW p \in Parses, Begin(p) PROVE Slots' /\ ServedBound'
  <2>1. Queued' = Queued \cup {p} /\ p \notin Queued
    BY <1>0, <1>1 DEF Begin, Queued, BrowserTypeOK
  <2>2. Cardinality(Queued') = Cardinality(Queued) + 1
    BY <2>1, FS_AddElement
  <2> QED
    BY <1>0, <1>1, <2>2 DEF IInv, Begin
<1>2. ASSUME NEW p \in Parses, Reuse(p) PROVE Slots' /\ ServedBound'
  <2>1. Cardinality(Queued') = Cardinality(Queued) - 1
    BY <1>0, <1>2, OneFewer DEF Reuse, Give
  <2>2. Cardinality(Queued) > 0
    <3>1. p \in Queued
      BY <1>2 DEF Reuse, Queued
    <3> QED
      BY <3>1, FS_EmptySet
  <2>3. count < MaxTasks /\ count' = count /\ served' = served + 1
    BY <1>0, <1>2 DEF Reuse, Worn
  <2> QED
    BY <1>0, <2>1, <2>2, <2>3 DEF IInv
<1>3. ASSUME NEW p \in Parses, Recycle(p) PROVE Slots' /\ ServedBound'
  <2>1. Cardinality(Queued') = Cardinality(Queued) - 1
    BY <1>0, <1>3, OneFewer DEF Recycle
  <2>2. served' = served /\ count' = count
    BY <1>3 DEF Recycle
  <2> QED
    BY <1>0, <2>1, <2>2 DEF IInv
<1>4. ASSUME NEW p \in Parses, First(p) PROVE Slots' /\ ServedBound'
  <2>1. Cardinality(Queued') = Cardinality(Queued) - 1
    BY <1>0, <1>4, OneFewer DEF First
  <2>2. served' = served /\ count' = count
    BY <1>4 DEF First
  <2> QED
    BY <1>0, <2>1, <2>2 DEF IInv
<1>5. ASSUME NEW p \in Parses, Launch(p) PROVE Slots' /\ ServedBound'
  <2>1. Queued' = Queued
    BY <1>0, <1>5, AsMany DEF Launch, Give
  <2>2. Cardinality(Queued) <= Cardinality(Parses) - 1
    BY <1>5, SomebodyElse DEF Launch
  <2>3. count' = 0 /\ served' = 1
    BY <1>5 DEF Launch
  <2> QED
    BY <2>1, <2>2, <2>3
<1>6. ASSUME NEW p \in Parses, LaunchFails(p) PROVE Slots' /\ ServedBound'
  BY <1>0, <1>6, AsMany DEF IInv, LaunchFails
<1>7. ASSUME NEW p \in Parses, Open(p) PROVE Slots' /\ ServedBound'
  BY <1>0, <1>7, AsMany DEF IInv, Open
<1>8. ASSUME NEW p \in Parses, End(p) PROVE Slots' /\ ServedBound'
  BY <1>0, <1>8, AsMany DEF IInv, End
<1>9. ASSUME UNCHANGED <<stage, served, count>> PROVE Slots' /\ ServedBound'
  <2>1. Queued' = Queued
    BY <1>9 DEF Queued
  <2> QED
    BY <1>9, <2>1 DEF IInv
<1>10. CASE Crash \/ Stop \/ CloseAtStop \/ UNCHANGED vars
  BY <1>9, <1>10 DEF Crash, Stop, CloseAtStop, vars
<1> QED
  BY <1>1, <1>2, <1>3, <1>4, <1>5, <1>6, <1>7, <1>8, <1>10 DEF Next, GetBrowser

\* The invariant is inductive.
THEOREM BrowserInvariant == Spec => []IInv
<1>1. IInv /\ [Next]_vars => IInv'
  BY TypeStep, LaunchingStep, BrowserStep, SlotsStep DEF IInv
<1> QED
  BY <1>1, BrowserInit, PTL DEF Spec

-----------------------------------------------------------------------------

\* The variables keep their types (dinamic_parse.py:28).
THEOREM BrowserTyping == Spec => []BrowserTypeOK
BY BrowserInvariant, PTL DEF IInv

\* A pod never runs two browsers, nor one after a stop, whatever launches fail
\* and browsers die (dinamic_parse.py:41 and 88).
THEOREM BrowserIsOne == Spec => []OneBrowser
BY BrowserInvariant, PTL DEF IInv

\* The limit of a browser is passed by less than the number of slots, although
\* the count is reset under tasks that wait (dinamic_parse.py:82).
THEOREM BrowserIsRecycled == Spec => []ServedBound
BY BrowserInvariant, PTL DEF IInv

\* Drivers leak by failed launches only, one each (dinamic_parse.py:69).
THEOREM DriversAreBounded == Spec => []DriversBound
BY BrowserInvariant, PTL DEF IInv

-----------------------------------------------------------------------------
(* The verdicts on a page.                                                 *)

\* What the extractor returns: one record, or a list with one of each container.
LEMMA ExtractShape ==
    ASSUME NEW page, NEW config, NEW x, x = Extract(page, config)
    PROVE  /\ x.list \in BOOLEAN
           /\ ~x.list => DOMAIN x.items = {1}
           /\ x.list => (x.items = <<>> <=> DOMAIN x.items = {})
<1>1. CASE config.container = Nothing
  BY <1>1 DEF Extract
<1>2. CASE config.container # Nothing
  <2> DEFINE found == InOrder(Len(page), Containers(page, config.container))
             item(i) == Item(page, found[i], config.selectors, TRUE)
  <2>1. x = [list |-> TRUE, items |-> [i \in DOMAIN found |-> item(i)]]
    BY <1>2 DEF Extract
  <2> HIDE DEF found, item
  <2>2. QED
    BY <2>1
<1>3. QED
  BY <1>1, <1>2

\* The parsers disagree on no other pages than these two kinds.
LEMMA VerdictsDiffer ==
    ASSUME NEW x, NEW status,
           x.list \in BOOLEAN,
           ~x.list => DOMAIN x.items = {1},
           x.list => (x.items = <<>> <=> DOMAIN x.items = {}),
           StaticOutcome(status, x) # DynamicOutcome(status, x)
    PROVE  \/ status >= 400 /\ status \notin {403, 429}
           \/ /\ x.list /\ x.items # <<>>
              /\ \A i \in DOMAIN x.items : BlankItem(x.items[i])
              /\ StaticOutcome(status, x) = "data"
              /\ DynamicOutcome(status, x) = "INVALID_SCHEMA"
<1>1. CASE status \in {403, 429}
  <2>1. StaticOutcome(status, x) = "BLOCKED"
    BY <1>1 DEF StaticOutcome
  <2>2. DynamicOutcome(status, x) = "BLOCKED"
    BY <1>1 DEF DynamicOutcome
  <2>3. QED
    BY <2>1, <2>2
<1>2. CASE status >= 400 /\ status \notin {403, 429}
  BY <1>2
<1>3. CASE ~(status >= 400) /\ status \notin {403, 429}
  <2>1. StaticOutcome(status, x) = IF StaticAccepts(x) THEN "data" ELSE "INVALID_SCHEMA"
    BY <1>3 DEF StaticOutcome
  <2>2. DynamicOutcome(status, x) = IF DynamicAccepts(x) THEN "data" ELSE "INVALID_SCHEMA"
    BY <1>3 DEF DynamicOutcome
  <2>3. \/ StaticAccepts(x) /\ ~DynamicAccepts(x)
        \/ ~StaticAccepts(x) /\ DynamicAccepts(x)
    BY <2>1, <2>2
  <2>4. x.list
    BY <2>3 DEF StaticAccepts, DynamicAccepts
  <2>5. x.items # <<>> /\ ~DynamicAccepts(x)
    BY <2>3, <2>4 DEF StaticAccepts, DynamicAccepts
  <2>6. QED
    BY <2>1, <2>2, <2>3, <2>4, <2>5 DEF DynamicAccepts
<1>4. QED
  BY <1>1, <1>2, <1>3

\* Of one page the static and the dynamic parser say the same, but for an error
\* page and a collection of blank records (static_css_parse.py:40-70,
\* dinamic_parse.py:165-244).
THEOREM VerdictsAgree == given = Nothing /\ [][Read]_given => []SameVerdict
<1>1. SameVerdict
  <2> SUFFICES ASSUME given # Nothing,
                      StaticOutcome(given.status, Extract(given.page, given.config))
                          # DynamicOutcome(given.status, Extract(given.page, given.config))
               PROVE  LET x == Extract(given.page, given.config)
                      IN  \/ given.status >= 400 /\ given.status \notin {403, 429}
                          \/ /\ x.list /\ x.items # <<>>
                             /\ \A i \in DOMAIN x.items : BlankItem(x.items[i])
                             /\ StaticOutcome(given.status, x) = "data"
                             /\ DynamicOutcome(given.status, x) = "INVALID_SCHEMA"
    BY DEF SameVerdict
  <2>1. QED
    BY ExtractShape, VerdictsDiffer
<1>2. QED
  BY <1>1, PTL

-----------------------------------------------------------------------------
(* The guard and the extractor.  Induction is over a set in place of a     *)
(* formula, from the least of a set of naturals: so is InOrder, a          *)
(* recursive function, taken apart index by index.                         *)

\* A set of naturals that is not empty has a least one.
LEMMA LeastNat ==
    ASSUME NEW S \in SUBSET Nat, S # {}
    PROVE  \E n \in S : \A m \in S : n <= m
<1>1. IsWellFoundedOn(OpToRel(<, Nat), Nat)
  BY NatLessThanWellFounded
<1>2. PICK n \in S : \A m \in S : ~(<<m, n>> \in OpToRel(<, Nat))
  BY <1>1, WFMin
<1>3. \A m \in S : ~(m < n)
  BY <1>2 DEF OpToRel
<1> QED
  BY <1>3

\* Induction up to a number, over a set in place of a formula.
LEMMA UpTo ==
    ASSUME NEW n \in Nat, NEW S, 0 \in S,
           \A i \in 1..n : i - 1 \in S => i \in S
    PROVE  \A i \in 0..n : i \in S
<1> DEFINE Out == {i \in 0..n : i \notin S}
<1> SUFFICES ASSUME Out # {} PROVE FALSE
  OBVIOUS
<1>1. PICK k \in Out : \A m \in Out : k <= m
  <2>1. Out \in SUBSET Nat
    OBVIOUS
  <2> HIDE DEF Out
  <2> QED
    BY <2>1, LeastNat
<1>2. k # 0 /\ k \in 1..n /\ k - 1 \in 0..n
  OBVIOUS
<1>3. k - 1 \in S
  BY <1>1, <1>2
<1> QED
  BY <1>2, <1>3

\* The function that InOrder computes: there is one, and it takes the indices
\* one by one.
LEMMA InOrderUpToDef ==
    ASSUME NEW n \in Nat, NEW S
    PROVE  LET upto == InOrderUpTo(n, S) IN
           /\ upto[0] = <<>>
           /\ \A i \in 1..n :
                upto[i] = IF i \in S THEN Append(upto[i - 1], i) ELSE upto[i - 1]
<1> DEFINE Step(f, i) == IF i = 0 THEN <<>>
                         ELSE IF i \in S THEN Append(f[i - 1], i) ELSE f[i - 1]
           Done == {k \in 0..n : \E f : f = [i \in 0..k |-> Step(f, i)]}
<1>1. 0 \in Done
  <2> DEFINE f == [i \in 0..0 |-> <<>>]
  <2>1. f = [i \in 0..0 |-> Step(f, i)]
    OBVIOUS
  <2> HIDE DEF f, Step
  <2> QED
    BY <2>1
<1>2. ASSUME NEW k \in 1..n, k - 1 \in Done PROVE k \in Done
  <2>1. PICK g : g = [i \in 0..(k - 1) |-> Step(g, i)]
    BY <1>2
  <2> DEFINE f == [i \in 0..k |-> IF i = k THEN Step(g, k) ELSE g[i]]
  <2>2. ASSUME NEW i \in 0..k PROVE f[i] = Step(f, i)
    <3>1. i # 0 => i - 1 \in 0..(k - 1)
      OBVIOUS
    <3>2. i # 0 => f[i - 1] = g[i - 1]
      BY <3>1
    <3>3. Step(f, i) = Step(g, i)
      BY <3>2
    <3> HIDE DEF Step
    <3>4. CASE i = k
      BY <3>3, <3>4
    <3>5. CASE i # k
      <4>1. i \in 0..(k - 1)
        BY <3>5
      <4> QED
        BY <4>1, <3>3, <3>5, <2>1
    <3> QED
      BY <3>4, <3>5
  <2>3. f = [i \in 0..k |-> Step(f, i)]
    <3> HIDE DEF Step
    <3> QED
      BY <2>2
  <2> HIDE DEF f, Step
  <2> QED
    BY <2>3
<1>3. n \in Done
  <2> HIDE DEF Done
  <2>1. \A i \in 0..n : i \in Done
    BY <1>1, <1>2, UpTo
  <2> QED
    BY <2>1
<1>4. \E f : f = [i \in 0..n |-> Step(f, i)]
  BY <1>3
<1> DEFINE upto == InOrderUpTo(n, S)
<1>5. upto = [i \in 0..n |-> Step(upto, i)]
  BY <1>4, Zenon DEF InOrderUpTo
<1>6. \A i \in 0..n : upto[i] = Step(upto, i)
  <2> HIDE DEF upto, Step
  <2> QED
    BY <1>5
<1>7. \A i \in 1..n : i # 0 /\ i \in 0..n
  OBVIOUS
<1> HIDE DEF upto
<1> QED
  BY <1>6, <1>7 DEF upto

\* The indices of a set in their order are a sequence of that set.
LEMMA InOrderType ==
    ASSUME NEW n \in Nat, NEW S
    PROVE  InOrder(n, S) \in Seq(S)
<1> DEFINE upto == InOrderUpTo(n, S)
           Done == {i \in 0..n : upto[i] \in Seq(S)}
<1>1. 0 \in Done
  <2>1. upto[0] = <<>> /\ <<>> \in Seq(S) /\ 0 \in 0..n
    BY InOrderUpToDef, EmptySeq
  <2> HIDE DEF upto
  <2> QED
    BY <2>1
<1>2. ASSUME NEW i \in 1..n, i - 1 \in Done PROVE i \in Done
  <2>1. upto[i - 1] \in Seq(S)
    BY <1>2
  <2>2. upto[i] = IF i \in S THEN Append(upto[i - 1], i) ELSE upto[i - 1]
    BY InOrderUpToDef
  <2> HIDE DEF upto
  <2>3. i \in S => Append(upto[i - 1], i) \in Seq(S)
    BY <2>1, AppendProperties
  <2>4. upto[i] \in Seq(S) /\ i \in 0..n
    BY <2>1, <2>2, <2>3
  <2> QED
    BY <2>4
<1> QED
  <2> HIDE DEF Done
  <2>1. \A i \in 0..n : i \in Done
    BY <1>1, <1>2, UpTo
  <2> QED
    BY <2>1 DEF Done, InOrder

\* What the wiped page still has of the page: all that the guard looks at, and
\* the rest of what is seen.
LEMMA MaskedKeeps ==
    ASSUME NEW page \in Pages, NEW config,
           NEW masked, masked = Masked(page, config)
    PROVE  /\ Len(page) \in Nat /\ DOMAIN page = 1..Len(page)
           /\ DOMAIN masked = DOMAIN page /\ Len(masked) = Len(page)
           /\ \A i \in DOMAIN page :
                /\ page[i].last \in i..Len(page)
                /\ masked[i].last = page[i].last
                /\ masked[i].hits = IF Seen(page, config, i) THEN page[i].hits ELSE {}
                /\ Seen(page, config, i) => masked[i].attrs = page[i].attrs
                /\ InSeen(page, config, i) => masked[i].words = page[i].words
                /\ Honeypot(masked, i) <=> Honeypot(page, i)
           /\ \A i \in DOMAIN page \cup {0} :
                /\ Span(masked, i) = Span(page, i)
                /\ Span(page, i) \subseteq DOMAIN page
<1>1. /\ page \in Seq(Range(page))
      /\ \A i \in DOMAIN page :
           /\ DOMAIN page[i] = {"tag", "style", "classes", "hidden", "href", "hits", "attrs",
                                "words", "last"}
           /\ page[i].last \in i..Len(page)
  BY PagesAssumption
<1>2. Len(page) \in Nat /\ DOMAIN page = 1..Len(page)
  BY <1>1, LenProperties
<1>3. DOMAIN masked = DOMAIN page
  BY DEF Masked
<1>4. Len(masked) = Len(page)
  BY <1>2, <1>3
<1>5. ASSUME NEW i \in DOMAIN page
      PROVE  /\ masked[i].tag = page[i].tag /\ masked[i].style = page[i].style
             /\ masked[i].classes = page[i].classes /\ masked[i].hidden = page[i].hidden
             /\ masked[i].href = page[i].href /\ masked[i].last = page[i].last
             /\ masked[i].hits = IF Seen(page, config, i) THEN page[i].hits ELSE {}
             /\ Seen(page, config, i) => masked[i].attrs = page[i].attrs
             /\ InSeen(page, config, i) => masked[i].words = page[i].words
  <2>1. masked[i] =
          [page[i] EXCEPT !.hits = IF Seen(page, config, i) THEN @ ELSE {},
                          !.attrs = IF Seen(page, config, i) THEN @ ELSE [x \in {} |-> <<>>],
                          !.words = IF InSeen(page, config, i) THEN @ ELSE <<>>]
    BY DEF Masked
  <2> QED
    BY <1>1, <2>1
<1>6. ASSUME NEW i \in DOMAIN page \cup {0}
      PROVE  Span(masked, i) = Span(page, i) /\ Span(page, i) \subseteq DOMAIN page
  BY <1>1, <1>2, <1>3, <1>5 DEF Span
<1>7. ASSUME NEW i \in DOMAIN page
      PROVE  Honeypot(masked, i) <=> Honeypot(page, i)
  BY <1>3, <1>5, <1>6 DEF Honeypot
<1> QED
  BY <1>1, <1>2, <1>3, <1>4, <1>5, <1>6, <1>7

\* The containers are seen, so that they are still matched.
LEMMA SameContainers ==
    ASSUME NEW page \in Pages, NEW config,
           NEW masked, masked = Masked(page, config), config.container # Nothing
    PROVE  /\ Containers(masked, config.container) = Containers(page, config.container)
           /\ \A c \in Containers(page, config.container) :
                c \in DOMAIN page /\ Seen(page, config, c)
                /\ config.container \in page[c].hits
<1>1. ASSUME NEW c \in Containers(page, config.container)
      PROVE  /\ c \in DOMAIN page /\ Seen(page, config, c)
             /\ config.container \in page[c].hits /\ ~Honeypot(page, c)
  <2>1. c \in DOMAIN page /\ ~Honeypot(page, c) /\ config.container \in page[c].hits
    BY DEF Containers, Safe
  <2>2. c \in Span(page, c)
    BY <2>1, MaskedKeeps DEF Span
  <2> QED
    BY <2>1, <2>2 DEF Seen
<1>2. ASSUME NEW i \in DOMAIN page
      PROVE  i \in Containers(masked, config.container)
               <=> i \in Containers(page, config.container)
  <2>1. /\ masked[i].hits = IF Seen(page, config, i) THEN page[i].hits ELSE {}
        /\ Honeypot(masked, i) <=> Honeypot(page, i)
        /\ DOMAIN masked = DOMAIN page
    BY MaskedKeeps
  <2> QED
    BY <1>1, <2>1 DEF Containers, Safe
<1>3. /\ Containers(masked, config.container) \subseteq DOMAIN page
      /\ Containers(page, config.container) \subseteq DOMAIN page
  BY MaskedKeeps DEF Containers, Safe
<1> QED
  BY <1>1, <1>2, <1>3

-----------------------------------------------------------------------------
(* One node: the document of a single record, or a container.              *)

Node(page, config, i) ==
    \/ config.container = Nothing /\ i = 0
    \/ config.container # Nothing /\ i \in Containers(page, config.container)

\* The elements in a node that are safe and match are seen.
LEMMA SafeIsSeen ==
    ASSUME NEW page \in Pages, NEW config, NEW i, Node(page, config, i), NEW selector,
           NEW j \in Safe(page, Matching(page, i, selector))
    PROVE  /\ j \in DOMAIN page /\ j \in Span(page, i) \ {i} /\ selector \in page[j].hits
           /\ Seen(page, config, j)
<1>1. j \in Span(page, i) \ {i} /\ selector \in page[j].hits /\ ~Honeypot(page, j)
  BY DEF Safe, Matching
<1>2. i \in DOMAIN page \cup {0}
  BY DEF Node, Containers, Safe
<1>3. j \in DOMAIN page
  BY <1>1, <1>2, MaskedKeeps
<1> QED
  BY <1>1, <1>3 DEF Seen, Node

\* A field has the same elements in the wiped page.
LEMMA SameElements ==
    ASSUME NEW page \in Pages, NEW config, NEW masked, masked = Masked(page, config),
           NEW i, Node(page, config, i), NEW f
    PROVE  Elements(masked, i, f) = Elements(page, i, f)
<1>1. i \in DOMAIN page \cup {0}
  BY DEF Node, Containers, Safe
<1>2. /\ Span(masked, i) = Span(page, i) /\ Span(page, i) \subseteq DOMAIN page
      /\ Len(masked) = Len(page)
  BY <1>1, MaskedKeeps
<1> DEFINE M(x) == Safe(x, Matching(x, i, f.selector))
<1>3. ASSUME NEW j \in DOMAIN page
      PROVE  j \in M(masked) <=> j \in M(page)
  <2>1. /\ masked[j].hits = IF Seen(page, config, j) THEN page[j].hits ELSE {}
        /\ Honeypot(masked, j) <=> Honeypot(page, j)
    BY MaskedKeeps
  <2>2. j \in M(page) => Seen(page, config, j)
    BY SafeIsSeen
  <2> QED
    BY <1>2, <2>1, <2>2 DEF Safe, Matching
<1>4. M(masked) \subseteq DOMAIN page /\ M(page) \subseteq DOMAIN page
  BY <1>2 DEF Safe, Matching
<1>5. M(masked) = M(page)
  <2> HIDE DEF M
  <2> QED
    BY <1>3, <1>4
<1> QED
  BY <1>2, <1>5 DEF Elements

\* The elements of a field: the node itself, or safe ones that match.
LEMMA ElementsType ==
    ASSUME NEW page \in Pages, NEW i, NEW f
    PROVE  /\ f.selector = "self" => Elements(page, i, f) = <<i>>
           /\ f.selector # "self" =>
                Elements(page, i, f) \in Seq(Safe(page, Matching(page, i, f.selector)))
<1>1. Len(page) \in Nat
  BY MaskedKeeps
<1> QED
  BY <1>1, InOrderType DEF Elements

\* An element in which all words are kept has the same text.
LEMMA SameText ==
    ASSUME NEW page \in Pages, NEW config, NEW masked, masked = Masked(page, config),
           NEW j \in DOMAIN page \cup {0},
           \A n \in Span(page, j) : InSeen(page, config, n)
    PROVE  Text(masked, j) = Text(page, j)
<1>1. /\ DOMAIN masked = DOMAIN page /\ Span(masked, j) = Span(page, j)
      /\ \A n \in DOMAIN page : InSeen(page, config, n) => masked[n].words = page[n].words
  BY MaskedKeeps
<1> DEFINE W(x) == [n \in DOMAIN x |-> IF n \in Span(x, j) THEN x[n].words ELSE <<>>]
<1>2. W(masked) = W(page)
  BY <1>1
<1>3. Text(masked, j) = FlattenSeq(W(masked)) /\ Text(page, j) = FlattenSeq(W(page))
  BY DEF Text
<1> QED
  BY <1>2, <1>3

\* The node itself has the same value where a field asks for it.
LEMMA SameSelf ==
    ASSUME NEW page \in Pages, NEW config, NEW masked, masked = Masked(page, config),
           NEW i, Node(page, config, i), "self" \in Wanted(config), NEW attribute
    PROVE  ElementValue(masked, i, attribute) = ElementValue(page, i, attribute)
<1>1. CASE config.container = Nothing /\ i = 0
  <2>1. \A n \in Span(page, i) : InSeen(page, config, n)
    BY <1>1 DEF InSeen
  <2>2. Text(masked, i) = Text(page, i)
    BY <1>1, <2>1, SameText
  <2> QED
    BY <1>1, <2>2 DEF ElementValue
<1>2. CASE config.container # Nothing /\ i \in Containers(page, config.container)
  <2>1. /\ i \in DOMAIN page /\ Seen(page, config, i)
        /\ config.container \in page[i].hits \cap Wanted(config)
    BY <1>2, SameContainers DEF Wanted
  <2>2. \A n \in Span(page, i) : InSeen(page, config, n)
    BY <2>1 DEF InSeen
  <2>3. Text(masked, i) = Text(page, i) /\ masked[i].attrs = page[i].attrs
    BY <2>1, <2>2, SameText, MaskedKeeps
  <2> QED
    BY <2>3 DEF ElementValue
<1> QED
  BY <1>1, <1>2 DEF Node

\* So has a safe element that a field asks for.
LEMMA SameMatch ==
    ASSUME NEW page \in Pages, NEW config, NEW masked, masked = Masked(page, config),
           NEW i, Node(page, config, i), NEW selector \in Wanted(config),
           NEW j \in Safe(page, Matching(page, i, selector)), NEW attribute
    PROVE  ElementValue(masked, j, attribute) = ElementValue(page, j, attribute)
<1>1. /\ j \in DOMAIN page /\ Seen(page, config, j)
      /\ selector \in page[j].hits \cap Wanted(config)
  BY SafeIsSeen
<1>2. \A n \in Span(page, j) : InSeen(page, config, n)
  BY <1>1 DEF InSeen
<1>3. Text(masked, j) = Text(page, j) /\ masked[j].attrs = page[j].attrs
  BY <1>1, <1>2, SameText, MaskedKeeps
<1> QED
  BY <1>3 DEF ElementValue

\* A field of a node has the same value.
LEMMA SameField ==
    ASSUME NEW page \in Pages, NEW config, NEW masked, masked = Masked(page, config),
           NEW i, Node(page, config, i), NEW f, f.selector \in Wanted(config), NEW child
    PROVE  FieldValue(masked, Elements(masked, i, f), f, child)
             = FieldValue(page, Elements(page, i, f), f, child)
<1> DEFINE es == Elements(page, i, f)
           V(x) == [n \in DOMAIN es |-> ElementValue(x, es[n], f.attribute)]
<1>1. Elements(masked, i, f) = es
  BY SameElements
<1>2. ASSUME NEW n \in DOMAIN es
      PROVE  ElementValue(masked, es[n], f.attribute) = ElementValue(page, es[n], f.attribute)
  <2>1. CASE f.selector = "self"
    <3>1. es[n] = i
      BY <2>1, ElementsType
    <3> QED
      BY <2>1, <3>1, SameSelf
  <2>2. CASE f.selector # "self"
    <3>1. es \in Seq(Safe(page, Matching(page, i, f.selector)))
      BY <2>2, ElementsType
    <3>2. es[n] \in Safe(page, Matching(page, i, f.selector))
      <4> HIDE DEF es
      <4> QED
        BY <3>1
    <3> QED
      BY <3>2, SameMatch
  <2> QED
    BY <2>1, <2>2
<1>3. V(masked) = V(page)
  <2> HIDE DEF es
  <2> QED
    BY <1>2
<1>4. es # <<>> => 1 \in DOMAIN es
  <2>1. \E S : es \in Seq(S)
    <3>1. f.selector = "self" => es = <<i>>
      BY ElementsType
    <3>2. f.selector # "self" => es \in Seq(Safe(page, Matching(page, i, f.selector)))
      BY ElementsType
    <3>3. <<i>> \in Seq({i})
      OBVIOUS
    <3> HIDE DEF es
    <3> QED
      BY <3>1, <3>2, <3>3
  <2> HIDE DEF es
  <2> QED
    BY <2>1
<1>5. es # <<>> =>
        ElementValue(masked, es[1], f.attribute) = ElementValue(page, es[1], f.attribute)
  BY <1>2, <1>4
<1>6. FieldValue(masked, es, f, child) = FieldValue(page, es, f, child)
  <2> HIDE DEF es
  <2> QED
    BY <1>3, <1>5, Zenon DEF FieldValue
<1> QED
  BY <1>1, <1>6

\* So has a record.
LEMMA SameItem ==
    ASSUME NEW page \in Pages, NEW config, NEW masked, masked = Masked(page, config),
           NEW i, Node(page, config, i), NEW child
    PROVE  Item(masked, i, config.selectors, child) = Item(page, i, config.selectors, child)
<1>1. ASSUME NEW name \in DOMAIN config.selectors
      PROVE  FieldValue(masked, Elements(masked, i, config.selectors[name]),
                        config.selectors[name], child)
               = FieldValue(page, Elements(page, i, config.selectors[name]),
                            config.selectors[name], child)
  <2>1. config.selectors[name].selector \in Wanted(config)
    BY DEF Wanted
  <2> QED
    BY <2>1, SameField
<1> QED
  BY <1>1 DEF Item

\* So have the records of a page.
LEMMA SameExtract ==
    ASSUME NEW page \in Pages, NEW config
    PROVE  Extract(page, config) = Extract(Masked(page, config), config)
<1>0. PICK masked : masked = Masked(page, config)
  OBVIOUS
<1>1. CASE config.container = Nothing
  <2>1. Node(page, config, 0)
    BY <1>1 DEF Node
  <2>2. Item(masked, 0, config.selectors, FALSE) = Item(page, 0, config.selectors, FALSE)
    <3>1. \A child : Item(masked, 0, config.selectors, child)
                       = Item(page, 0, config.selectors, child)
      BY <1>0, <2>1, SameItem
    <3> QED
      BY <3>1, Zenon
  <2> QED
    BY <1>0, <1>1, <2>2 DEF Extract
<1>2. CASE config.container # Nothing
  <2> DEFINE cs == Containers(page, config.container)
             found == InOrder(Len(page), cs)
  <2>1. Containers(masked, config.container) = cs /\ Len(masked) = Len(page)
    BY <1>0, <1>2, SameContainers, MaskedKeeps
  <2>2. found \in Seq(cs)
    BY MaskedKeeps, InOrderType
  <2>3. ASSUME NEW n \in DOMAIN found
        PROVE  Item(masked, found[n], config.selectors, TRUE)
                 = Item(page, found[n], config.selectors, TRUE)
    <3>1. found[n] \in cs
      <4> HIDE DEF found, cs
      <4> QED
        BY <2>2
    <3>2. Node(page, config, found[n])
      BY <1>2, <3>1 DEF Node
    <3> QED
      <4>1. \A child : Item(masked, found[n], config.selectors, child)
                         = Item(page, found[n], config.selectors, child)
        BY <1>0, <3>2, SameItem
      <4> QED
        BY <4>1, Zenon
  <2>4. [n \in DOMAIN found |-> Item(masked, found[n], config.selectors, TRUE)]
          = [n \in DOMAIN found |-> Item(page, found[n], config.selectors, TRUE)]
    <3> HIDE DEF found
    <3> QED
      BY <2>3
  <2>5. Extract(page, config)
          = [list |-> TRUE,
             items |-> [n \in DOMAIN found |-> Item(page, found[n], config.selectors, TRUE)]]
    BY <1>2 DEF Extract
  <2>6. Extract(masked, config)
          = [list |-> TRUE,
             items |-> [n \in DOMAIN found |-> Item(masked, found[n], config.selectors, TRUE)]]
    BY <1>2, <2>1 DEF Extract
  <2> QED
    BY <1>0, <2>4, <2>5, <2>6
<1> QED
  BY <1>1, <1>2

\* A trap has a say in a record only by its words, as part of the text of an
\* element around it that is asked for and is no trap (honeypot_guard.py:96,
\* extractor.py:37, 84 and 91).
THEOREM TrapsHaveNoOtherSay == given = Nothing /\ [][Read]_given => []TrapsOnlyInText
<1> DEFINE Real == given # Nothing => given.page \in Pages
<1>1. given = Nothing => Real
  OBVIOUS
<1>2. Real /\ [Read]_given => Real'
  BY DEF Read
<1>3. Real => TrapsOnlyInText
  BY SameExtract DEF TrapsOnlyInText
<1> QED
  BY <1>1, <1>2, <1>3, PTL
=============================================================================
