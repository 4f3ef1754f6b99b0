-------------------------------- MODULE Browser --------------------------------
(***************************************************************************)
(* The Chromium the dynamic tasks of a pod share (DynamicParser in         *)
(* worker/scraping/parsers/dinamic_parse.py).  A task counts itself, gets  *)
(* the browser under a lock, and works with it without one.  The task that *)
(* finds the count at its limit closes the browser, whoever has pages in   *)
(* it, and launches another one.  A browser may also die, which the code   *)
(* does not notice.                                                        *)
(***************************************************************************)
EXTENDS Naturals, FiniteSets, Sequences

CONSTANTS
    Parses,        \* the coroutines of parse(): the slots of the engine
    Browsers,      \* BOUND: browsers that are remembered at one time
    None,
    MaxTasks,      \* playwright_max_tasks_per_browser: 25
    MaxFailures,   \* BOUND: launches that fail
    MaxCrashes     \* BOUND: browsers that die

ASSUME BrowserAssumption ==
    /\ IsFiniteSet(Parses)
    /\ None \notin Browsers
    /\ MaxTasks \in Nat \ {0}
    /\ {MaxFailures, MaxCrashes} \subseteq Nat

VARIABLES
    running,   \* whether the engine starts tasks; then "stopping", "stopped"
    count,     \* _tasks_processed_count
    browser,   \* _browser
    driver,    \* whether _playwright holds a driver
    drivers,   \* the Playwright drivers that run
    lockq,     \* who holds _lock, then who waits for it
    stage,     \* where each task is
    handle,    \* the browser it was given
    alive,     \* the browsers that run
    served,    \* HISTORY: tasks that were given the browser since its launch
    failures,  \* launches that have failed
    crashes    \* browsers that have died

vars == <<running, count, browser, driver, drivers, lockq, stage, handle, alive,
          served, failures, crashes>>

Init ==
    /\ running = "yes"
    /\ count = 0
    /\ browser = None
    /\ driver = FALSE
    /\ drivers = 0
    /\ lockq = <<>>
    /\ stage = [p \in Parses |-> "idle"]
    /\ handle = [p \in Parses |-> None]
    /\ alive = {}
    /\ served = 0
    /\ failures = 0
    /\ crashes = 0

\* A browser nobody remembers: the next one that is launched.
Fresh == {b \in Browsers : b \notin alive /\ b # browser /\ \A p \in Parses : handle[p] # b}

Holds(p) == lockq # <<>> /\ Head(lockq) = p

\* A plausible bug, used as a mutant of Worn: off by one.
WornAbove == count > MaxTasks

\* The count is past its limit: the browser is to be replaced.
Worn == count >= MaxTasks

-----------------------------------------------------------------------------
(* parse() and get_browser().                                              *)

\* A task starts: it counts itself and asks for the lock.
Begin(p) ==
    /\ running = "yes"
    /\ stage[p] = "idle"
    /\ count' = count + 1
    /\ stage' = [stage EXCEPT ![p] = "queued"]
    /\ lockq' = Append(lockq, p)
    /\ UNCHANGED <<running, browser, driver, drivers, handle, alive, served, failures,
                   crashes>>

\* get_browser returns browser b.
Give(p, b) ==
    /\ handle' = [handle EXCEPT ![p] = b]
    /\ stage' = [stage EXCEPT ![p] = "given"]
    /\ lockq' = Tail(lockq)

\* There is a browser and it may serve: nobody looks whether it still runs.
Reuse(p) ==
    /\ Holds(p)
    /\ stage[p] = "queued"
    /\ browser # None
    /\ ~Worn
    /\ Give(p, browser)
    /\ served' = served + 1
    /\ UNCHANGED <<running, count, browser, driver, drivers, alive, failures, crashes>>

\* Plausible bugs, used as mutants of CloseBrowser: the browser is forgotten and
\* not closed; its driver is not stopped; a driver is stopped that may not run.
CloseForgetsBrowser ==
    /\ UNCHANGED alive
    /\ browser' = None
    /\ driver' = FALSE
    /\ drivers' = IF driver THEN drivers - 1 ELSE drivers

CloseForgetsDriver ==
    /\ alive' = alive \ {browser}
    /\ browser' = None
    /\ driver' = FALSE
    /\ UNCHANGED drivers

CloseStopsAnyDriver ==
    /\ alive' = alive \ {browser}
    /\ browser' = None
    /\ driver' = FALSE
    /\ drivers' = drivers - 1

\* _close_browser_unlocked: the browser ends, with every page in it, and so
\* does its driver.  Errors of close and stop are swallowed; what is given up
\* with one counts as ended here.
CloseBrowser ==
    /\ alive' = alive \ {browser}
    /\ browser' = None
    /\ driver' = FALSE
    /\ drivers' = IF driver THEN drivers - 1 ELSE drivers

\* The browser is worn: it is closed and another one is to be launched.
Recycle(p) ==
    /\ Holds(p)
    /\ stage[p] = "queued"
    /\ browser # None
    /\ Worn
    /\ CloseBrowser
    /\ stage' = [stage EXCEPT ![p] = "launching"]
    /\ UNCHANGED <<running, count, lockq, handle, served, failures, crashes>>

\* There is none: one is to be launched.
First(p) ==
    /\ Holds(p)
    /\ stage[p] = "queued"
    /\ browser = None
    /\ stage' = [stage EXCEPT ![p] = "launching"]
    /\ UNCHANGED <<running, count, browser, driver, drivers, lockq, handle, alive,
                   served, failures, crashes>>

\* A driver and a browser have started; tasks that counted themselves and wait
\* for the lock are forgotten.
Launch(p) ==
    /\ stage[p] = "launching"
    /\ \E b \in Fresh :
         /\ browser' = b
         /\ alive' = alive \cup {b}
         /\ Give(p, b)
    /\ driver' = TRUE
    /\ drivers' = drivers + 1
    /\ count' = 0
    /\ served' = 1
    /\ UNCHANGED <<running, failures, crashes>>

\* A plausible bug, used as a mutant of LaunchFails: the lock is kept.
LaunchFailsLocked(p) ==
    /\ stage[p] = "launching"
    /\ failures < MaxFailures
    /\ failures' = failures + 1
    /\ \/ UNCHANGED <<driver, drivers>>
       \/ driver' = TRUE /\ drivers' = drivers + 1
    /\ stage' = [stage EXCEPT ![p] = "idle"]
    /\ UNCHANGED <<running, count, browser, lockq, handle, alive, served, crashes>>

\* The driver does not start, or it starts and the browser does not: then the
\* next launch overwrites _playwright.  The lock is released and the task fails.
LaunchFails(p) ==
    /\ stage[p] = "launching"
    /\ failures < MaxFailures
    /\ failures' = failures + 1
    /\ \/ UNCHANGED <<driver, drivers>>
       \/ driver' = TRUE /\ drivers' = drivers + 1
    /\ stage' = [stage EXCEPT ![p] = "idle"]
    /\ lockq' = Tail(lockq)
    /\ UNCHANGED <<running, count, browser, handle, alive, served, crashes>>

-----------------------------------------------------------------------------
(* The work of a task with its browser.                                    *)

\* A context and a page are opened in it, if it runs.
Open(p) ==
    /\ stage[p] = "given"
    /\ handle[p] \in alive
    /\ stage' = [stage EXCEPT ![p] = "page"]
    /\ UNCHANGED <<running, count, browser, driver, drivers, lockq, handle, alive,
                   served, failures, crashes>>

\* The task ends: with the content of its page, or with an error, which is all
\* there is when the browser is gone.  It closes its page and context.
End(p) ==
    /\ stage[p] \in {"given", "page"}
    /\ stage' = [stage EXCEPT ![p] = "idle"]
    /\ handle' = [handle EXCEPT ![p] = None]
    /\ UNCHANGED <<running, count, browser, driver, drivers, lockq, alive, served,
                   failures, crashes>>

-----------------------------------------------------------------------------

\* The browser dies.
Crash ==
    /\ crashes < MaxCrashes
    /\ crashes' = crashes + 1
    /\ \E b \in alive : alive' = alive \ {b}
    /\ UNCHANGED <<running, count, browser, driver, drivers, lockq, stage, handle,
                   served, failures>>

\* The engine is told to stop.  A task that is on its way to parse() by then
\* still begins, and shutdown waits for it: the step is taken when the last of
\* them has begun.
Stop ==
    /\ running = "yes"
    /\ running' = "stopping"
    /\ UNCHANGED <<count, browser, driver, drivers, lockq, stage, handle, alive, served,
                   failures, crashes>>

\* Its tasks are over: close_browser.
CloseAtStop ==
    /\ running = "stopping"
    /\ \A p \in Parses : stage[p] = "idle"
    /\ running' = "stopped"
    /\ CloseBrowser
    /\ UNCHANGED <<count, lockq, stage, handle, served, failures, crashes>>

-----------------------------------------------------------------------------

GetBrowser(p) ==
    Reuse(p) \/ Recycle(p) \/ First(p) \/ Launch(p) \/ LaunchFails(p)

Next ==
    \/ \E p \in Parses : Begin(p) \/ GetBrowser(p) \/ Open(p) \/ End(p)
    \/ Crash \/ Stop \/ CloseAtStop

Spec == Init /\ [][Next]_vars

\* The event loop runs every task, and a stop goes on; nobody has to start a
\* task or a stop.  ASSUMED: calls to Playwright end, on a browser that crashed
\* too.  goto and the waits have timeouts; new_context, new_page, evaluate and
\* content have none of their own.
Fairness ==
    /\ \A p \in Parses : WF_vars(GetBrowser(p)) /\ WF_vars(End(p))
    /\ WF_vars(CloseAtStop)

FairSpec == Spec /\ Fairness

-----------------------------------------------------------------------------

\* The type invariant.
BrowserTypeOK ==
    /\ running \in {"yes", "stopping", "stopped"}
    /\ count \in Nat
    /\ browser \in Browsers \cup {None}
    /\ driver \in BOOLEAN
    /\ drivers \in Nat
    /\ lockq \in Seq(Parses)
    /\ stage \in [Parses -> {"idle", "queued", "launching", "given", "page"}]
    /\ handle \in [Parses -> Browsers \cup {None}]
    /\ alive \subseteq Browsers
    /\ served \in Nat
    /\ failures \in 0..MaxFailures
    /\ crashes \in 0..MaxCrashes

\* At most one Chromium runs, the one of _browser, and none after a stop: a pod
\* has memory for one.
OneBrowser ==
    /\ alive \subseteq {browser}
    /\ running = "stopped" => alive = {}

\* A browser, even a dead one, is given to fewer tasks than its limit and the
\* slots of the engine together: the tasks that were counted before its launch
\* come on top of the limit, and there are no more of them than slots.
ServedBound == served <= (MaxTasks - 1) + Cardinality(Parses)

\* Every driver that runs besides the one in use is owed to a failed launch.
DriversBound ==
    /\ drivers <= failures + (IF browser = None THEN 0 ELSE 1)
    /\ running = "stopped" => drivers <= failures

\* Every task ends, and so does every stop: a launch that fails frees the lock.
EveryParseEnds ==
    /\ \A p \in Parses : stage[p] # "idle" ~> stage[p] = "idle"
    /\ running = "stopping" ~> running = "stopped"
=============================================================================
