------------------------------ MODULE Submission ------------------------------
(***************************************************************************)
(* What the producer owes to a bulk request it has accepted: its tasks are *)
(* put on the queues, a task maybe more than once, and at the end either   *)
(* one report says of every distinct task whether it was sent or failed,   *)
(* or the request is given up without a report.  A task reported as sent   *)
(* is on a queue; one reported as failed may be there too.  After the      *)
(* report nothing more is sent for the request; after it is given up, what *)
(* was on its way still may be.                                            *)
(***************************************************************************)
CONSTANTS
    Requests,
    Distinct   \* the distinct tasks of each request

VARIABLES
    queued,    \* the tasks with a message on a queue
    told       \* the outcome of each request

submissionVars == <<queued, told>>

Pending == [outcome |-> "pending", sent |-> {}, failed |-> {}]
GivenUp == [outcome |-> "given up", sent |-> {}, failed |-> {}]

Init ==
    /\ queued = {}
    /\ told = [r \in Requests |-> Pending]

\* Some tasks of a request without a report get on a queue, again maybe.
Enqueue(r) ==
    /\ told[r] \in {Pending, GivenUp}
    /\ \E T \in SUBSET Distinct[r] : queued' = queued \cup T
    /\ UNCHANGED told

\* The request is over and accounts for all its tasks.
Tell(r) ==
    /\ told[r] = Pending
    /\ \E ok \in SUBSET (queued \cap Distinct[r]) :
         told' = [told EXCEPT ![r] = [outcome |-> "reported",
                                      sent |-> ok, failed |-> Distinct[r] \ ok]]
    /\ UNCHANGED queued

\* The request is over and nobody says what was sent.
GiveUp(r) ==
    /\ told[r] = Pending
    /\ told' = [told EXCEPT ![r] = GivenUp]
    /\ UNCHANGED queued

Next == \E r \in Requests : Enqueue(r) \/ Tell(r) \/ GiveUp(r)

Spec == Init /\ [][Next]_submissionVars
=============================================================================
