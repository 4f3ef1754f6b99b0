----------------------------- MODULE AtLeastOnce -----------------------------
(***************************************************************************)
(* What the scraping pipeline promises to the producer of a task, whatever *)
(* the number of workers and however they fail: a message leaves the queue *)
(* only after its record is in the data lake, or after a worker found a    *)
(* reason to give it up, or for the dead-letter queue.  The record of one  *)
(* message may be stored more than once, also after the message left.      *)
(***************************************************************************)
CONSTANT Messages

VARIABLES
    status,     \* where each message is
    lake,       \* the messages with a record in the data lake
    condemned   \* the messages some worker gave up

promiseVars == <<status, lake, condemned>>

PromiseTypeOK ==
    /\ status \in [Messages -> {"pending", "removed", "dead"}]
    /\ lake \subseteq Messages
    /\ condemned \subseteq Messages

Init ==
    /\ status = [m \in Messages |-> "pending"]
    /\ lake = {}
    /\ condemned = {}

\* An object with the records of some messages is stored.
Store(S) ==
    /\ lake' = lake \cup S
    /\ UNCHANGED <<status, condemned>>

\* A worker decides that a message will not be scraped.
Condemn(m) ==
    /\ condemned' = condemned \cup {m}
    /\ UNCHANGED <<status, lake>>

\* Messages that are stored or given up are deleted from the queue.
Remove(S) ==
    /\ S \subseteq lake \cup condemned
    /\ \A m \in S : status[m] = "pending"
    /\ status' = [m \in Messages |-> IF m \in S THEN "removed" ELSE status[m]]
    /\ UNCHANGED <<lake, condemned>>

\* A message that cannot be read is given up and deleted in one step.
Reject(m) ==
    /\ condemned' = condemned \cup {m}
    /\ status' = [status EXCEPT ![m] = IF @ = "pending" THEN "removed" ELSE @]
    /\ UNCHANGED lake

\* A message received too often goes to the dead-letter queue.
Bury(m) ==
    /\ status[m] = "pending"
    /\ status' = [status EXCEPT ![m] = "dead"]
    /\ UNCHANGED <<lake, condemned>>

Next ==
    \/ \E S \in SUBSET Messages : Store(S) \/ Remove(S)
    \/ \E m \in Messages : Condemn(m) \/ Reject(m) \/ Bury(m)

Spec == Init /\ [][Next]_promiseVars

\* The promise as an invariant: nothing leaves the queue without a trace.
NothingLost ==
    \A m \in Messages : status[m] = "removed" => m \in lake \cup condemned
=============================================================================
