-------------------------------- MODULE SQS --------------------------------
(***************************************************************************)
(* The task queue as the workers see it: an SQS standard queue with a      *)
(* visibility timeout and a redrive policy (infra/init-aws.sh).  The queue *)
(* is outside src/; this is what its clients rely on.                      *)
(*                                                                         *)
(* Every receive of a message raises its receive count and gives out a new *)
(* receipt handle, so the pair (message, receive count) IS the handle.     *)
(* Only the newest handle of a message can delete it.  Time is abstracted: *)
(* a message in flight may become visible again at any moment, which       *)
(* covers both the queue's timeout and the one set by a heartbeat.         *)
(***************************************************************************)
EXTENDS Naturals, FiniteSets

CONSTANTS
    Messages,         \* the scraping tasks sent to the queue
    MaxReceiveCount   \* redrive policy: receives before the dead-letter queue

ASSUME SQSAssumption ==
    /\ IsFiniteSet(Messages)
    /\ MaxReceiveCount \in Nat \ {0}

VARIABLES
    queue,     \* where each message is
    receives   \* ApproximateReceiveCount of each message

sqsVars == <<queue, receives>>

\* A delivery is one receive of a message: the worker's ScrapingTask with the
\* handle it was received under in context["_sqs_handle"].
Deliveries == [msg : Messages, rc : 1..MaxReceiveCount]

QueueTypeOK ==
    /\ queue \in [Messages -> {"visible", "inflight", "deleted", "dlq"}]
    /\ receives \in [Messages -> 0..MaxReceiveCount]

QueueInit ==
    /\ queue = [m \in Messages |-> "visible"]
    /\ receives = [m \in Messages |-> 0]

NextHandle(m) == [msg |-> m, rc |-> receives[m] + 1]

\* ReceiveMessage hands out one message.
Receive(m) ==
    /\ queue[m] = "visible"
    /\ receives[m] < MaxReceiveCount
    /\ queue' = [queue EXCEPT ![m] = "inflight"]
    /\ receives' = [receives EXCEPT ![m] = @ + 1]

\* The newest handle of a message still in the queue, visible or not.
Current(d) ==
    /\ queue[d.msg] \in {"visible", "inflight"}
    /\ d.rc = receives[d.msg]

\* DeleteMessage: deleting with an old handle succeeds and deletes nothing.
Delete(D) ==
    /\ queue' = [m \in Messages |->
                   IF \E d \in D : d.msg = m /\ Current(d) THEN "deleted" ELSE queue[m]]
    /\ UNCHANGED receives

\* The visibility timeout of a message in flight runs out.
Expire(m) ==
    /\ queue[m] = "inflight"
    /\ queue' = [queue EXCEPT ![m] = "visible"]
    /\ UNCHANGED receives

\* A message received MaxReceiveCount times is moved at its next receive.
Redrive(m) ==
    /\ queue[m] = "visible"
    /\ receives[m] = MaxReceiveCount
    /\ queue' = [queue EXCEPT ![m] = "dlq"]
    /\ UNCHANGED receives
=============================================================================
