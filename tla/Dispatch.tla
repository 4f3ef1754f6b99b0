------------------------------- MODULE Dispatch -------------------------------
(***************************************************************************)
(* How the producer puts the tasks of a bulk request on the queues         *)
(* (producer/scraping/services/scraping_service.py and its SQS adapter).   *)
(* In the background of an accepted request a mapper cuts its distinct     *)
(* tasks into batches of one kind and a sender sends them one by one; a    *)
(* bounded queue is between them; the results are added up in a report.    *)
(*                                                                         *)
(* Every HTTP request has an orchestrator of its own (dependencies.py:46), *)
(* whose sender holds at most one of the 20 permits of its semaphore: it   *)
(* never waits there, and requests share nothing but SQS.  The mapper is   *)
(* given a finer grain than asyncio, where put suspends only when full.    *)
(***************************************************************************)
EXTENDS Naturals, FiniteSets, Sequences

CONSTANTS
    Requests,
    Tasks,
    TasksOf,     \* the tasks of each request, in its order
    UrlOf,       \* the URL of each task
    Dynamic,     \* the tasks for the dynamic queue
    ChunkSize,   \* tasks in a batch: 10
    QueueSize,   \* batches between mapper and sender: 100
    Limits,      \* the values num_max_tasks may have in the environment
    MaxResends   \* BOUND: calls the AWS client sends again

Listed(r) == {TasksOf[r][i] : i \in DOMAIN TasksOf[r]}

ASSUME DispatchAssumption ==
    /\ IsFiniteSet(Tasks)
    /\ TasksOf \in [Requests -> Seq(Tasks)]
    /\ \A r, q \in Requests : r # q => Listed(r) \cap Listed(q) = {}
    /\ Dynamic \subseteq Tasks
    /\ ChunkSize \in Nat \ {0}
    /\ QueueSize \in Nat \ {0}
    /\ Limits \subseteq Nat
    /\ MaxResends \in Nat

VARIABLES
    limit,      \* NUM_MAX_TASKS of the adapters
    todo,       \* the tasks the mapper has not mapped
    mapper,     \* whether the mapper has put its end signal, or raised
    queue,      \* asyncio.Queue of each request
    sender,     \* where the sender is
    batch,      \* the batch it sends
    accepted,   \* the tasks of the batch SQS took, as its answer says
    copies,     \* the messages of each task on its queue
    sums,       \* processed and failed over the results so far
    errors,     \* the errors of the results so far, by task
    report,     \* what the request returns
    resends,
    answered    \* HISTORY: the tasks of the results so far

vars == <<limit, todo, mapper, queue, sender, batch, accepted, copies, sums,
          errors, report, resends, answered>>

\* The end signal: None in the code.  No batch is empty.
End == {}

NoReport == [total |-> 0, processed |-> 0, failed |-> 0, over |-> FALSE]

\* A plausible bug, used as a mutant of Distinct: a list in place of the dict.
DistinctIsList == [r \in Requests |-> Listed(r)]

\* create_tasks_from_request: a dict by URL keeps the last task of each.
Distinct ==
    [r \in Requests |->
       {TasksOf[r][i] : i \in {i \in DOMAIN TasksOf[r] :
           \A j \in DOMAIN TasksOf[r] :
               j > i => UrlOf[TasksOf[r][j]] # UrlOf[TasksOf[r][i]]}}]

Init ==
    /\ limit \in Limits
    /\ todo = Distinct
    /\ mapper = [r \in Requests |-> "mapping"]
    /\ queue = [r \in Requests |-> <<>>]
    /\ sender = [r \in Requests |-> "waiting"]
    /\ batch = [r \in Requests |-> {}]
    /\ accepted = [r \in Requests |-> {}]
    /\ copies = [t \in Tasks |-> 0]
    /\ sums = [r \in Requests |-> [processed |-> 0, failed |-> 0]]
    /\ errors = [r \in Requests |-> {}]
    /\ report = [r \in Requests |-> NoReport]
    /\ resends = 0
    /\ answered = [r \in Requests |-> {}]

-----------------------------------------------------------------------------
(* mapper().                                                               *)

\* The tasks the mapper is cutting: the static ones first.
Kind(r) == IF todo[r] \ Dynamic # {} THEN todo[r] \ Dynamic ELSE todo[r]

\* The next chunk, in an order left open: a full one while there are enough.
Chunks(r) ==
    {c \in SUBSET Kind(r) :
        Cardinality(c) = IF Cardinality(Kind(r)) < ChunkSize
                         THEN Cardinality(Kind(r)) ELSE ChunkSize}

\* A plausible bug, used as a mutant of Room: the queue is made without maxsize.
RoomUnbounded(r) == r \in Requests

Room(r) == Len(queue[r]) < QueueSize

\* A chunk is mapped and put; put waits for room.
Put(r) ==
    /\ mapper[r] = "mapping"
    /\ todo[r] # {}
    /\ Room(r)
    /\ \E c \in Chunks(r) :
         /\ queue' = [queue EXCEPT ![r] = Append(@, c)]
         /\ todo' = [todo EXCEPT ![r] = @ \ c]
    /\ UNCHANGED <<limit, mapper, sender, batch, accepted, copies, sums, errors,
                   report, resends, answered>>

\* A plausible bug, used as a mutant of PutEnd: put_nowait, whose error nobody
\* sees, so that the end signal is lost when the queue is full.
PutEndNoWait(r) ==
    /\ mapper[r] = "mapping"
    /\ todo[r] = {}
    /\ queue' = [queue EXCEPT ![r] = IF Room(r) THEN Append(@, End) ELSE @]
    /\ mapper' = [mapper EXCEPT ![r] = "done"]
    /\ UNCHANGED <<limit, todo, sender, batch, accepted, copies, sums, errors,
                   report, resends, answered>>

\* After the last chunk, the end signal.
PutEnd(r) ==
    /\ mapper[r] = "mapping"
    /\ todo[r] = {}
    /\ Room(r)
    /\ queue' = [queue EXCEPT ![r] = Append(@, End)]
    /\ mapper' = [mapper EXCEPT ![r] = "done"]
    /\ UNCHANGED <<limit, todo, sender, batch, accepted, copies, sums, errors,
                   report, resends, answered>>

\* A task of a chunk cannot be mapped: a ScrapingTask validates it again.  So
\* gather raises and the request is over; its sender goes on with the batches
\* that are in the queue, then waits for an end signal that never comes.
MapFails(r) ==
    /\ mapper[r] = "mapping"
    /\ todo[r] # {}
    /\ mapper' = [mapper EXCEPT ![r] = "raised"]
    /\ UNCHANGED <<limit, todo, queue, sender, batch, accepted, copies, sums, errors,
                   report, resends, answered>>

-----------------------------------------------------------------------------
(* sender() and send_batch().                                              *)

\* A batch is taken and its entries are sent.
Take(r) ==
    /\ sender[r] = "waiting"
    /\ queue[r] # <<>>
    /\ Head(queue[r]) # End
    /\ Cardinality(Head(queue[r])) <= limit
    /\ batch' = [batch EXCEPT ![r] = Head(queue[r])]
    /\ queue' = [queue EXCEPT ![r] = Tail(@)]
    /\ sender' = [sender EXCEPT ![r] = "calling"]
    /\ UNCHANGED <<limit, todo, mapper, accepted, copies, sums, errors, report,
                   resends, answered>>

\* A batch larger than the limit: send_batch raises before it tries, so does
\* gather, and the request is over; its mapper is left to itself.
Refuse(r) ==
    /\ sender[r] = "waiting"
    /\ queue[r] # <<>>
    /\ Cardinality(Head(queue[r])) > limit
    /\ queue' = [queue EXCEPT ![r] = Tail(@)]
    /\ sender' = [sender EXCEPT ![r] = "raised"]
    /\ UNCHANGED <<limit, todo, mapper, batch, accepted, copies, sums, errors,
                   report, resends, answered>>

\* SQS takes some of the entries and answers.
SQSTakes(r) ==
    /\ sender[r] = "calling"
    /\ \E ok \in SUBSET batch[r] :
         /\ accepted' = [accepted EXCEPT ![r] = ok]
         /\ copies' = [t \in Tasks |-> IF t \in ok THEN copies[t] + 1 ELSE copies[t]]
    /\ sender' = [sender EXCEPT ![r] = "taken"]
    /\ UNCHANGED <<limit, todo, mapper, queue, batch, sums, errors, report,
                   resends, answered>>

\* The answer is lost on its way and the AWS client calls again.
Resend(r) ==
    /\ sender[r] = "taken"
    /\ resends < MaxResends
    /\ resends' = resends + 1
    /\ sender' = [sender EXCEPT ![r] = "calling"]
    /\ UNCHANGED <<limit, todo, mapper, queue, batch, accepted, copies, sums,
                   errors, report, answered>>

\* A plausible bug, used as a mutant of Result: the whole batch counts as
\* processed, the failed tasks as well.
ResultCountsAll(r, failed, fatal) ==
    /\ sums' = [sums EXCEPT ![r] = [processed |-> @.processed + Cardinality(batch[r]),
                                    failed |-> @.failed + Cardinality(failed)]]
    /\ errors' = [errors EXCEPT ![r] =
         @ \cup [task : failed \ fatal, retryable : {TRUE}]
           \cup [task : fatal, retryable : {FALSE}]]
    /\ answered' = [answered EXCEPT ![r] = @ \cup batch[r]]
    /\ batch' = [batch EXCEPT ![r] = {}]
    /\ sender' = [sender EXCEPT ![r] = "waiting"]

\* A batch has its result: the tasks in failed, of which those in fatal cannot
\* be sent again.
Result(r, failed, fatal) ==
    /\ sums' = [sums EXCEPT ![r] =
         [processed |-> @.processed + (Cardinality(batch[r]) - Cardinality(failed)),
          failed |-> @.failed + Cardinality(failed)]]
    /\ errors' = [errors EXCEPT ![r] =
         @ \cup [task : failed \ fatal, retryable : {TRUE}]
           \cup [task : fatal, retryable : {FALSE}]]
    /\ answered' = [answered EXCEPT ![r] = @ \cup batch[r]]
    /\ batch' = [batch EXCEPT ![r] = {}]
    /\ sender' = [sender EXCEPT ![r] = "waiting"]

\* A plausible bug, used as a mutant of Answer: an answer is taken for success
\* and its list of failed entries is not read.
AnswerUnread(r) ==
    /\ sender[r] = "taken"
    /\ Result(r, {}, {})
    /\ UNCHANGED <<limit, todo, mapper, queue, accepted, copies, report, resends>>

\* The answer names the entries SQS did not take and whose fault it is.
Answer(r) ==
    /\ sender[r] = "taken"
    /\ \E fatal \in SUBSET (batch[r] \ accepted[r]) :
         Result(r, batch[r] \ accepted[r], fatal)
    /\ UNCHANGED <<limit, todo, mapper, queue, accepted, copies, report, resends>>

\* The call raises, whether SQS took the entries or not: all are reported as
\* failed and fit to be sent again.
CallFails(r) ==
    /\ sender[r] \in {"calling", "taken"}
    /\ Result(r, batch[r], {})
    /\ UNCHANGED <<limit, todo, mapper, queue, accepted, copies, report, resends>>

\* The end signal: the sender returns, then gather, and the results are merged.
Merge(r) ==
    /\ sender[r] = "waiting"
    /\ queue[r] # <<>>
    /\ Head(queue[r]) = End
    /\ queue' = [queue EXCEPT ![r] = Tail(@)]
    /\ sender' = [sender EXCEPT ![r] = "returned"]
    /\ report' = [report EXCEPT ![r] =
         [total |-> Cardinality(Distinct[r]), processed |-> sums[r].processed,
          failed |-> sums[r].failed, over |-> TRUE]]
    /\ UNCHANGED <<limit, todo, mapper, batch, accepted, copies, sums, errors,
                   resends, answered>>

-----------------------------------------------------------------------------

Mapper(r) == Put(r) \/ PutEnd(r)
Sender(r) ==
    \/ Take(r) \/ Refuse(r) \/ Merge(r)
    \/ SQSTakes(r) \/ Answer(r) \/ CallFails(r)

Next == \E r \in Requests : Mapper(r) \/ Sender(r) \/ MapFails(r) \/ Resend(r)

Spec == Init /\ [][Next]_vars

\* The event loop runs both coroutines, and calls end.
Fairness == \A r \in Requests : WF_vars(Mapper(r)) /\ WF_vars(Sender(r))

FairSpec == Spec /\ Fairness

-----------------------------------------------------------------------------

Batches == SUBSET Tasks

\* The type invariant; the queue never passes its bound.
DispatchTypeOK ==
    /\ limit \in Limits
    /\ todo \in [Requests -> Batches]
    /\ mapper \in [Requests -> {"mapping", "done", "raised"}]
    /\ queue \in [Requests -> Seq(Batches)]
    /\ \A r \in Requests : Len(queue[r]) <= QueueSize
    /\ sender \in [Requests -> {"waiting", "calling", "taken", "returned", "raised"}]
    /\ batch \in [Requests -> Batches]
    /\ accepted \in [Requests -> Batches]
    /\ copies \in [Tasks -> Nat]
    /\ sums \in [Requests -> [processed : Nat, failed : Nat]]
    /\ errors \in [Requests -> SUBSET [task : Tasks, retryable : BOOLEAN]]
    /\ report \in [Requests -> [total : Nat, processed : Nat, failed : Nat, over : BOOLEAN]]
    /\ resends \in 0..MaxResends
    /\ answered \in [Requests -> Batches]

Failed(r) == {e.task : e \in errors[r]}

\* A report accounts for every distinct task of the request, once: the sums
\* agree with the total and with the errors listed, and no task has two.
Accounted ==
    \A r \in Requests : report[r].over =>
        /\ report[r].processed + report[r].failed = report[r].total
        /\ report[r].failed = Cardinality(errors[r])
        /\ Failed(r) \subseteq Distinct[r]

\* No URL of a request gets on a queue in two tasks, and no task twice but by
\* the AWS client: a batch is never sent twice, nor a task in two batches.
NoDuplicates ==
    /\ \A t \in Tasks : copies[t] <= 1 + resends
    /\ \A r \in Requests : \A t, u \in Listed(r) :
         t # u /\ UrlOf[t] = UrlOf[u] => copies[t] = 0 \/ copies[u] = 0

\* One of the two coroutines raised, and gather with it.
Raised(r) == sender[r] = "raised" \/ mapper[r] = "raised"

\* Every request ends, reported or raised: mapper and sender never wait for
\* each other for ever.
RequestsEnd ==
    \A r \in Requests : <>(sender[r] = "returned" \/ Raised(r))

-----------------------------------------------------------------------------
(* What the client is owed.                                                *)

ToldOf(r) ==
    CASE report[r].over -> [outcome |-> "reported", failed |-> Failed(r),
                            sent |-> Distinct[r] \ Failed(r)]
      [] Raised(r) /\ ~report[r].over -> [outcome |-> "given up", sent |-> {}, failed |-> {}]
      [] OTHER -> [outcome |-> "pending", sent |-> {}, failed |-> {}]

Owed == INSTANCE Submission WITH
    queued <- {t \in Tasks : copies[t] > 0},
    told <- [r \in Requests |-> ToldOf(r)]

\* Every step of the producer is a step of Submission, or none: what is
\* reported as sent is on a queue, and nothing is sent after the report.
KeepsAccount == Owed!Spec
=============================================================================
