------------------------------- MODULE Worker -------------------------------
(***************************************************************************)
(* The worker pods (worker/scraping/controller.py, worker/main.py) over    *)
(* the queue and their job buffers.  Each pod runs, on one event loop, the *)
(* fetch loop (run), one coroutine per task (_process_task_wrapper), the   *)
(* ack flusher, the buffer's ticker and its background flushes, and stops  *)
(* in the order of _execute_shutdown.                                      *)
(*                                                                         *)
(* Abstracted: time, the parsers (a parse ends in any of its outcomes),    *)
(* the robots and rate limiter services (an answer at any moment, see      *)
(* RateLimiter), and the order of the ack queue and of the semaphore.      *)
(***************************************************************************)
EXTENDS JobBuffer

CONSTANTS
    Poison,           \* messages whose body is no valid ScrapingTask
    MaxConcurrency,   \* WORKER_NUM_MAX_CONCURRENT_TASKS
    RequestSize,      \* messages of one SQS request: 10, also the literal of _run_cycle
    AckBatch,         \* NUM_MAX_TASKS: entries of one acknowledgement batch
    MaxRetries,       \* max_retries of every task
    MaxDisruptions    \* BOUND: stops and crashes in a behaviour

ASSUME WorkerAssumption ==
    /\ Poison \subseteq Messages
    /\ MaxConcurrency \in Nat \ {0}
    /\ RequestSize \in Nat \ {0}
    /\ AckBatch \in Nat \ {0}
    /\ MaxRetries \in Nat
    /\ MaxDisruptions \in Nat

VARIABLES
    pc,          \* where run() is
    backoff,     \* current_backoff > 0
    asked,       \* the batch_size of the fetch in progress
    response,    \* deliveries SQS has handed to the fetch in progress
    stage,       \* where the coroutine of each delivery is
    batch,       \* the batch _gather_batch has taken from the ack queue
    disruptions, \* stops and crashes so far
    ground       \* HISTORY: why a worker gave a message up, if one did

controlVars == <<pc, backoff, asked, response>>
vars == <<sqsVars, bufferVars, controlVars, stage, batch, disruptions, ground>>

\* Refused: by robots.txt, by a fatal scraping error or as a poison message.
\* Exhausted: out of retries.
Reasons == {"refused", "exhausted"}
Stages == {"none", "waiting", "checking", "parsing"}
Stopping == {"gathering", "closing", "draining"}

TypeOK ==
    /\ QueueTypeOK
    /\ BufferTypeOK
    /\ pc \in [Workers -> {"loop", "fetching", "closed", "down"} \cup Stopping]
    /\ backoff \in [Workers -> BOOLEAN]
    /\ asked \in [Workers -> Nat]
    /\ response \in [Workers -> SUBSET Deliveries]
    /\ stage \in [Workers -> [Deliveries -> Stages]]
    /\ batch \in [Workers -> SUBSET Deliveries]
    /\ disruptions \in 0..MaxDisruptions
    /\ ground \in [Messages -> SUBSET Reasons]

Init ==
    /\ QueueInit
    /\ BufferInit
    /\ pc = [w \in Workers |-> "loop"]
    /\ backoff = [w \in Workers |-> FALSE]
    /\ asked = [w \in Workers |-> 0]
    /\ response = [w \in Workers |-> {}]
    /\ stage = [w \in Workers |-> [d \in Deliveries |-> "none"]]
    /\ batch = [w \in Workers |-> {}]
    /\ disruptions = 0
    /\ ground = [m \in Messages |-> {}]

\* self.running
Running(w) == pc[w] \in {"loop", "fetching"}

\* self._active_tasks, and those of them inside the semaphore
Active(w) == {d \in Deliveries : stage[w][d] # "none"}
Inside(w) == {d \in Deliveries : stage[w][d] \in {"checking", "parsing"}}

FreeSlots(w) == MaxConcurrency - Cardinality(Active(w))

-----------------------------------------------------------------------------
(* Plausible bugs, used as mutants of the definitions that follow.         *)

\* After an empty fetch a full request is asked for on top of the free slots.
BatchSizeAddsRequest(w) == FreeSlots(w) + (IF backoff[w] THEN RequestSize ELSE 0)

\* The coroutine is never discarded from _active_tasks.
LeaveStaysActive(w, d) == stage' = stage

\* Queued tasks wait for running again instead of leaving.
EnterWaitsForRunning(w, d) ==
    /\ stage[w][d] = "waiting"
    /\ Running(w)
    /\ Cardinality(Inside(w)) < MaxConcurrency
    /\ stage' = [stage EXCEPT ![w][d] = "checking"]
    /\ UNCHANGED <<sqsVars, bufferVars, controlVars, batch, disruptions, ground>>

\* The buffers are closed without waiting for the active tasks.
GatherActiveSkipped(w) ==
    /\ pc[w] = "gathering"
    /\ pc' = [pc EXCEPT ![w] = "closing"]
    /\ CloseFlushes(w)
    /\ UNCHANGED <<sqsVars, backoff, asked, response, stage, batch, disruptions, ground>>

\* The flusher stops at the flag with acknowledgements still queued.
FlusherExitsEarly(w) ==
    /\ pc[w] = "draining"
    /\ pc' = [pc EXCEPT ![w] = "closed"]
    /\ UNCHANGED <<sqsVars, bufferVars, backoff, asked, response, stage, batch, disruptions, ground>>

-----------------------------------------------------------------------------
(* The fetch loop.                                                         *)

\* _run_cycle: after an empty fetch it asks for a full request, else for the
\* free slots.
BatchSize(w) == IF backoff[w] THEN RequestSize ELSE FreeSlots(w)

\* A plausible bug, used as a mutant of StartFetch: the free slots are not
\* looked at before the fetch.
StartFetchAnyway(w) ==
    /\ pc[w] = "loop"
    /\ pc' = [pc EXCEPT ![w] = "fetching"]
    /\ asked' = [asked EXCEPT ![w] = BatchSize(w)]
    /\ UNCHANGED <<sqsVars, bufferVars, backoff, response, stage, batch, disruptions, ground>>

\* _run_cycle up to the await of fetch; without a free slot it waits instead.
StartFetch(w) ==
    /\ pc[w] = "loop"
    /\ FreeSlots(w) > 0
    /\ pc' = [pc EXCEPT ![w] = "fetching"]
    /\ asked' = [asked EXCEPT ![w] = BatchSize(w)]
    /\ UNCHANGED <<sqsVars, bufferVars, backoff, response, stage, batch, disruptions, ground>>

\* SQS puts one more message in the answer to the receive requests of a fetch.
Deliver(w, m) ==
    /\ pc[w] = "fetching"
    /\ Cardinality(response[w]) < asked[w]
    /\ response' = [response EXCEPT ![w] = @ \cup {NextHandle(m)}]
    /\ Receive(m)
    /\ UNCHANGED <<bufferVars, pc, backoff, asked, stage, batch, disruptions, ground>>

\* _fetch_single_batch: a body that is not a ScrapingTask is deleted at once.
DropPoison(w, d) ==
    /\ pc[w] = "fetching"
    /\ d \in response[w]
    /\ d.msg \in Poison
    /\ response' = [response EXCEPT ![w] = @ \ {d}]
    /\ Delete({d})
    /\ ground' = [ground EXCEPT ![d.msg] = @ \cup {"refused"}]
    /\ UNCHANGED <<bufferVars, pc, backoff, asked, stage, batch, disruptions>>

\* fetch returns and _run_cycle starts a coroutine per task.  The messages in
\* lost stay in flight: an unexpected error with one of them is logged, and a
\* fetch larger than one request drops the answers of those that failed.
FetchReturns(w, lost) ==
    LET tasks == response[w] \ lost
    IN  /\ pc[w] = "fetching"
        /\ lost \subseteq response[w]
        /\ \A d \in tasks : d.msg \notin Poison
        /\ pc' = [pc EXCEPT ![w] = "loop"]
        /\ backoff' = [backoff EXCEPT ![w] = (tasks = {})]
        /\ asked' = [asked EXCEPT ![w] = 0]
        /\ response' = [response EXCEPT ![w] = {}]
        /\ stage' = [stage EXCEPT ![w] =
                       [d \in Deliveries |-> IF d \in tasks THEN "waiting" ELSE @[d]]]
        /\ UNCHANGED <<sqsVars, bufferVars, batch, disruptions, ground>>

\* fetch raises (the request, or the deletion of a poison message): run() logs
\* it and goes on, and what SQS handed out stays in flight.
FetchFails(w) ==
    /\ pc[w] = "fetching"
    /\ pc' = [pc EXCEPT ![w] = "loop"]
    /\ asked' = [asked EXCEPT ![w] = 0]
    /\ response' = [response EXCEPT ![w] = {}]
    /\ UNCHANGED <<sqsVars, bufferVars, backoff, stage, batch, disruptions, ground>>

-----------------------------------------------------------------------------
(* The coroutine of a task.                                                *)

\* The coroutine ends: the semaphore is released and the done callback
\* discards it from _active_tasks.
Leave(w, d) == stage' = [stage EXCEPT ![w][d] = "none"]

\* The task is given up: it is put on the ack queue although nothing is stored.
Discard(w, d, why) ==
    /\ acks' = [acks EXCEPT ![w] = @ \cup {d}]
    /\ ground' = [ground EXCEPT ![d.msg] = @ \cup {why}]
    /\ Leave(w, d)
    /\ UNCHANGED <<sqsVars, buffer, uploads, written, lake, controlVars, batch, disruptions>>

\* A coroutine gets the semaphore; once the engine is stopping it does nothing.
Enter(w, d) ==
    /\ stage[w][d] = "waiting"
    /\ Cardinality(Inside(w)) < MaxConcurrency
    /\ \/ /\ Running(w)
          /\ stage' = [stage EXCEPT ![w][d] = "checking"]
       \/ /\ ~Running(w)
          /\ Leave(w, d)
    /\ UNCHANGED <<sqsVars, bufferVars, controlVars, batch, disruptions, ground>>

\* robots.txt forbids the URL.
RobotsDeny(w, d) ==
    /\ stage[w][d] = "checking"
    /\ Discard(w, d, "refused")

\* robots.txt allows the URL and the rate limiter grants the request.
Admit(w, d) ==
    /\ stage[w][d] = "checking"
    /\ stage' = [stage EXCEPT ![w][d] = "parsing"]
    /\ UNCHANGED <<sqsVars, bufferVars, controlVars, batch, disruptions, ground>>

\* The parser succeeds and the record goes to the job buffer.
ParseOK(w, d) ==
    /\ stage[w][d] = "parsing"
    /\ AddRecord(w, d)
    /\ Leave(w, d)
    /\ UNCHANGED <<sqsVars, controlVars, batch, disruptions, ground>>

\* ScrapingError NOT_FOUND or INVALID_SCHEMA.
ParseFatal(w, d) ==
    /\ stage[w][d] = "parsing"
    /\ Discard(w, d, "refused")

\* A recoverable ScrapingError of a task out of retries; its retry_count is
\* the receive count minus one.
ParseExhausted(w, d) ==
    /\ stage[w][d] = "parsing"
    /\ d.rc - 1 >= MaxRetries
    /\ Discard(w, d, "exhausted")

\* The task ends with its message left in flight: a recoverable error with
\* retries left (the heartbeat only changes when the message comes back), a
\* record that cannot be serialised, or any exception but a ScrapingError.
ParseAgain(w, d) ==
    /\ stage[w][d] \in {"checking", "parsing"}
    /\ Leave(w, d)
    /\ UNCHANGED <<sqsVars, bufferVars, controlVars, batch, disruptions, ground>>

-----------------------------------------------------------------------------
(* The background tasks: ticker, flushes and ack flusher.                  *)

\* The ticker lives until close() cancels it.
Ticker(w, js) ==
    /\ Running(w) \/ pc[w] = "gathering"
    /\ Tick(w, js)
    /\ UNCHANGED <<sqsVars, controlVars, stage, batch, disruptions, ground>>

\* A flush moves on: S3 stores its object, save() returns, or save() raises.
Flush(w, b) ==
    /\ PutObject(w, b) \/ UploadDone(w, b) \/ UploadFails(w, b)
    /\ UNCHANGED <<sqsVars, controlVars, stage, batch, disruptions, ground>>

\* _gather_batch takes one more task from the ack queue.
TakeAck(w, d) ==
    /\ d \in acks[w]
    /\ Cardinality(batch[w]) < AckBatch
    /\ acks' = [acks EXCEPT ![w] = @ \ {d}]
    /\ batch' = [batch EXCEPT ![w] = @ \cup {d}]
    /\ UNCHANGED <<sqsVars, buffer, uploads, written, lake, controlVars, stage, disruptions, ground>>

\* Entries are named by task_id, and SQS rejects a request that repeats one.
DistinctIds(D) == \A d, e \in D : d.msg = e.msg => d = e

\* _process_batch: SQS deletes the entries it accepts; failed ones, or the
\* whole batch if the request fails, are logged and forgotten.
SendBatch(w, accepted) ==
    /\ batch[w] # {}
    /\ accepted \subseteq batch[w]
    /\ accepted # {} => DistinctIds(batch[w])
    /\ Delete(accepted)
    /\ batch' = [batch EXCEPT ![w] = {}]
    /\ UNCHANGED <<bufferVars, controlVars, stage, disruptions, ground>>

-----------------------------------------------------------------------------
(* Shutdown, crash and restart.                                            *)

\* SIGTERM: stop() clears running and cancels run(), and with it the fetch in
\* progress, whatever SQS has already answered.
Stop(w) ==
    /\ Running(w)
    /\ disruptions < MaxDisruptions
    /\ disruptions' = disruptions + 1
    /\ pc' = [pc EXCEPT ![w] = "gathering"]
    /\ asked' = [asked EXCEPT ![w] = 0]
    /\ response' = [response EXCEPT ![w] = {}]
    /\ UNCHANGED <<sqsVars, bufferVars, backoff, stage, batch, ground>>

\* Step 1 ends and step 2 begins: no task is active, the buffer service closes.
GatherActive(w) ==
    /\ pc[w] = "gathering"
    /\ Active(w) = {}
    /\ pc' = [pc EXCEPT ![w] = "closing"]
    /\ CloseFlushes(w)
    /\ UNCHANGED <<sqsVars, backoff, asked, response, stage, batch, disruptions, ground>>

\* Step 2 ends: all is uploaded or failed, and the flusher is told to exit.
CloseBuffers(w) ==
    /\ pc[w] = "closing"
    /\ CloseReturns(w)
    /\ pc' = [pc EXCEPT ![w] = "draining"]
    /\ UNCHANGED <<sqsVars, backoff, asked, response, stage, batch, disruptions, ground>>

\* Step 4 ends: the flusher found the flag set and its queue empty.
FlusherExits(w) ==
    /\ pc[w] = "draining"
    /\ acks[w] = {} /\ batch[w] = {}
    /\ pc' = [pc EXCEPT ![w] = "closed"]
    /\ UNCHANGED <<sqsVars, bufferVars, backoff, asked, response, stage, batch, disruptions, ground>>

\* The pod is killed (out of memory, node loss, end of the grace period).
Crash(w) ==
    /\ pc[w] \notin {"closed", "down"}
    /\ disruptions < MaxDisruptions
    /\ disruptions' = disruptions + 1
    /\ pc' = [pc EXCEPT ![w] = "down"]
    /\ asked' = [asked EXCEPT ![w] = 0]
    /\ response' = [response EXCEPT ![w] = {}]
    /\ stage' = [stage EXCEPT ![w] = [d \in Deliveries |-> "none"]]
    /\ batch' = [batch EXCEPT ![w] = {}]
    /\ LoseBuffers(w)
    /\ UNCHANGED <<sqsVars, backoff, ground>>

\* Kubernetes starts a pod in the place of one that ended.
Start(w) ==
    /\ pc[w] \in {"closed", "down"}
    /\ pc' = [pc EXCEPT ![w] = "loop"]
    /\ backoff' = [backoff EXCEPT ![w] = FALSE]
    /\ UNCHANGED <<sqsVars, bufferVars, asked, response, stage, batch, disruptions, ground>>

\* Steps of the queue itself.
QueueStep(m) ==
    /\ Expire(m) \/ Redrive(m)
    /\ UNCHANGED <<bufferVars, controlVars, stage, batch, disruptions, ground>>

-----------------------------------------------------------------------------

FetchStep(w) ==
    \/ StartFetch(w)
    \/ \E m \in Messages : Deliver(w, m)
    \/ \E d \in response[w] : DropPoison(w, d)
    \/ \E lost \in SUBSET response[w] : FetchReturns(w, lost)
    \/ FetchFails(w)

TaskStep(w, d) ==
    \/ Enter(w, d)
    \/ RobotsDeny(w, d)
    \/ Admit(w, d)
    \/ ParseOK(w, d)
    \/ ParseFatal(w, d)
    \/ ParseExhausted(w, d)
    \/ ParseAgain(w, d)

BackgroundStep(w) ==
    \/ \E js \in SUBSET Jobs : Ticker(w, js)
    \/ \E b \in uploads[w] \cup written[w] : Flush(w, b)
    \/ \E d \in acks[w] : TakeAck(w, d)
    \/ \E accepted \in SUBSET batch[w] : SendBatch(w, accepted)

ShutdownStep(w) == GatherActive(w) \/ CloseBuffers(w) \/ FlusherExits(w)

Next ==
    \/ \E w \in Workers :
         \/ FetchStep(w)
         \/ \E d \in Deliveries : TaskStep(w, d)
         \/ BackgroundStep(w)
         \/ ShutdownStep(w)
         \/ Stop(w)
         \/ Crash(w)
         \/ Start(w)
    \/ \E m \in Messages : QueueStep(m)

Spec == Init /\ [][Next]_vars

\* What the schedulers guarantee.  Every await of a worker ends (SQS long
\* polling and every client have timeouts), its tasks get their turn on the
\* event loop, and Kubernetes restarts pods; nothing obliges a pod to stop or
\* to crash, or a call to succeed.  SQS ends the invisibility of a message,
\* and does not hide a visible message forever from workers that keep asking.
Fairness ==
    /\ \A w \in Workers :
         /\ WF_vars(StartFetch(w))
         /\ WF_vars((\E lost \in SUBSET response[w] : FetchReturns(w, lost)) \/ FetchFails(w))
         /\ WF_vars(\E d \in Deliveries : TaskStep(w, d))
         /\ WF_vars(\E js \in SUBSET Jobs : Ticker(w, js))
         /\ WF_vars(\E b \in uploads[w] \cup written[w] : Flush(w, b))
         /\ WF_vars(\E d \in acks[w] : TakeAck(w, d))
         /\ WF_vars(\E accepted \in SUBSET batch[w] : SendBatch(w, accepted))
         /\ WF_vars(ShutdownStep(w))
         /\ WF_vars(Start(w))
    /\ \A m \in Messages :
         /\ WF_vars(QueueStep(m))
         /\ SF_vars(\E w \in Workers : Deliver(w, m))

FairSpec == Spec /\ Fairness

-----------------------------------------------------------------------------
(* Safety.                                                                 *)

Recorded(m) == \E d \in lake : d.msg = m

\* No message is deleted from the queue unless its record is in the data lake
\* or a worker gave it up for a reason: whatever crashes, expires, is stored
\* twice or acknowledged late ("At-Least-Once", storage_buffer.py:96).
NothingLost ==
    \A m \in Messages : queue[m] = "deleted" => Recorded(m) \/ ground[m] # {}

\* A worker only acknowledges what it stored itself or what was given up: the
\* order "store, then acknowledge" of _flush_buffer_to_storage survives every
\* interleaving of flushes, flusher and shutdown.
AckAfterStore ==
    \A w \in Workers : \A d \in acks[w] \cup batch[w] :
        d \in lake \/ ground[d.msg] # {}

\* The places of a worker that hold deliveries.
Held(w) ==
    response[w] \cup Active(w) \cup buffer[w] \cup Flushing(w) \cup acks[w] \cup batch[w]

\* A delivery is in one place of its worker, so it is parsed, stored and
\* acknowledged at most once; close() alone uploads from buffers it keeps.
OnePlace ==
    \A w \in Workers :
        /\ Active(w) \cap (response[w] \cup buffer[w] \cup Flushing(w) \cup acks[w] \cup batch[w]) = {}
        /\ response[w] \cap (buffer[w] \cup Flushing(w) \cup acks[w] \cup batch[w]) = {}
        /\ Flushing(w) \cap (acks[w] \cup batch[w]) = {}
        /\ acks[w] \cap batch[w] = {}
        /\ pc[w] # "closing" => buffer[w] \cap (Flushing(w) \cup acks[w] \cup batch[w]) = {}

\* No delivery is uploaded again once it is in the lake: every duplicate there
\* comes from a redelivery by the queue, none from the race of add_record,
\* ticker and close over the same buffer.
StoredOnce ==
    \A w \in Workers : lake \cap (response[w] \cup Active(w) \cup UNION uploads[w]) = {}

\* A worker that stopped gracefully holds nothing: no record in RAM, no flush
\* under way, no acknowledgement it decided on and did not send.
CleanStop ==
    \A w \in Workers : pc[w] = "closed" => Held(w) = {}

\* The order of the shutdown: each step of _execute_shutdown finds what it
\* needs done, so nothing reappears in a place a later step has emptied.
ShutdownOrder ==
    \A w \in Workers :
        /\ pc[w] # "fetching" => response[w] = {}
        /\ pc[w] \in {"closing", "draining", "closed", "down"} => Active(w) = {}
        /\ pc[w] \in {"draining", "closed", "down"} =>
             buffer[w] = {} /\ uploads[w] = {} /\ written[w] = {}
        /\ pc[w] \in {"closed", "down"} => acks[w] = {} /\ batch[w] = {}

\* What S3 stored for a flush that has not resumed yet is in the lake.
WrittenIsStored ==
    \A w \in Workers : \A b \in written[w] : b \subseteq lake

\* "fetch adaptativo segun slots disponibles" (README.md:118) holds up to less
\* than one request: after an empty fetch, _run_cycle asks for a full request
\* whatever the slots that are free.
ActiveBound ==
    \A w \in Workers :
        Cardinality(Active(w)) + Cardinality(response[w])
            <= MaxConcurrency - 1 + (IF RequestSize > 1 THEN RequestSize ELSE 1)

-----------------------------------------------------------------------------
(* Liveness.                                                               *)

\* Every message leaves the queue in the end, deleted or buried: no slot,
\* semaphore, batch or visibility timeout is lost for good.
EveryMessageSettles ==
    \A m \in Messages : <>(queue[m] \in {"deleted", "dlq"})

\* A graceful shutdown ends, or the pod is killed first.
StopEnds ==
    \A w \in Workers : pc[w] = "gathering" ~> pc[w] \in {"closed", "down"}

\* A record never stays in RAM: its buffer is flushed even if no other record
\* of its job arrives (the ticker of storage_buffer.py:127).
RecordLeavesRam ==
    \A w \in Workers : \A d \in Deliveries : d \in buffer[w] ~> d \notin buffer[w]

-----------------------------------------------------------------------------
(* The workers implement the promise of the pipeline.                      *)

StatusOf(m) ==
    CASE queue[m] = "deleted" -> "removed"
      [] queue[m] = "dlq" -> "dead"
      [] OTHER -> "pending"

Promise == INSTANCE AtLeastOnce WITH
    status <- [m \in Messages |-> StatusOf(m)],
    lake <- {m \in Messages : Recorded(m)},
    condemned <- {m \in Messages : ground[m] # {}}

\* Every step of the workers is a step of the abstract pipeline, or none.
KeepsPromise == Promise!Spec
=============================================================================
