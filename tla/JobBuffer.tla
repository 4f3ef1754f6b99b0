------------------------------ MODULE JobBuffer ------------------------------
(***************************************************************************)
(* JobBufferService (worker/scraping/services/storage_buffer.py): parsed   *)
(* records wait in RAM in one buffer per job, full or old buffers are      *)
(* uploaded by background tasks, and only an upload that succeeded hands   *)
(* its tasks to the acknowledgement queue.                                 *)
(*                                                                         *)
(* A record is the delivery it was parsed from.  Its size and age are      *)
(* abstracted: whether a limit is reached is a choice.  asyncio runs one   *)
(* task at a time, so what happens between two awaits is one action.       *)
(***************************************************************************)
EXTENDS SQS

CONSTANTS
    Workers,   \* the worker pods
    Jobs,      \* the scraping jobs
    JobOf      \* job_id of each message

ASSUME JobAssumption == JobOf \in [Messages -> Jobs]

VARIABLES
    buffer,    \* _buffers: the records in RAM of each worker, of all its jobs
    uploads,   \* flushes whose put_object S3 has not answered yet
    written,   \* flushes S3 has stored, whose task has not resumed yet
    lake,      \* the records in the raw objects of the data lake
    acks       \* ack_queue of each worker

bufferVars == <<buffer, uploads, written, lake, acks>>

BufferTypeOK ==
    /\ buffer \in [Workers -> SUBSET Deliveries]
    /\ uploads \in [Workers -> SUBSET (SUBSET Deliveries)]
    /\ written \in [Workers -> SUBSET (SUBSET Deliveries)]
    /\ lake \in SUBSET Deliveries
    /\ acks \in [Workers -> SUBSET Deliveries]

BufferInit ==
    /\ buffer = [w \in Workers |-> {}]
    /\ uploads = [w \in Workers |-> {}]
    /\ written = [w \in Workers |-> {}]
    /\ lake = {}
    /\ acks = [w \in Workers |-> {}]

\* The records of one job among some records.
OfJob(j, records) == {d \in records : JobOf[d.msg] = j}

Flushing(w) == UNION (uploads[w] \cup written[w])

-----------------------------------------------------------------------------
(* Plausible bugs, used as mutants of the definitions that follow.         *)

\* The flush copies the buffer instead of popping it.
AddRecordKeepsBuffer(w, d) ==
    LET records == buffer[w] \cup {d}
        mates == OfJob(JobOf[d.msg], records)
    IN  /\ buffer' = [buffer EXCEPT ![w] = records]
        /\ \/ UNCHANGED uploads
           \/ uploads' = [uploads EXCEPT ![w] = @ \cup {mates}]
        /\ UNCHANGED <<written, lake, acks>>

\* The ticker takes the age limit for a size limit: a lone record never leaves.
TickSkips(w, js) ==
    /\ js # {}
    /\ \A j \in js : Cardinality(OfJob(j, buffer[w])) > 1
    /\ buffer' = [buffer EXCEPT ![w] = {d \in @ : JobOf[d.msg] \notin js}]
    /\ uploads' = [uploads EXCEPT ![w] = @ \cup {OfJob(j, buffer[w]) : j \in js}]
    /\ UNCHANGED <<written, lake, acks>>

\* The tasks are queued for acknowledgement in a "finally".
UploadFailsAcks(w, b) ==
    /\ b \in uploads[w] \cup written[w]
    /\ uploads' = [uploads EXCEPT ![w] = @ \ {b}]
    /\ written' = [written EXCEPT ![w] = @ \ {b}]
    /\ acks' = [acks EXCEPT ![w] = @ \cup b]
    /\ UNCHANGED <<buffer, lake>>

-----------------------------------------------------------------------------

\* add_record: the record joins the buffer of its job; when a limit is reached
\* the whole buffer is popped and a background flush of it is started.
AddRecord(w, d) ==
    LET records == buffer[w] \cup {d}
        mates == OfJob(JobOf[d.msg], records)
    IN  /\ \/ /\ buffer' = [buffer EXCEPT ![w] = records]
              /\ UNCHANGED uploads
           \/ /\ buffer' = [buffer EXCEPT ![w] = records \ mates]
              /\ uploads' = [uploads EXCEPT ![w] = @ \cup {mates}]
        /\ UNCHANGED <<written, lake, acks>>

\* One round of the ticker: the buffers of the jobs js, old enough, are popped
\* and a flush of each is started, all under the lock and without an await.
Tick(w, js) ==
    /\ js # {}
    /\ \A j \in js : OfJob(j, buffer[w]) # {}
    /\ buffer' = [buffer EXCEPT ![w] = {d \in @ : JobOf[d.msg] \notin js}]
    /\ uploads' = [uploads EXCEPT ![w] = @ \cup {OfJob(j, buffer[w]) : j \in js}]
    /\ UNCHANGED <<written, lake, acks>>

\* S3 stores the object of a flush.
PutObject(w, b) ==
    /\ b \in uploads[w]
    /\ uploads' = [uploads EXCEPT ![w] = @ \ {b}]
    /\ written' = [written EXCEPT ![w] = @ \cup {b}]
    /\ lake' = lake \cup b
    /\ UNCHANGED <<buffer, acks>>

\* save() returned: every task of the flush is put on the ack queue.
UploadDone(w, b) ==
    /\ b \in written[w]
    /\ written' = [written EXCEPT ![w] = @ \ {b}]
    /\ acks' = [acks EXCEPT ![w] = @ \cup b]
    /\ UNCHANGED <<buffer, uploads, lake>>

\* save() raised, whether or not S3 stored the object (a lost answer): the
\* records leave RAM and nothing is acknowledged.
UploadFails(w, b) ==
    /\ b \in uploads[w] \cup written[w]
    /\ uploads' = [uploads EXCEPT ![w] = @ \ {b}]
    /\ written' = [written EXCEPT ![w] = @ \ {b}]
    /\ UNCHANGED <<buffer, lake, acks>>

\* close(), up to its gathers: every buffer is flushed and stays in _buffers.
CloseFlushes(w) ==
    /\ uploads' = [uploads EXCEPT ![w] =
                     @ \cup {OfJob(j, buffer[w]) : j \in {JobOf[d.msg] : d \in buffer[w]}}]
    /\ UNCHANGED <<buffer, written, lake, acks>>

\* close(), from its gathers on: no flush is left and _buffers is cleared.
CloseReturns(w) ==
    /\ uploads[w] = {} /\ written[w] = {}
    /\ buffer' = [buffer EXCEPT ![w] = {}]
    /\ UNCHANGED <<uploads, written, lake, acks>>

\* The process dies: what was in RAM is gone, what S3 stored stays.
LoseBuffers(w) ==
    /\ buffer' = [buffer EXCEPT ![w] = {}]
    /\ uploads' = [uploads EXCEPT ![w] = {}]
    /\ written' = [written EXCEPT ![w] = {}]
    /\ acks' = [acks EXCEPT ![w] = {}]
    /\ UNCHANGED lake
=============================================================================
