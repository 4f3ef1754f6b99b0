------------------------------ MODULE Compactor ------------------------------
(***************************************************************************)
(* The data lake compactor (jobs/compact_s3.py), a CronJob: it lists the   *)
(* raw objects of every job, merges those of an eligible job into Parquet  *)
(* parts, deletes (or tags) the objects it has merged, and purges raw      *)
(* objects past their retention.  Runs may overlap when one is launched by *)
(* hand (jobs/README.md), and the workers keep writing meanwhile.          *)
(*                                                                         *)
(* Abstracted: sizes count objects, an age is one of three, and a run that *)
(* raises, is cancelled with its siblings by gather, or is killed has      *)
(* stopped after any of its steps (Abort).                                 *)
(***************************************************************************)
EXTENDS Naturals, FiniteSets

CONSTANTS
    Jobs,         \* job prefixes of the landing zone
    Objects,      \* raw objects the workers write
    Lines,        \* records in them
    JobOf,        \* the job of each object
    LinesOf,      \* the records of each object
    Runs,         \* executions that may be under way at one time
    MinObjects,   \* MIN_BYTES_FOR_COMPACTION, in objects
    MaxParallel,  \* permits of compaction_semaphore
    DeleteRaw,    \* settings.delete_raw_after_compaction
    MaxFailures   \* BOUND: aborted runs, failed deletions, tags and tag reads

ASSUME CompactorAssumption ==
    /\ JobOf \in [Objects -> Jobs]
    /\ LinesOf \in [Objects -> SUBSET Lines \ {{}}]   \* no flush is empty
    /\ MinObjects \in Nat
    /\ MaxParallel \in Nat \ {0}
    /\ DeleteRaw \in BOOLEAN
    /\ MaxFailures \in Nat

VARIABLES
    age,       \* of each object since LastModified; "unborn" before it is written
    young,     \* TIME: those not stale yet when the runs now under way began
    raw,       \* the objects in the landing zone
    tagged,    \* the objects tagged compacted=true
    parts,     \* the Parquet parts in the analytical lake
    purged,    \* HISTORY: the objects deleted for their age
    pc,        \* where main() of each run is
    work,      \* process_job of each run and job
    failures

vars == <<age, young, raw, tagged, parts, purged, pc, work, failures>>

Ages == {"unborn", "fresh", "stale", "expired"}

\* A job of a run: batches are what the listing found, todo those not opened
\* yet, open the unread lines of the open one, rows those in the local file.
Works == [at : {"absent", "unlisted", "listed", "reading", "merged", "over"},
          batches : SUBSET Objects, eligible : BOOLEAN,
          todo : SUBSET Objects, open : SUBSET Lines, rows : SUBSET Lines]

Idle(at) == [at |-> at, batches |-> {}, eligible |-> FALSE,
             todo |-> {}, open |-> {}, rows |-> {}]

\* An uploaded part; the number stands for the random suffix of its key.
Parts == [nr : Nat, job : Jobs, lines : SUBSET Lines]

\* The type invariant: a job never reads an object its listing did not find.
CompactorTypeOK ==
    /\ age \in [Objects -> Ages]
    /\ young \subseteq Objects
    /\ raw \subseteq Objects
    /\ tagged \subseteq Objects
    /\ parts \subseteq Parts
    /\ purged \subseteq Objects
    /\ pc \in [Runs -> {"idle", "listing", "compacting"}]
    /\ work \in [Runs -> [Jobs -> Works]]
    /\ \A r \in Runs, j \in Jobs : work[r][j].todo \subseteq work[r][j].batches
    /\ failures \in 0..MaxFailures

Init ==
    /\ age = [o \in Objects |-> "unborn"]
    /\ young = {}
    /\ raw = {}
    /\ tagged = {}
    /\ parts = {}
    /\ purged = {}
    /\ pc = [r \in Runs |-> "idle"]
    /\ work = [r \in Runs |-> [j \in Jobs |-> Idle("absent")]]
    /\ failures = 0

\* The records that are safe in the analytical lake.
Consolidated == UNION {p.lines : p \in parts}

OfJob(j) == {o \in raw : JobOf[o] = j}

Expired == {o \in raw : age[o] = "expired"}

Compacting(r) == {j \in Jobs : work[r][j].at \in {"reading", "merged"}}

Fail ==
    /\ failures < MaxFailures
    /\ failures' = failures + 1

\* A step of process_job for job j.
Progress(r, j, new) == work' = [work EXCEPT ![r][j] = new]

-----------------------------------------------------------------------------
(* Plausible bugs, used as mutants of the definitions that follow.         *)

\* Size and inactivity are both required.
EligibleNeedsBoth(S) ==
    /\ S # {}
    /\ Cardinality(S) >= MinObjects /\ \A o \in S : age[o] # "fresh"

\* The job is listed again when its turn comes.
StartJobRelists(r, j) ==
    /\ pc[r] = "compacting"
    /\ work[r][j].at = "listed"
    /\ Cardinality(Compacting(r)) < MaxParallel
    /\ LET w == work[r][j]
       IN  Progress(r, j, IF w.eligible
                            THEN [w EXCEPT !.at = "reading", !.todo = OfJob(j)]
                            ELSE Idle("over"))
    /\ UNCHANGED <<age, young, raw, tagged, parts, purged, pc, failures>>

\* The new file goes on with the rows of the one just uploaded.
SplitFileKeepsRows(r, j) ==
    /\ work[r][j].at = "reading"
    /\ work[r][j].rows # {}
    /\ work[r][j].todo # {}
    /\ parts' = parts \cup
         {[nr |-> Cardinality(parts) + 1, job |-> j, lines |-> work[r][j].rows]}
    /\ UNCHANGED <<age, young, raw, tagged, purged, pc, work, failures>>

\* Everything under the job's prefix is deleted or tagged, not the batches.
ClearJobPrefix(r, j, done) ==
    /\ work[r][j].at = "merged"
    /\ UNCHANGED failures
    /\ IF DeleteRaw
         THEN raw' = raw \ OfJob(j) /\ UNCHANGED tagged
         ELSE tagged' = tagged \cup OfJob(j) /\ UNCHANGED raw
    /\ Progress(r, j, Idle("over"))
    /\ UNCHANGED <<age, young, parts, purged, pc>>

-----------------------------------------------------------------------------
(* The workers and the clock.                                              *)

\* A worker's flush writes an object (JobBuffer).
WorkerWrites(o) ==
    /\ age[o] = "unborn"
    /\ age' = [age EXCEPT ![o] = "fresh"]
    /\ raw' = raw \cup {o}
    /\ UNCHANGED <<young, tagged, parts, purged, pc, work, failures>>

\* Some run is under way.
UnderWay == \E r \in Runs : pc[r] # "idle"

\* An object in the bucket passes MIN_INACTIVITY_SECONDS (minutes), then
\* raw_data_retention_days, be it in the middle of a run.  TIME: the runs do not
\* go on without a pause for the days between the two.
GrowOld(o) ==
    /\ o \in raw
    /\ age[o] \in {"fresh", "stale"}
    /\ age[o] = "stale" /\ UnderWay => o \notin young
    /\ age' = [age EXCEPT ![o] = IF @ = "fresh" THEN "stale" ELSE "expired"]
    /\ UNCHANGED <<young, raw, tagged, parts, purged, pc, work, failures>>

-----------------------------------------------------------------------------
(* A run: main().                                                          *)

\* get_list_of_jobs: the prefixes in the landing zone at this moment.
StartRun(r) ==
    /\ pc[r] = "idle"
    /\ pc' = [pc EXCEPT ![r] = "listing"]
    /\ work' = [work EXCEPT ![r] = [j \in Jobs |->
                  Idle(IF OfJob(j) = {} THEN "absent" ELSE "unlisted")]]
    /\ young' = IF UnderWay THEN young
                ELSE {o \in Objects : age[o] \in {"unborn", "fresh"}}
    /\ UNCHANGED <<age, raw, tagged, parts, purged, failures>>

\* _is_job_eligible: the job is big, or all its objects are old enough.
Eligible(S) ==
    /\ S # {}
    /\ Cardinality(S) >= MinObjects \/ \A o \in S : age[o] # "fresh"

\* get_list_of_batches: the objects of the job without the tag; an object
\* whose tag cannot be read counts as not compacted.
ListBatches(r, j, unreadable) ==
    /\ pc[r] = "listing"
    /\ work[r][j].at = "unlisted"
    /\ unreadable \subseteq OfJob(j) \cap tagged
    /\ IF unreadable = {} THEN UNCHANGED failures ELSE Fail
    /\ LET found == (OfJob(j) \ tagged) \cup unreadable
       IN  Progress(r, j, [Idle("listed") EXCEPT
                             !.batches = found, !.eligible = Eligible(found)])
    /\ UNCHANGED <<age, young, raw, tagged, parts, purged, pc>>

\* Every listing is in: process_job is called for each job.
StartCompaction(r) ==
    /\ pc[r] = "listing"
    /\ \A j \in Jobs : work[r][j].at # "unlisted"
    /\ pc' = [pc EXCEPT ![r] = "compacting"]
    /\ UNCHANGED <<age, young, raw, tagged, parts, purged, work, failures>>

\* process_job gets the semaphore; a job that is not eligible is over.
StartJob(r, j) ==
    /\ pc[r] = "compacting"
    /\ work[r][j].at = "listed"
    /\ Cardinality(Compacting(r)) < MaxParallel
    /\ LET w == work[r][j]
       IN  Progress(r, j, IF w.eligible
                            THEN [w EXCEPT !.at = "reading", !.todo = w.batches]
                            ELSE Idle("over"))
    /\ UNCHANGED <<age, young, raw, tagged, parts, purged, pc, failures>>

\* get_object of the next batch; it raises if the object is gone.
OpenBatch(r, j, o) ==
    /\ work[r][j].at = "reading"
    /\ work[r][j].open = {}
    /\ o \in work[r][j].todo \cap raw
    /\ Progress(r, j, [work[r][j] EXCEPT !.todo = @ \ {o}, !.open = LinesOf[o]])
    /\ UNCHANGED <<age, young, raw, tagged, parts, purged, pc, failures>>

\* append_record of one line.
AppendRecord(r, j, l) ==
    /\ work[r][j].at = "reading"
    /\ l \in work[r][j].open
    /\ Progress(r, j, [work[r][j] EXCEPT !.open = @ \ {l}, !.rows = @ \cup {l}])
    /\ UNCHANGED <<age, young, raw, tagged, parts, purged, pc, failures>>

\* _upload_compacted_file.
Upload(r, j) ==
    parts' = parts \cup
        {[nr |-> Cardinality(parts) + 1, job |-> j, lines |-> work[r][j].rows]}

\* check_and_perform_split, after a full chunk: the local file is over its
\* size and batches remain, so it is uploaded as a part and a new one begun.
SplitFile(r, j) ==
    /\ work[r][j].at = "reading"
    /\ work[r][j].rows # {}
    /\ work[r][j].todo # {}
    /\ Upload(r, j)
    /\ Progress(r, j, [work[r][j] EXCEPT !.rows = {}])
    /\ UNCHANGED <<age, young, raw, tagged, purged, pc, failures>>

\* All lines are read: the last chunk is flushed and the last file uploaded.
\* (No part at all, for which the code has a return, takes batches of no lines.)
UploadLast(r, j) ==
    /\ work[r][j].at = "reading"
    /\ work[r][j].todo = {} /\ work[r][j].open = {}
    /\ IF work[r][j].rows = {} THEN UNCHANGED parts ELSE Upload(r, j)
    /\ Progress(r, j, [work[r][j] EXCEPT !.at = "merged", !.rows = {}])
    /\ UNCHANGED <<age, young, raw, tagged, purged, pc, failures>>

\* clear_job or tag_batches_as_compacted: errors are swallowed, so any part of
\* the batches is deleted or tagged and the job counts as compacted all the same.
ClearJob(r, j, done) ==
    /\ work[r][j].at = "merged"
    /\ done \subseteq work[r][j].batches
    /\ IF done = work[r][j].batches THEN UNCHANGED failures ELSE Fail
    /\ IF DeleteRaw
         THEN raw' = raw \ done /\ UNCHANGED tagged
         ELSE tagged' = tagged \cup (done \cap raw) /\ UNCHANGED raw
    /\ Progress(r, j, Idle("over"))
    /\ UNCHANGED <<age, young, parts, purged, pc>>

\* The run is over, and the time without a pause if it was the only one.
Leave(r) ==
    /\ pc' = [pc EXCEPT ![r] = "idle"]
    /\ young' = IF \A s \in Runs \ {r} : pc[s] = "idle" THEN {} ELSE young

\* purge_expired_raw_data, when every job is over: expired objects are deleted
\* whether or not they have been merged; an error may leave some.  The run ends.
Purge(r, done) ==
    /\ pc[r] = "compacting"
    /\ \A j \in Jobs : work[r][j].at \in {"absent", "over"}
    /\ done \subseteq Expired
    /\ IF done = Expired THEN UNCHANGED failures ELSE Fail
    /\ raw' = raw \ done
    /\ purged' = purged \cup done
    /\ Leave(r)
    /\ UNCHANGED <<age, tagged, parts, work>>

\* The run ends where it is: gather lets the first exception through and the
\* other jobs of the run are cancelled, their local files lost.
EndRun(r) ==
    /\ Leave(r)
    /\ work' = [work EXCEPT ![r] = [j \in Jobs |-> Idle("absent")]]
    /\ UNCHANGED <<age, raw, tagged, parts, purged>>

\* get_object raises: an overlapping run has deleted the batch.
BatchGone(r, j) ==
    /\ work[r][j].at = "reading"
    /\ work[r][j].open = {}
    /\ ~(work[r][j].todo \subseteq raw)
    /\ EndRun(r)
    /\ UNCHANGED failures

\* Any other error, or the pod is killed.
Abort(r) ==
    /\ pc[r] # "idle"
    /\ Fail
    /\ EndRun(r)

-----------------------------------------------------------------------------

JobStep(r, j) ==
    \/ \E unreadable \in SUBSET OfJob(j) : ListBatches(r, j, unreadable)
    \/ StartJob(r, j)
    \/ \E o \in Objects : OpenBatch(r, j, o)
    \/ \E l \in Lines : AppendRecord(r, j, l)
    \/ SplitFile(r, j)
    \/ UploadLast(r, j)
    \/ \E done \in SUBSET work[r][j].batches : ClearJob(r, j, done)
    \/ BatchGone(r, j)

RunStep(r) ==
    \/ StartCompaction(r)
    \/ \E j \in Jobs : JobStep(r, j)
    \/ \E done \in SUBSET Expired : Purge(r, done)

Next ==
    \/ \E o \in Objects : WorkerWrites(o) \/ GrowOld(o)
    \/ \E r \in Runs : StartRun(r) \/ RunStep(r) \/ Abort(r)

Spec == Init /\ [][Next]_vars

\* The CronJob comes round, a run that is not killed goes on, minutes pass; no
\* object need ever reach its retention.
Fairness ==
    /\ \A r \in Runs : WF_vars(StartRun(r)) /\ WF_vars(RunStep(r))
    /\ \A o \in Objects : WF_vars(age[o] = "fresh" /\ GrowOld(o))

FairSpec == Spec /\ Fairness

-----------------------------------------------------------------------------

Written(o) == age[o] # "unborn"

\* A raw object leaves the landing zone only when every record of it is in the
\* analytical lake, or for its age: whatever the workers write while a run is
\* under way, wherever it is interrupted, and with a second run beside it.
LeavesMerged ==
    \A o \in Objects :
        Written(o) /\ o \notin raw => LinesOf[o] \subseteq Consolidated \/ o \in purged

\* An object tagged compacted=true is in the analytical lake.
TaggedIsMerged == \A o \in tagged : LinesOf[o] \subseteq Consolidated

\* The retention purge takes an unmerged object only while its job has younger
\* ones: a job that was left alone is eligible, so its objects were merged.
PurgeSparesQuietJobs ==
    [][\A o \in purged' \ purged :
         \/ LinesOf[o] \subseteq Consolidated
         \/ \E p \in raw' : JobOf[p] = JobOf[o] /\ age[p] # "expired"]_vars

\* A record is in the analytical lake once, and once more at most for every
\* run that was interrupted or could not delete or tag what it had merged.
Copies(l) == Cardinality({p \in parts : l \in p.lines})

CopiesBounded == \A l \in Lines : Copies(l) <= 1 + failures

\* "Los fragmentos JSONL solo se eliminan de MinIO una vez que el archivo
\* Parquet ha sido validado y persistido" (jobs/README.md:64).
DeleteOnSuccess ==
    \A o \in Objects : Written(o) /\ o \notin raw => LinesOf[o] \subseteq Consolidated

PlaceOf(o) ==
    IF ~Written(o) THEN "unwritten"
    ELSE IF o \in raw THEN "landed"
    ELSE IF o \in purged THEN "expired" ELSE "cleared"

Promise == INSTANCE Lake WITH place <- [o \in Objects |-> PlaceOf(o)], lake <- Consolidated

\* The runs implement the promise of the data lake, in both modes: no step of a
\* run, whatever the others do, takes or tags an object that is not merged,
\* brings one back or makes a record up (process_job and its callees).
KeepsRecords == Promise!Spec

\* Every raw object is merged in the end, without waiting for its retention, or
\* purged if it reaches that before.
EventuallyMerged ==
    \A o \in Objects :
        Written(o) ~> (LinesOf[o] \subseteq Consolidated \/ o \in purged)
=============================================================================
