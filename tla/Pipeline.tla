------------------------------ MODULE Pipeline ------------------------------
(***************************************************************************)
(* The workers and the data lake compactor over the bucket they share: a   *)
(* flush that S3 stores is a new raw object of its job, and the compactor  *)
(* merges, deletes and purges such objects.  They share nothing else, so   *)
(* every step is one of either side, but for the PutObject of a worker.    *)
(*                                                                         *)
(* The objects a behaviour may write are given with their job and records; *)
(* a flush takes any that fits it and has not been written, as the key of  *)
(* an object is never used twice (worker, time and six random hex digits). *)
(***************************************************************************)
EXTENDS Worker

CONSTANTS
    Objects,      \* BOUND: the raw objects that may be written
    ObjectJob,    \* the job of each, the prefix of its key
    LinesOf,      \* the records of each
    Runs, MinObjects, MaxParallel, DeleteRaw, MaxFailures   \* as in Compactor

ASSUME PipelineAssumption ==
    /\ ObjectJob \in [Objects -> Jobs]
    /\ LinesOf \in [Objects -> SUBSET Deliveries \ {{}}]
    /\ MinObjects \in Nat
    /\ MaxParallel \in Nat \ {0}
    /\ DeleteRaw \in BOOLEAN
    /\ MaxFailures \in Nat

VARIABLES age, young, raw, tagged, parts, purged, phase, work, failures   \* as in Compactor

compactorVars == <<age, young, raw, tagged, parts, purged, phase, work, failures>>
pipelineVars == <<vars, compactorVars>>

Compaction == INSTANCE Compactor
    WITH JobOf <- ObjectJob, Lines <- Deliveries, pc <- phase

PipelineInit == Init /\ Compaction!Init

\* S3 stores the object of a flush, which all its records share the job of.
StoreObject(w, b, o) ==
    /\ LinesOf[o] = b
    /\ \A d \in b : JobOf[d.msg] = ObjectJob[o]
    /\ PutObject(w, b)
    /\ UNCHANGED <<sqsVars, controlVars, stage, batch, disruptions, ground>>
    /\ Compaction!WorkerWrites(o)

\* Any other step of the workers or of the queue.
WorkerMoves ==
    /\ Next
    /\ ~(\E w \in Workers : \E b \in uploads[w] : PutObject(w, b))
    /\ UNCHANGED compactorVars

\* A step of a run, or an object that grows older.
CompactorMoves ==
    /\ \/ \E o \in Objects : Compaction!GrowOld(o)
       \/ \E r \in Runs : Compaction!StartRun(r) \/ Compaction!RunStep(r) \/ Compaction!Abort(r)
    /\ UNCHANGED vars

PipelineNext ==
    \/ \E w \in Workers : \E b \in uploads[w], o \in Objects : StoreObject(w, b, o)
    \/ WorkerMoves
    \/ CompactorMoves

PipelineSpec == PipelineInit /\ [][PipelineNext]_pipelineVars

-----------------------------------------------------------------------------
(* What ties the two sides.                                                *)

Existing == {o \in Objects : age[o] # "unborn"}

\* What the workers take for stored is what they have written in raw objects.
SameRecords == lake = UNION {LinesOf[o] : o \in Existing}

\* No record is written to two objects: what the compactor's bound on copies
\* assumes of the objects it finds, the workers provide (StoredOnce).
ObjectsApart == \A o, p \in Existing : o # p => LinesOf[o] \cap LinesOf[p] = {}

-----------------------------------------------------------------------------
(* From the queue to the analytical lake.                                  *)

\* A message deleted from the queue was given up, or a record of it can be
\* found: in a raw object, in a Parquet part or in an object purged for its
\* age, whatever crashes, expires or is interrupted on either side.
Traced ==
    \A m \in Messages : queue[m] = "deleted" =>
        \/ ground[m] # {}
        \/ \E o \in Existing : \E d \in LinesOf[o] :
             /\ d.msg = m
             /\ o \in raw \/ d \in Compaction!Consolidated \/ o \in purged

\* The records of a message in the analytical lake, each with its part.
Shelved(m) == {c \in parts \X Deliveries : c[2] \in c[1].lines /\ c[2].msg = m}

\* A message is in the analytical lake at most once for each time it was
\* received, and once more each time for every failed run, deletion or tag.
FewCopies == \A m \in Messages : Cardinality(Shelved(m)) <= receives[m] * (1 + failures)
=============================================================================
