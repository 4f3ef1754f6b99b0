--------------------------- MODULE PipelineProofs ---------------------------
(***************************************************************************)
(* Machine-checked proofs about the workers and the compactor together,    *)
(* for any of their constants.  Each side's theorems are used as they are: *)
(* every behaviour of the composition is one of the workers and one of the *)
(* compactor, and what ties the two is proved here.                        *)
(***************************************************************************)
EXTENDS Pipeline, WorkerProofs, FunctionTheorems

Proved == INSTANCE CompactorProofs
    WITH JobOf <- ObjectJob, Lines <- Deliveries, pc <- phase

-----------------------------------------------------------------------------
(* The composition implements either side.                                 *)

LEMMA CompactorAssumed == Proved!CompactorAssumption
BY PipelineAssumption DEF Proved!CompactorAssumption

\* An instance has its own name for the cardinality of a set.
LEMMA SameCardinality ==
    ASSUME NEW S
    PROVE  /\ Compaction!Cardinality(S) = Cardinality(S)
           /\ Proved!Cardinality(S) = Cardinality(S)
BY DEF Compaction!Cardinality, Proved!Cardinality, Cardinality

\* The compactor of the composition is the one the theorems are about.
LEMMA SameJobStep ==
    ASSUME NEW r \in Runs, NEW j \in Jobs
    PROVE  Compaction!JobStep(r, j) => Proved!JobStep(r, j)
<1> USE DEF Compaction!Progress, Proved!Progress, Compaction!Idle, Proved!Idle,
            Compaction!Fail, Proved!Fail, Compaction!OfJob, Proved!OfJob,
            Compaction!Leave, Proved!Leave
<1>1. ASSUME NEW unreadable, Compaction!ListBatches(r, j, unreadable)
      PROVE  Proved!ListBatches(r, j, unreadable)
  <2>1. ASSUME NEW S
        PROVE  Compaction!Eligible(S) = Proved!Eligible(S)
    BY SameCardinality DEF Compaction!Eligible, Proved!Eligible
  <2>2. QED
    BY <1>1, <2>1, Zenon DEF Compaction!ListBatches, Proved!ListBatches
<1>2. Compaction!StartJob(r, j) => Proved!StartJob(r, j)
  BY SameCardinality
     DEF Compaction!StartJob, Proved!StartJob, Compaction!Compacting, Proved!Compacting
<1>3. ASSUME NEW o, Compaction!OpenBatch(r, j, o) PROVE Proved!OpenBatch(r, j, o)
  BY <1>3 DEF Compaction!OpenBatch, Proved!OpenBatch
<1>4. ASSUME NEW l, Compaction!AppendRecord(r, j, l) PROVE Proved!AppendRecord(r, j, l)
  BY <1>4 DEF Compaction!AppendRecord, Proved!AppendRecord
<1>5. Compaction!Upload(r, j) => Proved!Upload(r, j)
  BY SameCardinality DEF Compaction!Upload, Proved!Upload
<1>6. Compaction!SplitFile(r, j) => Proved!SplitFile(r, j)
  BY <1>5 DEF Compaction!SplitFile, Proved!SplitFile
<1>7. Compaction!UploadLast(r, j) => Proved!UploadLast(r, j)
  BY <1>5 DEF Compaction!UploadLast, Proved!UploadLast
<1>8. ASSUME NEW done, Compaction!ClearJob(r, j, done) PROVE Proved!ClearJob(r, j, done)
  BY <1>8 DEF Compaction!ClearJob, Proved!ClearJob
<1>9. Compaction!BatchGone(r, j) => Proved!BatchGone(r, j)
  BY DEF Compaction!BatchGone, Proved!BatchGone, Compaction!EndRun, Proved!EndRun
<1>10. Compaction!OfJob(j) = Proved!OfJob(j)
  OBVIOUS
<1>11. QED
  BY <1>1, <1>2, <1>3, <1>4, <1>6, <1>7, <1>8, <1>9, <1>10
     DEF Compaction!JobStep, Proved!JobStep

LEMMA SameRunStep ==
    ASSUME NEW r \in Runs
    PROVE  Compaction!RunStep(r) => Proved!RunStep(r)
<1>1. Compaction!StartCompaction(r) => Proved!StartCompaction(r)
  BY DEF Compaction!StartCompaction, Proved!StartCompaction
<1>2. ASSUME NEW done, Compaction!Purge(r, done) PROVE Proved!Purge(r, done)
  BY <1>2 DEF Compaction!Purge, Proved!Purge, Compaction!Expired, Proved!Expired,
              Compaction!Fail, Proved!Fail, Compaction!Leave, Proved!Leave
<1>3. Compaction!Expired = Proved!Expired
  BY DEF Compaction!Expired, Proved!Expired
<1>4. QED
  BY <1>1, <1>2, <1>3, SameJobStep DEF Compaction!RunStep, Proved!RunStep

LEMMA SameOutside ==
    /\ \A o \in Objects : /\ Compaction!WorkerWrites(o) => Proved!WorkerWrites(o)
                          /\ Compaction!GrowOld(o) => Proved!GrowOld(o)
    /\ \A r \in Runs : /\ Compaction!StartRun(r) => Proved!StartRun(r)
                       /\ Compaction!Abort(r) => Proved!Abort(r)
<1>1. ASSUME NEW o \in Objects
      PROVE  /\ Compaction!WorkerWrites(o) => Proved!WorkerWrites(o)
             /\ Compaction!GrowOld(o) => Proved!GrowOld(o)
  BY DEF Compaction!WorkerWrites, Proved!WorkerWrites, Compaction!GrowOld, Proved!GrowOld,
         Compaction!UnderWay, Proved!UnderWay
<1>2. ASSUME NEW r \in Runs
      PROVE  /\ Compaction!StartRun(r) => Proved!StartRun(r)
             /\ Compaction!Abort(r) => Proved!Abort(r)
  BY DEF Compaction!StartRun, Proved!StartRun, Compaction!Abort, Proved!Abort,
         Compaction!EndRun, Proved!EndRun, Compaction!Fail, Proved!Fail,
         Compaction!Idle, Proved!Idle, Compaction!OfJob, Proved!OfJob,
         Compaction!UnderWay, Proved!UnderWay, Compaction!Leave, Proved!Leave
<1>3. QED
  BY <1>1, <1>2

\* Every behaviour of the composition is one of the compactor, to which the
\* workers are the writers of its objects (compact_s3.py lists what it finds).
THEOREM ImplementsCompactor == PipelineSpec => Proved!Spec
<1>1. PipelineInit => Proved!Init
  BY DEF PipelineInit, Compaction!Init, Proved!Init, Compaction!Idle, Proved!Idle
<1>2. [PipelineNext]_pipelineVars => [Proved!Next]_(Proved!vars)
  <2> SUFFICES ASSUME [PipelineNext]_pipelineVars
               PROVE  Proved!Next \/ UNCHANGED Proved!vars
    OBVIOUS
  <2>1. ASSUME NEW w \in Workers, NEW b \in uploads[w], NEW o \in Objects, StoreObject(w, b, o)
        PROVE  Proved!Next
    BY <2>1, SameOutside DEF StoreObject, Proved!Next
  <2>2. ASSUME WorkerMoves \/ UNCHANGED pipelineVars
        PROVE  UNCHANGED Proved!vars
    BY <2>2 DEF WorkerMoves, pipelineVars, compactorVars, Proved!vars
  <2>3. ASSUME CompactorMoves
        PROVE  Proved!Next
    BY <2>3, SameOutside, SameRunStep DEF CompactorMoves, Proved!Next
  <2>4. QED
    BY <2>1, <2>2, <2>3 DEF PipelineNext
<1>3. QED
  BY <1>1, <1>2, PTL DEF PipelineSpec, Proved!Spec

\* Every behaviour of the composition is one of the workers.
THEOREM ImplementsWorkers == PipelineSpec => Spec
<1>1. PipelineInit => Init
  BY DEF PipelineInit
<1>2. [PipelineNext]_pipelineVars => [Next]_vars
  <2> SUFFICES ASSUME [PipelineNext]_pipelineVars
               PROVE  Next \/ UNCHANGED vars
    OBVIOUS
  <2>1. ASSUME NEW w \in Workers, NEW b \in uploads[w], NEW o \in Objects, StoreObject(w, b, o)
        PROVE  Next
    <3>1. Flush(w, b)
      BY <2>1 DEF StoreObject, Flush
    <3>2. QED
      BY <3>1 DEF Next, BackgroundStep
  <2>2. CASE WorkerMoves
    BY <2>2 DEF WorkerMoves
  <2>3. CASE CompactorMoves \/ UNCHANGED pipelineVars
    BY <2>3 DEF CompactorMoves, pipelineVars
  <2>4. QED
    BY <2>1, <2>2, <2>3 DEF PipelineNext
<1>3. QED
  BY <1>1, <1>2, PTL DEF PipelineSpec, Spec

-----------------------------------------------------------------------------
(* The records the workers count as stored are those of the objects.       *)

\* Only PutObject adds to the lake.
LEMMA LakeKept ==
    ASSUME Next, ~(\E w \in Workers : \E b \in uploads[w] : PutObject(w, b))
    PROVE  lake' = lake
<1> USE DEF bufferVars
<1>1. ASSUME NEW w \in Workers, FetchStep(w) PROVE lake' = lake
  BY <1>1 DEF FetchStep, StartFetch, Deliver, DropPoison, FetchReturns, FetchFails
<1>2. ASSUME NEW w \in Workers, NEW d \in Deliveries, TaskStep(w, d) PROVE lake' = lake
  BY <1>2 DEF TaskStep, Enter, RobotsDeny, Admit, ParseOK, ParseFatal, ParseExhausted,
              ParseAgain, Discard, AddRecord
<1>3. ASSUME NEW w \in Workers, BackgroundStep(w) PROVE lake' = lake
  <2>1. ASSUME NEW b \in uploads[w] \cup written[w], Flush(w, b) PROVE lake' = lake
    BY <2>1 DEF Flush, PutObject, UploadDone, UploadFails
  <2>2. QED
    BY <1>3, <2>1 DEF BackgroundStep, Ticker, Tick, TakeAck, SendBatch
<1>4. ASSUME NEW w \in Workers, ShutdownStep(w) PROVE lake' = lake
  BY <1>4 DEF ShutdownStep, GatherActive, CloseFlushes, CloseBuffers, CloseReturns, FlusherExits
<1>5. ASSUME NEW w \in Workers, Stop(w) \/ Crash(w) \/ Start(w) PROVE lake' = lake
  BY <1>5 DEF Stop, Crash, LoseBuffers, Start
<1>6. ASSUME NEW m \in Messages, QueueStep(m) PROVE lake' = lake
  BY <1>6 DEF QueueStep
<1>7. QED
  BY <1>1, <1>2, <1>3, <1>4, <1>5, <1>6 DEF Next

\* What each side has proved of itself, and what the ties rest on.
SidesInv == TypeOK /\ StoredOnce /\ Proved!CompactorTypeOK

TiedInv == SameRecords /\ ObjectsApart

LEMMA SidesHold == PipelineSpec => []SidesInv
<1>1. Spec => [](TypeOK /\ StoredOnce)
  BY TypeCorrect, RecordsStoredOnce, PTL
<1>2. Proved!Spec => []Proved!CompactorTypeOK
  BY CompactorAssumed, Proved!CompactorTypeCorrect
<1>3. QED
  BY <1>1, <1>2, ImplementsWorkers, ImplementsCompactor, PTL DEF SidesInv

\* A new object takes its records from a flush that nothing of is stored yet,
\* so they are in no other object (storage_buffer.py: _flush_buffer_to_storage).
LEMMA StoreObjectTies ==
    ASSUME SidesInv, TiedInv,
           NEW w \in Workers, NEW b \in uploads[w], NEW o \in Objects, StoreObject(w, b, o)
    PROVE  TiedInv'
<1>1. /\ LinesOf[o] = b /\ lake' = lake \cup b
      /\ age[o] = "unborn" /\ age' = [age EXCEPT ![o] = "fresh"]
  BY DEF StoreObject, PutObject, Compaction!WorkerWrites
<1>2. Existing' = Existing \cup {o} /\ o \notin Existing
  BY <1>1 DEF Existing, SidesInv, Proved!CompactorTypeOK
<1>3. b \cap lake = {}
  BY DEF SidesInv, StoredOnce
<1>4. SameRecords'
  <2>1. UNION {LinesOf[p] : p \in Existing \cup {o}}
          = (UNION {LinesOf[p] : p \in Existing}) \cup LinesOf[o]
    BY Zenon
  <2>2. QED
    BY <1>1, <1>2, <2>1 DEF TiedInv, SameRecords
<1>5. \A p \in Existing : LinesOf[p] \cap LinesOf[o] = {}
  <2>1. \A p \in Existing : LinesOf[p] \subseteq lake
    BY DEF TiedInv, SameRecords
  <2>2. QED
    BY <1>1, <1>3, <2>1
<1>6. ObjectsApart'
  BY <1>2, <1>5 DEF TiedInv, ObjectsApart
<1>7. QED
  BY <1>4, <1>6 DEF TiedInv

\* The lake of the workers is what they wrote, and no record is written twice.
THEOREM SidesAreTied == PipelineSpec => [](SameRecords /\ ObjectsApart)
<1>1. PipelineInit => TiedInv
  BY DEF PipelineInit, Init, BufferInit, Compaction!Init,
         TiedInv, SameRecords, ObjectsApart, Existing
<1>2. SidesInv /\ TiedInv /\ [PipelineNext]_pipelineVars => TiedInv'
  <2> SUFFICES ASSUME SidesInv, TiedInv, [PipelineNext]_pipelineVars
               PROVE  TiedInv'
    OBVIOUS
  <2>1. ASSUME lake' = lake, Existing' = Existing
        PROVE  TiedInv'
    BY <2>1 DEF TiedInv, SameRecords, ObjectsApart
  <2>2. CASE WorkerMoves
    BY <2>1, <2>2, LakeKept DEF WorkerMoves, compactorVars, Existing
  <2>3. CASE CompactorMoves
    <3>1. lake' = lake
      BY <2>3 DEF CompactorMoves, vars, bufferVars
    <3>2. ASSUME NEW o \in Objects, Compaction!GrowOld(o)
          PROVE  Existing' = Existing
      <4> DEFINE a == IF age[o] = "fresh" THEN "stale" ELSE "expired"
      <4>1. age[o] # "unborn" /\ age' = [age EXCEPT ![o] = a]
        BY <3>2 DEF Compaction!GrowOld
      <4>2. a # "unborn"
        OBVIOUS
      <4>3. DOMAIN age = Objects
        BY DEF SidesInv, Proved!CompactorTypeOK
      <4> HIDE DEF a
      <4>4. QED
        BY <4>1, <4>2, <4>3 DEF Existing
    <3>3. ASSUME NEW r \in Runs,
                 Compaction!StartRun(r) \/ Compaction!RunStep(r) \/ Compaction!Abort(r)
          PROVE  age' = age
      BY <3>3, Zenon DEF Compaction!StartRun, Compaction!RunStep, Compaction!StartCompaction,
                  Compaction!Purge, Compaction!Abort, Compaction!EndRun, Compaction!JobStep,
                  Compaction!ListBatches, Compaction!StartJob, Compaction!OpenBatch,
                  Compaction!AppendRecord, Compaction!SplitFile, Compaction!UploadLast,
                  Compaction!ClearJob, Compaction!BatchGone
    <3>4. QED
      BY <2>1, <2>3, <3>1, <3>2, <3>3 DEF CompactorMoves, Existing
  <2>4. CASE UNCHANGED pipelineVars
    BY <2>1, <2>4 DEF pipelineVars, vars, bufferVars, compactorVars, Existing
  <2>5. QED
    BY <2>2, <2>3, <2>4, StoreObjectTies DEF PipelineNext
<1>3. QED
  BY <1>1, <1>2, SidesHold, PTL DEF PipelineSpec, TiedInv

-----------------------------------------------------------------------------
(* From the queue to the analytical lake.                                  *)

\* A message that left the queue was given up, or a record of it is where the
\* compactor never loses one (storage_buffer.py:96, compact_s3.py:219-298).
THEOREM NothingUntraced == PipelineSpec => []Traced
<1>1. NothingLost /\ SameRecords /\ Proved!LeavesMerged => Traced
  <2> SUFFICES ASSUME NothingLost, SameRecords, Proved!LeavesMerged,
                      NEW m \in Messages, queue[m] = "deleted", ground[m] = {}
               PROVE  \E o \in Existing : \E d \in LinesOf[o] :
                        /\ d.msg = m
                        /\ o \in raw \/ d \in Compaction!Consolidated \/ o \in purged
    BY DEF Traced
  <2>1. PICK d \in lake : d.msg = m
    BY DEF NothingLost, Recorded
  <2>2. PICK o \in Existing : d \in LinesOf[o]
    BY <2>1 DEF SameRecords
  <2>3. o \in raw \/ LinesOf[o] \subseteq Proved!Consolidated \/ o \in purged
    BY <2>2 DEF Proved!LeavesMerged, Proved!Written, Existing
  <2>4. QED
    BY <2>1, <2>2, <2>3 DEF Proved!Consolidated, Compaction!Consolidated
<1>2. Spec => []NothingLost
  BY NoMessageLost, PTL
<1>3. Proved!Spec => []Proved!LeavesMerged
  BY CompactorAssumed, Proved!NoRawLost
<1>4. QED
  BY <1>1, <1>2, <1>3, ImplementsWorkers, ImplementsCompactor, SidesAreTied, PTL

\* The members of a set of at most k can be told apart by numbers of 1..k.
LEMMA Numbered ==
    ASSUME NEW T, IsFiniteSet(T), NEW k \in Nat, Cardinality(T) <= k
    PROVE  \E f \in [T -> 1..k] : \A p, q \in T : f[p] = f[q] => p = q
<1>1. PICK c \in Nat : c = Cardinality(T) /\ c <= k
  BY FS_CardinalityType
<1>2. ExistsBijection(T, 1..c)
  BY <1>1, FS_CardinalityType, Fun_ExistsBijSymmetric
<1>3. PICK f : f \in Bijection(T, 1..c)
  BY <1>2, Zenon DEF ExistsBijection
<1>4. f \in [T -> 1..c] /\ \A p, q \in T : f[p] = f[q] => p = q
  BY <1>3, Fun_BijectionProperties, Zenon
<1>5. f \in [T -> 1..k]
  BY <1>1, <1>4
<1>6. QED
  BY <1>4, <1>5

\* The pairs of a part and a delivery of m, when each of the n deliveries of m
\* is in at most k parts, are no more than the cells of a table of n by k.
LEMMA PairsBounded ==
    ASSUME NEW P, IsFiniteSet(P), NEW n \in Nat, NEW k \in Nat, NEW m,
           NEW S \in SUBSET (P \X Deliveries),
           \A c \in S : c[2].msg = m /\ c[2].rc <= n,
           \A d \in Deliveries : Cardinality({p \in P : <<p, d>> \in S}) <= k
    PROVE  Cardinality(S) <= n * k
<1> DEFINE In(d) == {p \in P : <<p, d>> \in S}
           Numbering(d) == {f \in [In(d) -> 1..k] : \A p, q \in In(d) : f[p] = f[q] => p = q}
           nr == [d \in Deliveries |-> CHOOSE f \in Numbering(d) : TRUE]
           cell == [c \in S |-> <<c[2].rc, nr[c[2]][c[1]]>>]
<1>1. ASSUME NEW d \in Deliveries
      PROVE  nr[d] \in Numbering(d)
  <2>1. IsFiniteSet(In(d)) /\ Cardinality(In(d)) <= k
    BY FS_Subset
  <2>2. \E f : f \in Numbering(d)
    <3> HIDE DEF In
    <3>1. QED
      BY <2>1, Numbered
  <2> HIDE DEF Numbering
  <2>3. QED
    BY <2>2
<1>2. ASSUME NEW c \in S
      PROVE  /\ c = <<c[1], c[2]>> /\ c[2] \in Deliveries /\ c[1] \in In(c[2])
             /\ c[2] = [msg |-> m, rc |-> c[2].rc] /\ c[2].rc \in 1..n
  BY DEF Deliveries
<1> HIDE DEF nr
<1>3. ASSUME NEW d \in Deliveries
      PROVE  /\ nr[d] \in [In(d) -> 1..k]
             /\ \A p, q \in In(d) : nr[d][p] = nr[d][q] => p = q
  BY <1>1
<1> HIDE DEF In, Numbering
<1>4. cell \in [S -> (1..n) \X (1..k)]
  <2>1. ASSUME NEW c \in S
        PROVE  c[2].rc \in 1..n /\ nr[c[2]][c[1]] \in 1..k
    <3>1. c[2] \in Deliveries /\ c[1] \in In(c[2])
      BY <1>2
    <3>2. nr[c[2]] \in [In(c[2]) -> 1..k]
      BY <1>3, <3>1
    <3>3. QED
      BY <1>2, <3>1, <3>2
  <2>2. QED
    BY <2>1
<1>5. ASSUME NEW c \in S, NEW e \in S, cell[c] = cell[e]
      PROVE  c = e
  <2>1. c[2].rc = e[2].rc /\ nr[c[2]][c[1]] = nr[e[2]][e[1]]
    BY <1>5
  <2>2. c[2] = e[2]
    <3>1. c[2] = [msg |-> m, rc |-> c[2].rc] /\ e[2] = [msg |-> m, rc |-> e[2].rc]
      BY <1>2
    <3>2. QED
      BY <2>1, <3>1
  <2>3. c[1] = e[1]
    BY <2>1, <2>2, <1>2, <1>3
  <2>4. QED
    BY <2>2, <2>3, <1>2
<1>6. cell \in Injection(S, (1..n) \X (1..k))
  BY <1>4, <1>5, Fun_IsInj
<1>7. /\ IsFiniteSet((1..n) \X (1..k))
      /\ Cardinality((1..n) \X (1..k)) = n * k
  <2>1. /\ IsFiniteSet(1..n) /\ Cardinality(1..n) = n
        /\ IsFiniteSet(1..k) /\ Cardinality(1..k) = k
    BY FS_Interval
  <2>2. QED
    BY <2>1, FS_Product
<1>8. QED
  BY <1>6, <1>7, FS_Injection

\* With one run at a time, a message is in the analytical lake at most once for
\* each receive, and once more for each failure: the workers write a delivery
\* to one object, and the run uploads the records of an object once for each.
THEOREM FewCopiesHold ==
    ASSUME Proved!Alone
    PROVE  PipelineSpec => []FewCopies
<1> DEFINE Facts == /\ TypeOK /\ Issued /\ SameRecords
                    /\ Proved!TypeInv /\ Proved!CopiesBounded /\ Proved!Promise!Genuine
<1>1. Facts => FewCopies
  <2> SUFFICES ASSUME Facts, NEW m \in Messages
               PROVE  Cardinality(Shelved(m)) <= receives[m] * (1 + failures)
    BY DEF FewCopies
  <2>1. /\ receives[m] \in Nat /\ 1 + failures \in Nat
        /\ Proved!IsFiniteSet(parts)
    BY PipelineAssumption, SQSAssumption
       DEF TypeOK, QueueTypeOK, Proved!TypeInv, Proved!CompactorTypeOK
  <2>2. IsFiniteSet(parts)
    BY <2>1 DEF Proved!IsFiniteSet, IsFiniteSet
  <2>3. Shelved(m) \in SUBSET (parts \X Deliveries)
    BY DEF Shelved
  <2>4. ASSUME NEW c \in Shelved(m)
        PROVE  c[2].msg = m /\ c[2].rc <= receives[m]
    <3>1. c[2] \in Deliveries /\ c[2].msg = m /\ c[2] \in Proved!Consolidated
      BY DEF Shelved, Proved!Consolidated
    <3>2. PICK o \in Objects : Proved!PlaceOf(o) # "unwritten" /\ c[2] \in LinesOf[o]
      BY <3>1 DEF Proved!Promise!Genuine
    <3>3. c[2] \in lake
      BY <3>2 DEF Proved!PlaceOf, Proved!Written, SameRecords, Existing
    <3>4. QED
      BY <3>1, <3>3 DEF Issued
  <2>5. ASSUME NEW d \in Deliveries
        PROVE  Cardinality({p \in parts : <<p, d>> \in Shelved(m)}) <= 1 + failures
    <3>1. Cardinality({p \in parts : d \in p.lines}) <= 1 + failures
      BY SameCardinality DEF Proved!CopiesBounded, Proved!Copies
    <3>2. CASE d.msg = m
      <4>1. {p \in parts : <<p, d>> \in Shelved(m)} = {p \in parts : d \in p.lines}
        BY <3>2 DEF Shelved
      <4>2. QED
        BY <3>1, <4>1
    <3>3. CASE d.msg # m
      <4>1. {p \in parts : <<p, d>> \in Shelved(m)} = {}
        BY <3>3 DEF Shelved
      <4>2. Cardinality({p \in parts : <<p, d>> \in Shelved(m)}) = 0
        BY <4>1, FS_EmptySet
      <4>3. QED
        BY <2>1, <4>2
    <3>4. QED
      BY <3>2, <3>3
  <2>6. QED
    BY <2>1, <2>2, <2>3, <2>4, <2>5, PairsBounded
<1>2. Spec => [](TypeOK /\ Issued)
  <2>1. OwnInv => Issued
    BY DEF OwnInv
  <2>2. QED
    BY <2>1, TypeCorrect, OwnershipHolds, PTL
<1>3. ObjectsApart => Proved!Apart
  BY DEF ObjectsApart, Existing, Proved!Apart, Proved!Existing, Proved!Written
<1>4. Proved!Spec => [](Proved!TypeInv /\ Proved!Promise!Genuine)
  BY CompactorAssumed, Proved!TypeInvHolds, Proved!NothingMadeUp, PTL
<1>5. Proved!Spec /\ []Proved!Apart => []Proved!CopiesBounded
  BY CompactorAssumed, Proved!OneCopyPerFailure
<1>6. QED
  BY <1>1, <1>2, <1>3, <1>4, <1>5, ImplementsWorkers, ImplementsCompactor, SidesAreTied, PTL
=============================================================================
