---------------------------- MODULE WorkerProofs ----------------------------
(***************************************************************************)
(* Machine-checked proofs about the workers, for every number of workers,  *)
(* messages and jobs and every limit.                                      *)
(***************************************************************************)
EXTENDS Worker, FiniteSetTheorems, TLAPS

\* The handle a receive hands out is a delivery.
LEMMA NextHandleType ==
    ASSUME NEW m \in Messages, QueueTypeOK, Receive(m)
    PROVE  /\ NextHandle(m) \in Deliveries
           /\ NextHandle(m).msg = m
           /\ NextHandle(m).rc = receives[m] + 1
           /\ receives'[m] = receives[m] + 1
           /\ QueueTypeOK'
BY SQSAssumption DEF QueueTypeOK, Receive, NextHandle, Deliveries

\* There are finitely many deliveries, so sets of them have a cardinality.
LEMMA DeliveriesFinite == IsFiniteSet(Deliveries)
<1> DEFINE handles == Messages \X (1..MaxReceiveCount)
           f == [h \in handles |-> [msg |-> h[1], rc |-> h[2]]]
<1>1. IsFiniteSet(handles)
  <2>1. IsFiniteSet(1..MaxReceiveCount)
    BY SQSAssumption, FS_Interval
  <2>2. QED
    BY SQSAssumption, <2>1, FS_Product
<1>2. f \in Surjection(handles, Deliveries)
  <2>1. f \in [handles -> Deliveries]
    BY DEF Deliveries
  <2>2. ASSUME NEW d \in Deliveries
        PROVE  \E h \in handles : f[h] = d
    <3>1. <<d.msg, d.rc>> \in handles /\ f[<<d.msg, d.rc>>] = d
      BY <2>2 DEF Deliveries
    <3>2. QED
      BY <3>1
  <2>3. QED
    BY <2>1, <2>2 DEF Surjection
<1>3. QED
  BY <1>1, <1>2, FS_Surjection

\* A fetch asks for a natural number of messages.
LEMMA BatchSizeType ==
    ASSUME NEW w \in Workers, FreeSlots(w) > 0
    PROVE  BatchSize(w) \in Nat
<1>1. Cardinality(Active(w)) \in Nat
  BY DeliveriesFinite, FS_Subset, FS_CardinalityType DEF Active
<1>2. QED
  BY <1>1, WorkerAssumption DEF BatchSize, FreeSlots

\* Deleting from the queue keeps its type.
LEMMA DeleteType ==
    ASSUME QueueTypeOK, NEW D, Delete(D)
    PROVE  QueueTypeOK'
BY DEF QueueTypeOK, Delete

\* Moving one coroutine to another stage keeps the type of the stages.
LEMMA StageUpdate ==
    ASSUME stage \in [Workers -> [Deliveries -> Stages]],
           NEW w \in Workers, NEW d \in Deliveries, NEW s \in Stages,
           stage' = [stage EXCEPT ![w][d] = s]
    PROVE  stage' \in [Workers -> [Deliveries -> Stages]]
OBVIOUS

\* Starting one more flush keeps the type of the flushes under way.
LEMMA UploadsUpdate ==
    ASSUME uploads \in [Workers -> SUBSET (SUBSET Deliveries)],
           NEW w \in Workers, NEW b \in SUBSET Deliveries,
           uploads' = [uploads EXCEPT ![w] = @ \cup {b}]
    PROVE  uploads' \in [Workers -> SUBSET (SUBSET Deliveries)]
OBVIOUS

\* Every variable keeps its type, under every action of the workers.
THEOREM TypeCorrect == Spec => []TypeOK
<1>1. Init => TypeOK
  BY SQSAssumption, WorkerAssumption
  DEF Init, QueueInit, BufferInit, TypeOK, QueueTypeOK, BufferTypeOK, Stages
<1>2. TypeOK /\ [Next]_vars => TypeOK'
  <2> SUFFICES ASSUME TypeOK, [Next]_vars
               PROVE  TypeOK'
    OBVIOUS
  <2> USE DEF TypeOK, BufferTypeOK, sqsVars, bufferVars, controlVars
  <2>1. ASSUME NEW w \in Workers, StartFetch(w)
        PROVE  TypeOK'
    BY <2>1, BatchSizeType DEF StartFetch, QueueTypeOK
  <2>2. ASSUME NEW w \in Workers, NEW m \in Messages, Deliver(w, m)
        PROVE  TypeOK'
    BY <2>2, NextHandleType DEF Deliver
  <2>3. ASSUME NEW w \in Workers, NEW d \in response[w], DropPoison(w, d)
        PROVE  TypeOK'
    BY <2>3, DeleteType DEF DropPoison, Reasons, Deliveries
  <2>4. ASSUME NEW w \in Workers, NEW lost \in SUBSET response[w], FetchReturns(w, lost)
        PROVE  TypeOK'
    BY <2>4 DEF FetchReturns, QueueTypeOK, Stages
  <2>5. ASSUME NEW w \in Workers, FetchFails(w)
        PROVE  TypeOK'
    BY <2>5 DEF FetchFails, QueueTypeOK
  <2>6. ASSUME NEW w \in Workers, NEW d \in Deliveries, TaskStep(w, d)
        PROVE  TypeOK'
    <3>1. CASE Enter(w, d)
      <4>1. stage' \in [Workers -> [Deliveries -> Stages]]
        <5>1. \/ stage' = [stage EXCEPT ![w][d] = "checking"]
              \/ stage' = [stage EXCEPT ![w][d] = "none"]
          BY <3>1 DEF Enter, Leave
        <5>2. "checking" \in Stages /\ "none" \in Stages
          BY DEF Stages
        <5>3. QED
          BY <5>1, <5>2, StageUpdate
      <4>2. QED
        BY <3>1, <4>1 DEF Enter, QueueTypeOK
    <3>2. CASE RobotsDeny(w, d)
      BY <3>2 DEF RobotsDeny, Discard, Leave, QueueTypeOK, Stages, Reasons, Deliveries
    <3>3. CASE Admit(w, d)
      BY <3>3 DEF Admit, QueueTypeOK, Stages
    <3>4. CASE ParseOK(w, d)
      <4>1. stage' \in [Workers -> [Deliveries -> Stages]]
        BY <3>4 DEF ParseOK, Leave, Stages
      <4>2. PICK added \in SUBSET Deliveries : buffer' = [buffer EXCEPT ![w] = added]
        <5>1. buffer[w] \cup {d} \in SUBSET Deliveries
          OBVIOUS
        <5>2. (buffer[w] \cup {d}) \ OfJob(JobOf[d.msg], buffer[w] \cup {d}) \in SUBSET Deliveries
          BY <5>1
        <5>3. QED
          BY <3>4, <5>1, <5>2, Zenon DEF ParseOK, AddRecord
      <4>3. uploads' \in [Workers -> SUBSET (SUBSET Deliveries)]
        <5>1. OfJob(JobOf[d.msg], buffer[w] \cup {d}) \in SUBSET Deliveries
          BY DEF OfJob
        <5>2. \/ uploads' = uploads
              \/ uploads' = [uploads EXCEPT ![w] =
                               @ \cup {OfJob(JobOf[d.msg], buffer[w] \cup {d})}]
          BY <3>4, Zenon DEF ParseOK, AddRecord
        <5>3. QED
          BY <5>1, <5>2, UploadsUpdate
      <4>4. QED
        BY <3>4, <4>1, <4>2, <4>3 DEF ParseOK, AddRecord, QueueTypeOK
    <3>5. CASE ParseFatal(w, d)
      BY <3>5 DEF ParseFatal, Discard, Leave, QueueTypeOK, Stages, Reasons, Deliveries
    <3>6. CASE ParseExhausted(w, d)
      BY <3>6 DEF ParseExhausted, Discard, Leave, QueueTypeOK, Stages, Reasons, Deliveries
    <3>7. CASE ParseAgain(w, d)
      BY <3>7 DEF ParseAgain, Leave, QueueTypeOK, Stages
    <3>8. QED
      BY <2>6, <3>1, <3>2, <3>3, <3>4, <3>5, <3>6, <3>7 DEF TaskStep
  <2>7. ASSUME NEW w \in Workers, NEW js \in SUBSET Jobs, Ticker(w, js)
        PROVE  TypeOK'
    BY <2>7 DEF Ticker, Tick, OfJob, QueueTypeOK
  <2>8. ASSUME NEW w \in Workers, NEW b \in uploads[w] \cup written[w], Flush(w, b)
        PROVE  TypeOK'
    <3>1. b \in SUBSET Deliveries
      OBVIOUS
    <3>2. CASE PutObject(w, b)
      BY <2>8, <3>1, <3>2 DEF Flush, PutObject, QueueTypeOK
    <3>3. CASE UploadDone(w, b)
      BY <2>8, <3>1, <3>3 DEF Flush, UploadDone, QueueTypeOK
    <3>4. CASE UploadFails(w, b)
      BY <2>8, <3>4 DEF Flush, UploadFails, QueueTypeOK
    <3>5. QED
      BY <2>8, <3>2, <3>3, <3>4 DEF Flush
  <2>9. ASSUME NEW w \in Workers, NEW d \in acks[w], TakeAck(w, d)
        PROVE  TypeOK'
    BY <2>9 DEF TakeAck, QueueTypeOK
  <2>10. ASSUME NEW w \in Workers, NEW accepted \in SUBSET batch[w], SendBatch(w, accepted)
         PROVE  TypeOK'
    BY <2>10, DeleteType DEF SendBatch
  <2>11. ASSUME NEW w \in Workers, ShutdownStep(w)
         PROVE  TypeOK'
    <3>1. CASE GatherActive(w)
      <4>1. uploads' \in [Workers -> SUBSET (SUBSET Deliveries)]
        BY <3>1 DEF GatherActive, CloseFlushes, OfJob
      <4>2. QED
        BY <3>1, <4>1 DEF GatherActive, CloseFlushes, QueueTypeOK, Stopping
    <3>2. CASE CloseBuffers(w)
      BY <3>2 DEF CloseBuffers, CloseReturns, QueueTypeOK, Stopping
    <3>3. CASE FlusherExits(w)
      BY <3>3 DEF FlusherExits, QueueTypeOK
    <3>4. QED
      BY <2>11, <3>1, <3>2, <3>3 DEF ShutdownStep
  <2>12. ASSUME NEW w \in Workers, Stop(w)
         PROVE  TypeOK'
    BY <2>12, WorkerAssumption DEF Stop, QueueTypeOK, Stopping
  <2>13. ASSUME NEW w \in Workers, Crash(w)
         PROVE  TypeOK'
    BY <2>13, WorkerAssumption DEF Crash, LoseBuffers, QueueTypeOK, Stages
  <2>14. ASSUME NEW w \in Workers, Start(w)
         PROVE  TypeOK'
    BY <2>14 DEF Start, QueueTypeOK
  <2>15. ASSUME NEW m \in Messages, QueueStep(m)
         PROVE  TypeOK'
    BY <2>15 DEF QueueStep, Expire, Redrive, QueueTypeOK
  <2>16. CASE UNCHANGED vars
    BY <2>16 DEF vars, QueueTypeOK
  <2>17. QED
    BY <2>1, <2>2, <2>3, <2>4, <2>5, <2>6, <2>7, <2>8, <2>9, <2>10, <2>11, <2>12,
       <2>13, <2>14, <2>15, <2>16
    DEF Next, FetchStep, BackgroundStep
<1>3. QED
  BY <1>1, <1>2, PTL DEF Spec

-----------------------------------------------------------------------------
(* Nothing is lost.  NothingLost alone is not inductive: that a batch only *)
(* deletes what is stored needs AckAfterStore, and that a finished flush   *)
(* only queues what is stored needs WrittenIsStored.                       *)

StoreInv == NothingLost /\ AckAfterStore /\ WrittenIsStored

\* A step that leaves the queue alone, forgets no record and no ground, and
\* queues only acknowledgements that are justified, keeps the invariant.
LEMMA StoreInvKept ==
    ASSUME StoreInv,
           queue' = queue,
           lake \subseteq lake',
           \A m \in Messages : ground[m] \subseteq ground'[m],
           \A w \in Workers : \A b \in written'[w] : b \subseteq lake',
           \A w \in Workers : \A d \in acks'[w] \cup batch'[w] :
               \/ d \in acks[w] \cup batch[w]
               \/ d \in lake' \/ ground'[d.msg] # {},
           TypeOK
    PROVE  StoreInv'
<1> USE DEF StoreInv
<1>1. NothingLost'
  BY DEF NothingLost, Recorded
<1>2. AckAfterStore'
  <2> SUFFICES ASSUME NEW w \in Workers, NEW d \in acks'[w] \cup batch'[w]
               PROVE  d \in lake' \/ ground'[d.msg] # {}
    BY DEF AckAfterStore
  <2>1. CASE d \in acks[w] \cup batch[w]
    <3>1. d.msg \in Messages
      BY <2>1 DEF TypeOK, BufferTypeOK, Deliveries
    <3>2. QED
      BY <2>1, <3>1 DEF AckAfterStore
  <2>2. QED
    BY <2>1
<1>3. WrittenIsStored'
  BY DEF WrittenIsStored
<1>4. QED
  BY <1>1, <1>2, <1>3

\* Deleting the messages of justified deliveries keeps NothingLost.
LEMMA DeleteJustified ==
    ASSUME TypeOK, NothingLost, NEW D \in SUBSET Deliveries, Delete(D),
           lake \subseteq lake',
           \A m \in Messages : ground[m] \subseteq ground'[m],
           \A d \in D : d \in lake' \/ ground'[d.msg] # {}
    PROVE  NothingLost'
<1> SUFFICES ASSUME NEW m \in Messages, queue'[m] = "deleted"
             PROVE  Recorded(m)' \/ ground'[m] # {}
  BY DEF NothingLost
<1>1. CASE \E d \in D : d.msg = m /\ Current(d)
  BY <1>1 DEF Recorded
<1>2. CASE ~(\E d \in D : d.msg = m /\ Current(d))
  <2>1. queue[m] = "deleted"
    BY <1>2 DEF Delete
  <2>2. QED
    BY <2>1 DEF NothingLost, Recorded
<1>3. QED
  BY <1>1, <1>2

\* Giving a message up justifies its acknowledgement.
LEMMA DiscardKeeps ==
    ASSUME TypeOK, StoreInv, NEW w \in Workers, NEW d \in Deliveries, NEW why \in Reasons,
           Discard(w, d, why)
    PROVE  StoreInv'
<1>1. d.msg \in Messages
  BY DEF Deliveries
<1>2. ground' = [ground EXCEPT ![d.msg] = @ \cup {why}]
  BY DEF Discard
<1>3. /\ \A m \in Messages : ground[m] \subseteq ground'[m]
      /\ ground'[d.msg] # {}
  BY <1>1, <1>2 DEF TypeOK
<1>4. /\ queue' = queue /\ lake' = lake /\ written' = written /\ batch' = batch
      /\ acks' = [acks EXCEPT ![w] = @ \cup {d}]
  BY DEF Discard, sqsVars
<1>5. \A v \in Workers : acks'[v] \subseteq acks[v] \cup {d}
  BY <1>4 DEF TypeOK, BufferTypeOK
<1>6. QED
  BY <1>3, <1>4, <1>5, StoreInvKept DEF StoreInv, WrittenIsStored

\* The inductive invariant holds: one step per action.
THEOREM StoreInvHolds == Spec => []StoreInv
<1>1. Init => StoreInv
  BY DEF Init, QueueInit, BufferInit, StoreInv, NothingLost, AckAfterStore, WrittenIsStored
<1>2. TypeOK /\ StoreInv /\ [Next]_vars => StoreInv'
  <2> SUFFICES ASSUME TypeOK, StoreInv, [Next]_vars
               PROVE  StoreInv'
    OBVIOUS
  <2> USE DEF sqsVars, bufferVars, controlVars
  <2> DEFINE Quiet == UNCHANGED <<queue, written, lake, acks, batch, ground>>
  <2>0. ASSUME Quiet
        PROVE  StoreInv'
    BY <2>0 DEF StoreInv, NothingLost, Recorded, AckAfterStore, WrittenIsStored
  <2>1. ASSUME NEW w \in Workers, StartFetch(w)
        PROVE  StoreInv'
    BY <2>1, <2>0 DEF StartFetch
  <2>2. ASSUME NEW w \in Workers, NEW m \in Messages, Deliver(w, m)
        PROVE  StoreInv'
    <3>1. NothingLost'
      BY <2>2 DEF Deliver, Receive, StoreInv, NothingLost, Recorded, TypeOK, QueueTypeOK
    <3>2. QED
      BY <2>2, <3>1 DEF Deliver, StoreInv, AckAfterStore, WrittenIsStored
  <2>3. ASSUME NEW w \in Workers, NEW d \in response[w], DropPoison(w, d)
        PROVE  StoreInv'
    <3>1. d \in Deliveries /\ d.msg \in Messages
      BY DEF TypeOK, Deliveries
    <3>2. ground' = [ground EXCEPT ![d.msg] = @ \cup {"refused"}]
      BY <2>3 DEF DropPoison
    <3>3. /\ \A m \in Messages : ground[m] \subseteq ground'[m]
          /\ ground'[d.msg] # {}
      BY <3>1, <3>2 DEF TypeOK
    <3>4. Delete({d}) /\ UNCHANGED <<bufferVars, batch>>
      BY <2>3 DEF DropPoison
    <3>5. NothingLost'
      BY <3>1, <3>3, <3>4, DeleteJustified DEF StoreInv
    <3>6. AckAfterStore'
      <4>1. ASSUME NEW v \in Workers, NEW e \in acks[v] \cup batch[v]
            PROVE  e.msg \in Messages
        BY <4>1 DEF TypeOK, BufferTypeOK, Deliveries
      <4>2. QED
        BY <3>3, <3>4, <4>1 DEF StoreInv, AckAfterStore
    <3>7. QED
      BY <3>4, <3>5, <3>6 DEF StoreInv, WrittenIsStored
  <2>4. ASSUME NEW w \in Workers, NEW lost \in SUBSET response[w], FetchReturns(w, lost)
        PROVE  StoreInv'
    BY <2>4, <2>0 DEF FetchReturns
  <2>5. ASSUME NEW w \in Workers, FetchFails(w)
        PROVE  StoreInv'
    BY <2>5, <2>0 DEF FetchFails
  <2>6. ASSUME NEW w \in Workers, NEW d \in Deliveries, TaskStep(w, d)
        PROVE  StoreInv'
    <3>1. CASE Enter(w, d)
      BY <3>1, <2>0 DEF Enter
    <3>2. CASE RobotsDeny(w, d)
      BY <3>2, DiscardKeeps DEF RobotsDeny, Reasons
    <3>3. CASE Admit(w, d)
      BY <3>3, <2>0 DEF Admit
    <3>4. CASE ParseOK(w, d)
      BY <3>4, <2>0 DEF ParseOK, AddRecord
    <3>5. CASE ParseFatal(w, d)
      BY <3>5, DiscardKeeps DEF ParseFatal, Reasons
    <3>6. CASE ParseExhausted(w, d)
      BY <3>6, DiscardKeeps DEF ParseExhausted, Reasons
    <3>7. CASE ParseAgain(w, d)
      BY <3>7, <2>0 DEF ParseAgain
    <3>8. QED
      BY <2>6, <3>1, <3>2, <3>3, <3>4, <3>5, <3>6, <3>7 DEF TaskStep
  <2>7. ASSUME NEW w \in Workers, NEW js \in SUBSET Jobs, Ticker(w, js)
        PROVE  StoreInv'
    BY <2>7, <2>0 DEF Ticker, Tick
  <2>8. ASSUME NEW w \in Workers, NEW b \in uploads[w] \cup written[w], Flush(w, b)
        PROVE  StoreInv'
    <3>0. /\ queue' = queue /\ ground' = ground /\ batch' = batch
          /\ \A v \in Workers : \A c \in written[v] : c \subseteq lake
      BY <2>8 DEF Flush, StoreInv, WrittenIsStored
    <3>1. CASE PutObject(w, b)
      <4>1. /\ lake' = lake \cup b /\ acks' = acks
            /\ \A v \in Workers : written'[v] \subseteq written[v] \cup {b}
        BY <3>1 DEF PutObject, TypeOK, BufferTypeOK
      <4>2. QED
        BY <3>0, <4>1, StoreInvKept
    <3>2. CASE UploadDone(w, b)
      <4>1. /\ lake' = lake /\ b \in written[w]
            /\ \A v \in Workers : written'[v] \subseteq written[v]
            /\ \A v \in Workers : acks'[v] \subseteq acks[v] \cup b
        BY <3>2 DEF UploadDone, TypeOK, BufferTypeOK
      <4>2. b \subseteq lake
        BY <3>0, <4>1
      <4>3. QED
        BY <3>0, <4>1, <4>2, StoreInvKept
    <3>3. CASE UploadFails(w, b)
      <4>1. /\ lake' = lake /\ acks' = acks
            /\ \A v \in Workers : written'[v] \subseteq written[v]
        BY <3>3 DEF UploadFails, TypeOK, BufferTypeOK
      <4>2. QED
        BY <3>0, <4>1, StoreInvKept
    <3>4. QED
      BY <2>8, <3>1, <3>2, <3>3 DEF Flush
  <2>9. ASSUME NEW w \in Workers, NEW d \in acks[w], TakeAck(w, d)
        PROVE  StoreInv'
    <3>1. /\ queue' = queue /\ ground' = ground /\ lake' = lake /\ written' = written
          /\ \A v \in Workers : acks'[v] \cup batch'[v] \subseteq acks[v] \cup batch[v]
      BY <2>9 DEF TakeAck, TypeOK, BufferTypeOK
    <3>2. QED
      BY <3>1, StoreInvKept DEF StoreInv, WrittenIsStored
  <2>10. ASSUME NEW w \in Workers, NEW accepted \in SUBSET batch[w], SendBatch(w, accepted)
         PROVE  StoreInv'
    <3>1. /\ Delete(accepted) /\ UNCHANGED <<written, lake, acks, ground>>
          /\ batch' = [batch EXCEPT ![w] = {}]
      BY <2>10 DEF SendBatch
    <3>2. accepted \in SUBSET Deliveries
      BY DEF TypeOK
    <3>3. \A d \in accepted : d \in lake \/ ground[d.msg] # {}
      BY DEF StoreInv, AckAfterStore
    <3>4. NothingLost'
      BY <3>1, <3>2, <3>3, DeleteJustified DEF StoreInv
    <3>5. AckAfterStore'
      BY <3>1 DEF StoreInv, AckAfterStore, TypeOK
    <3>6. QED
      BY <3>1, <3>4, <3>5 DEF StoreInv, WrittenIsStored
  <2>11. ASSUME NEW w \in Workers, ShutdownStep(w)
         PROVE  StoreInv'
    BY <2>11, <2>0 DEF ShutdownStep, GatherActive, CloseFlushes, CloseBuffers, CloseReturns,
                       FlusherExits
  <2>12. ASSUME NEW w \in Workers, Stop(w)
         PROVE  StoreInv'
    BY <2>12, <2>0 DEF Stop
  <2>13. ASSUME NEW w \in Workers, Crash(w)
         PROVE  StoreInv'
    <3>1. /\ queue' = queue /\ ground' = ground /\ lake' = lake
          /\ \A v \in Workers : written'[v] \subseteq written[v]
          /\ \A v \in Workers : acks'[v] \cup batch'[v] \subseteq acks[v] \cup batch[v]
      BY <2>13 DEF Crash, LoseBuffers, TypeOK, BufferTypeOK
    <3>2. QED
      BY <3>1, StoreInvKept DEF StoreInv, WrittenIsStored
  <2>14. ASSUME NEW w \in Workers, Start(w)
         PROVE  StoreInv'
    BY <2>14, <2>0 DEF Start
  <2>15. ASSUME NEW m \in Messages, QueueStep(m)
         PROVE  StoreInv'
    <3>1. NothingLost'
      BY <2>15 DEF QueueStep, Expire, Redrive, StoreInv, NothingLost, Recorded, TypeOK, QueueTypeOK
    <3>2. QED
      BY <2>15, <3>1 DEF QueueStep, StoreInv, AckAfterStore, WrittenIsStored
  <2>16. CASE UNCHANGED vars
    BY <2>16, <2>0 DEF vars
  <2>17. QED
    BY <2>1, <2>2, <2>3, <2>4, <2>5, <2>6, <2>7, <2>8, <2>9, <2>10, <2>11, <2>12,
       <2>13, <2>14, <2>15, <2>16
    DEF Next, FetchStep, BackgroundStep
<1>3. QED
  BY <1>1, <1>2, TypeCorrect, PTL DEF Spec

\* Whatever crashes, expires, fails or is stored twice, no message is deleted
\* from the queue unless it is in the data lake or was given up for a reason,
\* and no worker acknowledges a delivery for another reason.
THEOREM NoMessageLost == Spec => [](NothingLost /\ AckAfterStore)
<1>1. StoreInv => NothingLost /\ AckAfterStore
  BY DEF StoreInv
<1>2. QED
  BY <1>1, StoreInvHolds, PTL

\* A worker only holds the acknowledgement of what is in the lake or was given
\* up: the queue of acks is filled after the answer of S3, never before.
THEOREM AcksAreStored == Spec => []AckAfterStore
BY NoMessageLost, PTL

-----------------------------------------------------------------------------
(* The shutdown.  CleanStop follows from the order of its steps.           *)

\* A step that only shrinks what a worker holds in each place keeps the order.
LEMMA ShutdownOrderKept ==
    ASSUME ShutdownOrder,
           pc' = pc,
           \A w \in Workers :
             /\ response'[w] \subseteq response[w]
             /\ Active(w)' \subseteq Active(w)
             /\ pc[w] \in {"draining", "closed", "down"} =>
                  /\ buffer'[w] \subseteq buffer[w]
                  /\ uploads'[w] \subseteq uploads[w]
                  /\ written'[w] \subseteq written[w]
             /\ pc[w] \in {"closed", "down"} =>
                  acks'[w] \subseteq acks[w] /\ batch'[w] \subseteq batch[w]
    PROVE  ShutdownOrder'
BY DEF ShutdownOrder

\* An active coroutine is one whose stage is not "none".
LEMMA ActiveStage ==
    ASSUME NEW w \in Workers, NEW d \in Deliveries
    PROVE  /\ d \in Active(w) <=> stage[w][d] # "none"
           /\ d \in Active(w)' <=> stage'[w][d] # "none"
BY DEF Active

\* A coroutine that leaves takes only itself off the active tasks.
LEMMA LeaveActive ==
    ASSUME TypeOK, NEW w \in Workers, NEW d \in Deliveries, NEW s \in Stages,
           stage[w][d] # "none",
           stage' = [stage EXCEPT ![w][d] = s]
    PROVE  \A v \in Workers : Active(v)' \subseteq Active(v)
<1> SUFFICES ASSUME NEW v \in Workers, NEW e \in Deliveries, stage'[v][e] # "none"
             PROVE  stage[v][e] # "none"
  BY DEF Active
<1>1. CASE v = w /\ e = d
  BY <1>1
<1>2. CASE ~(v = w /\ e = d)
  BY <1>2 DEF TypeOK
<1>3. QED
  BY <1>1, <1>2

\* A graceful shutdown runs its steps in order, and a worker that has stopped
\* holds no record, no flush and no acknowledgement.
THEOREM GracefulStop == Spec => [](ShutdownOrder /\ CleanStop)
<1>1. Init => ShutdownOrder
  BY DEF Init, BufferInit, ShutdownOrder
<1>2. TypeOK /\ ShutdownOrder /\ [Next]_vars => ShutdownOrder'
  <2> SUFFICES ASSUME TypeOK, ShutdownOrder, [Next]_vars
               PROVE  ShutdownOrder'
    OBVIOUS
  <2> USE DEF sqsVars, bufferVars, controlVars
  <2>0. ASSUME UNCHANGED <<pc, response, stage, bufferVars, batch>>
        PROVE  ShutdownOrder'
    BY <2>0, ShutdownOrderKept DEF Active
  <2>1. ASSUME NEW w \in Workers, StartFetch(w)
        PROVE  ShutdownOrder'
    BY <2>1 DEF StartFetch, ShutdownOrder, Active, TypeOK
  <2>2. ASSUME NEW w \in Workers, NEW m \in Messages, Deliver(w, m)
        PROVE  ShutdownOrder'
    BY <2>2 DEF Deliver, ShutdownOrder, Active, TypeOK
  <2>3. ASSUME NEW w \in Workers, NEW d \in response[w], DropPoison(w, d)
        PROVE  ShutdownOrder'
    <3>1. /\ UNCHANGED <<pc, stage, bufferVars, batch>>
          /\ \A v \in Workers : response'[v] \subseteq response[v]
      BY <2>3 DEF DropPoison, TypeOK
    <3>2. QED
      BY <3>1, ShutdownOrderKept DEF Active
  <2>4. ASSUME NEW w \in Workers, NEW lost \in SUBSET response[w], FetchReturns(w, lost)
        PROVE  ShutdownOrder'
    <3>1. /\ pc[w] = "fetching"
          /\ pc' = [pc EXCEPT ![w] = "loop"]
          /\ response' = [response EXCEPT ![w] = {}]
          /\ \A v \in Workers \ {w} : stage'[v] = stage[v]
          /\ UNCHANGED <<bufferVars, batch>>
      BY <2>4 DEF FetchReturns, TypeOK
    <3>2. QED
      BY <3>1 DEF ShutdownOrder, Active, TypeOK
  <2>5. ASSUME NEW w \in Workers, FetchFails(w)
        PROVE  ShutdownOrder'
    BY <2>5 DEF FetchFails, ShutdownOrder, Active, TypeOK
  <2>6. ASSUME NEW w \in Workers, NEW d \in Deliveries, TaskStep(w, d)
        PROVE  ShutdownOrder'
    <3>1. /\ stage[w][d] # "none"
          /\ \E s \in Stages : stage' = [stage EXCEPT ![w][d] = s]
      BY <2>6, Zenon
      DEF TaskStep, Enter, RobotsDeny, Admit, ParseOK, ParseFatal, ParseExhausted, ParseAgain,
          Discard, Leave, Stages
    <3>2. \A v \in Workers : Active(v)' \subseteq Active(v)
      BY <3>1, LeaveActive
    <3>3. /\ pc' = pc /\ response' = response /\ batch' = batch /\ written' = written
          /\ d \in Active(w)
      BY <2>6, <3>1
      DEF TaskStep, Enter, RobotsDeny, Admit, ParseOK, AddRecord, ParseFatal, ParseExhausted,
          ParseAgain, Discard, Active
    <3>4. pc[w] \notin {"closing", "draining", "closed", "down"}
      BY <3>3 DEF ShutdownOrder
    <3>5. \A v \in Workers \ {w} :
            buffer'[v] = buffer[v] /\ uploads'[v] = uploads[v] /\ acks'[v] = acks[v]
      BY <2>6
      DEF TaskStep, Enter, RobotsDeny, Admit, ParseOK, AddRecord, ParseFatal, ParseExhausted,
          ParseAgain, Discard, TypeOK, BufferTypeOK
    <3>6. QED
      BY <3>2, <3>3, <3>4, <3>5, ShutdownOrderKept
  <2>7. ASSUME NEW w \in Workers, NEW js \in SUBSET Jobs, Ticker(w, js)
        PROVE  ShutdownOrder'
    <3>1. /\ UNCHANGED <<pc, response, stage, batch, written, acks>>
          /\ pc[w] \notin {"draining", "closed", "down"}
          /\ \A v \in Workers \ {w} : buffer'[v] = buffer[v] /\ uploads'[v] = uploads[v]
      BY <2>7 DEF Ticker, Tick, Running, TypeOK, BufferTypeOK
    <3>2. QED
      BY <3>1, ShutdownOrderKept DEF Active
  <2>8. ASSUME NEW w \in Workers, NEW b \in uploads[w] \cup written[w], Flush(w, b)
        PROVE  ShutdownOrder'
    <3>1. /\ UNCHANGED <<pc, response, stage, batch, buffer>>
          /\ pc[w] \notin {"draining", "closed", "down"}
      BY <2>8 DEF Flush, PutObject, UploadDone, UploadFails, ShutdownOrder
    <3>2. \A v \in Workers \ {w} :
            uploads'[v] = uploads[v] /\ written'[v] = written[v] /\ acks'[v] = acks[v]
      BY <2>8 DEF Flush, PutObject, UploadDone, UploadFails, TypeOK, BufferTypeOK
    <3>3. QED
      BY <3>1, <3>2, ShutdownOrderKept DEF Active
  <2>9. ASSUME NEW w \in Workers, NEW d \in acks[w], TakeAck(w, d)
        PROVE  ShutdownOrder'
    <3>1. /\ UNCHANGED <<pc, response, stage, buffer, uploads, written>>
          /\ pc[w] \notin {"closed", "down"}
          /\ \A v \in Workers \ {w} : acks'[v] = acks[v] /\ batch'[v] = batch[v]
      BY <2>9 DEF TakeAck, ShutdownOrder, TypeOK, BufferTypeOK
    <3>2. QED
      BY <3>1, ShutdownOrderKept DEF Active
  <2>10. ASSUME NEW w \in Workers, NEW accepted \in SUBSET batch[w], SendBatch(w, accepted)
         PROVE  ShutdownOrder'
    <3>1. /\ UNCHANGED <<pc, response, stage, bufferVars>>
          /\ \A v \in Workers : batch'[v] \subseteq batch[v]
      BY <2>10 DEF SendBatch, TypeOK
    <3>2. QED
      BY <3>1, ShutdownOrderKept DEF Active
  <2>11. ASSUME NEW w \in Workers, ShutdownStep(w)
         PROVE  ShutdownOrder'
    <3>1. CASE GatherActive(w)
      BY <3>1 DEF GatherActive, CloseFlushes, ShutdownOrder, Active, TypeOK, BufferTypeOK
    <3>2. CASE CloseBuffers(w)
      BY <3>2 DEF CloseBuffers, CloseReturns, ShutdownOrder, Active, TypeOK, BufferTypeOK
    <3>3. CASE FlusherExits(w)
      BY <3>3 DEF FlusherExits, ShutdownOrder, Active, TypeOK, BufferTypeOK
    <3>4. QED
      BY <2>11, <3>1, <3>2, <3>3 DEF ShutdownStep
  <2>12. ASSUME NEW w \in Workers, Stop(w)
         PROVE  ShutdownOrder'
    BY <2>12 DEF Stop, ShutdownOrder, Active, TypeOK
  <2>13. ASSUME NEW w \in Workers, Crash(w)
         PROVE  ShutdownOrder'
    <3>1. /\ pc' = [pc EXCEPT ![w] = "down"]
          /\ response' = [response EXCEPT ![w] = {}]
          /\ batch' = [batch EXCEPT ![w] = {}]
          /\ LoseBuffers(w)
          /\ stage'[w] = [d \in Deliveries |-> "none"]
          /\ \A v \in Workers \ {w} : stage'[v] = stage[v]
      BY <2>13 DEF Crash, TypeOK
    <3>2. Active(w)' = {} /\ \A v \in Workers \ {w} : Active(v)' = Active(v)
      BY <3>1 DEF Active
    <3>3. QED
      BY <3>1, <3>2 DEF LoseBuffers, ShutdownOrder, TypeOK, BufferTypeOK
  <2>14. ASSUME NEW w \in Workers, Start(w)
         PROVE  ShutdownOrder'
    BY <2>14 DEF Start, ShutdownOrder, Active, TypeOK
  <2>15. ASSUME NEW m \in Messages, QueueStep(m)
         PROVE  ShutdownOrder'
    BY <2>15, <2>0 DEF QueueStep
  <2>16. CASE UNCHANGED vars
    BY <2>16, <2>0 DEF vars
  <2>17. QED
    BY <2>1, <2>2, <2>3, <2>4, <2>5, <2>6, <2>7, <2>8, <2>9, <2>10, <2>11, <2>12,
       <2>13, <2>14, <2>15, <2>16
    DEF Next, FetchStep, BackgroundStep
<1>3. ShutdownOrder => CleanStop
  BY DEF ShutdownOrder, CleanStop, Held, Flushing
<1>4. QED
  BY <1>1, <1>2, <1>3, TypeCorrect, PTL DEF Spec

-----------------------------------------------------------------------------
(* Who owns a delivery.  OnePlace and StoredOnce are not inductive: a      *)
(* receive must give out a handle that is nowhere yet, what S3 stores for  *)
(* one worker must be in no place of another, and the batches of a worker  *)
(* must not overlap, or one of them would be stored and the other not.     *)

\* A handle is nowhere before its receive.
Issued ==
    \A d \in Deliveries :
        (d \in lake \/ \E w \in Workers : d \in Held(w)) => d.rc <= receives[d.msg]

\* No two workers hold the same delivery.
OneOwner == \A v, w \in Workers : v # w => Held(v) \cap Held(w) = {}

\* The places of a worker are apart (OnePlace, of one worker).
Apart(w) ==
    /\ Active(w) \cap (response[w] \cup buffer[w] \cup Flushing(w) \cup acks[w] \cup batch[w]) = {}
    /\ response[w] \cap (buffer[w] \cup Flushing(w) \cup acks[w] \cup batch[w]) = {}
    /\ Flushing(w) \cap (acks[w] \cup batch[w]) = {}
    /\ acks[w] \cap batch[w] = {}
    /\ pc[w] # "closing" => buffer[w] \cap (Flushing(w) \cup acks[w] \cup batch[w]) = {}

\* The batches of a worker are apart.
OneBatch(w) == \A b, c \in uploads[w] \cup written[w] : b # c => b \cap c = {}

\* What a worker has yet to store is not stored (StoredOnce, of one worker, and
\* its buffer).
Unstored(w) ==
    /\ lake \cap (response[w] \cup Active(w) \cup UNION uploads[w]) = {}
    /\ pc[w] # "closing" => lake \cap buffer[w] = {}

Owns(w) == Apart(w) /\ OneBatch(w) /\ Unstored(w)

OwnInv == Issued /\ OneOwner /\ \A w \in Workers : Owns(w)

\* New batches add their records to the flushes of a worker.
LEMMA FlushingGrows ==
    ASSUME NEW w \in Workers, NEW B,
           uploads'[w] = uploads[w] \cup B, written'[w] = written[w]
    PROVE  /\ Flushing(w)' = Flushing(w) \cup UNION B
           /\ UNION uploads'[w] = (UNION uploads[w]) \cup UNION B
<1>1. \A d : d \in UNION uploads'[w] <=> d \in UNION uploads[w] \/ d \in UNION B
  BY DEF Flushing
<1>2. \A d : d \in Flushing(w)' <=> d \in Flushing(w) \/ d \in UNION B
  BY DEF Flushing
<1>3. QED
  BY <1>1, <1>2

\* One more batch that overlaps none keeps the batches apart.
LEMMA OneBatchMore ==
    ASSUME NEW w \in Workers, OneBatch(w), NEW b,
           \A c \in uploads[w] \cup written[w] : b \cap c = {},
           uploads'[w] \cup written'[w] \subseteq (uploads[w] \cup written[w]) \cup {b}
    PROVE  OneBatch(w)'
<1> SUFFICES ASSUME NEW e \in uploads'[w] \cup written'[w],
                    NEW c \in uploads'[w] \cup written'[w], e # c
             PROVE  e \cap c = {}
  BY DEF OneBatch
<1>1. /\ e = b \/ e \in uploads[w] \cup written[w]
      /\ c = b \/ c \in uploads[w] \cup written[w]
  OBVIOUS
<1>2. QED
  BY <1>1 DEF OneBatch

\* Whatever a worker holds is a delivery.
LEMMA HeldType ==
    ASSUME TypeOK, NEW w \in Workers
    PROVE  Held(w) \subseteq Deliveries
BY DEF Held, Flushing, Active, TypeOK, BufferTypeOK

\* A step that only takes deliveries out of places keeps the invariant; a
\* buffer kept through a close is empty at its end.
LEMMA OwnShrinks ==
    ASSUME OwnInv, receives' = receives, lake' = lake,
           \A w \in Workers :
             /\ response'[w] \subseteq response[w]
             /\ Active(w)' \subseteq Active(w)
             /\ buffer'[w] \subseteq buffer[w]
             /\ uploads'[w] \subseteq uploads[w]
             /\ written'[w] \subseteq written[w]
             /\ acks'[w] \subseteq acks[w]
             /\ batch'[w] \subseteq batch[w]
             /\ pc[w] = "closing" => pc'[w] = "closing" \/ buffer'[w] = {}
    PROVE  OwnInv'
<1>1. ASSUME NEW w \in Workers
      PROVE  /\ Flushing(w)' \subseteq Flushing(w)
             /\ Held(w)' \subseteq Held(w)
  BY <1>1 DEF Flushing, Held
<1>2. Issued' /\ OneOwner'
  BY <1>1 DEF OwnInv, Issued, OneOwner
<1>3. ASSUME NEW w \in Workers
      PROVE  Owns(w)'
  <2>1. Apart(w) /\ OneBatch(w) /\ Unstored(w)
    BY DEF OwnInv, Owns
  <2>2. Apart(w)'
    BY <1>1, <2>1 DEF Apart
  <2>3. OneBatch(w)'
    BY <2>1 DEF OneBatch
  <2>4. Unstored(w)'
    BY <2>1 DEF Unstored
  <2>5. QED
    BY <2>2, <2>3, <2>4 DEF Owns
<1>4. QED
  BY <1>2, <1>3 DEF OwnInv

\* A step inside one worker, which may store what it holds, keeps the invariant
\* of the others.
LEMMA OwnMoves ==
    ASSUME OwnInv, TypeOK, NEW w \in Workers, receives' = receives,
           lake' \subseteq lake \cup Held(w),
           Held(w)' \subseteq Held(w),
           Owns(w)',
           \A v \in Workers \ {w} :
             /\ pc'[v] = pc[v] /\ response'[v] = response[v] /\ Active(v)' = Active(v)
             /\ buffer'[v] = buffer[v] /\ uploads'[v] = uploads[v] /\ written'[v] = written[v]
             /\ acks'[v] = acks[v] /\ batch'[v] = batch[v]
    PROVE  OwnInv'
<1>1. ASSUME NEW v \in Workers \ {w}
      PROVE  Flushing(v)' = Flushing(v) /\ Held(v)' = Held(v)
  BY <1>1 DEF Flushing, Held
<1>2. Issued'
  BY <1>1 DEF OwnInv, Issued
<1>3. OneOwner'
  BY <1>1 DEF OwnInv, OneOwner
<1>4. ASSUME NEW v \in Workers \ {w}
      PROVE  Owns(v)'
  <2>1. Apart(v) /\ OneBatch(v) /\ Unstored(v)
    BY DEF OwnInv, Owns
  <2>2. Apart(v)'
    BY <1>1, <2>1 DEF Apart
  <2>3. OneBatch(v)'
    BY <2>1 DEF OneBatch
  <2>4. Held(v) \cap Held(w) = {}
    BY DEF OwnInv, OneOwner
  <2>5. Unstored(v)'
    BY <2>1, <2>4 DEF Unstored, Held, Flushing
  <2>6. QED
    BY <2>2, <2>3, <2>5 DEF Owns
<1>5. QED
  BY <1>2, <1>3, <1>4 DEF OwnInv

\* What a delivery is given up for does not matter: it moves from the active
\* tasks to the ack queue.
LEMMA OwnDiscard ==
    ASSUME OwnInv, TypeOK, NEW w \in Workers, NEW d \in Deliveries, NEW why \in Reasons,
           stage[w][d] # "none", Discard(w, d, why)
    PROVE  OwnInv'
<1>1. /\ UNCHANGED <<receives, lake, pc, response, buffer, uploads, written, batch>>
      /\ acks' = [acks EXCEPT ![w] = @ \cup {d}]
      /\ stage' = [stage EXCEPT ![w][d] = "none"]
  BY DEF Discard, Leave, sqsVars, controlVars
<1>2. /\ d \in Active(w)
      /\ Active(w)' = Active(w) \ {d}
      /\ acks'[w] = acks[w] \cup {d}
      /\ \A v \in Workers \ {w} : Active(v)' = Active(v) /\ acks'[v] = acks[v]
  BY <1>1 DEF Active, TypeOK, BufferTypeOK
<1>3. Flushing(w)' = Flushing(w)
  BY <1>1 DEF Flushing
<1>4. Owns(w)'
  <2>1. Apart(w) /\ OneBatch(w) /\ Unstored(w)
    BY DEF OwnInv, Owns
  <2>2. Apart(w)'
    BY <1>1, <1>2, <1>3, <2>1 DEF Apart
  <2>3. OneBatch(w)' /\ Unstored(w)'
    BY <1>1, <1>2, <2>1 DEF OneBatch, Unstored
  <2>4. QED
    BY <2>2, <2>3 DEF Owns
<1>5. Held(w)' \subseteq Held(w)
  BY <1>1, <1>2, <1>3 DEF Held
<1>6. QED
  BY <1>1, <1>2, <1>4, <1>5, OwnMoves

\* A record moves from the active tasks into a buffer or, with its mates, into
\* one new batch.
LEMMA OwnParseOK ==
    ASSUME OwnInv, TypeOK, ShutdownOrder, NEW w \in Workers, NEW d \in Deliveries, ParseOK(w, d)
    PROVE  OwnInv'
<1> DEFINE records == buffer[w] \cup {d}
           mates == OfJob(JobOf[d.msg], records)
<1>1. /\ UNCHANGED <<receives, lake, pc, response, written, acks, batch>>
      /\ stage' = [stage EXCEPT ![w][d] = "none"]
      /\ stage[w][d] # "none"
  BY DEF ParseOK, AddRecord, Leave, sqsVars, controlVars
<1>2. /\ d \in Active(w)
      /\ Active(w)' = Active(w) \ {d}
      /\ \A v \in Workers \ {w} : Active(v)' = Active(v)
  BY <1>1 DEF Active, TypeOK
<1>3. pc[w] # "closing"
  BY <1>2 DEF ShutdownOrder
<1>4. mates \subseteq records
  BY DEF OfJob
<1>5. PICK batches \in {{}, {mates}} :
        /\ buffer'[w] = records \ UNION batches
        /\ uploads'[w] = uploads[w] \cup batches
        /\ \A v \in Workers \ {w} : buffer'[v] = buffer[v] /\ uploads'[v] = uploads[v]
  <2>1. CASE buffer' = [buffer EXCEPT ![w] = records] /\ UNCHANGED uploads
    BY <2>1 DEF TypeOK, BufferTypeOK
  <2>2. CASE /\ buffer' = [buffer EXCEPT ![w] = records \ mates]
             /\ uploads' = [uploads EXCEPT ![w] = @ \cup {mates}]
    BY <2>2 DEF TypeOK, BufferTypeOK
  <2>3. QED
    BY <2>1, <2>2, Zenon DEF ParseOK, AddRecord
<1>6. /\ Flushing(w)' = Flushing(w) \cup UNION batches
      /\ (UNION batches) \subseteq records
      /\ UNION uploads'[w] = (UNION uploads[w]) \cup UNION batches
  <2> HIDE DEF records, mates
  <2>1. (UNION batches) \subseteq records
    BY <1>4, <1>5
  <2>2. uploads'[w] = uploads[w] \cup batches /\ written'[w] = written[w]
    BY <1>1, <1>5
  <2>3. QED
    BY <2>1, <2>2, FlushingGrows
<1>7. Owns(w)'
  <2>1. Apart(w) /\ OneBatch(w) /\ Unstored(w)
    BY DEF OwnInv, Owns
  <2>2. Apart(w)'
    BY <1>1, <1>2, <1>3, <1>5, <1>6, <2>1 DEF Apart
  <2>3. OneBatch(w)'
    <3>1. records \cap Flushing(w) = {}
      BY <1>2, <1>3, <2>1 DEF Apart
    <3>2. \A b \in uploads[w] \cup written[w] : mates \cap b = {}
      BY <1>4, <3>1 DEF Flushing
    <3>3. uploads'[w] \cup written'[w] \subseteq (uploads[w] \cup written[w]) \cup {mates}
      BY <1>1, <1>5
    <3>4. QED
      BY <2>1, <3>2, <3>3, OneBatchMore
  <2>4. Unstored(w)'
    BY <1>1, <1>2, <1>3, <1>5, <1>6, <2>1 DEF Unstored
  <2>5. QED
    BY <2>2, <2>3, <2>4 DEF Owns
<1>8. Held(w)' \subseteq Held(w)
  BY <1>1, <1>2, <1>5, <1>6 DEF Held
<1>9. QED
  BY <1>1, <1>2, <1>5, <1>7, <1>8, OwnMoves

\* The buffers of some jobs become batches of their own; a close keeps them in
\* the buffer as well.
LEMMA OwnFlushes ==
    ASSUME OwnInv, TypeOK, NEW w \in Workers, NEW js \in SUBSET Jobs,
           pc[w] # "closing",
           UNCHANGED <<receives, lake, response, stage, written, acks, batch>>,
           uploads' = [uploads EXCEPT ![w] = @ \cup {OfJob(j, buffer[w]) : j \in js}],
           \/ pc' = pc /\ buffer' = [buffer EXCEPT ![w] = {d \in @ : JobOf[d.msg] \notin js}]
           \/ /\ pc' = [pc EXCEPT ![w] = "closing"]
              /\ UNCHANGED buffer
              /\ response[w] = {} /\ Active(w) = {}
    PROVE  OwnInv'
<1> DEFINE batches == {OfJob(j, buffer[w]) : j \in js}
<1>1. \A v \in Workers : Active(v)' = Active(v)
  BY DEF Active
<1>2. UNION batches = {d \in buffer[w] : JobOf[d.msg] \in js}
  BY DEF OfJob
<1>3. /\ uploads'[w] = uploads[w] \cup batches
      /\ buffer'[w] \subseteq buffer[w]
      /\ pc'[w] # "closing" => buffer'[w] = buffer[w] \ UNION batches
      /\ \A v \in Workers \ {w} :
           buffer'[v] = buffer[v] /\ uploads'[v] = uploads[v] /\ pc'[v] = pc[v]
  <2> HIDE DEF batches
  <2>1. CASE pc' = pc /\ buffer' = [buffer EXCEPT ![w] = {d \in @ : JobOf[d.msg] \notin js}]
    BY <1>2, <2>1 DEF TypeOK, BufferTypeOK, batches
  <2>2. CASE pc' = [pc EXCEPT ![w] = "closing"] /\ UNCHANGED buffer
    BY <2>2 DEF TypeOK, BufferTypeOK, batches
  <2>3. QED
    BY <2>1, <2>2
<1>4. /\ Flushing(w)' = Flushing(w) \cup UNION batches
      /\ UNION uploads'[w] = (UNION uploads[w]) \cup UNION batches
  <2> HIDE DEF batches
  <2>1. uploads'[w] = uploads[w] \cup batches /\ written'[w] = written[w]
    BY <1>3
  <2>2. QED
    BY <2>1, FlushingGrows
<1>5. Owns(w)'
  <2>1. Apart(w) /\ OneBatch(w) /\ Unstored(w)
    BY DEF OwnInv, Owns
  <2>2. Apart(w)'
    BY <1>1, <1>2, <1>3, <1>4, <2>1 DEF Apart
  <2>3. OneBatch(w)'
    <3>1. \A b \in uploads[w] \cup written[w] : buffer[w] \cap b = {}
      BY <2>1 DEF Apart, Flushing
    <3>2. \A c \in batches : c \subseteq buffer[w]
      BY DEF OfJob
    <3>3. \A b, c \in batches : b # c => b \cap c = {}
      BY DEF OfJob
    <3>4. written'[w] = written[w]
      OBVIOUS
    <3>5. QED
      BY <1>3, <2>1, <3>1, <3>2, <3>3, <3>4 DEF OneBatch
  <2>4. Unstored(w)'
    BY <1>1, <1>2, <1>3, <1>4, <2>1 DEF Unstored
  <2>5. QED
    BY <2>2, <2>3, <2>4 DEF Owns
<1>6. Held(w)' \subseteq Held(w)
  BY <1>1, <1>2, <1>3, <1>4 DEF Held
<1>7. QED
  BY <1>1, <1>3, <1>5, <1>6, OwnMoves

\* A batch that S3 stores, or whose tasks are queued for acknowledgement,
\* leaves the others apart from it.
LEMMA OwnFlush ==
    ASSUME OwnInv, TypeOK, WrittenIsStored, NEW w \in Workers,
           NEW b \in uploads[w] \cup written[w], Flush(w, b)
    PROVE  OwnInv'
<1>1. UNCHANGED <<receives, pc, response, stage, batch, buffer>>
  BY DEF Flush, PutObject, UploadDone, UploadFails, sqsVars, controlVars
<1>2. \A v \in Workers : Active(v)' = Active(v)
  BY <1>1 DEF Active
<1>3. Apart(w) /\ OneBatch(w) /\ Unstored(w)
  BY DEF OwnInv, Owns
<1>4. CASE UploadFails(w, b)
  <2>1. /\ lake' = lake /\ acks' = acks
        /\ \A v \in Workers : uploads'[v] \subseteq uploads[v] /\ written'[v] \subseteq written[v]
    BY <1>4 DEF UploadFails, TypeOK, BufferTypeOK
  <2>2. QED
    BY <1>1, <1>2, <2>1, OwnShrinks
<1>5. CASE PutObject(w, b)
  <2>1. /\ b \in uploads[w]
        /\ uploads'[w] = uploads[w] \ {b}
        /\ written'[w] = written[w] \cup {b}
        /\ lake' = lake \cup b
        /\ acks' = acks
        /\ \A v \in Workers \ {w} : uploads'[v] = uploads[v] /\ written'[v] = written[v]
    BY <1>5 DEF PutObject, TypeOK, BufferTypeOK
  <2>2. uploads'[w] \cup written'[w] = uploads[w] \cup written[w]
    BY <2>1
  <2>3. Flushing(w)' = Flushing(w)
    BY <2>2 DEF Flushing
  <2>4. b \subseteq Flushing(w)
    BY <2>1 DEF Flushing
  <2>5. Apart(w)' /\ OneBatch(w)'
    BY <1>1, <1>2, <1>3, <2>1, <2>2, <2>3 DEF Apart, OneBatch
  <2>6. b \cap UNION uploads'[w] = {}
    BY <1>3, <2>1 DEF OneBatch
  <2>7. UNION uploads'[w] \subseteq UNION uploads[w]
    BY <2>1
  <2>8. Unstored(w)'
    BY <1>1, <1>2, <1>3, <2>1, <2>4, <2>6, <2>7 DEF Unstored, Apart
  <2>9. Held(w)' \subseteq Held(w) /\ b \subseteq Held(w)
    BY <1>1, <1>2, <2>1, <2>3, <2>4 DEF Held
  <2>10. QED
    BY <1>1, <1>2, <2>1, <2>5, <2>8, <2>9, OwnMoves DEF Owns
<1>6. CASE UploadDone(w, b)
  <2>1. /\ b \in written[w]
        /\ written'[w] = written[w] \ {b}
        /\ acks'[w] = acks[w] \cup b
        /\ lake' = lake
        /\ uploads' = uploads
        /\ \A v \in Workers \ {w} : written'[v] = written[v] /\ acks'[v] = acks[v]
    BY <1>6 DEF UploadDone, TypeOK, BufferTypeOK
  <2>2. b \subseteq lake /\ b \subseteq Flushing(w)
    BY <2>1 DEF WrittenIsStored, Flushing
  <2>3. Flushing(w)' \subseteq Flushing(w)
    BY <2>1 DEF Flushing
  <2>4. b \cap Flushing(w)' = {}
    <3>1. ASSUME NEW c \in uploads[w]
          PROVE  b \cap c = {}
      BY <1>3, <2>2, <3>1 DEF Unstored
    <3>2. ASSUME NEW c \in written[w], c # b
          PROVE  b \cap c = {}
      BY <1>3, <2>1, <3>2 DEF OneBatch
    <3>3. QED
      BY <2>1, <3>1, <3>2 DEF Flushing
  <2>5. Apart(w)'
    BY <1>1, <1>2, <1>3, <2>1, <2>2, <2>3, <2>4 DEF Apart
  <2>6. OneBatch(w)' /\ Unstored(w)'
    BY <1>1, <1>2, <1>3, <2>1 DEF OneBatch, Unstored
  <2>7. Held(w)' \subseteq Held(w)
    BY <1>1, <1>2, <2>1, <2>2, <2>3 DEF Held
  <2>8. QED
    BY <1>1, <1>2, <2>1, <2>5, <2>6, <2>7, OwnMoves DEF Owns
<1>7. QED
  BY <1>4, <1>5, <1>6 DEF Flush

\* A fetch that returns turns what it was given into active tasks.
LEMMA OwnFetchReturns ==
    ASSUME OwnInv, TypeOK, NEW w \in Workers, NEW lost \in SUBSET response[w],
           FetchReturns(w, lost)
    PROVE  OwnInv'
<1>1. /\ UNCHANGED <<receives, bufferVars, batch>>
      /\ pc[w] = "fetching" /\ pc'[w] = "loop"
      /\ response'[w] = {}
      /\ \A v \in Workers \ {w} :
           pc'[v] = pc[v] /\ response'[v] = response[v] /\ stage'[v] = stage[v]
  BY DEF FetchReturns, TypeOK, sqsVars
<1>2. stage'[w] = [d \in Deliveries |->
                     IF d \in response[w] \ lost THEN "waiting" ELSE stage[w][d]]
  BY DEF FetchReturns, TypeOK
<1>3. Active(w)' = Active(w) \cup (response[w] \ lost)
  BY <1>2 DEF Active, TypeOK
<1>4. \A v \in Workers \ {w} : Active(v)' = Active(v)
  BY <1>1 DEF Active
<1>5. Flushing(w)' = Flushing(w)
  BY <1>1 DEF Flushing, bufferVars
<1>6. Owns(w)'
  <2>1. Apart(w) /\ OneBatch(w) /\ Unstored(w)
    BY DEF OwnInv, Owns
  <2>2. Apart(w)'
    BY <1>1, <1>3, <1>5, <2>1 DEF Apart, bufferVars
  <2>3. OneBatch(w)' /\ Unstored(w)'
    BY <1>1, <1>3, <2>1 DEF OneBatch, Unstored, bufferVars
  <2>4. QED
    BY <2>2, <2>3 DEF Owns
<1>7. Held(w)' \subseteq Held(w)
  BY <1>1, <1>3, <1>5 DEF Held, bufferVars
<1>8. QED
  BY <1>1, <1>4, <1>6, <1>7, OwnMoves DEF bufferVars

\* A task taken for the next batch leaves the ack queue.
LEMMA OwnTakeAck ==
    ASSUME OwnInv, TypeOK, NEW w \in Workers, NEW d \in acks[w], TakeAck(w, d)
    PROVE  OwnInv'
<1>1. /\ UNCHANGED <<receives, lake, pc, response, stage, buffer, uploads, written>>
      /\ acks'[w] = acks[w] \ {d}
      /\ batch'[w] = batch[w] \cup {d}
      /\ \A v \in Workers \ {w} : acks'[v] = acks[v] /\ batch'[v] = batch[v]
  BY DEF TakeAck, TypeOK, BufferTypeOK, sqsVars, controlVars
<1>2. /\ \A v \in Workers : Active(v)' = Active(v)
      /\ Flushing(w)' = Flushing(w)
  BY <1>1 DEF Active, Flushing
<1>3. Owns(w)'
  <2>1. Apart(w) /\ OneBatch(w) /\ Unstored(w)
    BY DEF OwnInv, Owns
  <2>2. Apart(w)'
    BY <1>1, <1>2, <2>1 DEF Apart
  <2>3. OneBatch(w)' /\ Unstored(w)'
    BY <1>1, <1>2, <2>1 DEF OneBatch, Unstored
  <2>4. QED
    BY <2>2, <2>3 DEF Owns
<1>4. Held(w)' \subseteq Held(w)
  BY <1>1, <1>2 DEF Held
<1>5. QED
  BY <1>1, <1>2, <1>3, <1>4, OwnMoves

\* The handle of a new receive is nowhere yet.
LEMMA OwnDeliver ==
    ASSUME OwnInv, TypeOK, ShutdownOrder, NEW w \in Workers, NEW m \in Messages, Deliver(w, m)
    PROVE  OwnInv'
<1> DEFINE new == NextHandle(m)
<1>1. /\ new \in Deliveries /\ new.msg = m /\ new.rc = receives[m] + 1
      /\ receives'[m] = receives[m] + 1
  BY NextHandleType DEF Deliver, TypeOK
<1>2. /\ \A d \in Deliveries : receives[d.msg] <= receives'[d.msg]
      /\ receives[m] \in Nat /\ receives'[m] \in Nat
  BY DEF Deliver, Receive, TypeOK, QueueTypeOK, Deliveries
<1>3. /\ UNCHANGED <<bufferVars, pc, stage, batch>>
      /\ response'[w] = response[w] \cup {new}
      /\ \A v \in Workers \ {w} : response'[v] = response[v]
  BY DEF Deliver, TypeOK
<1> HIDE DEF new
<1>4. \A v \in Workers : Active(v)' = Active(v) /\ Flushing(v)' = Flushing(v)
  BY <1>3 DEF Active, Flushing, bufferVars
<1>5. new \notin lake /\ \A v \in Workers : new \notin Held(v)
  BY <1>1, <1>2 DEF OwnInv, Issued
<1>6. /\ Held(w)' = Held(w) \cup {new}
      /\ \A v \in Workers \ {w} : Held(v)' = Held(v)
  BY <1>3, <1>4 DEF Held, bufferVars
<1>7. Issued'
  <2> SUFFICES ASSUME NEW d \in Deliveries, d \in lake' \/ \E v \in Workers : d \in Held(v)'
               PROVE  d.rc <= receives'[d.msg]
    BY DEF Issued
  <2>1. CASE d = new
    BY <1>1, <1>2, <2>1
  <2>2. CASE d # new
    <3>1. d.rc <= receives[d.msg]
      BY <1>3, <1>6, <2>2 DEF OwnInv, Issued, bufferVars
    <3>2. /\ d.rc \in Nat /\ receives[d.msg] \in Nat /\ receives'[d.msg] \in Nat
      BY <1>2 DEF Deliveries, Deliver, Receive, TypeOK, QueueTypeOK
    <3>3. QED
      BY <1>2, <3>1, <3>2
  <2>3. QED
    BY <2>1, <2>2
<1>8. OneOwner'
  BY <1>5, <1>6 DEF OwnInv, OneOwner
<1>9. ASSUME NEW v \in Workers
      PROVE  Owns(v)'
  <2>1. Apart(v) /\ OneBatch(v) /\ Unstored(v)
    BY DEF OwnInv, Owns
  <2>2. response'[v] = response[v] \/ v = w
    BY <1>3
  <2>3. Apart(v)'
    BY <1>3, <1>4, <1>5, <2>1, <2>2 DEF Apart, Held, bufferVars
  <2>4. OneBatch(v)' /\ Unstored(v)'
    BY <1>3, <1>4, <1>5, <2>1, <2>2 DEF OneBatch, Unstored, bufferVars
  <2>5. QED
    BY <2>3, <2>4 DEF Owns
<1>10. QED
  BY <1>7, <1>8, <1>9 DEF OwnInv

\* Every delivery is in one place of one worker, and what is stored is in no
\* place that could store it again.
THEOREM OwnershipHolds == Spec => []OwnInv
<1>1. Init => OwnInv
  <2> SUFFICES ASSUME Init
               PROVE  OwnInv
    OBVIOUS
  <2>1. lake = {} /\ \A w \in Workers : Held(w) = {}
    BY DEF Init, BufferInit, Held, Active, Flushing
  <2>2. ASSUME NEW w \in Workers
        PROVE  Owns(w)
    <3>1. /\ response[w] = {} /\ Active(w) = {} /\ buffer[w] = {} /\ Flushing(w) = {}
          /\ acks[w] = {} /\ batch[w] = {} /\ uploads[w] = {} /\ written[w] = {}
      BY DEF Init, BufferInit, Active, Flushing
    <3>2. QED
      BY <2>1, <3>1 DEF Owns, Apart, OneBatch, Unstored
  <2>3. QED
    BY <2>1, <2>2 DEF OwnInv, Issued, OneOwner
<1>2. TypeOK /\ WrittenIsStored /\ ShutdownOrder /\ OwnInv /\ [Next]_vars => OwnInv'
  <2> SUFFICES ASSUME TypeOK, WrittenIsStored, ShutdownOrder, OwnInv, [Next]_vars
               PROVE  OwnInv'
    OBVIOUS
  <2> USE DEF sqsVars, bufferVars, controlVars
  <2>0. ASSUME UNCHANGED <<receives, pc, response, stage, bufferVars, batch>>
        PROVE  OwnInv'
    BY <2>0, OwnShrinks DEF Active
  <2>1. ASSUME NEW w \in Workers, StartFetch(w)
        PROVE  OwnInv'
    <3>1. /\ UNCHANGED <<receives, response, stage, bufferVars, batch>>
          /\ \A v \in Workers : pc[v] = "closing" => pc'[v] = "closing"
      BY <2>1 DEF StartFetch, TypeOK
    <3>2. QED
      BY <3>1, OwnShrinks DEF Active
  <2>2. ASSUME NEW w \in Workers, NEW m \in Messages, Deliver(w, m)
        PROVE  OwnInv'
    BY <2>2, OwnDeliver
  <2>3. ASSUME NEW w \in Workers, NEW d \in response[w], DropPoison(w, d)
        PROVE  OwnInv'
    <3>1. /\ UNCHANGED <<receives, pc, stage, bufferVars, batch>>
          /\ \A v \in Workers : response'[v] \subseteq response[v]
      BY <2>3 DEF DropPoison, Delete, TypeOK
    <3>2. QED
      BY <3>1, OwnShrinks DEF Active
  <2>4. ASSUME NEW w \in Workers, NEW lost \in SUBSET response[w], FetchReturns(w, lost)
        PROVE  OwnInv'
    BY <2>4, OwnFetchReturns
  <2>5. ASSUME NEW w \in Workers, FetchFails(w)
        PROVE  OwnInv'
    <3>1. /\ UNCHANGED <<receives, stage, bufferVars, batch>>
          /\ \A v \in Workers : response'[v] \subseteq response[v]
          /\ \A v \in Workers : pc[v] = "closing" => pc'[v] = "closing"
      BY <2>5 DEF FetchFails, TypeOK
    <3>2. QED
      BY <3>1, OwnShrinks DEF Active
  <2>6. ASSUME NEW w \in Workers, NEW d \in Deliveries, TaskStep(w, d)
        PROVE  OwnInv'
    <3>1. CASE Enter(w, d) \/ Admit(w, d) \/ ParseAgain(w, d)
      <4>1. /\ stage[w][d] # "none"
            /\ \E s \in Stages : stage' = [stage EXCEPT ![w][d] = s]
            /\ UNCHANGED <<receives, pc, response, bufferVars, batch>>
        BY <3>1, Zenon DEF Enter, Admit, ParseAgain, Leave, Stages
      <4>2. \A v \in Workers : Active(v)' \subseteq Active(v)
        BY <4>1, LeaveActive
      <4>3. QED
        BY <4>1, <4>2, OwnShrinks
    <3>2. CASE RobotsDeny(w, d) \/ ParseFatal(w, d) \/ ParseExhausted(w, d)
      <4>1. stage[w][d] # "none" /\ \E why \in Reasons : Discard(w, d, why)
        BY <3>2, Zenon DEF RobotsDeny, ParseFatal, ParseExhausted, Reasons
      <4>2. QED
        BY <4>1, OwnDiscard
    <3>3. CASE ParseOK(w, d)
      BY <3>3, OwnParseOK
    <3>4. QED
      BY <2>6, <3>1, <3>2, <3>3 DEF TaskStep
  <2>7. ASSUME NEW w \in Workers, NEW js \in SUBSET Jobs, Ticker(w, js)
        PROVE  OwnInv'
    <3>1. pc[w] # "closing"
      BY <2>7 DEF Ticker, Running
    <3>2. QED
      BY <2>7, <3>1, OwnFlushes DEF Ticker, Tick
  <2>8. ASSUME NEW w \in Workers, NEW b \in uploads[w] \cup written[w], Flush(w, b)
        PROVE  OwnInv'
    BY <2>8, OwnFlush
  <2>9. ASSUME NEW w \in Workers, NEW d \in acks[w], TakeAck(w, d)
        PROVE  OwnInv'
    BY <2>9, OwnTakeAck
  <2>10. ASSUME NEW w \in Workers, NEW accepted \in SUBSET batch[w], SendBatch(w, accepted)
         PROVE  OwnInv'
    <3>1. /\ UNCHANGED <<receives, pc, response, stage, bufferVars>>
          /\ \A v \in Workers : batch'[v] \subseteq batch[v]
      BY <2>10 DEF SendBatch, Delete, TypeOK
    <3>2. QED
      BY <3>1, OwnShrinks DEF Active
  <2>11. ASSUME NEW w \in Workers, ShutdownStep(w)
         PROVE  OwnInv'
    <3>1. CASE GatherActive(w)
      <4> DEFINE js == {JobOf[d.msg] : d \in buffer[w]}
      <4>1. js \in SUBSET Jobs
        BY JobAssumption DEF TypeOK, BufferTypeOK, Deliveries
      <4>2. pc[w] = "gathering" /\ Active(w) = {} /\ response[w] = {}
        BY <3>1 DEF GatherActive, ShutdownOrder
      <4>3. /\ UNCHANGED <<receives, lake, response, stage, written, acks, batch, buffer>>
            /\ pc' = [pc EXCEPT ![w] = "closing"]
            /\ uploads' = [uploads EXCEPT ![w] = @ \cup {OfJob(j, buffer[w]) : j \in js}]
        BY <3>1 DEF GatherActive, CloseFlushes
      <4> HIDE DEF js
      <4>4. QED
        BY <4>1, <4>2, <4>3, OwnFlushes
    <3>2. CASE CloseBuffers(w)
      <4>1. /\ UNCHANGED <<receives, lake, response, stage, uploads, written, acks, batch>>
            /\ \A v \in Workers : buffer'[v] \subseteq buffer[v]
            /\ buffer'[w] = {}
            /\ \A v \in Workers \ {w} : pc'[v] = pc[v]
        BY <3>2 DEF CloseBuffers, CloseReturns, TypeOK, BufferTypeOK
      <4>2. QED
        BY <4>1, OwnShrinks DEF Active
    <3>3. CASE FlusherExits(w)
      <4>1. /\ UNCHANGED <<receives, response, stage, bufferVars, batch>>
            /\ \A v \in Workers : pc[v] = "closing" => pc'[v] = "closing"
        BY <3>3 DEF FlusherExits, TypeOK
      <4>2. QED
        BY <4>1, OwnShrinks DEF Active
    <3>4. QED
      BY <2>11, <3>1, <3>2, <3>3 DEF ShutdownStep
  <2>12. ASSUME NEW w \in Workers, Stop(w)
         PROVE  OwnInv'
    <3>1. /\ UNCHANGED <<receives, stage, bufferVars, batch>>
          /\ \A v \in Workers : response'[v] \subseteq response[v]
          /\ \A v \in Workers : pc[v] = "closing" => pc'[v] = "closing"
      BY <2>12 DEF Stop, Running, TypeOK
    <3>2. QED
      BY <3>1, OwnShrinks DEF Active
  <2>13. ASSUME NEW w \in Workers, Crash(w)
         PROVE  OwnInv'
    <3>1. /\ UNCHANGED <<receives, lake>>
          /\ \A v \in Workers :
               /\ response'[v] \subseteq response[v] /\ batch'[v] \subseteq batch[v]
               /\ buffer'[v] \subseteq buffer[v] /\ uploads'[v] \subseteq uploads[v]
               /\ written'[v] \subseteq written[v] /\ acks'[v] \subseteq acks[v]
          /\ buffer'[w] = {} /\ \A v \in Workers \ {w} : pc'[v] = pc[v]
      BY <2>13 DEF Crash, LoseBuffers, TypeOK, BufferTypeOK
    <3>2. /\ stage'[w] = [d \in Deliveries |-> "none"]
          /\ \A v \in Workers \ {w} : stage'[v] = stage[v]
      BY <2>13 DEF Crash, TypeOK
    <3>3. \A v \in Workers : Active(v)' \subseteq Active(v)
      BY <3>2 DEF Active
    <3>4. QED
      BY <3>1, <3>3, OwnShrinks
  <2>14. ASSUME NEW w \in Workers, Start(w)
         PROVE  OwnInv'
    <3>1. /\ UNCHANGED <<receives, response, stage, bufferVars, batch>>
          /\ \A v \in Workers : pc[v] = "closing" => pc'[v] = "closing"
      BY <2>14 DEF Start, TypeOK
    <3>2. QED
      BY <3>1, OwnShrinks DEF Active
  <2>15. ASSUME NEW m \in Messages, QueueStep(m)
         PROVE  OwnInv'
    BY <2>15, <2>0 DEF QueueStep, Expire, Redrive
  <2>16. CASE UNCHANGED vars
    BY <2>16, <2>0 DEF vars
  <2>17. QED
    BY <2>1, <2>2, <2>3, <2>4, <2>5, <2>6, <2>7, <2>8, <2>9, <2>10, <2>11, <2>12,
       <2>13, <2>14, <2>15, <2>16
    DEF Next, FetchStep, BackgroundStep
<1>3. StoreInv => WrittenIsStored
  BY DEF StoreInv
<1>4. QED
  BY <1>1, <1>2, <1>3, TypeCorrect, StoreInvHolds, GracefulStop, PTL DEF Spec

\* A delivery is parsed, stored and acknowledged at most once: it is in one
\* place of its worker, whatever flushes, ticker, flusher and close do.
THEOREM DeliveriesInOnePlace == Spec => []OnePlace
<1>1. OwnInv => OnePlace
  BY DEF OwnInv, Owns, Apart, OnePlace
<1>2. QED
  BY <1>1, OwnershipHolds, PTL

\* No record is uploaded again once it is in the lake, by this worker or by
\* another: duplicates there come from redeliveries.
THEOREM RecordsStoredOnce == Spec => []StoredOnce
<1>1. OwnInv => StoredOnce
  BY DEF OwnInv, Owns, Unstored, StoredOnce
<1>2. QED
  BY <1>1, OwnershipHolds, PTL

-----------------------------------------------------------------------------
(* The bound on active tasks.  What a fetch may still be given counts as   *)
(* active from the moment it is asked for.                                 *)

MaxActive == MaxConcurrency - 1 + RequestSize

FetchBound(w) ==
    /\ Cardinality(response[w]) <= asked[w]
    /\ Cardinality(Active(w)) + asked[w] <= MaxActive

BoundInv == \A w \in Workers : FetchBound(w)

\* The sets of deliveries a worker holds are finite.
LEMMA HeldFinite ==
    ASSUME NEW S, S \subseteq Deliveries
    PROVE  IsFiniteSet(S) /\ Cardinality(S) \in Nat
BY DeliveriesFinite, FS_Subset, FS_CardinalityType

\* Cardinalities of the sums of sets.
LEMMA CardinalitySums ==
    ASSUME NEW S, IsFiniteSet(S)
    PROVE  /\ \A x : /\ Cardinality(S \cup {x}) \in Nat
                     /\ Cardinality(S \cup {x}) <= Cardinality(S) + 1
           /\ \A T : IsFiniteSet(T) =>
                /\ IsFiniteSet(S \cup T)
                /\ Cardinality(S \cup T) \in Nat
                /\ Cardinality(S \cup T) <= Cardinality(S) + Cardinality(T)
<1>1. Cardinality(S) \in Nat
  BY FS_CardinalityType
<1>2. ASSUME NEW x
      PROVE  /\ Cardinality(S \cup {x}) \in Nat
             /\ Cardinality(S \cup {x}) <= Cardinality(S) + 1
  <2>1. Cardinality(S \cup {x}) = IF x \in S THEN Cardinality(S) ELSE Cardinality(S) + 1
    BY FS_AddElement
  <2>2. QED
    BY <1>1, <2>1
<1>3. ASSUME NEW T, IsFiniteSet(T)
      PROVE  /\ IsFiniteSet(S \cup T)
             /\ Cardinality(S \cup T) \in Nat
             /\ Cardinality(S \cup T) <= Cardinality(S) + Cardinality(T)
  <2>1. IsFiniteSet(S \cap T)
    BY FS_Intersection
  <2>2. Cardinality(S \cap T) \in Nat /\ Cardinality(T) \in Nat
    BY <1>3, <2>1, FS_CardinalityType
  <2>3. /\ IsFiniteSet(S \cup T)
        /\ Cardinality(S \cup T) = Cardinality(S) + Cardinality(T) - Cardinality(S \cap T)
    BY <1>3, FS_Union
  <2>4. Cardinality(S \cup T) \in Nat
    BY <2>3, FS_CardinalityType
  <2>5. QED
    BY <1>1, <2>2, <2>3, <2>4
<1>4. QED
  BY <1>2, <1>3

\* A step that starts no fetch and adds neither tasks nor messages keeps the bound.
LEMMA BoundShrinks ==
    ASSUME TypeOK, BoundInv,
           \A w \in Workers :
             /\ Active(w)' \subseteq Active(w)
             /\ \/ asked'[w] = asked[w] /\ response'[w] \subseteq response[w]
                \/ asked'[w] = 0 /\ response'[w] = {}
    PROVE  BoundInv'
<1> SUFFICES ASSUME NEW w \in Workers
             PROVE  FetchBound(w)'
  BY DEF BoundInv
<1>1. FetchBound(w)
  BY DEF BoundInv
<1>2. /\ Active(w) \subseteq Deliveries /\ response[w] \subseteq Deliveries /\ asked[w] \in Nat
  BY DEF Active, TypeOK
<1>3. /\ IsFiniteSet(Active(w)) /\ IsFiniteSet(response[w])
      /\ Cardinality(Active(w)) \in Nat /\ Cardinality(response[w]) \in Nat
  BY <1>2, HeldFinite
<1>4. Cardinality(Active(w)') \in Nat /\ Cardinality(Active(w)') <= Cardinality(Active(w))
  BY <1>3, FS_Subset, FS_CardinalityType
<1>5. MaxActive \in Nat
  BY WorkerAssumption DEF MaxActive
<1>6. CASE asked'[w] = asked[w] /\ response'[w] \subseteq response[w]
  <2>1. Cardinality(response'[w]) \in Nat /\ Cardinality(response'[w]) <= Cardinality(response[w])
    BY <1>3, <1>6, FS_Subset, FS_CardinalityType
  <2>2. QED
    BY <1>1, <1>2, <1>3, <1>4, <1>5, <1>6, <2>1 DEF FetchBound
<1>7. CASE asked'[w] = 0 /\ response'[w] = {}
  <2>1. Cardinality(response'[w]) = 0
    BY <1>7, FS_EmptySet
  <2>2. QED
    BY <1>1, <1>2, <1>3, <1>4, <1>5, <1>7, <2>1 DEF FetchBound
<1>8. QED
  BY <1>6, <1>7

\* The bound holds: a fetch is started with a free slot, so that at most
\* MaxConcurrency - 1 tasks are active, and asks for no more than a request or
\* for the free slots themselves.
THEOREM ActiveTasksBounded == Spec => []ActiveBound
<1> USE DEF sqsVars, bufferVars, controlVars
<1>1. Init => BoundInv
  <2> SUFFICES ASSUME Init, NEW w \in Workers
               PROVE  FetchBound(w)
    BY DEF BoundInv
  <2>1. response[w] = {} /\ Active(w) = {} /\ asked[w] = 0
    BY DEF Init, Active
  <2>2. QED
    BY <2>1, FS_EmptySet, WorkerAssumption DEF FetchBound, MaxActive
<1>2. TypeOK /\ ShutdownOrder /\ BoundInv /\ [Next]_vars => BoundInv'
  <2> SUFFICES ASSUME TypeOK, ShutdownOrder, BoundInv, [Next]_vars
               PROVE  BoundInv'
    OBVIOUS
  <2>0. ASSUME UNCHANGED <<asked, response, stage>>
        PROVE  BoundInv'
    BY <2>0, BoundShrinks DEF Active
  <2>1. ASSUME NEW w \in Workers, StartFetch(w)
        PROVE  BoundInv'
    <3>1. /\ pc[w] = "loop"
          /\ FreeSlots(w) > 0
          /\ UNCHANGED <<response, stage>>
          /\ asked'[w] = BatchSize(w)
          /\ \A v \in Workers \ {w} : asked'[v] = asked[v]
      BY <2>1 DEF StartFetch, TypeOK
    <3>2. ASSUME NEW v \in Workers \ {w}
          PROVE  FetchBound(v)'
      BY <3>1, <3>2 DEF BoundInv, FetchBound, Active
    <3>3. FetchBound(w)'
      <4>1. /\ Active(w)' = Active(w)
            /\ Cardinality(Active(w)) \in Nat
        BY <3>1, HeldFinite DEF Active
      <4>2. /\ asked'[w] \in Nat
            /\ Cardinality(Active(w)) + asked'[w] <= MaxActive
        BY <3>1, <4>1, WorkerAssumption DEF BatchSize, FreeSlots, MaxActive
      <4>3. Cardinality(response'[w]) = 0
        BY <3>1, FS_EmptySet DEF ShutdownOrder
      <4>4. QED
        BY <4>1, <4>2, <4>3 DEF FetchBound
    <3>4. QED
      BY <3>2, <3>3 DEF BoundInv
  <2>2. ASSUME NEW w \in Workers, NEW m \in Messages, Deliver(w, m)
        PROVE  BoundInv'
    <3>1. /\ Cardinality(response[w]) < asked[w]
          /\ UNCHANGED <<asked, stage>>
          /\ response'[w] = response[w] \cup {NextHandle(m)}
          /\ \A v \in Workers \ {w} : response'[v] = response[v]
      BY <2>2 DEF Deliver, TypeOK
    <3>2. IsFiniteSet(response[w]) /\ Cardinality(response[w]) \in Nat /\ asked[w] \in Nat
      BY HeldFinite DEF TypeOK
    <3>3. /\ Cardinality(response'[w]) <= Cardinality(response[w]) + 1
          /\ Cardinality(response'[w]) \in Nat
      BY <3>1, <3>2, CardinalitySums
    <3>4. ASSUME NEW v \in Workers
          PROVE  FetchBound(v)'
      <4>1. FetchBound(v) /\ Active(v)' = Active(v) /\ asked'[v] = asked[v]
        BY <3>1 DEF BoundInv, Active
      <4>2. CASE v = w
        <5>1. Cardinality(response'[v]) <= asked'[v]
          BY <3>1, <3>2, <3>3, <4>1, <4>2
        <5>2. QED
          BY <4>1, <5>1 DEF FetchBound
      <4>3. CASE v # w
        BY <3>1, <4>1, <4>3 DEF FetchBound
      <4>4. QED
        BY <4>2, <4>3
    <3>5. QED
      BY <3>4 DEF BoundInv
  <2>3. ASSUME NEW w \in Workers, NEW d \in response[w], DropPoison(w, d)
        PROVE  BoundInv'
    <3>1. /\ UNCHANGED <<asked, stage>>
          /\ \A v \in Workers : response'[v] \subseteq response[v]
      BY <2>3 DEF DropPoison, TypeOK
    <3>2. QED
      BY <3>1, BoundShrinks DEF Active
  <2>4. ASSUME NEW w \in Workers, NEW lost \in SUBSET response[w], FetchReturns(w, lost)
        PROVE  BoundInv'
    <3>1. /\ asked'[w] = 0 /\ response'[w] = {}
          /\ \A v \in Workers \ {w} :
               asked'[v] = asked[v] /\ response'[v] = response[v] /\ stage'[v] = stage[v]
      BY <2>4 DEF FetchReturns, TypeOK
    <3>2. Active(w)' \subseteq Active(w) \cup response[w]
      BY <2>4 DEF FetchReturns, Active, TypeOK
    <3>3. ASSUME NEW v \in Workers \ {w}
          PROVE  FetchBound(v)'
      BY <3>1, <3>3 DEF BoundInv, FetchBound, Active
    <3>4. FetchBound(w)'
      <4>1. /\ IsFiniteSet(Active(w)) /\ IsFiniteSet(response[w])
            /\ Cardinality(Active(w)) \in Nat /\ Cardinality(response[w]) \in Nat
            /\ asked[w] \in Nat
        BY HeldFinite DEF Active, TypeOK
      <4>2. /\ IsFiniteSet(Active(w) \cup response[w])
            /\ Cardinality(Active(w) \cup response[w])
                 <= Cardinality(Active(w)) + Cardinality(response[w])
            /\ Cardinality(Active(w) \cup response[w]) \in Nat
        BY <4>1, CardinalitySums
      <4>3. /\ Cardinality(Active(w)') <= Cardinality(Active(w) \cup response[w])
            /\ Cardinality(Active(w)') \in Nat
        BY <3>2, <4>2, FS_Subset, FS_CardinalityType
      <4>4. Cardinality(response'[w]) = 0
        BY <3>1, FS_EmptySet
      <4>5. MaxActive \in Nat
        BY WorkerAssumption DEF MaxActive
      <4>6. QED
        BY <3>1, <4>1, <4>2, <4>3, <4>4, <4>5 DEF BoundInv, FetchBound
    <3>5. QED
      BY <3>3, <3>4 DEF BoundInv
  <2>5. ASSUME NEW w \in Workers, FetchFails(w)
        PROVE  BoundInv'
    BY <2>5, BoundShrinks DEF FetchFails, Active, TypeOK
  <2>6. ASSUME NEW w \in Workers, NEW d \in Deliveries, TaskStep(w, d)
        PROVE  BoundInv'
    <3>1. /\ stage[w][d] # "none"
          /\ \E s \in Stages : stage' = [stage EXCEPT ![w][d] = s]
      BY <2>6, Zenon
      DEF TaskStep, Enter, RobotsDeny, Admit, ParseOK, ParseFatal, ParseExhausted, ParseAgain,
          Discard, Leave, Stages
    <3>2. \A v \in Workers : Active(v)' \subseteq Active(v)
      BY <3>1, LeaveActive
    <3>3. UNCHANGED <<asked, response>>
      BY <2>6
      DEF TaskStep, Enter, RobotsDeny, Admit, ParseOK, ParseFatal, ParseExhausted, ParseAgain,
          Discard
    <3>4. QED
      BY <3>2, <3>3, BoundShrinks
  <2>7. ASSUME NEW w \in Workers, BackgroundStep(w)
        PROVE  BoundInv'
    BY <2>7, <2>0 DEF BackgroundStep, Ticker, Flush, TakeAck, SendBatch
  <2>8. ASSUME NEW w \in Workers, ShutdownStep(w)
        PROVE  BoundInv'
    BY <2>8, <2>0 DEF ShutdownStep, GatherActive, CloseBuffers, FlusherExits
  <2>9. ASSUME NEW w \in Workers, Stop(w)
        PROVE  BoundInv'
    BY <2>9, BoundShrinks DEF Stop, Active, TypeOK
  <2>10. ASSUME NEW w \in Workers, Crash(w)
         PROVE  BoundInv'
    BY <2>10, BoundShrinks DEF Crash, Active, TypeOK
  <2>11. ASSUME NEW w \in Workers, Start(w)
         PROVE  BoundInv'
    BY <2>11, <2>0 DEF Start
  <2>12. ASSUME NEW m \in Messages, QueueStep(m)
         PROVE  BoundInv'
    BY <2>12, <2>0 DEF QueueStep
  <2>13. CASE UNCHANGED vars
    BY <2>13, <2>0 DEF vars
  <2>14. QED
    BY <2>1, <2>2, <2>3, <2>4, <2>5, <2>6, <2>7, <2>8, <2>9, <2>10, <2>11, <2>12, <2>13
    DEF Next, FetchStep
<1>3. TypeOK /\ BoundInv => ActiveBound
  <2> SUFFICES ASSUME TypeOK, BoundInv, NEW w \in Workers
               PROVE  Cardinality(Active(w)) + Cardinality(response[w]) <= MaxActive
    BY WorkerAssumption DEF ActiveBound, MaxActive
  <2>1. /\ Cardinality(Active(w)) \in Nat /\ Cardinality(response[w]) \in Nat
        /\ asked[w] \in Nat
    BY HeldFinite DEF Active, TypeOK
  <2>2. MaxActive \in Nat
    BY WorkerAssumption DEF MaxActive
  <2>3. QED
    BY <2>1, <2>2 DEF BoundInv, FetchBound
<1>4. QED
  BY <1>1, <1>2, <1>3, TypeCorrect, GracefulStop, PTL DEF Spec

-----------------------------------------------------------------------------
(* The workers implement AtLeastOnce.                                      *)

\* A step the pipeline does not see.
LEMMA PromiseStutter ==
    ASSUME UNCHANGED <<queue, lake, ground>>
    PROVE  UNCHANGED Promise!promiseVars
BY DEF Promise!promiseVars, StatusOf, Recorded

\* A step that only moves messages inside the main queue is not seen either.
LEMMA PromiseQueueMoves ==
    ASSUME TypeOK, UNCHANGED <<lake, ground>>, NEW m \in Messages,
           queue[m] \in {"visible", "inflight"},
           \E where \in {"visible", "inflight"} : queue' = [queue EXCEPT ![m] = where]
    PROVE  UNCHANGED Promise!promiseVars
<1>1. \A n \in Messages : StatusOf(n)' = StatusOf(n)
  BY DEF StatusOf, TypeOK, QueueTypeOK
<1>2. QED
  BY <1>1 DEF Promise!promiseVars, Recorded

\* Putting a message on the ack queue condemns it.
LEMMA PromiseDiscard ==
    ASSUME TypeOK, NEW w \in Workers, NEW d \in Deliveries, NEW why \in Reasons,
           Discard(w, d, why)
    PROVE  Promise!Next
<1>1. d.msg \in Messages /\ UNCHANGED <<queue, lake>>
  BY DEF Deliveries, Discard, sqsVars
<1>2. ground' = [ground EXCEPT ![d.msg] = @ \cup {why}]
  BY DEF Discard
<1>3. \A m \in Messages : ground'[m] # {} <=> m = d.msg \/ ground[m] # {}
  BY <1>1, <1>2 DEF TypeOK
<1>4. Promise!Condemn(d.msg)
  BY <1>1, <1>3 DEF Promise!Condemn, StatusOf, Recorded
<1>5. QED
  BY <1>1, <1>4 DEF Promise!Next

\* The status of a message after a deletion.
LEMMA StatusAfterDelete ==
    ASSUME TypeOK, NEW D \in SUBSET Deliveries, Delete(D), NEW m \in Messages
    PROVE  StatusOf(m)' = IF \E d \in D : d.msg = m /\ Current(d) THEN "removed" ELSE StatusOf(m)
<1>1. CASE \E d \in D : d.msg = m /\ Current(d)
  <2>1. queue'[m] = "deleted"
    BY <1>1 DEF Delete
  <2>2. QED
    BY <1>1, <2>1 DEF StatusOf
<1>2. CASE ~(\E d \in D : d.msg = m /\ Current(d))
  <2>1. queue'[m] = queue[m]
    BY <1>2 DEF Delete
  <2>2. QED
    BY <1>2, <2>1 DEF StatusOf
<1>3. QED
  BY <1>1, <1>2

\* Every step of the workers, however they are interrupted, is a step of the
\* abstract pipeline or changes nothing it can see.
THEOREM WorkersKeepPromise == Spec => KeepsPromise
<1>1. Init => Promise!Init
  BY DEF Init, QueueInit, BufferInit, Promise!Init, StatusOf, Recorded
<1>2. TypeOK /\ StoreInv /\ [Next]_vars => [Promise!Next]_(Promise!promiseVars)
  <2> SUFFICES ASSUME TypeOK, StoreInv, [Next]_vars
               PROVE  Promise!Next \/ UNCHANGED Promise!promiseVars
    OBVIOUS
  <2> USE DEF sqsVars, bufferVars, controlVars
  <2> DEFINE Seen == Promise!Next \/ UNCHANGED Promise!promiseVars
  <2>1. ASSUME NEW w \in Workers, StartFetch(w)
        PROVE  Seen
    BY <2>1, PromiseStutter DEF StartFetch
  <2>2. ASSUME NEW w \in Workers, NEW m \in Messages, Deliver(w, m)
        PROVE  Seen
    BY <2>2, PromiseQueueMoves DEF Deliver, Receive
  <2>3. ASSUME NEW w \in Workers, NEW d \in response[w], DropPoison(w, d)
        PROVE  Seen
    <3>1. d \in Deliveries /\ d.msg \in Messages
      BY DEF TypeOK, Deliveries
    <3>2. ground' = [ground EXCEPT ![d.msg] = @ \cup {"refused"}]
      BY <2>3 DEF DropPoison
    <3>3. \A m \in Messages : ground'[m] # {} <=> m = d.msg \/ ground[m] # {}
      BY <3>1, <3>2 DEF TypeOK
    <3>4. Delete({d}) /\ lake' = lake
      BY <2>3 DEF DropPoison
    <3>5. \A m \in Messages :
            StatusOf(m)' = IF m = d.msg /\ Current(d) THEN "removed" ELSE StatusOf(m)
      BY <3>1, <3>4, StatusAfterDelete
    <3>6. CASE Current(d)
      <4>1. StatusOf(d.msg) = "pending"
        BY <3>6 DEF Current, StatusOf
      <4>2. Promise!Reject(d.msg)
        BY <3>1, <3>3, <3>4, <3>5, <3>6, <4>1 DEF Promise!Reject, Recorded
      <4>3. QED
        BY <3>1, <4>2 DEF Promise!Next
    <3>7. CASE ~Current(d)
      <4>1. Promise!Condemn(d.msg)
        BY <3>1, <3>3, <3>4, <3>5, <3>7 DEF Promise!Condemn, Recorded
      <4>2. QED
        BY <3>1, <4>1 DEF Promise!Next
    <3>8. QED
      BY <3>6, <3>7
  <2>4. ASSUME NEW w \in Workers, NEW lost \in SUBSET response[w], FetchReturns(w, lost)
        PROVE  Seen
    BY <2>4, PromiseStutter DEF FetchReturns
  <2>5. ASSUME NEW w \in Workers, FetchFails(w)
        PROVE  Seen
    BY <2>5, PromiseStutter DEF FetchFails
  <2>6. ASSUME NEW w \in Workers, NEW d \in Deliveries, TaskStep(w, d)
        PROVE  Seen
    <3>1. CASE Enter(w, d)
      BY <3>1, PromiseStutter DEF Enter
    <3>2. CASE RobotsDeny(w, d)
      BY <3>2, PromiseDiscard DEF RobotsDeny, Reasons
    <3>3. CASE Admit(w, d)
      BY <3>3, PromiseStutter DEF Admit
    <3>4. CASE ParseOK(w, d)
      BY <3>4, PromiseStutter DEF ParseOK, AddRecord
    <3>5. CASE ParseFatal(w, d)
      BY <3>5, PromiseDiscard DEF ParseFatal, Reasons
    <3>6. CASE ParseExhausted(w, d)
      BY <3>6, PromiseDiscard DEF ParseExhausted, Reasons
    <3>7. CASE ParseAgain(w, d)
      BY <3>7, PromiseStutter DEF ParseAgain
    <3>8. QED
      BY <2>6, <3>1, <3>2, <3>3, <3>4, <3>5, <3>6, <3>7 DEF TaskStep
  <2>7. ASSUME NEW w \in Workers, NEW js \in SUBSET Jobs, Ticker(w, js)
        PROVE  Seen
    BY <2>7, PromiseStutter DEF Ticker, Tick
  <2>8. ASSUME NEW w \in Workers, NEW b \in uploads[w] \cup written[w], Flush(w, b)
        PROVE  Seen
    <3>1. CASE PutObject(w, b)
      <4> DEFINE stored == {m \in Messages : \E d \in b : d.msg = m}
      <4>1. UNCHANGED <<queue, ground>> /\ lake' = lake \cup b
        BY <2>8, <3>1 DEF Flush, PutObject
      <4>2. \A m \in Messages : Recorded(m)' <=> Recorded(m) \/ m \in stored
        BY <4>1 DEF Recorded
      <4>3. Promise!Store(stored)
        BY <4>1, <4>2 DEF Promise!Store, StatusOf
      <4>4. QED
        BY <4>3 DEF Promise!Next
    <3>2. CASE UploadDone(w, b)
      BY <2>8, <3>2, PromiseStutter DEF Flush, UploadDone
    <3>3. CASE UploadFails(w, b)
      BY <2>8, <3>3, PromiseStutter DEF Flush, UploadFails
    <3>4. QED
      BY <2>8, <3>1, <3>2, <3>3 DEF Flush
  <2>9. ASSUME NEW w \in Workers, NEW d \in acks[w], TakeAck(w, d)
        PROVE  Seen
    BY <2>9, PromiseStutter DEF TakeAck
  <2>10. ASSUME NEW w \in Workers, NEW accepted \in SUBSET batch[w], SendBatch(w, accepted)
         PROVE  Seen
    <3> DEFINE gone == {m \in Messages : \E d \in accepted : d.msg = m /\ Current(d)}
    <3>1. Delete(accepted) /\ UNCHANGED <<lake, ground>>
      BY <2>10 DEF SendBatch
    <3>2. accepted \in SUBSET Deliveries
      BY DEF TypeOK
    <3>3. \A m \in Messages : StatusOf(m)' = IF m \in gone THEN "removed" ELSE StatusOf(m)
      BY <3>1, <3>2, StatusAfterDelete
    <3>4. \A m \in gone : StatusOf(m) = "pending"
      BY DEF Current, StatusOf
    <3>5. \A m \in gone : Recorded(m) \/ ground[m] # {}
      BY DEF StoreInv, AckAfterStore, Recorded
    <3>6. Promise!Remove(gone)
      BY <3>1, <3>3, <3>4, <3>5 DEF Promise!Remove, Recorded
    <3>7. QED
      BY <3>6 DEF Promise!Next
  <2>11. ASSUME NEW w \in Workers, ShutdownStep(w)
         PROVE  Seen
    BY <2>11, PromiseStutter
    DEF ShutdownStep, GatherActive, CloseFlushes, CloseBuffers, CloseReturns, FlusherExits
  <2>12. ASSUME NEW w \in Workers, Stop(w)
         PROVE  Seen
    BY <2>12, PromiseStutter DEF Stop
  <2>13. ASSUME NEW w \in Workers, Crash(w)
         PROVE  Seen
    BY <2>13, PromiseStutter DEF Crash, LoseBuffers
  <2>14. ASSUME NEW w \in Workers, Start(w)
         PROVE  Seen
    BY <2>14, PromiseStutter DEF Start
  <2>15. ASSUME NEW m \in Messages, QueueStep(m)
         PROVE  Seen
    <3>1. CASE Expire(m)
      BY <2>15, <3>1, PromiseQueueMoves DEF QueueStep, Expire
    <3>2. CASE Redrive(m)
      <4>1. StatusOf(m) = "pending" /\ StatusOf(m)' = "dead"
        BY <3>2 DEF Redrive, StatusOf, TypeOK, QueueTypeOK
      <4>2. \A n \in Messages \ {m} : StatusOf(n)' = StatusOf(n)
        BY <3>2 DEF Redrive, StatusOf, TypeOK, QueueTypeOK
      <4>3. UNCHANGED <<lake, ground>>
        BY <2>15 DEF QueueStep
      <4>4. Promise!Bury(m)
        BY <4>1, <4>2, <4>3 DEF Promise!Bury, Recorded
      <4>5. QED
        BY <4>4 DEF Promise!Next
    <3>3. QED
      BY <2>15, <3>1, <3>2 DEF QueueStep
  <2>16. CASE UNCHANGED vars
    BY <2>16, PromiseStutter DEF vars
  <2>17. QED
    BY <2>1, <2>2, <2>3, <2>4, <2>5, <2>6, <2>7, <2>8, <2>9, <2>10, <2>11, <2>12,
       <2>13, <2>14, <2>15, <2>16
    DEF Next, FetchStep, BackgroundStep
<1>3. QED
  BY <1>1, <1>2, TypeCorrect, StoreInvHolds, PTL DEF Spec, Promise!Spec, KeepsPromise
=============================================================================
