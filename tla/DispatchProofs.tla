---------------------------- MODULE DispatchProofs ----------------------------
(***************************************************************************)
(* Proofs about the dispatch of bulk requests, for any requests, any size  *)
(* of chunk and queue, any limit of the adapter and any number of calls    *)
(* sent again.                                                             *)
(*                                                                         *)
(* A task of a request is in one place: with the mapper, in one batch of   *)
(* the queue, with the sender, or answered (Placed).  The results so far   *)
(* agree with the tasks answered (Summed), and the messages on SQS with    *)
(* where the tasks are (Sent).                                             *)
(***************************************************************************)
EXTENDS Dispatch, FiniteSetTheorems, TLAPS

InQueue(r, t) == \E i \in DOMAIN queue[r] : t \in queue[r][i]

Placed(r) ==
    /\ todo[r] \subseteq Distinct[r] /\ batch[r] \subseteq Distinct[r]
    /\ answered[r] \subseteq Distinct[r]
    /\ todo[r] \cap batch[r] = {} /\ todo[r] \cap answered[r] = {}
    /\ batch[r] \cap answered[r] = {}
    /\ \A i \in DOMAIN queue[r] :
         /\ queue[r][i] \subseteq Distinct[r]
         /\ queue[r][i] \cap (todo[r] \cup batch[r] \cup answered[r]) = {}
         /\ \A j \in DOMAIN queue[r] : i # j => queue[r][i] \cap queue[r][j] = {}
         /\ queue[r][i] = End => mapper[r] = "done" /\ i = Len(queue[r])
    /\ mapper[r] = "done" => todo[r] = {}
    /\ sender[r] \notin {"calling", "taken"} => batch[r] = {}
    /\ sender[r] # "raised" =>
         \A t \in Distinct[r] : t \in todo[r] \cup batch[r] \cup answered[r] \/ InQueue(r, t)

Summed(r) ==
    /\ sums[r].processed + sums[r].failed = Cardinality(answered[r])
    /\ sums[r].failed = Cardinality(errors[r])
    /\ Failed(r) \subseteq answered[r]
    /\ report[r].over =>
         /\ sender[r] = "returned" /\ mapper[r] = "done"
         /\ answered[r] = Distinct[r]
         /\ report[r].processed + report[r].failed = report[r].total
         /\ report[r].failed = Cardinality(errors[r])

Sent(r) ==
    /\ \A t \in Distinct[r] : t \in todo[r] \/ InQueue(r, t) => copies[t] = 0
    /\ sender[r] = "calling" => \A t \in batch[r] : copies[t] <= resends
    /\ sender[r] = "taken" =>
         accepted[r] \subseteq batch[r] /\ \A t \in accepted[r] : copies[t] > 0
    /\ \A t \in answered[r] \ Failed(r) : copies[t] > 0

Known ==
    \A t \in Tasks :
        /\ copies[t] <= 1 + resends
        /\ copies[t] > 0 => \E r \in Requests : t \in Distinct[r]

IInv ==
    /\ DispatchTypeOK
    /\ \A r \in Requests : Placed(r) /\ Summed(r) /\ Sent(r)
    /\ Known

-----------------------------------------------------------------------------
(* The constants and the queue.                                            *)

LEMMA Sizes ==
    /\ ChunkSize \in Nat \ {0} /\ QueueSize \in Nat \ {0} /\ MaxResends \in Nat
    /\ Limits \subseteq Nat /\ IsFiniteSet(Tasks)
BY DispatchAssumption

LEMMA DistinctTasks ==
    \A r \in Requests : Distinct[r] \subseteq Listed(r) /\ Distinct[r] \subseteq Tasks
<1> SUFFICES ASSUME NEW r \in Requests, NEW t \in Distinct[r]
             PROVE  t \in Listed(r) /\ t \in Tasks
  OBVIOUS
<1>1. PICK i \in DOMAIN TasksOf[r] : t = TasksOf[r][i]
  BY DEF Distinct
<1>2. TasksOf[r] \in Seq(Tasks)
  BY DispatchAssumption
<1> QED
  BY <1>1, <1>2 DEF Listed

\* No two requests share a task.
LEMMA Apart ==
    ASSUME NEW r \in Requests, NEW q \in Requests, r # q
    PROVE  Distinct[r] \cap Distinct[q] = {}
BY DistinctTasks, DispatchAssumption

\* Sets of tasks are finite.
LEMMA TaskSets ==
    \A S \in SUBSET Tasks : IsFiniteSet(S) /\ Cardinality(S) \in Nat
BY Sizes, FS_Subset, FS_CardinalityType

LEMMA AppendFacts ==
    ASSUME NEW S, NEW q \in Seq(S), NEW c \in S
    PROVE  /\ Append(q, c) \in Seq(S) /\ Len(Append(q, c)) = Len(q) + 1
           /\ DOMAIN Append(q, c) = 1..(Len(q) + 1) /\ DOMAIN q = 1..Len(q)
           /\ Len(q) \in Nat
           /\ \A i \in 1..Len(q) : Append(q, c)[i] = q[i]
           /\ Append(q, c)[Len(q) + 1] = c
OBVIOUS

LEMMA TailFacts ==
    ASSUME NEW S, NEW q \in Seq(S), q # <<>>
    PROVE  /\ Tail(q) \in Seq(S) /\ Len(Tail(q)) = Len(q) - 1 /\ Len(q) \in Nat \ {0}
           /\ DOMAIN Tail(q) = 1..(Len(q) - 1) /\ DOMAIN q = 1..Len(q)
           /\ Head(q) = q[1] /\ Head(q) \in S
           /\ \A i \in 1..(Len(q) - 1) : Tail(q)[i] = q[i + 1]
OBVIOUS

\* What a chunk is.
LEMMA ChunkFacts ==
    ASSUME NEW r \in Requests, DispatchTypeOK, todo[r] # {}, NEW c \in Chunks(r)
    PROVE  c \subseteq todo[r] /\ c # {} /\ c \in Batches
<1>1. Kind(r) \subseteq todo[r] /\ Kind(r) # {} /\ todo[r] \subseteq Tasks
  BY DEF Kind, DispatchTypeOK, Batches
<1>2. IsFiniteSet(Kind(r)) /\ Cardinality(Kind(r)) \in Nat /\ Cardinality(Kind(r)) # 0
  BY <1>1, TaskSets, FS_EmptySet
<1>3. c \subseteq Kind(r) /\ Cardinality(c) # 0
  BY <1>2, Sizes DEF Chunks
<1>4. c # {}
  BY <1>3, FS_EmptySet
<1> QED
  BY <1>1, <1>3, <1>4 DEF Batches

-----------------------------------------------------------------------------

THEOREM DispatchInit == Init => IInv
<1> SUFFICES ASSUME Init PROVE IInv
  OBVIOUS
<1>0. Cardinality({}) = 0 /\ 0 \in 0..MaxResends /\ 0 <= QueueSize
  BY FS_EmptySet, Sizes
<1>1. DispatchTypeOK
  <2>1. todo \in [Requests -> Batches]
    <3>1. DOMAIN Distinct = Requests
      BY DEF Distinct
    <3>2. Distinct = [r \in Requests |-> Distinct[r]]
      BY DEF Distinct
    <3> HIDE DEF Distinct
    <3> QED
      BY <3>1, <3>2, DistinctTasks DEF Init, Batches
  <2>2. queue \in [Requests -> Seq(Batches)] /\ \A r \in Requests : Len(queue[r]) <= QueueSize
    BY <1>0 DEF Init
  <2>3. report \in [Requests -> [total : Nat, processed : Nat, failed : Nat, over : BOOLEAN]]
        /\ sums \in [Requests -> [processed : Nat, failed : Nat]]
    BY DEF Init, NoReport
  <2>4. /\ batch \in [Requests -> Batches] /\ accepted \in [Requests -> Batches]
        /\ answered \in [Requests -> Batches]
        /\ errors \in [Requests -> SUBSET [task : Tasks, retryable : BOOLEAN]]
    BY DEF Init, Batches
  <2> QED
    BY <1>0, <2>1, <2>2, <2>3, <2>4 DEF Init, DispatchTypeOK
<1>2. ASSUME NEW r \in Requests PROVE Placed(r) /\ Summed(r) /\ Sent(r)
  <2>1. /\ queue[r] = <<>> /\ batch[r] = {} /\ answered[r] = {} /\ errors[r] = {}
        /\ todo[r] = Distinct[r] /\ mapper[r] = "mapping" /\ sender[r] = "waiting"
        /\ sums[r] = [processed |-> 0, failed |-> 0] /\ ~report[r].over
    BY DEF Init, NoReport
  <2>2. \A t \in Distinct[r] : copies[t] = 0
    BY DistinctTasks DEF Init
  <2>3. DOMAIN queue[r] = {}
    BY <2>1
  <2>4. Placed(r)
    BY <2>1, <2>3, Zenon DEF Placed
  <2>5. Summed(r)
    BY <1>0, <2>1 DEF Summed, Failed
  <2>6. Sent(r)
    BY <2>1, <2>2 DEF Sent
  <2> QED
    BY <2>4, <2>5, <2>6
<1>3. Known
  BY <1>0 DEF Init, Known
<1> QED
  BY <1>1, <1>2, <1>3 DEF IInv

-----------------------------------------------------------------------------
(* Results and errors.                                                     *)

\* The errors of a result: one for each task that failed.
ErrorsOf(failed, fatal) ==
    [task : failed \ fatal, retryable : {TRUE}] \cup [task : fatal, retryable : {FALSE}]

LEMMA OneErrorEach ==
    ASSUME NEW failed \in SUBSET Tasks, NEW fatal \in SUBSET failed
    PROVE  /\ ErrorsOf(failed, fatal) \subseteq [task : Tasks, retryable : BOOLEAN]
           /\ {e.task : e \in ErrorsOf(failed, fatal)} = failed
           /\ IsFiniteSet(ErrorsOf(failed, fatal))
           /\ Cardinality(ErrorsOf(failed, fatal)) = Cardinality(failed)
<1> DEFINE E == ErrorsOf(failed, fatal)
           f == [t \in failed |-> [task |-> t, retryable |-> t \notin fatal]]
<1>2. \A t \in failed : f[t] \in E /\ f[t].task = t
  BY DEF ErrorsOf
<1>3. ASSUME NEW e \in E PROVE e.task \in failed /\ f[e.task] = e
  <2>1. CASE e \in [task : failed \ fatal, retryable : {TRUE}]
    BY <2>1
  <2>2. CASE e \in [task : fatal, retryable : {FALSE}]
    BY <2>2
  <2> QED
    BY <2>1, <2>2 DEF ErrorsOf
<1>1. E \subseteq [task : Tasks, retryable : BOOLEAN] /\ {e.task : e \in E} = failed
  <2>1. E \subseteq [task : Tasks, retryable : BOOLEAN]
    BY DEF ErrorsOf
  <2> HIDE DEF E, f
  <2>2. {e.task : e \in E} = failed
    BY <1>2, <1>3
  <2> QED
    BY <2>1, <2>2
<1>4. \A t, u \in failed : f[t] = f[u] => t = u
  OBVIOUS
<1>5. f \in [failed -> E]
  BY <1>2
<1> HIDE DEF E, f
<1>6. f \in Bijection(failed, E)
  BY <1>2, <1>3, <1>4, <1>5 DEF Bijection, Injection, IsInjective, Surjection
<1>7. IsFiniteSet(failed)
  BY TaskSets
<1>8. IsFiniteSet(E) /\ Cardinality(E) = Cardinality(failed)
  BY <1>6, <1>7, FS_Bijection DEF ExistsBijection
<1> QED
  BY <1>1, <1>8 DEF E

\* The errors so far are finitely many.
LEMMA ErrorSets ==
    ASSUME DispatchTypeOK, NEW r \in Requests
    PROVE  IsFiniteSet(errors[r]) /\ Cardinality(errors[r]) \in Nat
<1>1. IsFiniteSet(BOOLEAN)
  <2>1. IsFiniteSet({TRUE}) /\ IsFiniteSet({FALSE})
    BY FS_Singleton
  <2>2. IsFiniteSet({TRUE} \cup {FALSE})
    BY <2>1, FS_Union
  <2>3. BOOLEAN = {TRUE} \cup {FALSE}
    OBVIOUS
  <2> QED
    BY <2>2, <2>3
<1>2. IsFiniteSet(Tasks \X BOOLEAN)
  BY <1>1, Sizes, FS_Product
<1> DEFINE R == [task : Tasks, retryable : BOOLEAN]
           f == [p \in Tasks \X BOOLEAN |-> [task |-> p[1], retryable |-> p[2]]]
<1>3. f \in Surjection(Tasks \X BOOLEAN, R)
  <2>1. f \in [Tasks \X BOOLEAN -> R]
    OBVIOUS
  <2>2. \A e \in R : <<e.task, e.retryable>> \in Tasks \X BOOLEAN
                     /\ f[<<e.task, e.retryable>>] = e
    OBVIOUS
  <2> HIDE DEF f, R
  <2> QED
    BY <2>1, <2>2 DEF Surjection
<1>4. IsFiniteSet(R)
  BY <1>2, <1>3, FS_Surjection
<1>5. errors[r] \in SUBSET R
  BY DEF DispatchTypeOK
<1> HIDE DEF R
<1> QED
  BY <1>4, <1>5, FS_Subset, FS_CardinalityType

-----------------------------------------------------------------------------
(* A step of one request leaves the others alone.                          *)

Rest(r) ==
    \A q \in Requests \ {r} :
        /\ todo'[q] = todo[q] /\ mapper'[q] = mapper[q] /\ queue'[q] = queue[q]
        /\ sender'[q] = sender[q] /\ batch'[q] = batch[q] /\ accepted'[q] = accepted[q]
        /\ sums'[q] = sums[q] /\ errors'[q] = errors[q] /\ report'[q] = report[q]
        /\ answered'[q] = answered[q]

Step(r) == Mapper(r) \/ Sender(r) \/ MapFails(r) \/ Resend(r)

LEMMA OthersRest == ASSUME NEW r \in Requests, DispatchTypeOK, Step(r) PROVE Rest(r)
<1> USE DEF DispatchTypeOK, Rest
<1>1. CASE Put(r)
  BY <1>1 DEF Put
<1>2. CASE PutEnd(r)
  BY <1>2 DEF PutEnd
<1>3. CASE Take(r)
  BY <1>3 DEF Take
<1>4. CASE Refuse(r)
  BY <1>4 DEF Refuse
<1>5. CASE SQSTakes(r)
  BY <1>5 DEF SQSTakes
<1>6. CASE Resend(r)
  BY <1>6 DEF Resend
<1>7. CASE Answer(r)
  BY <1>7 DEF Answer, Result
<1>8. CASE CallFails(r)
  BY <1>8 DEF CallFails, Result
<1>9. CASE Merge(r)
  BY <1>9 DEF Merge
<1>10. CASE MapFails(r)
  BY <1>10 DEF MapFails
<1> QED
  BY <1>1, <1>2, <1>3, <1>4, <1>5, <1>6, <1>7, <1>8, <1>9, <1>10 DEF Step, Mapper, Sender

LEMMA RestHolds ==
    ASSUME NEW r \in Requests, Rest(r), IInv, NEW q \in Requests \ {r}
    PROVE  Placed(q)' /\ Summed(q)'
<1>1. Placed(q) /\ Summed(q)
  BY DEF IInv
<1>2. Placed(q)'
  BY <1>1, Zenon DEF Rest, Placed, InQueue
<1>3. Summed(q)'
  BY <1>1 DEF Rest, Summed, Failed
<1> QED
  BY <1>2, <1>3

-----------------------------------------------------------------------------
(* The types.                                                              *)

\* The results are counted and keep their types.
LEMMA ResultTypes ==
    ASSUME NEW r \in Requests, DispatchTypeOK, NEW failed \in SUBSET batch[r],
           NEW fatal \in SUBSET failed, Result(r, failed, fatal)
    PROVE  /\ sums' \in [Requests -> [processed : Nat, failed : Nat]]
           /\ errors' \in [Requests -> SUBSET [task : Tasks, retryable : BOOLEAN]]
           /\ answered' \in [Requests -> Batches] /\ batch' \in [Requests -> Batches]
           /\ sender' \in [Requests -> {"waiting", "calling", "taken", "returned", "raised"}]
           /\ sums'[r].processed = sums[r].processed
                                   + (Cardinality(batch[r]) - Cardinality(failed))
           /\ sums'[r].failed = sums[r].failed + Cardinality(failed)
           /\ errors'[r] = errors[r] \cup ErrorsOf(failed, fatal)
           /\ answered'[r] = answered[r] \cup batch[r] /\ batch'[r] = {}
           /\ sender'[r] = "waiting"
<1> DEFINE n == [processed |-> sums[r].processed
                               + (Cardinality(batch[r]) - Cardinality(failed)),
                 failed |-> sums[r].failed + Cardinality(failed)]
           E == ErrorsOf(failed, fatal)
<1>1. batch[r] \in SUBSET Tasks /\ failed \in SUBSET Tasks
      /\ sums[r] \in [processed : Nat, failed : Nat]
  BY DEF DispatchTypeOK, Batches
<1>2. Cardinality(failed) <= Cardinality(batch[r])
      /\ Cardinality(failed) \in Nat /\ Cardinality(batch[r]) \in Nat
  BY <1>1, TaskSets, FS_Subset
<1>3. n \in [processed : Nat, failed : Nat]
  BY <1>1, <1>2
<1>4. E \subseteq [task : Tasks, retryable : BOOLEAN]
  BY <1>1, OneErrorEach
<1>5. /\ sums' = [sums EXCEPT ![r] = n]
      /\ errors' = [errors EXCEPT ![r] = errors[r] \cup E]
      /\ answered' = [answered EXCEPT ![r] = answered[r] \cup batch[r]]
      /\ batch' = [batch EXCEPT ![r] = {}] /\ sender' = [sender EXCEPT ![r] = "waiting"]
  BY DEF Result, ErrorsOf
<1>6. n.processed = sums[r].processed + (Cardinality(batch[r]) - Cardinality(failed))
      /\ n.failed = sums[r].failed + Cardinality(failed)
  OBVIOUS
<1> HIDE DEF n, E
<1>7. sums' \in [Requests -> [processed : Nat, failed : Nat]] /\ sums'[r] = n
  BY <1>3, <1>5 DEF DispatchTypeOK
<1>8. errors' \in [Requests -> SUBSET [task : Tasks, retryable : BOOLEAN]]
      /\ errors'[r] = errors[r] \cup E
  BY <1>4, <1>5 DEF DispatchTypeOK
<1>9. /\ answered' \in [Requests -> Batches] /\ answered'[r] = answered[r] \cup batch[r]
      /\ batch' \in [Requests -> Batches] /\ batch'[r] = {}
      /\ sender' \in [Requests -> {"waiting", "calling", "taken", "returned", "raised"}]
      /\ sender'[r] = "waiting"
  BY <1>1, <1>5 DEF DispatchTypeOK, Batches
<1> QED
  BY <1>6, <1>7, <1>8, <1>9 DEF E

LEMMA TypeStep == IInv /\ [Next]_vars => DispatchTypeOK'
<1> SUFFICES ASSUME IInv, [Next]_vars PROVE DispatchTypeOK'
  OBVIOUS
<1> USE Sizes DEF DispatchTypeOK
<1>0. DispatchTypeOK
  BY DEF IInv
<1>1. ASSUME NEW r \in Requests, Put(r) PROVE DispatchTypeOK'
  <2>1. PICK c \in Chunks(r) : queue' = [queue EXCEPT ![r] = Append(queue[r], c)]
                               /\ todo' = [todo EXCEPT ![r] = todo[r] \ c]
    BY <1>1 DEF Put
  <2>2. c \in Batches /\ c \subseteq todo[r] /\ Len(queue[r]) < QueueSize
    BY <1>0, <1>1, ChunkFacts DEF Put, Room
  <2>3. /\ Append(queue[r], c) \in Seq(Batches)
        /\ Len(Append(queue[r], c)) = Len(queue[r]) + 1 /\ Len(queue[r]) \in Nat
    BY <1>0, <2>2, AppendFacts
  <2>4. queue' \in [Requests -> Seq(Batches)] /\ \A q \in Requests : Len(queue'[q]) <= QueueSize
    BY <1>0, <2>1, <2>2, <2>3
  <2>5. todo' \in [Requests -> Batches]
    BY <1>0, <2>1 DEF Batches
  <2> QED
    BY <1>0, <1>1, <2>4, <2>5 DEF Put
<1>2. ASSUME NEW r \in Requests, PutEnd(r) PROVE DispatchTypeOK'
  <2>1. queue' = [queue EXCEPT ![r] = Append(queue[r], End)]
        /\ Len(queue[r]) < QueueSize /\ End \in Batches
    BY <1>2 DEF PutEnd, Room, End, Batches
  <2>2. /\ Append(queue[r], End) \in Seq(Batches)
        /\ Len(Append(queue[r], End)) = Len(queue[r]) + 1 /\ Len(queue[r]) \in Nat
    BY <1>0, <2>1, AppendFacts
  <2>3. queue' \in [Requests -> Seq(Batches)] /\ \A q \in Requests : Len(queue'[q]) <= QueueSize
    BY <1>0, <2>1, <2>2
  <2> QED
    BY <1>0, <1>2, <2>3 DEF PutEnd
<1>3. ASSUME NEW r \in Requests, queue[r] # <<>>,
             queue' = [queue EXCEPT ![r] = Tail(queue[r])]
      PROVE  /\ queue' \in [Requests -> Seq(Batches)] /\ Head(queue[r]) \in Batches
             /\ \A q \in Requests : Len(queue'[q]) <= QueueSize
  <2>1. /\ Tail(queue[r]) \in Seq(Batches) /\ Len(Tail(queue[r])) = Len(queue[r]) - 1
        /\ Len(queue[r]) \in Nat /\ Head(queue[r]) \in Batches
    BY <1>0, <1>3, TailFacts
  <2> QED
    BY <1>0, <1>3, <2>1
<1>4. ASSUME NEW r \in Requests, Take(r) PROVE DispatchTypeOK'
  <2>1. /\ queue' \in [Requests -> Seq(Batches)] /\ Head(queue[r]) \in Batches
        /\ \A q \in Requests : Len(queue'[q]) <= QueueSize
    BY <1>3, <1>4 DEF Take
  <2> QED
    BY <1>0, <1>4, <2>1 DEF Take
<1>5. ASSUME NEW r \in Requests, Refuse(r) PROVE DispatchTypeOK'
  <2>1. /\ queue' \in [Requests -> Seq(Batches)]
        /\ \A q \in Requests : Len(queue'[q]) <= QueueSize
    BY <1>3, <1>5 DEF Refuse
  <2> QED
    BY <1>0, <1>5, <2>1 DEF Refuse
<1>6. ASSUME NEW r \in Requests, SQSTakes(r) PROVE DispatchTypeOK'
  <2>1. PICK ok \in SUBSET batch[r] :
          /\ accepted' = [accepted EXCEPT ![r] = ok]
          /\ copies' = [t \in Tasks |-> IF t \in ok THEN copies[t] + 1 ELSE copies[t]]
    BY <1>6 DEF SQSTakes
  <2>2. accepted' \in [Requests -> Batches] /\ copies' \in [Tasks -> Nat]
    BY <1>0, <2>1 DEF Batches
  <2> QED
    BY <1>0, <1>6, <2>2 DEF SQSTakes
<1>7. ASSUME NEW r \in Requests, Resend(r) PROVE DispatchTypeOK'
  BY <1>0, <1>7 DEF Resend
<1>8. ASSUME NEW r \in Requests, Answer(r) \/ CallFails(r) PROVE DispatchTypeOK'
  <2>1. \E failed \in SUBSET batch[r], fatal \in SUBSET batch[r] :
          fatal \subseteq failed /\ Result(r, failed, fatal)
    BY <1>8 DEF Answer, CallFails
  <2>2. /\ sums' \in [Requests -> [processed : Nat, failed : Nat]]
        /\ errors' \in [Requests -> SUBSET [task : Tasks, retryable : BOOLEAN]]
        /\ answered' \in [Requests -> Batches] /\ batch' \in [Requests -> Batches]
        /\ sender' \in [Requests -> {"waiting", "calling", "taken", "returned", "raised"}]
    BY <1>0, <2>1, ResultTypes
  <2> QED
    BY <1>0, <1>8, <2>2 DEF Answer, CallFails
<1>9. ASSUME NEW r \in Requests, Merge(r) PROVE DispatchTypeOK'
  <2>1. /\ queue' \in [Requests -> Seq(Batches)]
        /\ \A q \in Requests : Len(queue'[q]) <= QueueSize
    BY <1>3, <1>9 DEF Merge
  <2> DEFINE n == [total |-> Cardinality(Distinct[r]), processed |-> sums[r].processed,
                   failed |-> sums[r].failed, over |-> TRUE]
  <2>2. n \in [total : Nat, processed : Nat, failed : Nat, over : BOOLEAN]
    BY <1>0, DistinctTasks, TaskSets
  <2>3. report' = [report EXCEPT ![r] = n]
    BY <1>9 DEF Merge
  <2> HIDE DEF n
  <2>4. report' \in [Requests -> [total : Nat, processed : Nat, failed : Nat, over : BOOLEAN]]
    BY <1>0, <2>2, <2>3
  <2> QED
    BY <1>0, <1>9, <2>1, <2>4 DEF Merge
<1>10. ASSUME NEW r \in Requests, MapFails(r) PROVE DispatchTypeOK'
  BY <1>0, <1>10 DEF MapFails
<1>11. CASE UNCHANGED vars
  BY <1>0, <1>11 DEF vars
<1> QED
  BY <1>1, <1>2, <1>4, <1>5, <1>6, <1>7, <1>8, <1>9, <1>10, <1>11 DEF Next, Mapper, Sender

-----------------------------------------------------------------------------
(* Where the tasks are.                                                    *)

\* The mapper puts some of its tasks, or the end signal when it has none.
LEMMA PutPlaced ==
    ASSUME NEW r \in Requests, IInv, NEW c \in SUBSET todo[r],
           queue'[r] = Append(queue[r], c), todo'[r] = todo[r] \ c,
           mapper[r] # "done", c = End => mapper'[r] = "done",
           mapper'[r] = "done" => todo[r] = {},
           batch'[r] = batch[r], answered'[r] = answered[r], sender'[r] = sender[r]
    PROVE  /\ Placed(r)'
           /\ \A t \in Distinct[r] : t \in todo'[r] \/ InQueue(r, t)'
                                       => t \in todo[r] \/ InQueue(r, t)
<1> DEFINE q == queue[r]
           p == queue'[r]
           n == Len(queue[r])
<1>1. Placed(r) /\ queue[r] \in Seq(Batches) /\ c \in Batches
  BY DEF IInv, DispatchTypeOK, Batches
<1>2. /\ DOMAIN p = 1..(n + 1) /\ DOMAIN q = 1..n /\ n \in Nat /\ Len(p) = n + 1
      /\ \A i \in 1..n : p[i] = q[i]
      /\ p[n + 1] = c
  BY <1>1, AppendFacts
<1>3. /\ DOMAIN p = DOMAIN q \cup {n + 1} /\ n + 1 \notin DOMAIN q
      /\ \A i \in DOMAIN q : p[i] = q[i]
  BY <1>2
<1>4. \A i \in DOMAIN q : q[i] # End /\ q[i] \subseteq Distinct[r]
        /\ q[i] \cap (todo[r] \cup batch[r] \cup answered[r]) = {}
        /\ \A j \in DOMAIN q : i # j => q[i] \cap q[j] = {}
  BY <1>1, Zenon DEF Placed
<1>5. /\ todo[r] \subseteq Distinct[r] /\ batch[r] \subseteq Distinct[r]
      /\ answered[r] \subseteq Distinct[r]
      /\ todo[r] \cap batch[r] = {} /\ todo[r] \cap answered[r] = {}
      /\ batch[r] \cap answered[r] = {}
      /\ sender[r] \notin {"calling", "taken"} => batch[r] = {}
  BY <1>1 DEF Placed
<1>6. \A t : InQueue(r, t)' <=> InQueue(r, t) \/ t \in c
  BY <1>2, <1>3, Zenon DEF InQueue
<1>7. sender[r] # "raised" =>
        \A t \in Distinct[r] : t \in todo[r] \cup batch[r] \cup answered[r] \/ InQueue(r, t)
  BY <1>1 DEF Placed
<1>8. ASSUME NEW i \in DOMAIN p
      PROVE  /\ p[i] \subseteq Distinct[r]
             /\ p[i] \cap (todo'[r] \cup batch[r] \cup answered[r]) = {}
             /\ \A j \in DOMAIN p : i # j => p[i] \cap p[j] = {}
             /\ p[i] = End => mapper'[r] = "done" /\ i = Len(p)
  <2>1. CASE i \in DOMAIN q
    <3>1. p[i] = q[i] /\ p[i] # End /\ p[i] \subseteq Distinct[r]
          /\ p[i] \cap (todo'[r] \cup batch[r] \cup answered[r]) = {}
      BY <1>3, <1>4, <2>1
    <3>2. \A j \in DOMAIN p : i # j => p[i] \cap p[j] = {}
      <4> SUFFICES ASSUME NEW j \in DOMAIN p, i # j PROVE p[i] \cap p[j] = {}
        OBVIOUS
      <4>1. CASE j \in DOMAIN q
        BY <1>3, <1>4, <2>1, <4>1
      <4>2. CASE j = n + 1
        BY <1>2, <1>3, <1>4, <2>1, <4>2
      <4> QED
        BY <1>3, <4>1, <4>2
    <3> QED
      BY <3>1, <3>2
  <2>2. CASE i = n + 1
    <3>1. p[i] = c /\ i = Len(p)
      BY <1>2, <2>2
    <3>2. \A j \in DOMAIN p : i # j => p[i] \cap p[j] = {}
      BY <1>3, <1>4, <2>2, <3>1
    <3> QED
      BY <1>5, <3>1, <3>2
  <2> QED
    BY <1>3, <2>1, <2>2
<1> HIDE DEF q, n
<1>9. sender[r] # "raised" =>
        \A t \in Distinct[r] : t \in todo'[r] \cup batch[r] \cup answered[r] \/ InQueue(r, t)'
  BY <1>6, <1>7
<1>10. Placed(r)'
  BY <1>5, <1>8, <1>9 DEF Placed
<1> QED
  BY <1>6, <1>10

\* The sender takes the first batch, or leaves it and fails, or it is the end.
LEMMA TakePlaced ==
    ASSUME NEW r \in Requests, IInv, queue[r] # <<>>, queue'[r] = Tail(queue[r]),
           sender[r] = "waiting",
           \/ batch'[r] = Head(queue[r]) /\ sender'[r] = "calling"
           \/ batch'[r] = batch[r] /\ sender'[r] = "raised"
           \/ batch'[r] = batch[r] /\ Head(queue[r]) = {} /\ sender'[r] = "returned",
           todo'[r] = todo[r], answered'[r] = answered[r], mapper'[r] = mapper[r]
    PROVE  /\ Placed(r)'
           /\ \A t \in Distinct[r] : InQueue(r, t)' => InQueue(r, t)
           /\ \A t \in Head(queue[r]) : t \in Distinct[r] /\ InQueue(r, t)
           /\ batch[r] = {} /\ Head(queue[r]) \cap answered[r] = {}
<1> DEFINE q == queue[r]
           p == queue'[r]
           n == Len(queue[r])
<1>1. Placed(r) /\ queue[r] \in Seq(Batches) /\ batch[r] = {}
  BY DEF IInv, DispatchTypeOK, Placed
<1>2. /\ DOMAIN p = 1..(n - 1) /\ DOMAIN q = 1..n /\ n \in Nat \ {0} /\ Len(p) = n - 1
      /\ Head(q) = q[1] /\ \A i \in 1..(n - 1) : p[i] = q[i + 1]
  BY <1>1, TailFacts
<1>3. /\ 1 \in DOMAIN q
      /\ \A i \in DOMAIN p : i + 1 \in DOMAIN q /\ p[i] = q[i + 1] /\ i + 1 # 1
      /\ \A i \in DOMAIN q : i = 1 \/ \E j \in DOMAIN p : i = j + 1 /\ p[j] = q[i]
  <2>1. 1 \in DOMAIN q
    BY <1>2
  <2>2. \A i \in DOMAIN p : i + 1 \in DOMAIN q /\ p[i] = q[i + 1] /\ i + 1 # 1
    BY <1>2
  <2>3. ASSUME NEW i \in DOMAIN q, i # 1 PROVE \E j \in DOMAIN p : i = j + 1 /\ p[j] = q[i]
    <3>1. i - 1 \in DOMAIN p /\ i = (i - 1) + 1
      BY <1>2, <2>3
    <3>2. p[i - 1] = q[i]
      BY <2>2, <3>1
    <3> QED
      BY <3>1, <3>2
  <2> QED
    BY <2>1, <2>2, <2>3
<1>4. \A i \in DOMAIN q :
        /\ q[i] \subseteq Distinct[r]
        /\ q[i] \cap (todo[r] \cup batch[r] \cup answered[r]) = {}
        /\ \A j \in DOMAIN q : i # j => q[i] \cap q[j] = {}
        /\ q[i] = End => mapper[r] = "done" /\ i = Len(q)
  BY <1>1, Zenon DEF Placed
<1>5. /\ todo[r] \subseteq Distinct[r] /\ answered[r] \subseteq Distinct[r]
      /\ todo[r] \cap answered[r] = {}
      /\ mapper[r] = "done" => todo[r] = {}
      /\ \A t \in Distinct[r] : t \in todo[r] \cup answered[r] \/ InQueue(r, t)
  BY <1>1 DEF Placed
<1>6. \A t : InQueue(r, t) <=> InQueue(r, t)' \/ t \in q[1]
  BY <1>3, Zenon DEF InQueue
<1>7. batch'[r] \subseteq q[1] /\ (sender'[r] # "raised" => batch'[r] = q[1])
      /\ (sender'[r] \notin {"calling", "taken"} => batch'[r] = {})
  BY <1>1, <1>2
<1>8. ASSUME NEW i \in DOMAIN p
      PROVE  /\ p[i] \subseteq Distinct[r]
             /\ p[i] \cap (todo[r] \cup batch'[r] \cup answered[r]) = {}
             /\ \A j \in DOMAIN p : i # j => p[i] \cap p[j] = {}
             /\ p[i] = End => mapper[r] = "done" /\ i = Len(p)
  <2>1. p[i] \subseteq Distinct[r] /\ p[i] \cap (todo[r] \cup answered[r]) = {}
        /\ p[i] \cap q[1] = {}
    BY <1>3, <1>4
  <2>2. \A j \in DOMAIN p : i # j => p[i] \cap p[j] = {}
    <3> SUFFICES ASSUME NEW j \in DOMAIN p, i # j PROVE p[i] \cap p[j] = {}
      OBVIOUS
    <3>1. i + 1 # j + 1
      BY <1>2
    <3> QED
      BY <1>3, <1>4, <3>1
  <2>3. p[i] = End => mapper[r] = "done" /\ i + 1 = n
    BY <1>3, <1>4
  <2>4. i \in Int /\ Len(p) = n - 1
    BY <1>2
  <2> QED
    BY <1>2, <1>7, <2>1, <2>2, <2>3, <2>4
<1>9. q[1] \subseteq Distinct[r] /\ q[1] \cap (todo[r] \cup answered[r]) = {}
  BY <1>3, <1>4
<1> HIDE DEF q, n
<1>10. sender'[r] # "raised" =>
        \A t \in Distinct[r] : t \in todo[r] \cup batch'[r] \cup answered[r] \/ InQueue(r, t)'
  BY <1>5, <1>6, <1>7
<1>11. Placed(r)'
  BY <1>5, <1>7, <1>8, <1>9, <1>10 DEF Placed
<1> QED
  BY <1>1, <1>2, <1>6, <1>9, <1>11 DEF q

\* A batch has its result: its tasks are answered.
LEMMA ResultPlaced ==
    ASSUME NEW r \in Requests, IInv, sender[r] \in {"calling", "taken"},
           NEW failed \in SUBSET batch[r], NEW fatal \in SUBSET failed,
           Result(r, failed, fatal),
           todo'[r] = todo[r], queue'[r] = queue[r], mapper'[r] = mapper[r],
           report'[r] = report[r]
    PROVE  Placed(r)' /\ Summed(r)'
<1>0. DispatchTypeOK /\ Placed(r) /\ Summed(r)
  BY DEF IInv
<1>1. /\ sums'[r].processed = sums[r].processed + (Cardinality(batch[r]) - Cardinality(failed))
      /\ sums'[r].failed = sums[r].failed + Cardinality(failed)
      /\ errors'[r] = errors[r] \cup ErrorsOf(failed, fatal)
      /\ answered'[r] = answered[r] \cup batch[r] /\ batch'[r] = {}
      /\ sender'[r] = "waiting"
  BY <1>0, ResultTypes
<1>2. Placed(r)'
  <2>1. /\ todo[r] \subseteq Distinct[r] /\ batch[r] \subseteq Distinct[r]
        /\ answered[r] \subseteq Distinct[r]
        /\ todo[r] \cap batch[r] = {} /\ todo[r] \cap answered[r] = {}
        /\ mapper[r] = "done" => todo[r] = {}
    BY <1>0 DEF Placed
  <2>2. \A i \in DOMAIN queue[r] :
          /\ queue[r][i] \subseteq Distinct[r]
          /\ queue[r][i] \cap (todo[r] \cup batch[r] \cup answered[r]) = {}
          /\ \A j \in DOMAIN queue[r] : i # j => queue[r][i] \cap queue[r][j] = {}
          /\ queue[r][i] = End => mapper[r] = "done" /\ i = Len(queue[r])
    BY <1>0, Zenon DEF Placed
  <2>3. \A t \in Distinct[r] : t \in todo[r] \cup batch[r] \cup answered[r] \/ InQueue(r, t)
    BY <1>0 DEF Placed
  <2>4. \A t : InQueue(r, t)' <=> InQueue(r, t)
    BY Zenon DEF InQueue
  <2>5. \A t \in Distinct[r] :
          t \in todo'[r] \cup batch'[r] \cup answered'[r] \/ InQueue(r, t)'
    BY <1>1, <2>3, <2>4
  <2>6. \A i \in DOMAIN queue'[r] :
          /\ queue'[r][i] \subseteq Distinct[r]
          /\ queue'[r][i] \cap (todo'[r] \cup batch'[r] \cup answered'[r]) = {}
          /\ \A j \in DOMAIN queue'[r] : i # j => queue'[r][i] \cap queue'[r][j] = {}
          /\ queue'[r][i] = End => mapper'[r] = "done" /\ i = Len(queue'[r])
    BY <1>1, <2>2
  <2>7. /\ todo'[r] \subseteq Distinct[r] /\ batch'[r] \subseteq Distinct[r]
        /\ answered'[r] \subseteq Distinct[r]
        /\ todo'[r] \cap batch'[r] = {} /\ todo'[r] \cap answered'[r] = {}
        /\ batch'[r] \cap answered'[r] = {}
        /\ mapper'[r] = "done" => todo'[r] = {}
    BY <1>1, <2>1
  <2> QED
    BY <1>1, <2>5, <2>6, <2>7, Zenon DEF Placed
<1>3. Summed(r)'
  <2>1. answered[r] \cap batch[r] = {} /\ batch[r] \in SUBSET Tasks /\ answered[r] \in SUBSET Tasks
        /\ failed \in SUBSET Tasks
    BY <1>0 DEF Placed, DispatchTypeOK, Batches
  <2>2. Cardinality(answered'[r]) = Cardinality(answered[r]) + Cardinality(batch[r])
        /\ Cardinality(batch[r]) \in Nat /\ Cardinality(failed) \in Nat
        /\ Cardinality(answered[r]) \in Nat
    <3>1. /\ IsFiniteSet(answered[r]) /\ IsFiniteSet(batch[r])
          /\ Cardinality(batch[r]) \in Nat /\ Cardinality(failed) \in Nat
          /\ Cardinality(answered[r]) \in Nat
      BY <2>1, TaskSets
    <3>2. Cardinality(answered[r] \cup batch[r])
            = Cardinality(answered[r]) + Cardinality(batch[r]) - Cardinality({})
      BY <2>1, <3>1, FS_Union
    <3> QED
      BY <1>1, <3>1, <3>2, FS_EmptySet
  <2>3. Failed(r)' = Failed(r) \cup failed
    <3>1. {e.task : e \in ErrorsOf(failed, fatal)} = failed
      BY <2>1, OneErrorEach
    <3> QED
      BY <1>1, <3>1 DEF Failed
  <2>4. Cardinality(errors'[r]) = Cardinality(errors[r]) + Cardinality(failed)
    <3>1. errors[r] \cap ErrorsOf(failed, fatal) = {}
      <4>1. \A e \in errors[r] : e.task \in answered[r]
        BY <1>0 DEF Summed, Failed
      <4>2. \A e \in ErrorsOf(failed, fatal) : e.task \in failed
        BY <2>1, OneErrorEach
      <4> QED
        BY <2>1, <4>1, <4>2
    <3>2. IsFiniteSet(errors[r]) /\ Cardinality(errors[r]) \in Nat
      BY <1>0, ErrorSets
    <3>3. IsFiniteSet(ErrorsOf(failed, fatal))
          /\ Cardinality(ErrorsOf(failed, fatal)) = Cardinality(failed)
      BY <2>1, OneErrorEach
    <3>4. Cardinality(errors'[r]) = Cardinality(errors[r])
            + Cardinality(ErrorsOf(failed, fatal)) - Cardinality({})
      BY <1>1, <3>1, <3>2, <3>3, FS_Union
    <3> QED
      BY <2>2, <3>2, <3>3, <3>4, FS_EmptySet
  <2>5. ~report[r].over
    BY <1>0 DEF Summed
  <2>6. sums[r].processed \in Nat /\ sums[r].failed \in Nat
    BY <1>0 DEF DispatchTypeOK
  <2>7. sums'[r].processed + sums'[r].failed = Cardinality(answered'[r])
    BY <1>0, <1>1, <2>2, <2>6 DEF Summed
  <2>8. sums'[r].failed = Cardinality(errors'[r]) /\ Failed(r)' \subseteq answered'[r]
    BY <1>0, <1>1, <2>3, <2>4 DEF Summed
  <2> QED
    BY <2>5, <2>7, <2>8 DEF Summed
<1> QED
  BY <1>2, <1>3

\* At the end every task is answered, and the report says how many.
LEMMA MergeSummed ==
    ASSUME NEW r \in Requests, IInv, Merge(r)
    PROVE  Summed(r)'
<1>0. DispatchTypeOK /\ Placed(r) /\ Summed(r) /\ queue[r] # <<>> /\ Head(queue[r]) = End
      /\ sender[r] = "waiting"
  BY DEF IInv, Merge
<1>1. /\ DOMAIN queue[r] = 1..Len(queue[r]) /\ Head(queue[r]) = queue[r][1]
      /\ Len(queue[r]) \in Nat \ {0}
  BY <1>0, TailFacts DEF DispatchTypeOK
<1>2. mapper[r] = "done" /\ Len(queue[r]) = 1 /\ queue[r][1] = {}
  <2>1. 1 \in DOMAIN queue[r] /\ queue[r][1] = End
    BY <1>0, <1>1
  <2>2. \A i \in DOMAIN queue[r] : queue[r][i] = End => mapper[r] = "done" /\ i = Len(queue[r])
    BY <1>0 DEF Placed
  <2> QED
    BY <2>1, <2>2 DEF End
<1>3. \A t : ~InQueue(r, t)
  BY <1>1, <1>2 DEF InQueue
<1>4. answered[r] = Distinct[r]
  BY <1>0, <1>2, <1>3 DEF Placed
<1> DEFINE n == [total |-> Cardinality(Distinct[r]), processed |-> sums[r].processed,
                 failed |-> sums[r].failed, over |-> TRUE]
<1>5. /\ report' = [report EXCEPT ![r] = n]
      /\ sender' = [sender EXCEPT ![r] = "returned"]
      /\ UNCHANGED <<sums, errors, answered>>
  BY DEF Merge
<1>6. n.total = Cardinality(Distinct[r]) /\ n.processed = sums[r].processed
      /\ n.failed = sums[r].failed
  OBVIOUS
<1> HIDE DEF n
<1>7. report'[r] = n /\ sender'[r] = "returned"
  BY <1>0, <1>5 DEF DispatchTypeOK
<1>8. mapper'[r] = "done"
  BY <1>2 DEF Merge
<1> QED
  BY <1>0, <1>4, <1>5, <1>6, <1>7, <1>8 DEF Summed, Failed

LEMMA PlacedStep ==
    ASSUME NEW r \in Requests, IInv, Step(r)
    PROVE  Placed(r)' /\ Summed(r)'
<1>0. DispatchTypeOK /\ Placed(r) /\ Summed(r)
  BY DEF IInv
<1>1. ASSUME UNCHANGED <<sums, errors, report, answered>>,
             sender'[r] = sender[r] \/ sender[r] # "returned",
             mapper'[r] = mapper[r] \/ mapper[r] # "done"
      PROVE  Summed(r)'
  BY <1>0, <1>1 DEF Summed, Failed
<1>2. CASE Put(r)
  <2>1. PICK c \in Chunks(r) : /\ queue' = [queue EXCEPT ![r] = Append(queue[r], c)]
                               /\ todo' = [todo EXCEPT ![r] = todo[r] \ c]
    BY <1>2 DEF Put
  <2>2. c \in SUBSET todo[r] /\ c # End /\ todo[r] # {}
    BY <1>0, <1>2, ChunkFacts DEF Put, End
  <2>3. queue'[r] = Append(queue[r], c) /\ todo'[r] = todo[r] \ c
    BY <1>0, <2>1 DEF DispatchTypeOK
  <2>4. /\ UNCHANGED <<mapper, batch, answered, sender, sums, errors, report>>
        /\ mapper[r] # "done"
    BY <1>0, <1>2, <2>2 DEF Put, Placed
  <2> QED
    BY <1>1, <2>2, <2>3, <2>4, PutPlaced
<1>3. CASE PutEnd(r)
  <2>1. /\ queue'[r] = Append(queue[r], End) /\ todo'[r] = todo[r] \ End /\ todo[r] = {}
        /\ mapper'[r] = "done" /\ mapper[r] # "done" /\ End \in SUBSET todo[r]
        /\ UNCHANGED <<batch, answered, sender, sums, errors, report>>
    BY <1>0, <1>3 DEF PutEnd, DispatchTypeOK, End
  <2> QED
    BY <1>1, <2>1, PutPlaced
<1>4. CASE Take(r)
  <2>1. /\ queue'[r] = Tail(queue[r]) /\ batch'[r] = Head(queue[r]) /\ sender'[r] = "calling"
        /\ queue[r] # <<>> /\ sender[r] = "waiting"
        /\ UNCHANGED <<todo, mapper, answered, sums, errors, report>>
    BY <1>0, <1>4 DEF Take, DispatchTypeOK
  <2> QED
    BY <1>1, <2>1, TakePlaced
<1>5. CASE Refuse(r)
  <2>1. /\ queue'[r] = Tail(queue[r]) /\ batch'[r] = batch[r] /\ sender'[r] = "raised"
        /\ queue[r] # <<>> /\ sender[r] = "waiting"
        /\ UNCHANGED <<todo, mapper, answered, sums, errors, report>>
    BY <1>0, <1>5 DEF Refuse, DispatchTypeOK
  <2> QED
    BY <1>1, <2>1, TakePlaced
<1>6. CASE Merge(r)
  <2>1. /\ queue'[r] = Tail(queue[r]) /\ batch'[r] = batch[r] /\ sender'[r] = "returned"
        /\ Head(queue[r]) = {} /\ queue[r] # <<>> /\ sender[r] = "waiting"
        /\ UNCHANGED <<todo, mapper, answered>>
    BY <1>0, <1>6 DEF Merge, DispatchTypeOK, End
  <2> QED
    BY <1>6, <2>1, TakePlaced, MergeSummed
<1>7. CASE SQSTakes(r) \/ Resend(r)
  <2>1. /\ sender[r] \in {"calling", "taken"} /\ sender'[r] \in {"calling", "taken"}
        /\ UNCHANGED <<todo, mapper, queue, batch, answered, sums, errors, report>>
    BY <1>0, <1>7 DEF SQSTakes, Resend, DispatchTypeOK
  <2>2. \A t : InQueue(r, t)' <=> InQueue(r, t)
    BY <2>1, Zenon DEF InQueue
  <2>3. Placed(r)'
    BY <1>0, <2>1, <2>2 DEF Placed
  <2> QED
    BY <1>1, <2>1, <2>3
<1>8. CASE Answer(r) \/ CallFails(r)
  <2>1. /\ \E failed \in SUBSET batch[r] : \E fatal \in SUBSET failed : Result(r, failed, fatal)
        /\ sender[r] \in {"calling", "taken"}
        /\ UNCHANGED <<todo, mapper, queue, report>>
    BY <1>8 DEF Answer, CallFails
  <2> QED
    BY <2>1, ResultPlaced
<1>9. CASE MapFails(r)
  <2>1. /\ mapper[r] = "mapping" /\ mapper'[r] = "raised"
        /\ UNCHANGED <<todo, queue, sender, batch, answered, sums, errors, report>>
    BY <1>0, <1>9 DEF MapFails, DispatchTypeOK
  <2>2. \A t : InQueue(r, t)' <=> InQueue(r, t)
    BY <2>1, Zenon DEF InQueue
  <2>3. \A i \in DOMAIN queue[r] : queue[r][i] # End
    BY <1>0, <2>1 DEF Placed
  <2>4. Placed(r)'
    BY <1>0, <2>1, <2>2, <2>3 DEF Placed
  <2> QED
    BY <1>1, <2>1, <2>4
<1> QED
  BY <1>2, <1>3, <1>4, <1>5, <1>6, <1>7, <1>8, <1>9 DEF Step, Mapper, Sender

-----------------------------------------------------------------------------
(* What is on SQS.                                                         *)

\* The messages of a request that takes no step stay as they are.
LEMMA RestSent ==
    ASSUME NEW r \in Requests, Rest(r), IInv, NEW q \in Requests \ {r},
           \A t \in Distinct[q] : copies'[t] = copies[t],
           resends' \in Nat, resends' >= resends
    PROVE  Sent(q)'
<1>0. DispatchTypeOK /\ Placed(q) /\ Sent(q)
  BY DEF IInv
<1>1. /\ todo'[q] = todo[q] /\ queue'[q] = queue[q] /\ sender'[q] = sender[q]
      /\ batch'[q] = batch[q] /\ accepted'[q] = accepted[q] /\ errors'[q] = errors[q]
      /\ answered'[q] = answered[q]
  BY DEF Rest
<1>2. batch[q] \subseteq Distinct[q] /\ answered[q] \subseteq Distinct[q]
  BY <1>0 DEF Placed
<1>3. \A t : InQueue(q, t)' <=> InQueue(q, t)
  BY <1>1, Zenon DEF InQueue
<1>4. \A t \in Distinct[q] : t \in todo'[q] \/ InQueue(q, t)' => copies'[t] = 0
  BY <1>0, <1>1, <1>3 DEF Sent
<1>5. sender'[q] = "calling" => \A t \in batch'[q] : copies'[t] <= resends'
  <2> SUFFICES ASSUME sender'[q] = "calling", NEW t \in batch'[q] PROVE copies'[t] <= resends'
    OBVIOUS
  <2>1. copies'[t] = copies[t] /\ copies[t] <= resends /\ t \in Tasks
    BY <1>0, <1>1, <1>2, DistinctTasks DEF Sent
  <2>2. copies[t] \in Nat /\ resends \in Nat
    BY <1>0, <2>1, Sizes DEF DispatchTypeOK
  <2> QED
    BY <2>1, <2>2
<1>6. sender'[q] = "taken" =>
        accepted'[q] \subseteq batch'[q] /\ \A t \in accepted'[q] : copies'[t] > 0
  BY <1>0, <1>1, <1>2 DEF Sent
<1>7. \A t \in answered'[q] \ Failed(q)' : copies'[t] > 0
  BY <1>0, <1>1, <1>2 DEF Sent, Failed
<1> QED
  BY <1>4, <1>5, <1>6, <1>7 DEF Sent

LEMMA SentStep ==
    ASSUME NEW r \in Requests, IInv, Step(r)
    PROVE  /\ \A q \in Requests : Sent(q)'
           /\ Known'
<1>0. DispatchTypeOK /\ Placed(r) /\ Summed(r) /\ Sent(r) /\ Known /\ Rest(r)
      /\ resends \in Nat
  <2>1. DispatchTypeOK /\ Placed(r) /\ Summed(r) /\ Sent(r) /\ Known
    BY DEF IInv
  <2>2. resends \in Nat
    BY <2>1, Sizes DEF DispatchTypeOK
  <2> QED
    BY <2>1, <2>2, OthersRest
<1> DEFINE Goal == (\A q \in Requests : Sent(q)') /\ Known'
<1> SUFFICES Goal
  OBVIOUS
<1>1. ASSUME UNCHANGED <<copies, resends>>, Sent(r)' PROVE Goal
  <2>1. \A q \in Requests \ {r} : Sent(q)'
    BY <1>0, <1>1, RestSent
  <2> QED
    BY <1>0, <1>1, <2>1 DEF Known
<1> HIDE DEF Goal
<1>2. CASE Put(r)
  <2>1. PICK c \in Chunks(r) : /\ queue' = [queue EXCEPT ![r] = Append(queue[r], c)]
                               /\ todo' = [todo EXCEPT ![r] = todo[r] \ c]
    BY <1>2 DEF Put
  <2>2. c \in SUBSET todo[r] /\ c # End /\ todo[r] # {}
    BY <1>0, <1>2, ChunkFacts DEF Put, End
  <2>3. queue'[r] = Append(queue[r], c) /\ todo'[r] = todo[r] \ c
    BY <1>0, <2>1 DEF DispatchTypeOK
  <2>4. /\ UNCHANGED <<mapper, batch, accepted, answered, sender, errors, copies, resends>>
        /\ mapper[r] # "done"
    BY <1>0, <1>2, <2>2 DEF Put, Placed
  <2>5. \A t \in Distinct[r] : t \in todo'[r] \/ InQueue(r, t)' => t \in todo[r] \/ InQueue(r, t)
    BY <2>2, <2>3, <2>4, PutPlaced
  <2>6. Sent(r)'
    BY <1>0, <2>4, <2>5 DEF Sent, Failed
  <2> QED
    BY <1>1, <2>4, <2>6
<1>3. CASE PutEnd(r)
  <2>1. /\ queue'[r] = Append(queue[r], End) /\ todo'[r] = todo[r] \ End /\ todo[r] = {}
        /\ mapper'[r] = "done" /\ mapper[r] # "done" /\ End \in SUBSET todo[r]
        /\ UNCHANGED <<batch, accepted, answered, sender, errors, copies, resends>>
    BY <1>0, <1>3 DEF PutEnd, DispatchTypeOK, End
  <2>2. \A t \in Distinct[r] : t \in todo'[r] \/ InQueue(r, t)' => t \in todo[r] \/ InQueue(r, t)
    BY <2>1, PutPlaced
  <2>3. Sent(r)'
    BY <1>0, <2>1, <2>2 DEF Sent, Failed
  <2> QED
    BY <1>1, <2>1, <2>3
<1>4. CASE Take(r)
  <2>1. /\ queue'[r] = Tail(queue[r]) /\ batch'[r] = Head(queue[r]) /\ sender'[r] = "calling"
        /\ queue[r] # <<>> /\ sender[r] = "waiting"
        /\ UNCHANGED <<todo, mapper, accepted, answered, errors, copies, resends>>
    BY <1>0, <1>4 DEF Take, DispatchTypeOK
  <2>2. /\ \A t \in Distinct[r] : InQueue(r, t)' => InQueue(r, t)
        /\ \A t \in Head(queue[r]) : t \in Distinct[r] /\ InQueue(r, t)
    BY <2>1, TakePlaced
  <2>3. \A t \in batch'[r] : copies'[t] <= resends'
    BY <1>0, <2>1, <2>2 DEF Sent
  <2>4. Sent(r)'
    BY <1>0, <2>1, <2>2, <2>3 DEF Sent, Failed
  <2> QED
    BY <1>1, <2>1, <2>4
<1>5. CASE Refuse(r)
  <2>1. /\ queue'[r] = Tail(queue[r]) /\ batch'[r] = batch[r] /\ sender'[r] = "raised"
        /\ queue[r] # <<>> /\ sender[r] = "waiting"
        /\ UNCHANGED <<todo, mapper, answered, errors, copies, resends>>
    BY <1>0, <1>5 DEF Refuse, DispatchTypeOK
  <2>2. \A t \in Distinct[r] : InQueue(r, t)' => InQueue(r, t)
    BY <2>1, TakePlaced
  <2>3. Sent(r)'
    BY <1>0, <2>1, <2>2 DEF Sent, Failed
  <2> QED
    BY <1>1, <2>1, <2>3
<1>6. CASE Merge(r)
  <2>1. /\ queue'[r] = Tail(queue[r]) /\ batch'[r] = batch[r] /\ sender'[r] = "returned"
        /\ Head(queue[r]) = {} /\ queue[r] # <<>> /\ sender[r] = "waiting"
        /\ UNCHANGED <<todo, mapper, answered, errors, copies, resends>>
    BY <1>0, <1>6 DEF Merge, DispatchTypeOK, End
  <2>2. \A t \in Distinct[r] : InQueue(r, t)' => InQueue(r, t)
    BY <2>1, TakePlaced
  <2>3. Sent(r)'
    BY <1>0, <2>1, <2>2 DEF Sent, Failed
  <2> QED
    BY <1>1, <2>1, <2>3
<1>7. CASE SQSTakes(r)
  <2>1. PICK ok \in SUBSET batch[r] :
          /\ accepted' = [accepted EXCEPT ![r] = ok]
          /\ copies' = [t \in Tasks |-> IF t \in ok THEN copies[t] + 1 ELSE copies[t]]
    BY <1>7 DEF SQSTakes
  <2>2. /\ sender[r] = "calling" /\ sender'[r] = "taken" /\ accepted'[r] = ok
        /\ UNCHANGED <<todo, queue, batch, answered, errors, resends>>
    BY <1>0, <1>7, <2>1 DEF SQSTakes, DispatchTypeOK
  <2>3. batch[r] \subseteq Distinct[r] /\ batch[r] \cap answered[r] = {} /\ Distinct[r] \subseteq Tasks
        /\ answered[r] \subseteq Distinct[r]
    BY <1>0, DistinctTasks DEF Placed
  <2>4. \A t \in Tasks : copies[t] \in Nat
    BY <1>0 DEF DispatchTypeOK
  <2>5. \A q \in Requests \ {r} : Sent(q)'
    <3>1. ASSUME NEW q \in Requests \ {r}, NEW t \in Distinct[q]
          PROVE  copies'[t] = copies[t]
      BY <2>1, <2>3, DistinctTasks, Apart
    <3> QED
      BY <1>0, <2>2, <3>1, RestSent
  <2>6. \A t \in Distinct[r] : t \in todo[r] \/ InQueue(r, t) => t \notin batch[r]
    BY <1>0, Zenon DEF Placed, InQueue
  <2>7. \A t : InQueue(r, t)' <=> InQueue(r, t)
    BY <2>2, Zenon DEF InQueue
  <2>8. \A t \in Distinct[r] : t \in todo'[r] \/ InQueue(r, t)' => copies'[t] = 0
    BY <1>0, <2>1, <2>2, <2>3, <2>6, <2>7 DEF Sent
  <2>9. \A t \in ok : copies'[t] > 0
    BY <2>1, <2>3, <2>4
  <2>10. \A t \in answered[r] \ Failed(r) : copies'[t] > 0
    BY <1>0, <2>1, <2>3, <2>4 DEF Sent
  <2>11. Sent(r)'
    <3>1. Failed(r)' = Failed(r)
      BY <2>2 DEF Failed
    <3> QED
      BY <2>1, <2>2, <2>8, <2>9, <2>10, <3>1 DEF Sent
  <2>12. Known'
    <3> SUFFICES ASSUME NEW t \in Tasks
                 PROVE  /\ copies'[t] <= 1 + resends
                        /\ copies'[t] > 0 => \E q \in Requests : t \in Distinct[q]
      BY <2>2 DEF Known
    <3>1. CASE t \in ok
      <4>1. copies[t] <= resends /\ copies'[t] = copies[t] + 1 /\ t \in Distinct[r]
        BY <1>0, <2>1, <2>2, <2>3, <3>1 DEF Sent
      <4> QED
        BY <1>0, <2>4, <4>1
    <3>2. CASE t \notin ok
      BY <1>0, <2>1, <3>2 DEF Known
    <3> QED
      BY <3>1, <3>2
  <2> QED
    BY <2>5, <2>11, <2>12 DEF Goal
<1>8. CASE Resend(r)
  <2>1. /\ sender'[r] = "calling" /\ resends' = resends + 1
        /\ UNCHANGED <<todo, queue, batch, accepted, answered, errors, copies>>
    BY <1>0, <1>8 DEF Resend, DispatchTypeOK
  <2>2. \A q \in Requests \ {r} : Sent(q)'
    BY <1>0, <2>1, RestSent
  <2>3. \A t \in Tasks : copies[t] \in Nat /\ copies[t] <= 1 + resends
    BY <1>0 DEF DispatchTypeOK, Known
  <2>4. \A t : InQueue(r, t)' <=> InQueue(r, t)
    BY <2>1, Zenon DEF InQueue
  <2>5. batch[r] \subseteq Tasks
    BY <1>0 DEF DispatchTypeOK, Batches
  <2>6. Sent(r)'
    BY <1>0, <2>1, <2>3, <2>4, <2>5 DEF Sent, Failed
  <2>7. Known'
    BY <1>0, <2>1, <2>3 DEF Known
  <2> QED
    BY <2>2, <2>6, <2>7 DEF Goal
<1>9. CASE Answer(r) \/ CallFails(r)
  <2>1. PICK failed \in SUBSET batch[r], fatal \in SUBSET batch[r] :
          /\ fatal \subseteq failed /\ Result(r, failed, fatal)
          /\ \A t \in batch[r] \ failed : sender[r] = "taken" /\ t \in accepted[r]
    BY <1>9 DEF Answer, CallFails
  <2>2. UNCHANGED <<todo, queue, accepted, copies, resends>>
    BY <1>9 DEF Answer, CallFails
  <2>3. /\ errors'[r] = errors[r] \cup ErrorsOf(failed, fatal)
        /\ answered'[r] = answered[r] \cup batch[r] /\ batch'[r] = {} /\ sender'[r] = "waiting"
    BY <1>0, <2>1, ResultTypes
  <2>4. \A t : InQueue(r, t)' <=> InQueue(r, t)
    BY <2>2, Zenon DEF InQueue
  <2>5. \A t \in answered'[r] \ Failed(r)' : copies'[t] > 0
    <3>1. Failed(r)' = Failed(r) \cup failed
      <4>1. {e.task : e \in ErrorsOf(failed, fatal)} = failed
        BY <1>0, <2>1, OneErrorEach DEF DispatchTypeOK, Batches
      <4> QED
        BY <2>3, <4>1 DEF Failed
    <3>2. \A t \in batch[r] \ failed : copies[t] > 0
      BY <1>0, <2>1 DEF Sent
    <3>3. \A t \in answered[r] \ Failed(r) : copies[t] > 0
      BY <1>0 DEF Sent
    <3> QED
      BY <2>2, <2>3, <3>1, <3>2, <3>3
  <2>6. Sent(r)'
    BY <1>0, <2>2, <2>3, <2>4, <2>5 DEF Sent
  <2> QED
    BY <1>1, <2>2, <2>6
<1>10. CASE MapFails(r)
  <2>1. UNCHANGED <<todo, queue, sender, batch, accepted, answered, errors, copies, resends>>
    BY <1>10 DEF MapFails
  <2>2. \A t : InQueue(r, t)' <=> InQueue(r, t)
    BY <2>1, Zenon DEF InQueue
  <2>3. Sent(r)'
    BY <1>0, <2>1, <2>2 DEF Sent, Failed
  <2> QED
    BY <1>1, <2>1, <2>3
<1> QED
  BY <1>2, <1>3, <1>4, <1>5, <1>6, <1>7, <1>8, <1>9, <1>10 DEF Step, Mapper, Sender

-----------------------------------------------------------------------------
(* The theorems.                                                           *)

\* What the proofs use is an invariant of the dispatch.
THEOREM DispatchInvariant == Spec => []IInv
<1>1. IInv /\ [Next]_vars => IInv'
  <2> SUFFICES ASSUME IInv, [Next]_vars PROVE IInv'
    OBVIOUS
  <2>1. DispatchTypeOK'
    BY TypeStep
  <2>2. ASSUME NEW r \in Requests, Step(r) PROVE IInv'
    <3>1. Rest(r) /\ Placed(r)' /\ Summed(r)'
      BY <2>2, OthersRest, PlacedStep DEF IInv
    <3>2. \A q \in Requests : Placed(q)' /\ Summed(q)'
      BY <3>1, RestHolds
    <3> QED
      BY <2>1, <2>2, <3>2, SentStep DEF IInv
  <2>3. CASE UNCHANGED vars
    <3>1. \A r \in Requests : Placed(r)' /\ Summed(r)' /\ Sent(r)'
      <4> SUFFICES ASSUME NEW r \in Requests PROVE Placed(r)' /\ Summed(r)' /\ Sent(r)'
        OBVIOUS
      <4>1. Placed(r) /\ Summed(r) /\ Sent(r)
        BY DEF IInv
      <4>2. \A t : InQueue(r, t)' <=> InQueue(r, t)
        BY <2>3, Zenon DEF vars, InQueue
      <4> QED
        BY <2>3, <4>1, <4>2 DEF vars, Placed, Summed, Sent, Failed
    <3> QED
      BY <2>1, <2>3, <3>1 DEF IInv, Known, vars
  <2> QED
    BY <2>2, <2>3 DEF Next, Step
<1> QED
  BY <1>1, DispatchInit, PTL DEF Spec

\* The queue between mapper and sender never passes its bound
\* (scraping_service.py:92).
THEOREM DispatchTyping == Spec => []DispatchTypeOK
<1>1. IInv => DispatchTypeOK
  BY DEF IInv
<1> QED
  BY <1>1, DispatchInvariant, PTL

\* A report accounts for every distinct task of its request, once, whatever
\* fails and whatever is sent again (scraping_service.py:137).
THEOREM ReportsAccount == Spec => []Accounted
<1>1. IInv => Accounted
  BY DEF IInv, Summed, Placed, Accounted
<1> QED
  BY <1>1, DispatchInvariant, PTL

\* One URL of a request gets on a queue in one task only, and that task twice
\* only when the AWS client calls again (scraping_service.py:72).
THEOREM NothingTwice == Spec => []NoDuplicates
<1>1. IInv => NoDuplicates
  <2> SUFFICES ASSUME IInv PROVE NoDuplicates
    OBVIOUS
  <2>1. \A t \in Tasks : copies[t] <= 1 + resends
    BY DEF IInv, Known
  <2>2. ASSUME NEW r \in Requests, NEW t \in Listed(r), NEW u \in Listed(r),
               UrlOf[t] = UrlOf[u], copies[t] # 0, copies[u] # 0
        PROVE  t = u
    <3>1. \A x \in Listed(r) : x \in Tasks /\ copies[x] \in Nat
      <4>1. TasksOf[r] \in Seq(Tasks)
        BY DispatchAssumption
      <4>2. Listed(r) \subseteq Tasks
        BY <4>1 DEF Listed
      <4> QED
        BY <4>2 DEF IInv, DispatchTypeOK
    <3>2. \A x \in Listed(r) : copies[x] # 0 => x \in Distinct[r]
      <4> SUFFICES ASSUME NEW x \in Listed(r), copies[x] # 0 PROVE x \in Distinct[r]
        OBVIOUS
      <4>1. PICK q \in Requests : x \in Distinct[q]
        BY <3>1 DEF IInv, Known
      <4>2. x \in Listed(q)
        BY <4>1, DistinctTasks
      <4> QED
        BY <4>1, <4>2, DispatchAssumption
    <3>3. t \in Distinct[r] /\ u \in Distinct[r]
      BY <2>2, <3>2
    <3>4. PICK i \in DOMAIN TasksOf[r] :
            /\ t = TasksOf[r][i]
            /\ \A j \in DOMAIN TasksOf[r] : j > i => UrlOf[TasksOf[r][j]] # UrlOf[t]
      BY <3>3 DEF Distinct
    <3>5. PICK j \in DOMAIN TasksOf[r] :
            /\ u = TasksOf[r][j]
            /\ \A k \in DOMAIN TasksOf[r] : k > j => UrlOf[TasksOf[r][k]] # UrlOf[u]
      BY <3>3 DEF Distinct
    <3>6. i \in Nat /\ j \in Nat
      BY DispatchAssumption
    <3>7. ~(j > i) /\ ~(i > j)
      BY <2>2, <3>4, <3>5
    <3>8. i = j
      BY <3>6, <3>7
    <3> QED
      BY <3>4, <3>5, <3>8
  <2> QED
    BY <2>1, <2>2 DEF NoDuplicates
<1> QED
  BY <1>1, DispatchInvariant, PTL

-----------------------------------------------------------------------------
(* The dispatch implements Submission.                                     *)

OnQueue == {t \in Tasks : copies[t] > 0}
Told == [r \in Requests |-> ToldOf(r)]

\* What a request is told, by where its mapper and its sender are.
LEMMA ToldAs ==
    ASSUME IInv, NEW r \in Requests
    PROVE  /\ sender[r] # "returned" /\ ~Raised(r) => ToldOf(r) = Owed!Pending
           /\ Raised(r) => ToldOf(r) = Owed!GivenUp
           /\ report[r].over \in BOOLEAN
           /\ report[r].over => sender[r] = "returned" /\ mapper[r] = "done"
BY DEF IInv, DispatchTypeOK, Summed, ToldOf, Raised, Owed!Pending, Owed!GivenUp

\* Where a report is neither made nor changed, nor a request given up, nobody
\* is told anything.
LEMMA ToldSame ==
    ASSUME IInv, NEW r \in Requests, report'[r] = report[r],
           report[r].over => errors'[r] = errors[r],
           Raised(r)' <=> Raised(r)
    PROVE  ToldOf(r)' = ToldOf(r)
BY DEF ToldOf, Failed

\* The reports that are made are sound, the rest is a step of the queues or of
\* nobody.
THEOREM DispatchImplementsSubmission == Spec => KeepsAccount
<1>1. Init => Owed!Init
  <2> SUFFICES ASSUME Init PROVE Owed!Init
    OBVIOUS
  <2>1. OnQueue = {}
    BY DEF Init, OnQueue
  <2>2. Told = [r \in Requests |-> Owed!Pending]
    BY DEF Init, NoReport, Told, ToldOf, Raised, Owed!Pending
  <2> QED
    BY <2>1, <2>2 DEF Owed!Init, OnQueue, Told
<1>2. IInv /\ IInv' /\ [Next]_vars => [Owed!Next]_(Owed!submissionVars)
  <2> SUFFICES ASSUME IInv, IInv', [Next]_vars PROVE [Owed!Next]_(Owed!submissionVars)
    OBVIOUS
  <2>0. DispatchTypeOK
    BY DEF IInv
  <2>1. ASSUME UNCHANGED <<OnQueue, Told>> PROVE UNCHANGED Owed!submissionVars
    BY <2>1 DEF Owed!submissionVars, OnQueue, Told
  <2>2. ASSUME NEW r \in Requests, Step(r) PROVE Owed!Next \/ UNCHANGED <<OnQueue, Told>>
    <3>0. Rest(r) /\ Placed(r) /\ Summed(r) /\ Sent(r)
      BY <2>0, <2>2, OthersRest DEF IInv
    <3>1. \A q \in Requests \ {r} : ToldOf(q)' = ToldOf(q)
      BY <3>0, ToldSame DEF Rest, Raised
    <3>2. ASSUME ToldOf(r)' = ToldOf(r) PROVE Told' = Told
      BY <3>1, <3>2 DEF Told
    <3>3. ASSUME NEW x, ToldOf(r)' = x PROVE Told' = [Told EXCEPT ![r] = x]
      BY <3>1, <3>3 DEF Told
    <3>4. Told[r] = ToldOf(r)
      BY DEF Told
    <3>5. CASE Put(r) \/ PutEnd(r) \/ Take(r) \/ Resend(r) \/ Answer(r) \/ CallFails(r)
      <4>1. UNCHANGED <<copies, report>> /\ (sender'[r] = "raised" <=> sender[r] = "raised")
            /\ (mapper'[r] = "raised" <=> mapper[r] = "raised")
            /\ (sender[r] = "returned" => errors'[r] = errors[r])
        BY <2>0, <3>5
        DEF Put, PutEnd, Take, Resend, Answer, CallFails, Result, DispatchTypeOK
      <4>2. ToldOf(r)' = ToldOf(r)
        BY <4>1, ToldAs, ToldSame DEF Raised
      <4> QED
        BY <3>2, <4>1, <4>2 DEF OnQueue
    <3>6. CASE SQSTakes(r)
      <4>1. PICK ok \in SUBSET batch[r] :
              copies' = [t \in Tasks |-> IF t \in ok THEN copies[t] + 1 ELSE copies[t]]
        BY <3>6 DEF SQSTakes
      <4>2. /\ sender[r] = "calling" /\ sender'[r] = "taken"
            /\ UNCHANGED <<report, errors, mapper>>
        BY <2>0, <3>6 DEF SQSTakes, DispatchTypeOK
      <4>3. ok \in SUBSET Distinct[r] /\ ok \subseteq Tasks
        BY <3>0, DistinctTasks DEF Placed
      <4>4. OnQueue' = OnQueue \cup ok
        BY <2>0, <4>1, <4>3 DEF OnQueue, DispatchTypeOK
      <4>5. Told' = Told /\ Told[r] \in {Owed!Pending, Owed!GivenUp}
        BY <3>2, <3>4, <4>2, ToldAs, ToldSame DEF Raised
      <4>6. Owed!Enqueue(r)
        BY <4>3, <4>4, <4>5 DEF Owed!Enqueue, OnQueue, Told
      <4> QED
        BY <4>6 DEF Owed!Next
    <3>7. CASE Refuse(r)
      <4>1. sender[r] = "waiting" /\ sender'[r] = "raised" /\ UNCHANGED copies
        BY <2>0, <3>7 DEF Refuse, DispatchTypeOK
      <4>2. ToldOf(r)' = Owed!GivenUp /\ ToldOf(r) \in {Owed!Pending, Owed!GivenUp}
        <5>1. report'[r] = report[r] /\ ~report[r].over
          BY <3>7, <4>1, ToldAs DEF Refuse
        <5> QED
          BY <4>1, <5>1, ToldAs DEF ToldOf, Raised, Owed!GivenUp
      <4>3. CASE ToldOf(r) = Owed!Pending
        <5>1. Owed!GiveUp(r)
          BY <3>3, <3>4, <4>1, <4>2, <4>3 DEF Owed!GiveUp, OnQueue, Told
        <5> QED
          BY <5>1 DEF Owed!Next
      <4>4. CASE ToldOf(r) = Owed!GivenUp
        BY <3>2, <4>1, <4>2, <4>4 DEF OnQueue
      <4> QED
        BY <4>2, <4>3, <4>4
    <3>8. CASE Merge(r)
      <4> DEFINE ok == Distinct[r] \ Failed(r)
                 n == [total |-> Cardinality(Distinct[r]), processed |-> sums[r].processed,
                       failed |-> sums[r].failed, over |-> TRUE]
      <4>1. sender[r] = "waiting" /\ UNCHANGED <<copies, errors, answered>>
            /\ report' = [report EXCEPT ![r] = n]
        BY <3>8 DEF Merge
      <4>2. report'[r].over
        BY <2>0, <4>1 DEF DispatchTypeOK
      <4>3. answered[r] = Distinct[r] /\ Failed(r) \subseteq Distinct[r]
        <5>1. Summed(r)'
          BY <3>8, MergeSummed
        <5>2. Failed(r)' = Failed(r)
          BY <4>1 DEF Failed
        <5> QED
          BY <4>1, <4>2, <5>1, <5>2 DEF Summed
      <4>4. ok \in SUBSET (OnQueue \cap Distinct[r])
        BY <3>0, <4>3, DistinctTasks DEF Sent, OnQueue
      <4>5. Failed(r) = Distinct[r] \ ok
        BY <4>3
      <4>6. ToldOf(r)' = [outcome |-> "reported", sent |-> ok, failed |-> Distinct[r] \ ok]
        <5>1. Failed(r)' = Failed(r)
          BY <4>1 DEF Failed
        <5>2. ToldOf(r)' = [outcome |-> "reported", failed |-> Failed(r)',
                            sent |-> Distinct[r] \ Failed(r)']
          BY <4>2 DEF ToldOf
        <5> QED
          BY <4>5, <5>1, <5>2
      <4>7. Told[r] = Owed!Pending
        <5>1. mapper[r] = "done"
          <6>1. mapper'[r] = "done"
            BY <3>8, <4>2, MergeSummed DEF Summed
          <6> QED
            BY <3>8, <6>1 DEF Merge
        <5> QED
          BY <3>4, <4>1, <5>1, ToldAs DEF Raised
      <4> HIDE DEF ok, n
      <4>8. Owed!Tell(r)
        BY <3>3, <4>1, <4>4, <4>6, <4>7 DEF Owed!Tell, OnQueue, Told
      <4> QED
        BY <4>8 DEF Owed!Next
    <3>9. CASE MapFails(r)
      <4>1. /\ mapper[r] = "mapping" /\ mapper'[r] = "raised"
            /\ UNCHANGED <<copies, report, sender>>
        BY <2>0, <3>9 DEF MapFails, DispatchTypeOK
      <4>2. ~report[r].over
        BY <4>1, ToldAs
      <4>3. ToldOf(r)' = Owed!GivenUp
        BY <4>1, <4>2 DEF ToldOf, Raised, Owed!GivenUp
      <4>4. ToldOf(r) \in {Owed!Pending, Owed!GivenUp}
        BY <4>2 DEF ToldOf, Owed!Pending, Owed!GivenUp
      <4>5. CASE ToldOf(r) = Owed!Pending
        <5>1. Owed!GiveUp(r)
          BY <3>3, <3>4, <4>1, <4>3, <4>5 DEF Owed!GiveUp, OnQueue, Told
        <5> QED
          BY <5>1 DEF Owed!Next
      <4>6. CASE ToldOf(r) = Owed!GivenUp
        BY <3>2, <4>1, <4>3, <4>6 DEF OnQueue
      <4> QED
        BY <4>4, <4>5, <4>6
    <3> QED
      BY <2>2, <3>5, <3>6, <3>7, <3>8, <3>9 DEF Step, Mapper, Sender
  <2>3. CASE UNCHANGED vars
    <3>1. \A r \in Requests : ToldOf(r)' = ToldOf(r)
      BY <2>3 DEF vars, ToldOf, Raised, Failed
    <3>2. UNCHANGED <<OnQueue, Told>>
      BY <2>3, <3>1 DEF vars, OnQueue, Told
    <3> QED
      BY <2>1, <3>2
  <2> QED
    BY <2>1, <2>2, <2>3 DEF Next, Step
<1> QED
  BY <1>1, <1>2, DispatchInvariant, PTL DEF Spec, Owed!Spec, KeepsAccount
=============================================================================
