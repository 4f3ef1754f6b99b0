--------------------------- MODULE CompactorProofs ---------------------------
(***************************************************************************)
(* Machine-checked proofs about the compactor, for every number of runs,   *)
(* jobs, objects and records, in both modes.                               *)
(***************************************************************************)
EXTENDS Compactor, FiniteSetTheorems, TLAPS

-----------------------------------------------------------------------------
(* Typing.                                                                 *)

\* The parts are numbered by how many there are, which must be a number.
TypeInv == CompactorTypeOK /\ IsFiniteSet(parts)

\* A job of a run: well typed, and it only reads what its listing found.
WellTyped(w) == w \in Works /\ w.todo \subseteq w.batches

LEMMA IdleType ==
    ASSUME NEW at \in {"absent", "unlisted", "listed", "over"}
    PROVE  WellTyped(Idle(at))
BY DEF WellTyped, Idle, Works

\* A step of one job changes that job only.
LEMMA ProgressWork ==
    ASSUME work \in [Runs -> [Jobs -> Works]],
           NEW r \in Runs, NEW j \in Jobs, NEW new, Progress(r, j, new)
    PROVE  /\ work'[r][j] = new
           /\ \A s \in Runs, k \in Jobs : s # r \/ k # j => work'[s][k] = work[s][k]
           /\ DOMAIN work' = Runs
           /\ \A s \in Runs : work'[s] \in [Jobs -> Works \cup {new}]
BY DEF Progress

LEMMA ProgressType ==
    ASSUME CompactorTypeOK,
           NEW r \in Runs, NEW j \in Jobs, NEW new, WellTyped(new), Progress(r, j, new)
    PROVE  /\ work' \in [Runs -> [Jobs -> Works]]
           /\ \A s \in Runs, k \in Jobs : work'[s][k].todo \subseteq work'[s][k].batches
<1>1. work' \in [Runs -> [Jobs -> Works]]
  BY DEF Progress, WellTyped, CompactorTypeOK
<1>2. ASSUME NEW s \in Runs, NEW k \in Jobs
      PROVE  work'[s][k].todo \subseteq work'[s][k].batches
  <2>1. CASE s = r /\ k = j
    BY <2>1, ProgressWork DEF WellTyped, CompactorTypeOK
  <2>2. CASE s # r \/ k # j
    BY <2>2, ProgressWork DEF CompactorTypeOK
  <2>3. QED
    BY <2>1, <2>2
<1>3. QED
  BY <1>1, <1>2

\* An upload adds one part, with the rows of the local file.
LEMMA UploadParts ==
    ASSUME TypeInv, NEW r \in Runs, NEW j \in Jobs, Upload(r, j)
    PROVE  /\ parts' \subseteq Parts /\ IsFiniteSet(parts')
           /\ Consolidated' = Consolidated \cup work[r][j].rows
<1> DEFINE new == [nr |-> Cardinality(parts) + 1, job |-> j, lines |-> work[r][j].rows]
<1>1. parts' = parts \cup {new}
  BY DEF Upload
<1>2. new \in Parts
  <2>1. Cardinality(parts) + 1 \in Nat
    BY FS_CardinalityType DEF TypeInv
  <2>2. work[r][j].rows \subseteq Lines
    BY DEF TypeInv, CompactorTypeOK, Works
  <2>3. QED
    BY <2>1, <2>2 DEF Parts
<1>3. IsFiniteSet(parts')
  BY <1>1, FS_AddElement DEF TypeInv
<1>4. Consolidated' = Consolidated \cup work[r][j].rows
  <2>1. Consolidated' = UNION {p.lines : p \in parts \cup {new}}
    BY <1>1 DEF Consolidated
  <2>2. UNION {p.lines : p \in parts \cup {new}} = Consolidated \cup new.lines
    BY Zenon DEF Consolidated
  <2>3. QED
    BY <2>1, <2>2
<1>5. QED
  BY <1>1, <1>2, <1>3, <1>4 DEF TypeInv, CompactorTypeOK

LEMMA FailType ==
    ASSUME failures \in 0..MaxFailures, Fail \/ UNCHANGED failures
    PROVE  failures' \in 0..MaxFailures
BY CompactorAssumption DEF Fail

\* A run that is over has left the others where they were.
LEMMA LeaveRun ==
    ASSUME CompactorTypeOK, NEW r \in Runs, Leave(r)
    PROVE  /\ pc' \in [Runs -> {"idle", "listing", "compacting"}]
           /\ pc'[r] = "idle" /\ \A s \in Runs \ {r} : pc'[s] = pc[s]
           /\ young' \subseteq Objects
           /\ UnderWay' => young' = young
BY DEF Leave, UnderWay, CompactorTypeOK

\* The end of a run leaves it with no job.
LEMMA EndRunType ==
    ASSUME TypeInv, NEW r \in Runs, EndRun(r)
    PROVE  /\ work' \in [Runs -> [Jobs -> Works]]
           /\ \A s \in Runs, k \in Jobs :
                /\ work'[s][k].todo \subseteq work'[s][k].batches
                /\ work'[s][k] = IF s = r THEN Idle("absent") ELSE work[s][k]
           /\ pc' \in [Runs -> {"idle", "listing", "compacting"}]
           /\ young' \subseteq Objects
<1>1. WellTyped(Idle("absent"))
  BY IdleType
<1>2. QED
  BY <1>1, LeaveRun DEF EndRun, TypeInv, CompactorTypeOK, WellTyped

\* Every step of process_job keeps the type.
LEMMA JobStepType ==
    ASSUME TypeInv, NEW r \in Runs, NEW j \in Jobs, JobStep(r, j)
    PROVE  TypeInv'
<1> DEFINE w == work[r][j]
<1>0. WellTyped(w)
  BY DEF TypeInv, CompactorTypeOK, WellTyped
<1>1. ASSUME NEW unreadable \in SUBSET OfJob(j), ListBatches(r, j, unreadable)
      PROVE  TypeInv'
  <2> DEFINE found == (OfJob(j) \ tagged) \cup unreadable
             new == [Idle("listed") EXCEPT !.batches = found, !.eligible = Eligible(found)]
  <2>1. found \subseteq Objects
    BY <1>1 DEF OfJob, TypeInv, CompactorTypeOK
  <2>2. WellTyped(new)
    BY <2>1 DEF WellTyped, Idle, Works, Eligible
  <2>3. Progress(r, j, new)
    BY <1>1 DEF ListBatches
  <2>4. failures' \in 0..MaxFailures
    BY <1>1, FailType DEF ListBatches, TypeInv, CompactorTypeOK
  <2>5. QED
    BY <1>1, <2>2, <2>3, <2>4, ProgressType DEF ListBatches, TypeInv, CompactorTypeOK
<1>2. CASE StartJob(r, j)
  <2>1. WellTyped([w EXCEPT !.at = "reading", !.todo = w.batches])
    BY <1>0 DEF WellTyped, Works
  <2>2. WellTyped(Idle("over"))
    BY IdleType
  <2>3. QED
    BY <1>2, <2>1, <2>2, ProgressType DEF StartJob, TypeInv, CompactorTypeOK
<1>3. ASSUME NEW o \in Objects, OpenBatch(r, j, o) PROVE TypeInv'
  <2>1. WellTyped([w EXCEPT !.todo = @ \ {o}, !.open = LinesOf[o]])
    BY <1>0, CompactorAssumption DEF WellTyped, Works
  <2>2. QED
    BY <1>3, <2>1, ProgressType DEF OpenBatch, TypeInv, CompactorTypeOK
<1>4. ASSUME NEW l \in Lines, AppendRecord(r, j, l) PROVE TypeInv'
  <2>1. WellTyped([w EXCEPT !.open = @ \ {l}, !.rows = @ \cup {l}])
    BY <1>0 DEF WellTyped, Works
  <2>2. QED
    BY <1>4, <2>1, ProgressType DEF AppendRecord, TypeInv, CompactorTypeOK
<1>5. CASE SplitFile(r, j)
  <2>1. WellTyped([w EXCEPT !.rows = {}])
    BY <1>0 DEF WellTyped, Works
  <2>2. parts' \subseteq Parts /\ IsFiniteSet(parts')
    BY <1>5, UploadParts DEF SplitFile
  <2>3. QED
    BY <1>5, <2>1, <2>2, ProgressType DEF SplitFile, TypeInv, CompactorTypeOK
<1>6. CASE UploadLast(r, j)
  <2>1. WellTyped([w EXCEPT !.at = "merged", !.rows = {}])
    BY <1>0 DEF WellTyped, Works
  <2>2. parts' \subseteq Parts /\ IsFiniteSet(parts')
    BY <1>6, UploadParts DEF UploadLast, TypeInv, CompactorTypeOK
  <2>3. QED
    BY <1>6, <2>1, <2>2, ProgressType DEF UploadLast, TypeInv, CompactorTypeOK
<1>7. ASSUME NEW done \in SUBSET w.batches, ClearJob(r, j, done) PROVE TypeInv'
  <2>1. WellTyped(Idle("over"))
    BY IdleType
  <2>2. failures' \in 0..MaxFailures
    BY <1>7, FailType DEF ClearJob, TypeInv, CompactorTypeOK
  <2>3. raw' \subseteq Objects /\ tagged' \subseteq Objects
    BY <1>7 DEF ClearJob, TypeInv, CompactorTypeOK
  <2>4. QED
    BY <1>7, <2>1, <2>2, <2>3, ProgressType DEF ClearJob, TypeInv, CompactorTypeOK
<1>8. CASE BatchGone(r, j)
  BY <1>8, EndRunType DEF BatchGone, EndRun, TypeInv, CompactorTypeOK
<1>9. QED
  BY <1>1, <1>2, <1>3, <1>4, <1>5, <1>6, <1>7, <1>8 DEF JobStep

\* The type invariant is inductive.
LEMMA TypeStep ==
    ASSUME TypeInv, [Next]_vars
    PROVE  TypeInv'
<1>1. ASSUME NEW o \in Objects, WorkerWrites(o) \/ GrowOld(o) PROVE TypeInv'
  <2>1. age' \in [Objects -> Ages] /\ raw' \subseteq Objects
    BY <1>1 DEF WorkerWrites, GrowOld, Ages, TypeInv, CompactorTypeOK
  <2>2. QED
    BY <1>1, <2>1 DEF WorkerWrites, GrowOld, TypeInv, CompactorTypeOK
<1>2. ASSUME NEW r \in Runs, StartRun(r) PROVE TypeInv'
  <2>1. WellTyped(Idle("absent")) /\ WellTyped(Idle("unlisted"))
    BY IdleType
  <2>2. ASSUME NEW s \in Runs, NEW k \in Jobs
        PROVE  work'[s][k] = IF s # r THEN work[s][k]
                             ELSE IF OfJob(k) = {} THEN Idle("absent") ELSE Idle("unlisted")
    BY <1>2 DEF StartRun, TypeInv, CompactorTypeOK
  <2>3. \A k \in Jobs : Idle(IF OfJob(k) = {} THEN "absent" ELSE "unlisted") \in Works
    BY <2>1 DEF WellTyped
  <2>4. work' \in [Runs -> [Jobs -> Works]]
    BY <1>2, <2>3 DEF StartRun, TypeInv, CompactorTypeOK
  <2>5. \A s \in Runs, k \in Jobs : work'[s][k].todo \subseteq work'[s][k].batches
    BY <2>1, <2>2 DEF WellTyped, TypeInv, CompactorTypeOK
  <2>6. QED
    BY <1>2, <2>4, <2>5 DEF StartRun, TypeInv, CompactorTypeOK
<1>3. ASSUME NEW r \in Runs, StartCompaction(r) PROVE TypeInv'
  BY <1>3 DEF StartCompaction, TypeInv, CompactorTypeOK
<1>4. ASSUME NEW r \in Runs, NEW j \in Jobs, JobStep(r, j) PROVE TypeInv'
  BY <1>4, JobStepType
<1>5. ASSUME NEW r \in Runs, NEW done \in SUBSET Expired, Purge(r, done) PROVE TypeInv'
  <2>1. failures' \in 0..MaxFailures
    BY <1>5, FailType DEF Purge, TypeInv, CompactorTypeOK
  <2>2. QED
    BY <1>5, <2>1, LeaveRun DEF Purge, Expired, TypeInv, CompactorTypeOK
<1>6. ASSUME NEW r \in Runs, Abort(r) PROVE TypeInv'
  <2>1. failures' \in 0..MaxFailures
    BY <1>6, FailType DEF Abort, TypeInv, CompactorTypeOK
  <2>2. QED
    BY <1>6, <2>1, EndRunType DEF Abort, EndRun, TypeInv, CompactorTypeOK
<1>7. CASE UNCHANGED vars
  BY <1>7 DEF vars, TypeInv, CompactorTypeOK
<1>8. QED
  BY <1>1, <1>2, <1>3, <1>4, <1>5, <1>6, <1>7 DEF Next, RunStep

LEMMA TypeInit ==
    ASSUME Init
    PROVE  TypeInv
<1>1. WellTyped(Idle("absent"))
  BY IdleType
<1>2. IsFiniteSet(parts)
  BY FS_EmptySet DEF Init
<1>3. QED
  BY <1>1, <1>2, CompactorAssumption DEF Init, TypeInv, CompactorTypeOK, WellTyped, Ages

LEMMA TypeInvHolds == Spec => []TypeInv
BY TypeInit, TypeStep, PTL DEF Spec

\* The state of any number of runs stays well typed; a job never opens an
\* object its listing did not find (compact_s3.py:465).
THEOREM CompactorTypeCorrect == Spec => []CompactorTypeOK
<1>1. TypeInv => CompactorTypeOK
  BY DEF TypeInv
<1>2. QED
  BY <1>1, TypeInvHolds, PTL

-----------------------------------------------------------------------------
(* No raw object goes before its records are merged.                       *)

\* What a job of a run knows of the objects it has listed: while it reads, each
\* record is in the lake, in the local file, in the open object or in one not
\* opened yet; once it has uploaded its last part, in the lake.
Accounted(w, safe) ==
    /\ w.at = "reading" =>
         \A o \in w.batches :
           LinesOf[o] \subseteq safe \cup w.rows \cup w.open \cup UNION {LinesOf[p] : p \in w.todo}
    /\ w.at = "merged" => \A o \in w.batches : LinesOf[o] \subseteq safe

WorkInv == \A r \in Runs, j \in Jobs : Accounted(work[r][j], Consolidated)

MergeInv == TypeInv /\ WorkInv /\ LeavesMerged /\ TaggedIsMerged

\* The lake only grows, which keeps every account.
LEMMA AccountedGrows ==
    ASSUME NEW w, NEW safe, NEW more, safe \subseteq more, Accounted(w, safe)
    PROVE  Accounted(w, more)
BY DEF Accounted

LEMMA IdleAccounted ==
    ASSUME NEW at \in {"absent", "unlisted", "listed", "over"}, NEW safe
    PROVE  Accounted(Idle(at), safe)
BY DEF Accounted, Idle

\* A step of one job that leaves its own account in order.
LEMMA ProgressAccounted ==
    ASSUME MergeInv, Consolidated \subseteq Consolidated',
           NEW r \in Runs, NEW j \in Jobs, NEW new,
           Progress(r, j, new), Accounted(new, Consolidated')
    PROVE  WorkInv'
<1> SUFFICES ASSUME NEW s \in Runs, NEW k \in Jobs
             PROVE  Accounted(work'[s][k], Consolidated')
  BY DEF WorkInv, Accounted
<1>1. CASE s = r /\ k = j
  BY <1>1, ProgressWork DEF MergeInv, TypeInv, CompactorTypeOK
<1>2. CASE s # r \/ k # j
  <2>1. work'[s][k] = work[s][k]
    BY <1>2, ProgressWork DEF MergeInv, TypeInv, CompactorTypeOK
  <2>2. Accounted(work[s][k], Consolidated)
    BY DEF MergeInv, WorkInv
  <2>3. QED
    BY <2>1, <2>2, AccountedGrows
<1>3. QED
  BY <1>1, <1>2

\* The jobs of a run that ended have nothing to account for.
LEMMA EndRunAccounted ==
    ASSUME MergeInv, Consolidated' = Consolidated, NEW r \in Runs, EndRun(r)
    PROVE  WorkInv'
<1>1. ASSUME NEW s \in Runs, NEW k \in Jobs
      PROVE  Accounted(work'[s][k], Consolidated)
  <2>1. work'[s][k] = Idle("absent") \/ work'[s][k] = work[s][k]
    BY EndRunType DEF MergeInv
  <2>2. Accounted(Idle("absent"), Consolidated) /\ Accounted(work[s][k], Consolidated)
    BY IdleAccounted DEF MergeInv, WorkInv
  <2>3. QED
    BY <2>1, <2>2
<1>2. QED
  BY <1>1 DEF WorkInv, Accounted

\* A step that takes no object from the landing zone and tags none.
LEMMA NothingLeaves ==
    ASSUME LeavesMerged, TaggedIsMerged, Consolidated \subseteq Consolidated',
           raw \subseteq raw', tagged' = tagged, purged \subseteq purged',
           \A o \in Objects : age'[o] # "unborn" => age[o] # "unborn" \/ o \in raw'
    PROVE  LeavesMerged' /\ TaggedIsMerged'
<1>1. LeavesMerged'
  <2>1. ASSUME NEW o \in Objects, age'[o] # "unborn", o \notin raw'
        PROVE  LinesOf[o] \subseteq Consolidated' \/ o \in purged'
    BY <2>1 DEF LeavesMerged, Written
  <2>2. QED
    BY <2>1 DEF LeavesMerged, Written
<1>2. TaggedIsMerged'
  BY DEF TaggedIsMerged
<1>3. QED
  BY <1>1, <1>2

\* Every step of process_job keeps the accounts, and takes only what they show
\* to be merged.
LEMMA JobStepMerges ==
    ASSUME MergeInv, NEW r \in Runs, NEW j \in Jobs, JobStep(r, j)
    PROVE  WorkInv' /\ LeavesMerged' /\ TaggedIsMerged'
<1> DEFINE w == work[r][j]
<1>0. /\ WellTyped(w)
      /\ Accounted(w, Consolidated)
      /\ LeavesMerged /\ TaggedIsMerged /\ TypeInv
  BY DEF MergeInv, WorkInv, TypeInv, CompactorTypeOK, WellTyped
<1>1. ASSUME NEW unreadable \in SUBSET OfJob(j), ListBatches(r, j, unreadable)
      PROVE  WorkInv' /\ LeavesMerged' /\ TaggedIsMerged'
  <2> DEFINE found == (OfJob(j) \ tagged) \cup unreadable
             new == [Idle("listed") EXCEPT !.batches = found, !.eligible = Eligible(found)]
  <2>1. Progress(r, j, new)
    BY <1>1 DEF ListBatches
  <2>2. Consolidated' = Consolidated
    BY <1>1 DEF ListBatches, Consolidated
  <2>3. Accounted(new, Consolidated')
    BY DEF Accounted, Idle
  <2>4. QED
    BY <1>0, <1>1, <2>1, <2>2, <2>3, ProgressAccounted, NothingLeaves DEF ListBatches
<1>2. CASE StartJob(r, j)
  <2> DEFINE new == [w EXCEPT !.at = "reading", !.todo = w.batches]
  <2>1. Consolidated' = Consolidated
    BY <1>2 DEF StartJob, Consolidated
  <2>2. Accounted(new, Consolidated')
    <3>1. new.at = "reading" /\ new.todo = w.batches /\ new.batches = w.batches
      BY <1>0 DEF WellTyped, Works
    <3>2. \A o \in w.batches : LinesOf[o] \subseteq UNION {LinesOf[p] : p \in w.batches}
      BY Zenon
    <3>3. QED
      BY <3>1, <3>2 DEF Accounted
  <2>3. Accounted(Idle("over"), Consolidated')
    BY IdleAccounted
  <2>4. WorkInv'
    BY <1>2, <2>1, <2>2, <2>3, ProgressAccounted DEF StartJob
  <2>5. QED
    BY <1>0, <1>2, <2>1, <2>4, NothingLeaves DEF StartJob
<1>3. ASSUME NEW o \in Objects, OpenBatch(r, j, o)
      PROVE  WorkInv' /\ LeavesMerged' /\ TaggedIsMerged'
  <2> DEFINE new == [w EXCEPT !.todo = @ \ {o}, !.open = LinesOf[o]]
  <2>1. Consolidated' = Consolidated
    BY <1>3 DEF OpenBatch, Consolidated
  <2>2. Accounted(new, Consolidated')
    <3>1. /\ new.at = "reading" /\ w.at = "reading" /\ w.open = {}
          /\ new.todo = w.todo \ {o} /\ new.open = LinesOf[o]
          /\ new.batches = w.batches /\ new.rows = w.rows
      BY <1>0, <1>3 DEF OpenBatch, WellTyped, Works
    <3>2. UNION {LinesOf[p] : p \in w.todo} \subseteq
            LinesOf[o] \cup UNION {LinesOf[p] : p \in w.todo \ {o}}
      BY Zenon
    <3>3. QED
      BY <1>0, <2>1, <3>1, <3>2 DEF Accounted
  <2>3. Progress(r, j, new)
    BY <1>3 DEF OpenBatch
  <2>4. QED
    BY <1>0, <1>3, <2>1, <2>2, <2>3, ProgressAccounted, NothingLeaves DEF OpenBatch
<1>4. ASSUME NEW l \in Lines, AppendRecord(r, j, l)
      PROVE  WorkInv' /\ LeavesMerged' /\ TaggedIsMerged'
  <2> DEFINE new == [w EXCEPT !.open = @ \ {l}, !.rows = @ \cup {l}]
  <2>1. Consolidated' = Consolidated
    BY <1>4 DEF AppendRecord, Consolidated
  <2>2. Accounted(new, Consolidated')
    <3>1. /\ new.at = "reading" /\ w.at = "reading"
          /\ new.todo = w.todo /\ new.batches = w.batches
          /\ new.open = w.open \ {l} /\ new.rows = w.rows \cup {l}
      BY <1>0, <1>4 DEF AppendRecord, WellTyped, Works
    <3>2. QED
      BY <1>0, <2>1, <3>1 DEF Accounted
  <2>3. Progress(r, j, new)
    BY <1>4 DEF AppendRecord
  <2>4. QED
    BY <1>0, <1>4, <2>1, <2>2, <2>3, ProgressAccounted, NothingLeaves DEF AppendRecord
<1>5. CASE SplitFile(r, j)
  <2> DEFINE new == [w EXCEPT !.rows = {}]
  <2>1. Consolidated' = Consolidated \cup w.rows
    BY <1>0, <1>5, UploadParts DEF SplitFile
  <2>2. Accounted(new, Consolidated')
    <3>1. /\ new.at = "reading" /\ w.at = "reading" /\ new.rows = {}
          /\ new.todo = w.todo /\ new.batches = w.batches /\ new.open = w.open
      BY <1>0, <1>5 DEF SplitFile, WellTyped, Works
    <3>2. QED
      BY <1>0, <2>1, <3>1 DEF Accounted
  <2>3. Progress(r, j, new)
    BY <1>5 DEF SplitFile
  <2>4. QED
    BY <1>0, <1>5, <2>1, <2>2, <2>3, ProgressAccounted, NothingLeaves DEF SplitFile
<1>6. CASE UploadLast(r, j)
  <2> DEFINE new == [w EXCEPT !.at = "merged", !.rows = {}]
  <2>1. Consolidated' = Consolidated \cup w.rows
    <3>1. CASE w.rows = {}
      BY <1>6, <3>1 DEF UploadLast, Consolidated
    <3>2. CASE w.rows # {}
      BY <1>0, <1>6, <3>2, UploadParts DEF UploadLast
    <3>3. QED
      BY <3>1, <3>2
  <2>2. Accounted(new, Consolidated')
    <3>1. /\ new.at = "merged" /\ new.batches = w.batches
          /\ w.at = "reading" /\ w.todo = {} /\ w.open = {}
      BY <1>0, <1>6 DEF UploadLast, WellTyped, Works
    <3>2. UNION {LinesOf[p] : p \in w.todo} = {}
      BY <3>1
    <3>3. QED
      BY <1>0, <2>1, <3>1, <3>2 DEF Accounted
  <2>3. Progress(r, j, new)
    BY <1>6 DEF UploadLast
  <2>4. QED
    BY <1>0, <1>6, <2>1, <2>2, <2>3, ProgressAccounted, NothingLeaves DEF UploadLast
<1>7. ASSUME NEW done \in SUBSET w.batches, ClearJob(r, j, done)
      PROVE  WorkInv' /\ LeavesMerged' /\ TaggedIsMerged'
  <2>1. Consolidated' = Consolidated
    BY <1>7 DEF ClearJob, Consolidated
  <2>2. Accounted(Idle("over"), Consolidated')
    BY IdleAccounted
  <2>3. WorkInv'
    BY <1>7, <2>1, <2>2, ProgressAccounted DEF ClearJob
  <2>4. \A o \in done : LinesOf[o] \subseteq Consolidated
    BY <1>0, <1>7 DEF ClearJob, Accounted
  <2>5. /\ raw \ done \subseteq raw' /\ tagged' \subseteq tagged \cup done
        /\ age' = age /\ purged' = purged
    BY <1>7 DEF ClearJob
  <2>6. LeavesMerged'
    BY <1>0, <2>1, <2>4, <2>5 DEF LeavesMerged, Written
  <2>7. TaggedIsMerged'
    BY <1>0, <2>1, <2>4, <2>5 DEF TaggedIsMerged
  <2>8. QED
    BY <2>3, <2>6, <2>7
<1>8. CASE BatchGone(r, j)
  <2>1. Consolidated' = Consolidated
    BY <1>8 DEF BatchGone, EndRun, Consolidated
  <2>2. WorkInv'
    BY <1>8, <2>1, EndRunAccounted DEF BatchGone
  <2>3. QED
    BY <1>0, <1>8, <2>1, <2>2, NothingLeaves DEF BatchGone, EndRun
<1>9. QED
  BY <1>1, <1>2, <1>3, <1>4, <1>5, <1>6, <1>7, <1>8 DEF JobStep

\* The invariant is inductive.
LEMMA MergeStep ==
    ASSUME MergeInv, [Next]_vars
    PROVE  MergeInv'
<1>0. TypeInv /\ WorkInv /\ LeavesMerged /\ TaggedIsMerged
  BY DEF MergeInv
<1>1. TypeInv'
  BY <1>0, TypeStep
<1> SUFFICES WorkInv' /\ LeavesMerged' /\ TaggedIsMerged'
  BY <1>1 DEF MergeInv
<1>2. ASSUME NEW o \in Objects, WorkerWrites(o) \/ GrowOld(o)
      PROVE  WorkInv' /\ LeavesMerged' /\ TaggedIsMerged'
  <2>1. Consolidated' = Consolidated /\ work' = work
    BY <1>2 DEF WorkerWrites, GrowOld, Consolidated
  <2>2. \A p \in Objects : age'[p] # "unborn" => age[p] # "unborn" \/ p \in raw'
    BY <1>0, <1>2 DEF WorkerWrites, GrowOld, TypeInv, CompactorTypeOK
  <2>3. raw \subseteq raw' /\ tagged' = tagged /\ purged' = purged
    BY <1>2 DEF WorkerWrites, GrowOld
  <2>4. LeavesMerged' /\ TaggedIsMerged'
    BY <1>0, <2>1, <2>2, <2>3, NothingLeaves
  <2>5. WorkInv'
    BY <1>0, <2>1 DEF WorkInv, Accounted
  <2>6. QED
    BY <2>4, <2>5
<1>3. ASSUME NEW r \in Runs, StartRun(r)
      PROVE  WorkInv' /\ LeavesMerged' /\ TaggedIsMerged'
  <2>1. Consolidated' = Consolidated
    BY <1>3 DEF StartRun, Consolidated
  <2>2. ASSUME NEW s \in Runs, NEW k \in Jobs
        PROVE  Accounted(work'[s][k], Consolidated)
    <3>1. work'[s][k] \in {work[s][k], Idle("absent"), Idle("unlisted")}
      BY <1>0, <1>3 DEF StartRun, TypeInv, CompactorTypeOK
    <3>2. QED
      BY <1>0, <3>1, IdleAccounted DEF WorkInv
  <2>3. WorkInv'
    BY <2>1, <2>2 DEF WorkInv, Accounted
  <2>4. QED
    BY <1>0, <1>3, <2>1, <2>3, NothingLeaves DEF StartRun
<1>4. ASSUME NEW r \in Runs, StartCompaction(r)
      PROVE  WorkInv' /\ LeavesMerged' /\ TaggedIsMerged'
  <2>1. Consolidated' = Consolidated /\ work' = work
    BY <1>4 DEF StartCompaction, Consolidated
  <2>2. WorkInv'
    BY <1>0, <2>1 DEF WorkInv, Accounted
  <2>3. QED
    BY <1>0, <1>4, <2>1, <2>2, NothingLeaves DEF StartCompaction
<1>5. ASSUME NEW r \in Runs, NEW j \in Jobs, JobStep(r, j)
      PROVE  WorkInv' /\ LeavesMerged' /\ TaggedIsMerged'
  BY <1>5, JobStepMerges
<1>6. ASSUME NEW r \in Runs, NEW done \in SUBSET Expired, Purge(r, done)
      PROVE  WorkInv' /\ LeavesMerged' /\ TaggedIsMerged'
  <2>1. Consolidated' = Consolidated /\ work' = work
    BY <1>6 DEF Purge, Consolidated
  <2>2. WorkInv'
    BY <1>0, <2>1 DEF WorkInv, Accounted
  <2>3. LeavesMerged'
    BY <1>0, <1>6, <2>1 DEF Purge, LeavesMerged, Written
  <2>4. TaggedIsMerged'
    BY <1>0, <1>6, <2>1 DEF Purge, TaggedIsMerged
  <2>5. QED
    BY <2>2, <2>3, <2>4
<1>7. ASSUME NEW r \in Runs, Abort(r)
      PROVE  WorkInv' /\ LeavesMerged' /\ TaggedIsMerged'
  <2>1. Consolidated' = Consolidated
    BY <1>7 DEF Abort, EndRun, Consolidated
  <2>2. WorkInv'
    BY <1>7, <2>1, EndRunAccounted DEF Abort
  <2>3. QED
    BY <1>0, <1>7, <2>1, <2>2, NothingLeaves DEF Abort, EndRun
<1>8. CASE UNCHANGED vars
  <2>1. Consolidated' = Consolidated /\ work' = work
    BY <1>8 DEF vars, Consolidated
  <2>2. WorkInv'
    BY <1>0, <2>1 DEF WorkInv, Accounted
  <2>3. QED
    BY <1>0, <1>8, <2>1, <2>2, NothingLeaves DEF vars
<1>9. QED
  BY <1>2, <1>3, <1>4, <1>5, <1>6, <1>7, <1>8 DEF Next, RunStep

LEMMA MergeInitially ==
    ASSUME Init
    PROVE  MergeInv
<1>1. \A r \in Runs, j \in Jobs : work[r][j] = Idle("absent")
  BY DEF Init
<1>2. WorkInv
  BY <1>1, IdleAccounted DEF WorkInv
<1>3. LeavesMerged /\ TaggedIsMerged
  BY DEF Init, LeavesMerged, TaggedIsMerged, Written
<1>4. QED
  BY <1>2, <1>3, TypeInit DEF MergeInv

\* However many runs overlap, wherever they fail and whatever the workers write
\* meanwhile: an object leaves the landing zone with all its records in the
\* analytical lake, or for its age (compact_s3.py:219-241).
THEOREM NoRawLost == Spec => []LeavesMerged
<1>1. MergeInv => LeavesMerged
  BY DEF MergeInv
<1>2. QED
  BY <1>1, MergeInitially, MergeStep, PTL DEF Spec

\* The tag compacted=true is never put on an object that is not in the
\* analytical lake (compact_s3.py:95-108).
THEOREM TagsAreTrue == Spec => []TaggedIsMerged
<1>1. MergeInv => TaggedIsMerged
  BY DEF MergeInv
<1>2. QED
  BY <1>1, MergeInitially, MergeStep, PTL DEF Spec

-----------------------------------------------------------------------------
(* What the retention purge may take.  An object may pass its retention in *)
(* the middle of a run, but not one that was not even stale when the runs  *)
(* now under way began: every run finds an older one in its listing, and   *)
(* is through with it, or saw a young one, by the time it purges.          *)

Unmerged(o) == o \in raw \ young /\ ~(LinesOf[o] \subseteq Consolidated)

Younger(o) == \E p \in raw \cap young : JobOf[p] = JobOf[o]

\* While runs are under way an object expires only if it was stale before them.
Aged ==
    UnderWay => \A o \in Objects :
        IF o \in young THEN age[o] # "expired" ELSE age[o] \in {"stale", "expired"}

\* What a run knows of an object, older than it, of one of its jobs.
Followed(w, o, younger) ==
    /\ w.at # "absent"
    /\ w.at \in {"listed", "reading", "merged"} => o \in w.batches
    /\ w.at = "over" \/ (w.at = "listed" /\ ~w.eligible) => younger

\* A job only lists objects of its own, and has none outside a run.
OwnBatches == \A r \in Runs, j \in Jobs : \A o \in work[r][j].batches : JobOf[o] = j

IdleRuns ==
    \A r \in Runs : pc[r] = "idle" => \A j \in Jobs : work[r][j].at \in {"absent", "over"}

Following ==
    \A r \in Runs : pc[r] # "idle" =>
        \A o \in Objects : Unmerged(o) => Followed(work[r][JobOf[o]], o, Younger(o))

QuietInv == OwnBatches /\ IdleRuns /\ Following

\* Every step keeps the ages apart: a run that starts alone takes stock of them.
LEMMA AgedStep ==
    ASSUME TypeInv, Aged, [Next]_vars
    PROVE  Aged'
<1> USE DEF TypeInv, CompactorTypeOK, Ages
<1>1. ASSUME NEW r \in Runs, StartRun(r) PROVE Aged'
  <2>1. CASE UnderWay
    BY <1>1, <2>1 DEF StartRun, Aged
  <2>2. CASE ~UnderWay
    BY <1>1, <2>2 DEF StartRun, Aged
  <2>3. QED
    BY <2>1, <2>2
<1>2. ASSUME NEW o \in Objects, WorkerWrites(o) \/ GrowOld(o) PROVE Aged'
  <2>1. /\ young' = young /\ pc' = pc
        /\ \A p \in Objects : p # o => age'[p] = age[p]
    BY <1>2 DEF WorkerWrites, GrowOld
  <2>2. (UnderWay' <=> UnderWay) /\ (UnderWay => o \in young \/ age[o] \in {"stale", "expired"})
    BY <2>1 DEF UnderWay, Aged
  <2>3. UnderWay => IF o \in young THEN age'[o] # "expired" ELSE age'[o] \in {"stale", "expired"}
    BY <1>2, <2>2 DEF WorkerWrites, GrowOld
  <2>4. QED
    BY <2>1, <2>2, <2>3 DEF Aged
<1>3. ASSUME NEW r \in Runs, Leave(r), age' = age PROVE Aged'
  BY <1>3, LeaveRun DEF Aged, UnderWay
<1>4. ASSUME NEW r \in Runs, StartCompaction(r) \/ Abort(r) PROVE Aged'
  <2>1. CASE StartCompaction(r)
    BY <2>1 DEF StartCompaction, Aged, UnderWay
  <2>2. CASE Abort(r)
    BY <1>3, <2>2 DEF Abort, EndRun
  <2>3. QED
    BY <1>4, <2>1, <2>2
<1>5. ASSUME NEW r \in Runs, NEW j \in Jobs, JobStep(r, j) PROVE Aged'
  <2>1. age' = age /\ (UNCHANGED <<young, pc>> \/ Leave(r))
    BY <1>5, Zenon DEF JobStep, ListBatches, StartJob, OpenBatch, AppendRecord, SplitFile,
          UploadLast, ClearJob, BatchGone, EndRun
  <2>2. QED
    BY <1>3, <2>1 DEF Aged, UnderWay
<1>6. ASSUME NEW r \in Runs, NEW done \in SUBSET Expired, Purge(r, done) PROVE Aged'
  BY <1>3, <1>6 DEF Purge
<1>7. CASE UNCHANGED vars
  BY <1>7 DEF vars, Aged, UnderWay
<1>8. QED
  BY <1>1, <1>2, <1>4, <1>5, <1>6, <1>7 DEF Next, RunStep

\* A step of one job that keeps what the others know.
LEMMA QuietProgress ==
    ASSUME MergeInv, QuietInv,
           NEW r \in Runs, NEW j \in Jobs, NEW new, Progress(r, j, new), pc' = pc,
           pc[r] # "idle",
           \A o \in Objects : Unmerged(o)' => Unmerged(o),
           \A o \in Objects : Unmerged(o)' /\ Younger(o) => Younger(o)',
           \A o \in Objects :
               /\ JobOf[o] = j /\ Unmerged(o)'
               /\ Followed(work[r][j], o, Younger(o)')
               => Followed(new, o, Younger(o)'),
           \A o \in new.batches : JobOf[o] = j
    PROVE  QuietInv'
<1>0. CompactorTypeOK
  BY DEF MergeInv, TypeInv
<1>1. /\ work'[r][j] = new
      /\ \A s \in Runs, k \in Jobs : s # r \/ k # j => work'[s][k] = work[s][k]
  BY <1>0, ProgressWork DEF CompactorTypeOK
<1>2. OwnBatches'
  <2> SUFFICES ASSUME NEW s \in Runs, NEW k \in Jobs
               PROVE  \A o \in work'[s][k].batches : JobOf[o] = k
    BY DEF OwnBatches
  <2>1. CASE s = r /\ k = j
    BY <1>1, <2>1
  <2>2. CASE s # r \/ k # j
    BY <1>1, <2>2 DEF QuietInv, OwnBatches
  <2>3. QED
    BY <2>1, <2>2
<1>3. IdleRuns'
  BY <1>1 DEF QuietInv, IdleRuns
<1>4. Following'
  <2> SUFFICES ASSUME NEW s \in Runs, pc[s] # "idle", NEW o \in Objects, Unmerged(o)'
               PROVE  Followed(work'[s][JobOf[o]], o, Younger(o)')
    BY DEF Following, Followed
  <2>1. JobOf[o] \in Jobs
    BY CompactorAssumption
  <2>2. Followed(work[s][JobOf[o]], o, Younger(o)')
    BY DEF QuietInv, Following, Followed
  <2>3. CASE s = r /\ JobOf[o] = j
    BY <1>1, <2>2, <2>3
  <2>4. CASE s # r \/ JobOf[o] # j
    BY <1>1, <2>1, <2>2, <2>4
  <2>5. QED
    BY <2>3, <2>4
<1>5. QED
  BY <1>2, <1>3, <1>4 DEF QuietInv

\* A step that changes no job of a run.
LEMMA QuietSame ==
    ASSUME MergeInv, QuietInv, work' = work,
           \A r \in Runs : pc'[r] # "idle" => pc[r] # "idle",
           \A r \in Runs : pc'[r] = "idle" /\ pc[r] # "idle" =>
               \A j \in Jobs : work[r][j].at \in {"absent", "over"},
           \A o \in Objects : Unmerged(o)' => Unmerged(o) \/ \A r \in Runs : pc'[r] = "idle",
           \A o \in Objects : Unmerged(o)' /\ Younger(o) =>
               Younger(o)' \/ \A r \in Runs : pc'[r] = "idle"
    PROVE  QuietInv'
<1>1. OwnBatches' /\ IdleRuns'
  BY DEF QuietInv, OwnBatches, IdleRuns
<1>2. Following'
  <2> SUFFICES ASSUME NEW s \in Runs, pc'[s] # "idle", NEW o \in Objects, Unmerged(o)'
               PROVE  Followed(work'[s][JobOf[o]], o, Younger(o)')
    BY DEF Following, Followed
  <2>1. Followed(work[s][JobOf[o]], o, Younger(o)) /\ (Younger(o) => Younger(o)')
    BY DEF QuietInv, Following
  <2>2. QED
    BY <2>1 DEF Followed
<1>3. QED
  BY <1>1, <1>2 DEF QuietInv

\* The end of a run, whose jobs are dropped.
LEMMA QuietEndRun ==
    ASSUME MergeInv, QuietInv, NEW r \in Runs, EndRun(r)
    PROVE  QuietInv'
<1>0. TypeInv
  BY DEF MergeInv
<1>1. \A s \in Runs, k \in Jobs : work'[s][k] = IF s = r THEN Idle("absent") ELSE work[s][k]
  BY <1>0, EndRunType
<1>2. pc'[r] = "idle" /\ \A s \in Runs \ {r} : pc'[s] = pc[s]
  BY <1>0, LeaveRun DEF EndRun, TypeInv
<1>3. OwnBatches' /\ IdleRuns'
  BY <1>1, <1>2 DEF QuietInv, OwnBatches, IdleRuns, Idle
<1>4. UnderWay' =>
        \A o \in Objects : (Unmerged(o)' <=> Unmerged(o)) /\ (Younger(o)' <=> Younger(o))
  BY <1>0, LeaveRun DEF EndRun, Unmerged, Younger, Consolidated, TypeInv
<1>5. Following'
  <2> SUFFICES ASSUME NEW s \in Runs, pc'[s] # "idle", NEW o \in Objects, Unmerged(o)'
               PROVE  Followed(work'[s][JobOf[o]], o, Younger(o)')
    BY DEF Following, Followed
  <2>1. s # r /\ JobOf[o] \in Jobs /\ UnderWay'
    BY <1>2, CompactorAssumption DEF UnderWay
  <2>2. Followed(work[s][JobOf[o]], o, Younger(o))
    BY <1>2, <1>4, <2>1 DEF QuietInv, Following
  <2>3. QED
    BY <1>1, <1>4, <2>1, <2>2 DEF Followed
<1>6. QED
  BY <1>3, <1>5 DEF QuietInv

\* Every step of process_job keeps what the runs know.
LEMMA QuietJobStep ==
    ASSUME MergeInv, Aged, QuietInv, NEW r \in Runs, NEW j \in Jobs, JobStep(r, j)
    PROVE  QuietInv'
<1> DEFINE w == work[r][j]
<1>0. /\ WellTyped(w)
      /\ Accounted(w, Consolidated)
      /\ TypeInv /\ TaggedIsMerged
      /\ \A o \in w.batches : JobOf[o] = j
  BY DEF MergeInv, WorkInv, TypeInv, CompactorTypeOK, WellTyped, QuietInv, OwnBatches
<1>a. w.at \notin {"absent", "over"} => pc[r] # "idle"
  BY DEF QuietInv, IdleRuns
\* A step that leaves the landing zone alone only adds to the lake.
<1>b. ASSUME UNCHANGED <<young, raw>>, Consolidated \subseteq Consolidated'
      PROVE  \A o \in Objects : (Unmerged(o)' => Unmerged(o)) /\ (Younger(o)' <=> Younger(o))
  BY <1>b DEF Unmerged, Younger
<1>1. ASSUME NEW unreadable \in SUBSET OfJob(j), ListBatches(r, j, unreadable)
      PROVE  QuietInv'
  <2> DEFINE found == (OfJob(j) \ tagged) \cup unreadable
             new == [Idle("listed") EXCEPT !.batches = found, !.eligible = Eligible(found)]
  <2>1. Consolidated' = Consolidated /\ UNCHANGED <<young, raw, pc>> /\ pc[r] # "idle"
    BY <1>1 DEF ListBatches, Consolidated
  <2>2. new.at = "listed" /\ new.batches = found /\ new.eligible = Eligible(found)
    BY DEF Idle
  <2>3. found \subseteq OfJob(j)
    OBVIOUS
  <2>4. ASSUME NEW o \in Objects, JobOf[o] = j, Unmerged(o)
        PROVE  o \in found
    BY <1>0, <2>4 DEF Unmerged, OfJob, TaggedIsMerged
  <2>5. ASSUME NEW o \in Objects, JobOf[o] = j, Unmerged(o), ~Eligible(found)
        PROVE  Younger(o)
    <3>1. PICK p \in found : age[p] = "fresh"
      BY <2>4, <2>5 DEF Eligible
    <3>2. p \in young
      BY <1>0, <2>1, <2>3, <3>1 DEF Aged, UnderWay, OfJob, TypeInv, CompactorTypeOK
    <3>3. QED
      BY <2>3, <2>5, <3>1, <3>2 DEF Younger, OfJob
  <2> HIDE DEF new, found
  <2>6. \A o \in Objects : JobOf[o] = j /\ Unmerged(o)' => Followed(new, o, Younger(o)')
    BY <1>b, <2>1, <2>2, <2>4, <2>5 DEF Followed
  <2>7. \A o \in new.batches : JobOf[o] = j
    BY <2>2, <2>3 DEF OfJob
  <2>8. Progress(r, j, new)
    BY <1>1 DEF ListBatches, new, found
  <2>9. QED
    BY <1>b, <2>1, <2>6, <2>7, <2>8, QuietProgress
<1>2. CASE StartJob(r, j)
  <2> DEFINE new == IF w.eligible THEN [w EXCEPT !.at = "reading", !.todo = w.batches]
                    ELSE Idle("over")
  <2>1. Consolidated' = Consolidated /\ UNCHANGED <<young, raw, pc>> /\ pc[r] # "idle"
    BY <1>2 DEF StartJob, Consolidated
  <2>2. w.at = "listed"
    BY <1>2 DEF StartJob
  <2>3. IF w.eligible THEN new.at = "reading" /\ new.batches = w.batches
                      ELSE new.at = "over" /\ new.batches = {}
    BY <1>0 DEF Idle, WellTyped, Works
  <2> HIDE DEF new
  <2>4. \A o \in Objects : Followed(w, o, Younger(o)') => Followed(new, o, Younger(o)')
    BY <2>2, <2>3 DEF Followed
  <2>5. \A o \in new.batches : JobOf[o] = j
    BY <1>0, <2>3
  <2>6. Progress(r, j, new)
    BY <1>2 DEF StartJob, new
  <2>7. QED
    BY <1>b, <2>1, <2>4, <2>5, <2>6, QuietProgress
\* A job that goes on reading, or has read all, keeps its batches.
<1>3. ASSUME NEW new, Progress(r, j, new), new.batches = w.batches, w.at = "reading",
             new.at \in {"reading", "merged"}, UNCHANGED <<young, raw, pc>>,
             Consolidated \subseteq Consolidated'
      PROVE  QuietInv'
  <2>1. \A o \in Objects : Followed(w, o, Younger(o)') => Followed(new, o, Younger(o)')
    BY <1>3 DEF Followed
  <2>2. QED
    BY <1>0, <1>a, <1>b, <1>3, <2>1, QuietProgress
<1>4. ASSUME NEW o \in Objects, OpenBatch(r, j, o)
      PROVE  QuietInv'
  <2> DEFINE new == [w EXCEPT !.todo = @ \ {o}, !.open = LinesOf[o]]
  <2>1. new.batches = w.batches /\ w.at = "reading" /\ new.at = "reading"
    BY <1>0, <1>4 DEF OpenBatch, WellTyped, Works
  <2>2. Progress(r, j, new) /\ UNCHANGED <<young, raw, pc>> /\ Consolidated' = Consolidated
    BY <1>4 DEF OpenBatch, Consolidated
  <2>3. QED
    BY <1>3, <2>1, <2>2
<1>5. ASSUME NEW l \in Lines, AppendRecord(r, j, l)
      PROVE  QuietInv'
  <2> DEFINE new == [w EXCEPT !.open = @ \ {l}, !.rows = @ \cup {l}]
  <2>1. new.batches = w.batches /\ w.at = "reading" /\ new.at = "reading"
    BY <1>0, <1>5 DEF AppendRecord, WellTyped, Works
  <2>2. Progress(r, j, new) /\ UNCHANGED <<young, raw, pc>> /\ Consolidated' = Consolidated
    BY <1>5 DEF AppendRecord, Consolidated
  <2>3. QED
    BY <1>3, <2>1, <2>2
<1>6. CASE SplitFile(r, j)
  <2> DEFINE new == [w EXCEPT !.rows = {}]
  <2>1. new.batches = w.batches /\ w.at = "reading" /\ new.at = "reading"
    BY <1>0, <1>6 DEF SplitFile, WellTyped, Works
  <2>2. Consolidated \subseteq Consolidated'
    BY <1>0, <1>6, UploadParts DEF SplitFile
  <2>3. Progress(r, j, new) /\ UNCHANGED <<young, raw, pc>>
    BY <1>6 DEF SplitFile
  <2>4. QED
    BY <1>3, <2>1, <2>2, <2>3
<1>7. CASE UploadLast(r, j)
  <2> DEFINE new == [w EXCEPT !.at = "merged", !.rows = {}]
  <2>1. new.batches = w.batches /\ w.at = "reading" /\ new.at = "merged"
    BY <1>0, <1>7 DEF UploadLast, WellTyped, Works
  <2>2. Consolidated \subseteq Consolidated'
    <3>1. CASE w.rows = {}
      BY <1>7, <3>1 DEF UploadLast, Consolidated
    <3>2. CASE w.rows # {}
      BY <1>0, <1>7, <3>2, UploadParts DEF UploadLast
    <3>3. QED
      BY <3>1, <3>2
  <2>3. Progress(r, j, new) /\ UNCHANGED <<young, raw, pc>>
    BY <1>7 DEF UploadLast
  <2>4. QED
    BY <1>3, <2>1, <2>2, <2>3
<1>8. ASSUME NEW done \in SUBSET w.batches, ClearJob(r, j, done)
      PROVE  QuietInv'
  <2>1. /\ w.at = "merged" /\ UNCHANGED <<young, parts, pc>>
        /\ raw \ done \subseteq raw' /\ raw' \subseteq raw
        /\ Progress(r, j, Idle("over"))
    BY <1>8 DEF ClearJob
  <2>2. Consolidated' = Consolidated
    BY <2>1 DEF Consolidated
  <2>3. \A o \in Objects : Unmerged(o)' => Unmerged(o)
    BY <2>1, <2>2 DEF Unmerged
  <2>4. ASSUME NEW o \in Objects, Unmerged(o)
        PROVE  JobOf[o] # j
    <3>1. o \notin w.batches
      BY <1>0, <2>1, <2>4 DEF Accounted, Unmerged
    <3>2. JobOf[o] = j => Followed(w, o, Younger(o))
      BY <1>a, <2>1, <2>4 DEF QuietInv, Following
    <3>3. QED
      BY <2>1, <3>1, <3>2 DEF Followed
  <2>5. \A o \in Objects : Unmerged(o)' /\ Younger(o) => Younger(o)'
    <3>1. ASSUME NEW o \in Objects, Unmerged(o)', Younger(o)
          PROVE  Younger(o)'
      <4>1. PICK p \in raw \cap young : JobOf[p] = JobOf[o]
        BY <3>1 DEF Younger
      <4>2. JobOf[p] # j
        BY <2>3, <2>4, <3>1, <4>1
      <4>3. p \in raw' \cap young'
        BY <1>0, <2>1, <4>1, <4>2
      <4>4. QED
        BY <4>1, <4>3 DEF Younger
    <3>2. QED
      BY <3>1
  <2>6. \A o \in Idle("over").batches : JobOf[o] = j
    BY DEF Idle
  <2>7. QED
    BY <1>a, <2>1, <2>3, <2>4, <2>5, <2>6, QuietProgress
<1>9. CASE BatchGone(r, j)
  BY <1>9, QuietEndRun DEF BatchGone
<1>10. QED
  BY <1>1, <1>2, <1>4, <1>5, <1>6, <1>7, <1>8, <1>9 DEF JobStep

\* The invariant is inductive.
LEMMA QuietStep ==
    ASSUME MergeInv, Aged, QuietInv, [Next]_vars
    PROVE  QuietInv'
<1>0. TypeInv
  BY DEF MergeInv
<1>1. ASSUME NEW o \in Objects, WorkerWrites(o)
      PROVE  QuietInv'
  <2>1. /\ UNCHANGED <<work, pc, young>> /\ Consolidated' = Consolidated
        /\ age[o] = "unborn" /\ raw' = raw \cup {o}
    BY <1>1 DEF WorkerWrites, Consolidated
  <2>2. \A p \in Objects : Unmerged(p)' => Unmerged(p) \/ \A r \in Runs : pc'[r] = "idle"
    BY <2>1 DEF Unmerged, Aged, UnderWay
  <2>3. \A p \in Objects : Younger(p) => Younger(p)'
    BY <2>1 DEF Younger
  <2>4. QED
    BY <2>1, <2>2, <2>3, QuietSame
<1>2. ASSUME NEW o \in Objects, GrowOld(o)
      PROVE  QuietInv'
  <2>1. UNCHANGED <<work, pc, raw, young>> /\ Consolidated' = Consolidated
    BY <1>2 DEF GrowOld, Consolidated
  <2>2. \A p \in Objects : (Unmerged(p)' => Unmerged(p)) /\ (Younger(p) => Younger(p)')
    BY <2>1 DEF Unmerged, Younger
  <2>3. QED
    BY <2>1, <2>2, QuietSame
<1>3. ASSUME NEW r \in Runs, StartRun(r)
      PROVE  QuietInv'
  <2>1. /\ \A s \in Runs, k \in Jobs :
             work'[s][k] = IF s # r THEN work[s][k]
                           ELSE IF OfJob(k) = {} THEN Idle("absent") ELSE Idle("unlisted")
        /\ pc'[r] = "listing" /\ \A s \in Runs \ {r} : pc'[s] = pc[s]
    BY <1>0, <1>3 DEF StartRun, TypeInv, CompactorTypeOK
  <2>2. /\ raw' = raw /\ Consolidated' = Consolidated
        /\ UnderWay => young' = young
    BY <1>3 DEF StartRun, Consolidated
  <2>3. OwnBatches' /\ IdleRuns'
    BY <2>1 DEF QuietInv, OwnBatches, IdleRuns, Idle
  <2>4. Following'
    <3> SUFFICES ASSUME NEW s \in Runs, pc'[s] # "idle", NEW o \in Objects, Unmerged(o)'
                 PROVE  Followed(work'[s][JobOf[o]], o, Younger(o)')
      BY DEF Following, Followed
    <3>1. JobOf[o] \in Jobs
      BY CompactorAssumption
    <3>2. CASE s = r
      <4>1. o \in OfJob(JobOf[o])
        BY <2>2 DEF Unmerged, OfJob
      <4>2. work'[r][JobOf[o]] = Idle("unlisted")
        BY <2>1, <3>1, <4>1
      <4>3. QED
        BY <3>2, <4>2 DEF Followed, Idle
    <3>3. CASE s # r
      <4>1. pc[s] # "idle" /\ UNCHANGED <<raw, young>>
        BY <2>1, <2>2, <3>3 DEF UnderWay
      <4>2. Unmerged(o) /\ (Younger(o) => Younger(o)')
        BY <2>2, <4>1 DEF Unmerged, Younger
      <4>3. Followed(work[s][JobOf[o]], o, Younger(o))
        BY <4>1, <4>2 DEF QuietInv, Following
      <4>4. QED
        BY <2>1, <3>1, <3>3, <4>2, <4>3 DEF Followed
    <3>4. QED
      BY <3>2, <3>3
  <2>5. QED
    BY <2>3, <2>4 DEF QuietInv
<1>4. ASSUME NEW r \in Runs, StartCompaction(r)
      PROVE  QuietInv'
  <2>1. UNCHANGED <<work, young, raw>> /\ Consolidated' = Consolidated
    BY <1>4 DEF StartCompaction, Consolidated
  <2>2. \A o \in Objects : (Unmerged(o)' <=> Unmerged(o)) /\ (Younger(o)' <=> Younger(o))
    BY <2>1 DEF Unmerged, Younger
  <2>3. \A s \in Runs : pc'[s] = "idle" <=> pc[s] = "idle"
    BY <1>0, <1>4 DEF StartCompaction, TypeInv, CompactorTypeOK
  <2>4. QED
    BY <2>1, <2>2, <2>3, QuietSame
<1>5. ASSUME NEW r \in Runs, NEW j \in Jobs, JobStep(r, j)
      PROVE  QuietInv'
  BY <1>5, QuietJobStep
<1>6. ASSUME NEW r \in Runs, NEW done \in SUBSET Expired, Purge(r, done)
      PROVE  QuietInv'
  <2>1. /\ work' = work /\ Consolidated' = Consolidated /\ raw' = raw \ done
        /\ Leave(r) /\ \A j \in Jobs : work[r][j].at \in {"absent", "over"}
    BY <1>6 DEF Purge, Consolidated
  <2>2. young \cap Expired = {}
    BY <1>0, <1>6 DEF Purge, Expired, Aged, UnderWay, TypeInv, CompactorTypeOK
  <2>3. UnderWay' =>
          \A o \in Objects : (Unmerged(o)' => Unmerged(o)) /\ (Younger(o) => Younger(o)')
    BY <1>0, <2>1, <2>2, LeaveRun DEF Unmerged, Younger, TypeInv
  <2>4. pc'[r] = "idle" /\ \A s \in Runs \ {r} : pc'[s] = pc[s]
    BY <1>0, <2>1, LeaveRun DEF TypeInv
  <2>5. QED
    BY <2>1, <2>3, <2>4, QuietSame DEF UnderWay
<1>7. ASSUME NEW r \in Runs, Abort(r)
      PROVE  QuietInv'
  BY <1>7, QuietEndRun DEF Abort
<1>8. CASE UNCHANGED vars
  <2>1. \A o \in Objects : (Unmerged(o)' <=> Unmerged(o)) /\ (Younger(o)' <=> Younger(o))
    BY <1>8 DEF vars, Unmerged, Younger, Consolidated
  <2>2. QED
    BY <1>8, <2>1, QuietSame DEF vars
<1>9. QED
  BY <1>1, <1>2, <1>3, <1>4, <1>5, <1>6, <1>7, <1>8 DEF Next, RunStep

LEMMA QuietInitially ==
    ASSUME Init
    PROVE  Aged /\ QuietInv
BY DEF Init, Aged, UnderWay, QuietInv, OwnBatches, IdleRuns, Following, Idle

\* What a run takes for its age alone, even if it was short of it when the run
\* listed it, has a younger neighbour (an object of the same job): it had time
\* to be merged, and its job was not left alone (compact_s3.py:244-298).
THEOREM PurgeIsLate == Spec => PurgeSparesQuietJobs
<1>1. MergeInv /\ Aged /\ QuietInv /\ [Next]_vars =>
        [\A o \in purged' \ purged :
            \/ LinesOf[o] \subseteq Consolidated
            \/ \E p \in raw' : JobOf[p] = JobOf[o] /\ age[p] # "expired"]_vars
  <2> SUFFICES ASSUME MergeInv, Aged, QuietInv, Next, NEW o \in purged' \ purged,
                      ~(LinesOf[o] \subseteq Consolidated)
               PROVE  \E p \in raw' : JobOf[p] = JobOf[o] /\ age[p] # "expired"
    OBVIOUS
  <2>1. PICK r \in Runs : \E done \in SUBSET Expired : Purge(r, done)
    <3>1. ASSUME NEW r \in Runs, NEW j \in Jobs, JobStep(r, j)
          PROVE  purged' = purged
      BY <3>1, Zenon DEF JobStep, ListBatches, StartJob, OpenBatch, AppendRecord, SplitFile,
                  UploadLast, ClearJob, BatchGone, EndRun
    <3>2. ASSUME NEW r \in Runs, StartRun(r) \/ StartCompaction(r) \/ Abort(r)
          PROVE  purged' = purged
      BY <3>2 DEF StartRun, StartCompaction, Abort, EndRun
    <3>3. ASSUME NEW p \in Objects, WorkerWrites(p) \/ GrowOld(p)
          PROVE  purged' = purged
      BY <3>3 DEF WorkerWrites, GrowOld
    <3>4. \/ \E p \in Objects : WorkerWrites(p) \/ GrowOld(p)
          \/ \E r \in Runs : StartRun(r) \/ StartCompaction(r) \/ Abort(r)
          \/ \E r \in Runs, j \in Jobs : JobStep(r, j)
          \/ \E r \in Runs : \E done \in SUBSET Expired : Purge(r, done)
      BY Zenon DEF Next, RunStep
    <3>5. purged' # purged
      OBVIOUS
    <3>6. QED
      BY <3>1, <3>2, <3>3, <3>4, <3>5
  <2>2. PICK done \in SUBSET Expired : Purge(r, done)
    BY <2>1
  <2>3. o \in Expired /\ raw' = raw \ done
    BY <2>2 DEF Purge
  <2>4. o \in Objects /\ JobOf[o] \in Jobs
    BY <2>3, CompactorAssumption DEF Expired, MergeInv, TypeInv, CompactorTypeOK
  <2>5. \A p \in Objects : p \in young => age[p] # "expired"
    BY <2>2 DEF Purge, Aged, UnderWay, MergeInv, TypeInv, CompactorTypeOK
  <2>6. Unmerged(o)
    BY <2>3, <2>4, <2>5 DEF Unmerged, Expired
  <2>7. Followed(work[r][JobOf[o]], o, Younger(o))
    BY <2>2, <2>4, <2>6 DEF Purge, QuietInv, Following
  <2>8. work[r][JobOf[o]].at \in {"absent", "over"}
    BY <2>2, <2>4 DEF Purge
  <2>9. PICK p \in raw \cap young : JobOf[p] = JobOf[o]
    BY <2>7, <2>8 DEF Followed, Younger
  <2>10. p \in raw' /\ age[p] # "expired"
    BY <2>3, <2>5, <2>9 DEF Expired, MergeInv, TypeInv, CompactorTypeOK
  <2>11. QED
    BY <2>9, <2>10
<1>2. MergeInv /\ Aged /\ [Next]_vars => Aged'
  BY AgedStep DEF MergeInv
<1>3. QED
  BY <1>1, <1>2, MergeInitially, MergeStep, QuietInitially, QuietStep, PTL
     DEF Spec, PurgeSparesQuietJobs

-----------------------------------------------------------------------------
(* How often a record is uploaded, by one run at a time.                   *)

\* CronJob: concurrencyPolicy Forbid, and nobody launches one by hand.
Alone == \E r : Runs = {r}

Existing == {o \in Objects : Written(o)}

\* A record is written to one object.
Apart == \A o, p \in Existing : o # p => LinesOf[o] \cap LinesOf[p] = {}

\* The records a job has yet to upload.
Pending(w) == w.rows \cup w.open \cup UNION {LinesOf[p] : p \in w.todo}

Under(w, o) == w.at \in {"listed", "reading", "merged"} /\ o \in w.batches

\* The run has uploaded the record, or no later run will list its object.
Merged(w, o, l) ==
    IF Under(w, o) THEN w.at # "listed" /\ l \notin Pending(w)
                   ELSE o \in tagged \/ (Written(o) /\ o \notin raw)

\* One copy more than the failures, and not even that before the next upload.
Counted(w, o, l) ==
    /\ Copies(l) <= failures + 1
    /\ ~Merged(w, o, l) => Copies(l) <= failures

\* What a job lists stays there for it, and it reads every record once.
Once(w) ==
    /\ w.at \in {"listed", "reading", "merged"} => w.batches \subseteq raw
    /\ Pending(w) \subseteq UNION {LinesOf[p] : p \in w.batches}
    /\ w.at # "reading" => w.rows = {} /\ w.open = {}
    /\ w.rows \cap w.open = {}
    /\ (w.rows \cup w.open) \cap UNION {LinesOf[p] : p \in w.todo} = {}

Known ==
    /\ \A o \in raw : Written(o)
    /\ \A p \in parts : p.lines \subseteq UNION {LinesOf[o] : o \in Existing}

CopyInv ==
    /\ Known
    /\ \A r \in Runs, j \in Jobs : Once(work[r][j])
    /\ \A r \in Runs, o \in Existing : \A l \in LinesOf[o] : Counted(work[r][JobOf[o]], o, l)

LEMMA CopiesNat ==
    ASSUME TypeInv, NEW l
    PROVE  Copies(l) \in Nat
<1>1. IsFiniteSet({p \in parts : l \in p.lines})
  BY FS_Subset DEF TypeInv
<1>2. QED
  BY <1>1, FS_CardinalityType DEF Copies

LEMMA CopiesSame ==
    ASSUME parts' = parts, NEW l
    PROVE  Copies(l)' = Copies(l)
BY DEF Copies

\* An upload is one more copy of the rows of the local file.
LEMMA UploadCopies ==
    ASSUME TypeInv, NEW r \in Runs, NEW j \in Jobs, Upload(r, j), NEW l
    PROVE  /\ l \notin work[r][j].rows => Copies(l)' = Copies(l)
           /\ Copies(l)' <= Copies(l) + 1 /\ Copies(l)' \in Nat
<1> DEFINE new == [nr |-> Cardinality(parts) + 1, job |-> j, lines |-> work[r][j].rows]
           old == {p \in parts : l \in p.lines}
           now == {p \in parts' : l \in p.lines}
<1>1. parts' = parts \cup {new} /\ new.lines = work[r][j].rows
  BY DEF Upload
<1>2. Copies(l) = Cardinality(old)
  BY DEF Copies
<1>3. Copies(l)' = Cardinality(now)
  BY DEF Copies
<1>4. IsFiniteSet(old) /\ Cardinality(old) \in Nat
  BY FS_Subset, FS_CardinalityType DEF TypeInv
<1> HIDE DEF new
<1>5. now = IF l \in work[r][j].rows THEN old \cup {new} ELSE old
  BY <1>1
<1> HIDE DEF old, now
<1>6. Cardinality(old \cup {new}) = IF new \in old THEN Cardinality(old) ELSE Cardinality(old) + 1
  BY <1>4, FS_AddElement
<1>7. CASE l \in work[r][j].rows
  BY <1>2, <1>3, <1>4, <1>5, <1>6, <1>7
<1>8. CASE l \notin work[r][j].rows
  BY <1>2, <1>3, <1>4, <1>5, <1>8
<1>9. QED
  BY <1>7, <1>8

\* A step of one job that counts its own records.
LEMMA CopyProgress ==
    ASSUME TypeInv, CopyInv, NEW r \in Runs, Runs = {r}, NEW j \in Jobs,
           NEW new, Progress(r, j, new), Known',
           failures' \in Nat, failures <= failures', \A o \in raw \ raw' : JobOf[o] = j,
           Once(work[r][j])',
           \A o \in Existing : \A l \in LinesOf[o] :
               IF JobOf[o] = j THEN Counted(work[r][j], o, l)'
                               ELSE /\ Copies(l)' = Copies(l)
                                    /\ o \in raw <=> o \in raw'
                                    /\ o \in tagged <=> o \in tagged',
           age' = age, OwnBatches
    PROVE  CopyInv'
<1>0. /\ CompactorTypeOK /\ failures \in Nat
      /\ Existing \subseteq Objects /\ Existing' = Existing
  BY CompactorAssumption DEF TypeInv, CompactorTypeOK, Existing, Written
<1>1. \A k \in Jobs : k # j => work'[r][k] = work[r][k]
  BY <1>0, ProgressWork DEF CompactorTypeOK
<1>2. ASSUME NEW k \in Jobs
      PROVE  Once(work[r][k])'
  <2>1. CASE k = j
    BY <2>1
  <2>2. CASE k # j
    <3>1. Once(work[r][k]) /\ work'[r][k] = work[r][k]
      BY <1>1, <2>2 DEF CopyInv
    <3>2. \A o \in work[r][k].batches : o \in raw => o \in raw'
      BY <2>2 DEF OwnBatches
    <3>3. QED
      BY <3>1, <3>2 DEF Once, Pending
  <2>3. QED
    BY <2>1, <2>2
<1>3. ASSUME NEW o \in Existing, NEW l \in LinesOf[o]
      PROVE  Counted(work[r][JobOf[o]], o, l)'
  <2>0. JobOf[o] \in Jobs
    BY <1>0, CompactorAssumption
  <2>1. CASE JobOf[o] = j
    BY <2>1
  <2>2. CASE JobOf[o] # j
    <3>1. Counted(work[r][JobOf[o]], o, l) /\ work'[r][JobOf[o]] = work[r][JobOf[o]]
      BY <1>1, <2>0, <2>2 DEF CopyInv
    <3>2. Merged(work[r][JobOf[o]], o, l)' <=> Merged(work[r][JobOf[o]], o, l)
      BY <2>2, <3>1 DEF Merged, Under, Pending, Written
    <3>3. Copies(l) \in Nat /\ Copies(l)' = Copies(l)
      BY <2>2, CopiesNat
    <3>4. QED
      BY <1>0, <3>1, <3>2, <3>3 DEF Counted
  <2>3. QED
    BY <2>1, <2>2
<1>4. QED
  BY <1>0, <1>2, <1>3 DEF CopyInv

\* A failure leaves room for one more copy of every record.
LEMMA FailCounts ==
    ASSUME TypeInv, CopyInv, NEW r \in Runs, parts' = parts, failures' = failures + 1
    PROVE  \A o \in Existing : \A l \in LinesOf[o] : Counted(work[r][JobOf[o]], o, l)'
<1> SUFFICES ASSUME NEW o \in Existing, NEW l \in LinesOf[o]
             PROVE  Counted(work[r][JobOf[o]], o, l)'
  OBVIOUS
<1>1. Copies(l)' = Copies(l) /\ Copies(l) \in Nat /\ failures \in Nat
  BY CopiesSame, CopiesNat, CompactorAssumption DEF TypeInv, CompactorTypeOK
<1>2. Copies(l) <= failures + 1
  BY DEF CopyInv, Counted
<1>3. QED
  BY <1>1, <1>2 DEF Counted

\* Every step of process_job keeps the count.
LEMMA CopyJobStep ==
    ASSUME TypeInv, CopyInv, QuietInv, Apart,
           NEW r \in Runs, Runs = {r}, NEW j \in Jobs, JobStep(r, j)
    PROVE  CopyInv'
<1> DEFINE w == work[r][j]
<1>0. /\ CompactorTypeOK /\ WellTyped(w) /\ w \in Works /\ Once(w) /\ OwnBatches /\ Known
      /\ failures \in Nat
      /\ \A o \in Existing : \A l \in LinesOf[o] : JobOf[o] = j => Counted(w, o, l)
      /\ \A l : Copies(l) \in Nat
      /\ raw \subseteq Existing /\ Existing \subseteq Objects
  BY CompactorAssumption, CopiesNat
     DEF TypeInv, CompactorTypeOK, WellTyped, CopyInv, QuietInv, Known, Existing
\* A step that uploads nothing and leaves the landing zone alone.
<1>a. ASSUME NEW new, Progress(r, j, new), UNCHANGED <<age, raw, tagged, parts, failures>>,
             Once(work[r][j])',
             \A o \in Existing : \A l \in LinesOf[o] :
                 JobOf[o] = j /\ ~Merged(work[r][j], o, l)' => Copies(l) <= failures
      PROVE  CopyInv'
  <2>1. Known' /\ \A l : Copies(l)' = Copies(l)
    BY <1>0, <1>a, CopiesSame DEF Known, Existing, Written
  <2>2. \A o \in Existing : \A l \in LinesOf[o] : JobOf[o] = j => Counted(work[r][j], o, l)'
    BY <1>0, <1>a, <2>1 DEF Counted
  <2>3. QED
    BY <1>0, <1>a, <2>1, <2>2, CopyProgress
\* A step that leaves to upload what there was.
<1>b. ASSUME NEW new, Progress(r, j, new), UNCHANGED <<age, raw, tagged, parts, failures>>,
             w.at = "reading", new.at = "reading", new.batches = w.batches,
             Pending(new) = Pending(w), new.rows \cap new.open = {},
             (new.rows \cup new.open) \cap UNION {LinesOf[p] : p \in new.todo} = {}
      PROVE  CopyInv'
  <2>1. work'[r][j] = new
    BY <1>0, <1>b, ProgressWork DEF CompactorTypeOK
  <2>2. Once(work[r][j])'
    BY <1>0, <1>b, <2>1 DEF Once, Pending
  <2>3. \A o \in Existing : \A l \in LinesOf[o] :
           JobOf[o] = j => (Merged(work[r][j], o, l)' <=> Merged(w, o, l))
    BY <1>b, <2>1 DEF Merged, Under, Pending, Written
  <2>4. QED
    BY <1>0, <1>a, <1>b, <2>2, <2>3 DEF Counted
<1>1. ASSUME NEW unreadable \in SUBSET OfJob(j), ListBatches(r, j, unreadable)
      PROVE  CopyInv'
  <2> DEFINE found == (OfJob(j) \ tagged) \cup unreadable
             new == [Idle("listed") EXCEPT !.batches = found, !.eligible = Eligible(found)]
  <2>1. /\ Progress(r, j, new) /\ w.at = "unlisted" /\ UNCHANGED <<age, raw, tagged, parts>>
        /\ IF unreadable = {} THEN UNCHANGED failures ELSE failures' = failures + 1
    BY <1>1 DEF ListBatches, Fail
  <2>2. /\ new.at = "listed" /\ new.batches = found
        /\ new.todo = {} /\ new.open = {} /\ new.rows = {}
    BY DEF Idle
  <2>3. found \subseteq raw
    BY DEF OfJob
  <2> HIDE DEF new
  <2>4. work'[r][j] = new
    BY <1>0, <2>1, ProgressWork DEF CompactorTypeOK
  <2>5. Once(work[r][j])'
    BY <2>1, <2>2, <2>3, <2>4 DEF Once, Pending
  <2>6. CASE unreadable = {}
    <3>1. ASSUME NEW o \in Existing, NEW l \in LinesOf[o], JobOf[o] = j,
                 ~Merged(work[r][j], o, l)'
          PROVE  Copies(l) <= failures
      <4>1. ~Merged(w, o, l)
        BY <1>0, <2>1, <2>2, <2>4, <2>6, <3>1 DEF Merged, Under, OfJob, Written
      <4>2. QED
        BY <1>0, <3>1, <4>1 DEF Counted
    <3>2. QED
      BY <1>a, <2>1, <2>5, <2>6, <3>1
  <2>7. CASE unreadable # {}
    <3>1. \A o \in Existing : \A l \in LinesOf[o] : Counted(work[r][JobOf[o]], o, l)'
      BY <2>1, <2>7, FailCounts
    <3>2. Known' /\ \A l : Copies(l)' = Copies(l)
      BY <1>0, <2>1, CopiesSame DEF Known, Existing, Written
    <3>3. QED
      BY <1>0, <2>1, <2>5, <2>7, <3>1, <3>2, CopyProgress
  <2>8. QED
    BY <2>6, <2>7
<1>2. CASE StartJob(r, j)
  <2> DEFINE new == IF w.eligible THEN [w EXCEPT !.at = "reading", !.todo = w.batches]
                    ELSE Idle("over")
  <2>1. /\ Progress(r, j, new) /\ w.at = "listed"
        /\ UNCHANGED <<age, raw, tagged, parts, failures>>
    BY <1>2 DEF StartJob
  <2>2. work'[r][j] = new
    BY <1>0, <2>1, ProgressWork DEF CompactorTypeOK
  <2>3. CASE w.eligible
    <3>1. /\ new.at = "reading" /\ new.batches = w.batches /\ new.todo = w.batches
          /\ new.rows = w.rows /\ new.open = w.open
      BY <1>0, <2>3 DEF Works
    <3> HIDE DEF new
    <3>2. Pending(new) = UNION {LinesOf[p] : p \in w.batches} /\ w.rows = {} /\ w.open = {}
      BY <1>0, <2>1, <3>1 DEF Once, Pending
    <3>3. Once(work[r][j])'
      BY <1>0, <2>1, <2>2, <3>1, <3>2 DEF Once, Pending
    <3>4. ASSUME NEW o \in Existing, NEW l \in LinesOf[o],
                 ~Merged(work[r][j], o, l)'
          PROVE  ~Merged(w, o, l)
      BY <2>1, <2>2, <3>1, <3>4 DEF Merged, Under, Written
    <3>5. QED
      BY <1>0, <1>a, <2>1, <3>3, <3>4 DEF Counted
  <2>4. CASE ~w.eligible
    <3>1. new.at = "over" /\ new.batches = {} /\ new.todo = {} /\ new.rows = {} /\ new.open = {}
      BY <2>4 DEF Idle
    <3> HIDE DEF new
    <3>2. Once(work[r][j])'
      BY <2>2, <3>1 DEF Once, Pending
    <3>3. \A o \in Existing : \A l \in LinesOf[o] :
             JobOf[o] = j /\ ~Merged(work[r][j], o, l)' => ~Merged(w, o, l)
      BY <2>1, <2>2, <3>1 DEF Merged, Under, Written
    <3>4. QED
      BY <1>0, <1>a, <2>1, <3>2, <3>3 DEF Counted
  <2>5. QED
    BY <2>3, <2>4
<1>3. ASSUME NEW o \in Objects, OpenBatch(r, j, o)
      PROVE  CopyInv'
  <2> DEFINE new == [w EXCEPT !.todo = @ \ {o}, !.open = LinesOf[o]]
  <2>1. /\ Progress(r, j, new) /\ w.at = "reading" /\ w.open = {} /\ o \in w.todo
        /\ UNCHANGED <<age, raw, tagged, parts, failures>>
    BY <1>3 DEF OpenBatch
  <2>2. /\ new.at = "reading" /\ new.batches = w.batches /\ new.rows = w.rows
        /\ new.open = LinesOf[o] /\ new.todo = w.todo \ {o}
    BY <1>0, <2>1 DEF Works
  <2>3. w.todo \subseteq Existing
    BY <1>0, <2>1 DEF Once, WellTyped
  <2> HIDE DEF new
  <2> DEFINE rest == UNION {LinesOf[p] : p \in w.todo \ {o}}
  <2>4. UNION {LinesOf[p] : p \in w.todo} = LinesOf[o] \cup rest
    BY <2>1, Zenon
  <2>5. LinesOf[o] \cap rest = {}
    BY <2>1, <2>3 DEF Apart
  <2>6. UNION {LinesOf[p] : p \in new.todo} = rest
    BY <2>2
  <2> HIDE DEF rest
  <2>7. /\ Pending(new) = Pending(w) /\ new.rows \cap new.open = {}
        /\ (new.rows \cup new.open) \cap rest = {}
    BY <1>0, <2>1, <2>2, <2>4, <2>5, <2>6 DEF Once, Pending
  <2>8. QED
    BY <1>b, <2>1, <2>2, <2>6, <2>7
<1>4. ASSUME NEW l \in Lines, AppendRecord(r, j, l)
      PROVE  CopyInv'
  <2> DEFINE new == [w EXCEPT !.open = @ \ {l}, !.rows = @ \cup {l}]
  <2>1. /\ Progress(r, j, new) /\ w.at = "reading" /\ l \in w.open
        /\ UNCHANGED <<age, raw, tagged, parts, failures>>
    BY <1>4 DEF AppendRecord
  <2>2. /\ new.at = "reading" /\ new.batches = w.batches /\ new.todo = w.todo
        /\ new.open = w.open \ {l} /\ new.rows = w.rows \cup {l}
    BY <1>0, <2>1 DEF Works
  <2> HIDE DEF new
  <2>3. /\ Pending(new) = Pending(w) /\ new.rows \cap new.open = {}
        /\ (new.rows \cup new.open) \cap UNION {LinesOf[p] : p \in new.todo} = {}
    BY <1>0, <2>1, <2>2 DEF Once, Pending
  <2>4. QED
    BY <1>b, <2>1, <2>2, <2>3
\* An upload counts for the rows of the local file only: they were pending.
<1>c. ASSUME w.at = "reading", Upload(r, j), NEW new, Progress(r, j, new),
             new.batches = w.batches, new.rows = {}, new.open = w.open, new.todo = w.todo,
             \/ new.at = "reading"
             \/ new.at = "merged" /\ w.open = {},
             UNCHANGED <<age, raw, tagged, failures>>
      PROVE  CopyInv'
  <2>1. work'[r][j] = new
    BY <1>0, <1>c, ProgressWork DEF CompactorTypeOK
  <2>2. Once(work[r][j])'
    BY <1>0, <1>c, <2>1 DEF Once, Pending
  <2>3. ASSUME NEW o \in Existing, NEW l \in LinesOf[o], l \in w.rows
        PROVE  o \in w.batches /\ JobOf[o] = j
    <3>1. PICK p \in w.batches : l \in LinesOf[p]
      BY <1>0, <2>3 DEF Once, Pending
    <3>2. p \in Existing
      BY <1>0, <1>c, <3>1 DEF Once
    <3>3. p = o
      BY <2>3, <3>1, <3>2 DEF Apart
    <3>4. QED
      BY <1>0, <3>1, <3>3 DEF OwnBatches
  <2>4. ASSUME NEW o \in Existing, NEW l \in LinesOf[o], JobOf[o] = j
        PROVE  Counted(work[r][j], o, l)'
    <3>1. CASE l \in w.rows
      <4>1. Copies(l) <= failures
        <5>1. ~Merged(w, o, l)
          BY <1>c, <2>3, <3>1 DEF Merged, Under, Pending
        <5>2. QED
          BY <1>0, <2>4, <5>1 DEF Counted
      <4>2. Merged(work[r][j], o, l)'
        BY <1>0, <1>c, <2>1, <2>3, <3>1 DEF Merged, Under, Pending, Once
      <4>3. Copies(l)' <= Copies(l) + 1 /\ Copies(l)' \in Nat
        BY <1>c, UploadCopies
      <4>4. QED
        BY <1>0, <1>c, <4>1, <4>2, <4>3 DEF Counted
    <3>2. CASE l \notin w.rows
      <4>1. Copies(l)' = Copies(l)
        BY <1>c, <3>2, UploadCopies
      <4>2. Merged(work[r][j], o, l)' <=> Merged(w, o, l)
        BY <1>c, <2>1, <3>2 DEF Merged, Under, Pending, Written
      <4>3. QED
        BY <1>0, <1>c, <2>4, <4>1, <4>2 DEF Counted
    <3>3. QED
      BY <3>1, <3>2
  <2>5. ASSUME NEW o \in Existing, NEW l \in LinesOf[o], JobOf[o] # j
        PROVE  Copies(l)' = Copies(l)
    BY <1>c, <2>3, <2>5, UploadCopies
  <2>6. Known'
    <3>1. PICK nr : parts' = parts \cup {[nr |-> nr, job |-> j, lines |-> w.rows]}
      BY <1>c DEF Upload
    <3>2. w.rows \subseteq UNION {LinesOf[o] : o \in Existing}
      BY <1>0, <1>c DEF Once, Pending
    <3>3. QED
      BY <1>0, <1>c, <3>1, <3>2 DEF Known, Existing, Written
  <2>7. QED
    BY <1>0, <1>c, <2>2, <2>4, <2>5, <2>6, CopyProgress
<1>5. CASE SplitFile(r, j)
  <2> DEFINE new == [w EXCEPT !.rows = {}]
  <2>1. /\ Progress(r, j, new) /\ w.at = "reading" /\ Upload(r, j)
        /\ UNCHANGED <<age, raw, tagged, failures>>
    BY <1>5 DEF SplitFile
  <2>2. /\ new.at = "reading" /\ new.batches = w.batches /\ new.todo = w.todo
        /\ new.open = w.open /\ new.rows = {}
    BY <1>0, <2>1 DEF Works
  <2> HIDE DEF new
  <2>3. QED
    BY <1>c, <2>1, <2>2
<1>6. CASE UploadLast(r, j)
  <2> DEFINE new == [w EXCEPT !.at = "merged", !.rows = {}]
  <2>1. /\ Progress(r, j, new) /\ w.at = "reading" /\ w.todo = {} /\ w.open = {}
        /\ IF w.rows = {} THEN UNCHANGED parts ELSE Upload(r, j)
        /\ UNCHANGED <<age, raw, tagged, failures>>
    BY <1>6 DEF UploadLast
  <2>2. /\ new.at = "merged" /\ new.batches = w.batches /\ new.todo = w.todo
        /\ new.open = w.open /\ new.rows = {}
    BY <1>0, <2>1 DEF Works
  <2> HIDE DEF new
  <2>3. CASE w.rows = {}
    <3>1. work'[r][j] = new
      BY <1>0, <2>1, ProgressWork DEF CompactorTypeOK
    <3>2. Once(work[r][j])'
      BY <1>0, <2>1, <2>2, <3>1 DEF Once, Pending
    <3>3. \A o \in Existing : \A l \in LinesOf[o] :
             Merged(work[r][j], o, l)' <=> Merged(w, o, l)
      BY <2>1, <2>2, <2>3, <3>1 DEF Merged, Under, Pending, Written
    <3>4. QED
      BY <1>0, <1>a, <2>1, <2>3, <3>2, <3>3 DEF Counted
  <2>4. CASE w.rows # {}
    BY <1>c, <2>1, <2>2, <2>4
  <2>5. QED
    BY <2>3, <2>4
<1>7. ASSUME NEW done \in SUBSET w.batches, ClearJob(r, j, done)
      PROVE  CopyInv'
  <2> DEFINE new == Idle("over")
  <2>1. /\ Progress(r, j, new) /\ w.at = "merged" /\ w.batches \subseteq raw
        /\ UNCHANGED <<age, parts>>
        /\ IF done = w.batches THEN UNCHANGED failures ELSE failures' = failures + 1
        /\ \/ raw' = raw \ done /\ tagged' = tagged
           \/ tagged' = tagged \cup done /\ raw' = raw
    BY <1>0, <1>7 DEF ClearJob, Fail, Once
  <2>2. new.at = "over" /\ new.batches = {} /\ new.todo = {} /\ new.rows = {} /\ new.open = {}
    BY DEF Idle
  <2> HIDE DEF new
  <2>3. work'[r][j] = new
    BY <1>0, <2>1, ProgressWork DEF CompactorTypeOK
  <2>4. Once(work[r][j])'
    BY <2>2, <2>3 DEF Once, Pending
  <2>5. Known' /\ \A l : Copies(l)' = Copies(l)
    BY <1>0, <2>1, CopiesSame DEF Known, Existing, Written
  <2>6. \A o \in w.batches : JobOf[o] = j /\ o \in raw
    BY <1>0, <2>1 DEF OwnBatches
  <2>7. ASSUME NEW o \in Existing, NEW l \in LinesOf[o], JobOf[o] = j
        PROVE  Counted(work[r][j], o, l)'
    <3>1. CASE done = w.batches
      <4>1. ~Merged(work[r][j], o, l)' => ~Merged(w, o, l)
        BY <1>0, <2>1, <2>2, <2>3, <2>6, <3>1 DEF Merged, Under, Written, Known
      <4>2. Counted(w, o, l)
        BY <1>0, <2>7
      <4>3. QED
        BY <2>1, <2>5, <3>1, <4>1, <4>2 DEF Counted
    <3>2. CASE done # w.batches
      BY <2>1, <2>7, <3>2, FailCounts
    <3>3. QED
      BY <3>1, <3>2
  <2>8. failures' \in Nat /\ failures <= failures'
    BY <1>0, <2>1
  <2>9. \A o \in Objects : JobOf[o] # j =>
           (o \in raw <=> o \in raw') /\ (o \in tagged <=> o \in tagged')
    BY <2>1, <2>6
  <2>10. QED
    BY <1>0, <2>1, <2>4, <2>5, <2>6, <2>7, <2>8, <2>9, CopyProgress
<1>8. CASE BatchGone(r, j)
  BY <1>0, <1>8 DEF BatchGone, Once, WellTyped
<1>9. QED
  BY <1>1, <1>2, <1>3, <1>4, <1>5, <1>6, <1>7, <1>8 DEF JobStep

\* A step that uploads nothing, and unsettles no record unless it fails.
LEMMA CopyOutside ==
    ASSUME TypeInv, CopyInv, NEW r \in Runs, Runs = {r}, Known', parts' = parts,
           Existing' = Existing,
           \A j \in Jobs : Once(work[r][j])',
           \/ failures' = failures + 1
           \/ /\ failures' = failures
              /\ \A o \in Existing : \A l \in LinesOf[o] :
                    ~Merged(work[r][JobOf[o]], o, l)' => ~Merged(work[r][JobOf[o]], o, l)
    PROVE  CopyInv'
<1>1. CASE failures' = failures + 1
  BY <1>1, FailCounts DEF CopyInv
<1>2. CASE failures' = failures /\ ~(failures' = failures + 1)
  <2>1. ASSUME NEW o \in Existing, NEW l \in LinesOf[o]
        PROVE  Counted(work[r][JobOf[o]], o, l)'
    <3>1. Counted(work[r][JobOf[o]], o, l) /\ Copies(l)' = Copies(l)
      BY CopiesSame DEF CopyInv
    <3>2. QED
      BY <1>2, <3>1 DEF Counted
  <2>2. QED
    BY <2>1 DEF CopyInv
<1>3. QED
  BY <1>1, <1>2

\* The invariant is inductive, with one run at a time.
LEMMA CopyStep ==
    ASSUME MergeInv, QuietInv, CopyInv, Alone, Apart, Apart', [Next]_vars
    PROVE  CopyInv'
<1>0. /\ TypeInv /\ CompactorTypeOK /\ Known /\ IdleRuns
      /\ failures \in Nat /\ Existing \subseteq Objects
  BY CompactorAssumption DEF MergeInv, TypeInv, CompactorTypeOK, CopyInv, QuietInv, Existing
<1>a. PICK r : r \in Runs /\ Runs = {r}
  BY DEF Alone
<1>b. \A j \in Jobs : Once(work[r][j])
  BY <1>a DEF CopyInv
\* Jobs that are not at work have nothing listed, read or to upload.
<1>c. \A at \in {"absent", "unlisted", "over"} : \A o, l :
          ~Under(Idle(at), o) /\ Pending(Idle(at)) = {}
  BY DEF Under, Pending, Idle
<1>1. ASSUME NEW o \in Objects, WorkerWrites(o)
      PROVE  CopyInv'
  <2>1. /\ age[o] = "unborn" /\ age' = [age EXCEPT ![o] = "fresh"] /\ raw' = raw \cup {o}
        /\ UNCHANGED <<tagged, parts, work, failures>>
    BY <1>1 DEF WorkerWrites
  <2>2. Known'
    BY <1>0, <2>1 DEF Known, Existing, Written, CompactorTypeOK
  <2>3. \A j \in Jobs : Once(work[r][j])'
    BY <1>b, <2>1 DEF Once, Pending
  <2>4. ASSUME NEW p \in Existing, NEW l \in LinesOf[p], Merged(work[r][JobOf[p]], p, l)
        PROVE  Merged(work[r][JobOf[p]], p, l)'
    <3>1. p # o /\ JobOf[p] \in Jobs
      BY <2>1, CompactorAssumption DEF Existing, Written
    <3>2. QED
      BY <1>0, <1>b, <2>1, <2>4, <3>1
         DEF Merged, Under, Once, Pending, Written, Known, CompactorTypeOK
  <2>5. ASSUME NEW p \in Existing, NEW l \in LinesOf[p]
        PROVE  Counted(work[r][JobOf[p]], p, l)'
    <3>1. Counted(work[r][JobOf[p]], p, l) /\ Copies(l)' = Copies(l)
      BY <1>a, <2>1, CopiesSame DEF CopyInv
    <3>2. QED
      BY <2>1, <2>4, <3>1 DEF Counted
\* The records of the new object have no copy yet.
  <2>6. ASSUME NEW l \in LinesOf[o]
        PROVE  Counted(work[r][JobOf[o]], o, l)'
    <3>1. ASSUME NEW p \in Existing, l \in LinesOf[p]
          PROVE  FALSE
      <4>1. p # o /\ p \in Existing' /\ o \in Existing'
        BY <1>0, <2>1 DEF Existing, Written, CompactorTypeOK
      <4>2. QED
        BY <2>6, <3>1, <4>1 DEF Apart
    <3>2. {p \in parts : l \in p.lines} = {}
      BY <1>0, <3>1 DEF Known
    <3>3. Cardinality({}) = 0
      BY FS_EmptySet
    <3>4. Copies(l)' = 0
      BY <2>1, <3>2, <3>3 DEF Copies
    <3>5. QED
      BY <1>0, <2>1, <3>4 DEF Counted
  <2>7. Existing' = Existing \cup {o}
    BY <1>0, <2>1 DEF Existing, Written, CompactorTypeOK
  <2>8. QED
    BY <1>a, <2>2, <2>3, <2>5, <2>6, <2>7 DEF CopyInv
<1>2. ASSUME NEW o \in Objects, GrowOld(o)
      PROVE  CopyInv'
  <2>1. \A p \in Objects : Written(p)' <=> Written(p)
    BY <1>0, <1>2 DEF GrowOld, Written, CompactorTypeOK
  <2>2. UNCHANGED <<raw, tagged, parts, work, failures>>
    BY <1>2 DEF GrowOld
  <2>a. Existing' = Existing
    BY <2>1 DEF Existing
  <2>3. Known' /\ \A j \in Jobs : Once(work[r][j])'
    BY <1>0, <1>b, <2>1, <2>2, <2>a DEF Known, Once, Pending, CompactorTypeOK
  <2>4. \A p \in Existing : \A l \in LinesOf[p] :
           Merged(work[r][JobOf[p]], p, l)' <=> Merged(work[r][JobOf[p]], p, l)
    BY <1>0, <2>1, <2>2 DEF Merged, Under, Pending
  <2>5. QED
    BY <1>0, <1>a, <2>2, <2>3, <2>4, <2>a, CopyOutside
\* The jobs of a run that starts or ends become idle.
<1>d. ASSUME \A j \in Jobs : work'[r][j] \in {Idle("absent"), Idle("unlisted")},
             UNCHANGED <<age, raw, tagged, parts>>,
             \/ failures' = failures + 1
             \/ failures' = failures /\ pc[r] = "idle"
      PROVE  CopyInv'
  <2>1. Known' /\ \A j \in Jobs : Once(work[r][j])'
    BY <1>0, <1>d DEF Known, Existing, Written, Once, Pending, Idle
  <2>2. ASSUME pc[r] = "idle", NEW o \in Existing, NEW l \in LinesOf[o],
               Merged(work[r][JobOf[o]], o, l)
        PROVE  Merged(work[r][JobOf[o]], o, l)'
    <3>1. JobOf[o] \in Jobs
      BY <1>0, CompactorAssumption
    <3>2. QED
      BY <1>0, <1>a, <1>d, <2>2, <3>1 DEF IdleRuns, Merged, Under, Idle, Written
  <2>3. Existing' = Existing
    BY <1>d DEF Existing, Written
  <2>4. QED
    BY <1>0, <1>a, <1>d, <2>1, <2>2, <2>3, CopyOutside
<1>3. CASE StartRun(r)
  <2>1. \A j \in Jobs : work'[r][j] \in {Idle("absent"), Idle("unlisted")}
    BY <1>0, <1>a, <1>3 DEF StartRun, CompactorTypeOK
  <2>2. UNCHANGED <<age, raw, tagged, parts, failures>> /\ pc[r] = "idle"
    BY <1>3 DEF StartRun
  <2>3. QED
    BY <1>d, <2>1, <2>2
<1>4. CASE Abort(r)
  <2>1. \A j \in Jobs : work'[r][j] \in {Idle("absent"), Idle("unlisted")}
    BY <1>0, <1>a, <1>4 DEF Abort, EndRun, CompactorTypeOK
  <2>2. UNCHANGED <<age, raw, tagged, parts>> /\ failures' = failures + 1
    BY <1>4 DEF Abort, EndRun, Fail
  <2>3. QED
    BY <1>d, <2>1, <2>2
\* Nothing changes for the records.
<1>e. ASSUME UNCHANGED <<age, raw, tagged, parts, work, failures>>
      PROVE  CopyInv'
  <2>1. Known' /\ \A j \in Jobs : Once(work[r][j])'
    BY <1>0, <1>b, <1>e DEF Known, Existing, Written, Once, Pending
  <2>2. \A p \in Existing : \A l \in LinesOf[p] :
           Merged(work[r][JobOf[p]], p, l)' <=> Merged(work[r][JobOf[p]], p, l)
    BY <1>e DEF Merged, Under, Pending, Written
  <2>3. Existing' = Existing
    BY <1>e DEF Existing, Written
  <2>4. QED
    BY <1>0, <1>a, <1>e, <2>1, <2>2, <2>3, CopyOutside
<1>5. CASE StartCompaction(r)
  BY <1>5, <1>e DEF StartCompaction
<1>6. ASSUME NEW j \in Jobs, JobStep(r, j)
      PROVE  CopyInv'
  BY <1>0, <1>a, <1>6, CopyJobStep
<1>7. ASSUME NEW done \in SUBSET Expired, Purge(r, done)
      PROVE  CopyInv'
  <2>1. /\ UNCHANGED <<age, tagged, parts, work>> /\ raw' = raw \ done
        /\ \A j \in Jobs : work[r][j].at \in {"absent", "over"}
        /\ failures' = failures \/ failures' = failures + 1
    BY <1>7 DEF Purge, Fail
  <2>2. Known' /\ \A j \in Jobs : Once(work[r][j])'
    BY <1>0, <1>b, <2>1 DEF Known, Existing, Written, Once, Pending
  <2>3. \A o \in Existing : \A l \in LinesOf[o] :
           Merged(work[r][JobOf[o]], o, l) => Merged(work[r][JobOf[o]], o, l)'
    BY <1>0, <2>1, CompactorAssumption DEF Merged, Under, Written
  <2>4. Existing' = Existing
    BY <2>1 DEF Existing, Written
  <2>5. QED
    BY <1>0, <1>a, <2>1, <2>2, <2>3, <2>4, CopyOutside
<1>8. CASE UNCHANGED vars
  BY <1>8, <1>e DEF vars
<1>9. QED
  BY <1>a, <1>1, <1>2, <1>3, <1>4, <1>5, <1>6, <1>7, <1>8 DEF Next, RunStep

LEMMA CopyInitially ==
    ASSUME Init
    PROVE  CopyInv
<1>1. Known /\ \A r \in Runs, j \in Jobs : Once(work[r][j])
  BY DEF Init, Known, Once, Pending, Idle
<1>2. \A l : Copies(l) = 0
  BY FS_EmptySet DEF Init, Copies
<1>3. QED
  BY <1>1, <1>2 DEF Init, CopyInv, Counted

\* When no two runs overlap and a record is written to one object only, it has no more
\* copies in the analytical lake than one for each failure and one more
\* (compact_s3.py:95-108, 219-241: deleting and tagging swallow their errors).
THEOREM OneCopyPerFailure ==
    ASSUME Alone
    PROVE  Spec /\ []Apart => []CopiesBounded
<1>1. TypeInv /\ CopyInv => CopiesBounded
  <2> SUFFICES ASSUME TypeInv, CopyInv, NEW l \in Lines
               PROVE  Copies(l) <= 1 + failures
    BY DEF CopiesBounded
  <2>1. failures \in Nat /\ Copies(l) \in Nat
    BY CopiesNat, CompactorAssumption DEF TypeInv, CompactorTypeOK
  <2>2. CASE \E o \in Existing : l \in LinesOf[o]
    <3>1. PICK o \in Existing : l \in LinesOf[o]
      BY <2>2
    <3>2. PICK r : r \in Runs
      BY DEF Alone
    <3>3. Counted(work[r][JobOf[o]], o, l)
      BY <3>1, <3>2 DEF CopyInv
    <3>4. QED
      BY <2>1, <3>3 DEF Counted
  <2>3. CASE ~(\E o \in Existing : l \in LinesOf[o])
    <3>1. {p \in parts : l \in p.lines} = {}
      BY <2>3 DEF CopyInv, Known
    <3>2. Copies(l) = 0
      BY <3>1, FS_EmptySet DEF Copies
    <3>3. QED
      BY <2>1, <3>2
  <2>4. QED
    BY <2>2, <2>3
<1>2. MergeInv => TypeInv
  BY DEF MergeInv
<1>3. MergeInv /\ QuietInv /\ CopyInv /\ Apart /\ Apart' /\ [Next]_vars => CopyInv'
  BY CopyStep
<1>4. MergeInv /\ Aged /\ [Next]_vars => Aged'
  BY AgedStep DEF MergeInv
<1>5. QED
  BY <1>1, <1>2, <1>3, <1>4, CopyInitially, MergeInitially, MergeStep, QuietInitially,
     QuietStep, PTL DEF Spec

-----------------------------------------------------------------------------
(* The runs keep the promise of the data lake.                             *)

\* What a job of a run has in hand comes from objects a worker wrote.
Sourced(w, E) ==
    /\ w.batches \subseteq E
    /\ w.rows \cup w.open \subseteq UNION {LinesOf[o] : o \in E}

\* An object is in one place, and nothing is listed or read that nobody wrote.
LakeInv ==
    /\ raw \subseteq Existing
    /\ purged \subseteq Existing
    /\ purged \cap raw = {}
    /\ \A r \in Runs, j \in Jobs : Sourced(work[r][j], Existing)

LEMMA SourcedGrows ==
    ASSUME NEW w, NEW E, NEW F, E \subseteq F, Sourced(w, E)
    PROVE  Sourced(w, F)
<1>1. UNION {LinesOf[o] : o \in E} \subseteq UNION {LinesOf[o] : o \in F}
  BY Zenon
<1>2. QED
  BY <1>1 DEF Sourced

LEMMA IdleSourced ==
    ASSUME NEW at, NEW E
    PROVE  Sourced(Idle(at), E)
BY DEF Sourced, Idle

\* A step of one job that has its rows from what it has listed.
LEMMA ProgressSourced ==
    ASSUME TypeInv, LakeInv, age' = age,
           NEW r \in Runs, NEW j \in Jobs, NEW new,
           Progress(r, j, new), Sourced(new, Existing)
    PROVE  \A s \in Runs, k \in Jobs : Sourced(work'[s][k], Existing')
<1> SUFFICES ASSUME NEW s \in Runs, NEW k \in Jobs
             PROVE  Sourced(work'[s][k], Existing')
  OBVIOUS
<1>1. Existing' = Existing
  BY DEF Existing, Written
<1>2. work'[s][k] = new \/ work'[s][k] = work[s][k]
  BY ProgressWork DEF TypeInv, CompactorTypeOK
<1>3. Sourced(work[s][k], Existing)
  BY DEF LakeInv
<1>4. QED
  BY <1>1, <1>2, <1>3

\* The jobs of a run that ended have nothing in hand.
LEMMA EndRunSourced ==
    ASSUME TypeInv, LakeInv, NEW r \in Runs, EndRun(r)
    PROVE  LakeInv'
<1>1. Existing' = Existing
  BY DEF EndRun, Existing, Written
<1>2. ASSUME NEW s \in Runs, NEW k \in Jobs
      PROVE  Sourced(work'[s][k], Existing)
  <2>1. work'[s][k] = Idle("absent") \/ work'[s][k] = work[s][k]
    BY EndRunType
  <2>2. Sourced(Idle("absent"), Existing) /\ Sourced(work[s][k], Existing)
    BY IdleSourced DEF LakeInv
  <2>3. QED
    BY <2>1, <2>2
<1>3. raw' = raw /\ purged' = purged
  BY DEF EndRun
<1>4. QED
  BY <1>1, <1>2, <1>3 DEF LakeInv, Sourced

LEMMA LakeJobStep ==
    ASSUME TypeInv, LakeInv, NEW r \in Runs, NEW j \in Jobs, JobStep(r, j)
    PROVE  LakeInv'
<1> DEFINE w == work[r][j]
           Kept == /\ age' = age /\ purged' = purged /\ raw' \subseteq raw
                   /\ \A s \in Runs, k \in Jobs : Sourced(work'[s][k], Existing')
<1>0. WellTyped(w) /\ Sourced(w, Existing)
  BY DEF LakeInv, TypeInv, CompactorTypeOK, WellTyped
<1>1. ASSUME NEW unreadable \in SUBSET OfJob(j), ListBatches(r, j, unreadable)
      PROVE  Kept
  <2> DEFINE found == (OfJob(j) \ tagged) \cup unreadable
             new == [Idle("listed") EXCEPT !.batches = found, !.eligible = Eligible(found)]
  <2>1. found \subseteq Existing
    BY DEF OfJob, LakeInv
  <2>2. Sourced(new, Existing)
    BY <2>1 DEF Sourced, Idle
  <2>3. Progress(r, j, new)
    BY <1>1 DEF ListBatches
  <2>4. QED
    BY <1>1, <2>2, <2>3, ProgressSourced DEF ListBatches
<1>2. ASSUME StartJob(r, j)
      PROVE  Kept
  <2> DEFINE new == [w EXCEPT !.at = "reading", !.todo = w.batches]
  <2>1. Sourced(new, Existing)
    BY <1>0 DEF Sourced, WellTyped, Works
  <2>2. Sourced(Idle("over"), Existing)
    BY IdleSourced
  <2>3. Progress(r, j, new) \/ Progress(r, j, Idle("over"))
    BY <1>2 DEF StartJob
  <2>4. age' = age /\ purged' = purged /\ raw' = raw
    BY <1>2 DEF StartJob
  <2>5. \A s \in Runs, k \in Jobs : Sourced(work'[s][k], Existing')
    BY <2>1, <2>2, <2>3, <2>4, ProgressSourced
  <2>6. QED
    BY <2>4, <2>5
<1>3. ASSUME NEW o \in Objects, OpenBatch(r, j, o)
      PROVE  Kept
  <2> DEFINE new == [w EXCEPT !.todo = @ \ {o}, !.open = LinesOf[o]]
  <2>1. o \in Existing
    BY <1>0, <1>3 DEF OpenBatch, WellTyped, Sourced
  <2>2. LinesOf[o] \subseteq UNION {LinesOf[p] : p \in Existing}
    BY <2>1, Zenon
  <2>3. Sourced(new, Existing)
    BY <1>0, <2>2 DEF Sourced, WellTyped, Works
  <2>4. Progress(r, j, new)
    BY <1>3 DEF OpenBatch
  <2>5. QED
    BY <1>3, <2>3, <2>4, ProgressSourced DEF OpenBatch
<1>4. ASSUME NEW l \in Lines, AppendRecord(r, j, l)
      PROVE  Kept
  <2> DEFINE new == [w EXCEPT !.open = @ \ {l}, !.rows = @ \cup {l}]
  <2>1. l \in w.open
    BY <1>4 DEF AppendRecord
  <2>2. Sourced(new, Existing)
    BY <1>0, <2>1 DEF Sourced, WellTyped, Works
  <2>3. Progress(r, j, new)
    BY <1>4 DEF AppendRecord
  <2>4. QED
    BY <1>4, <2>2, <2>3, ProgressSourced DEF AppendRecord
<1>5. ASSUME SplitFile(r, j)
      PROVE  Kept
  <2> DEFINE new == [w EXCEPT !.rows = {}]
  <2>1. Sourced(new, Existing)
    BY <1>0 DEF Sourced, WellTyped, Works
  <2>2. Progress(r, j, new) /\ age' = age /\ purged' = purged /\ raw' = raw
    BY <1>5 DEF SplitFile
  <2>3. \A s \in Runs, k \in Jobs : Sourced(work'[s][k], Existing')
    BY <2>1, <2>2, ProgressSourced
  <2>4. QED
    BY <2>2, <2>3
<1>6. ASSUME UploadLast(r, j)
      PROVE  Kept
  <2> DEFINE new == [w EXCEPT !.at = "merged", !.rows = {}]
  <2>1. Sourced(new, Existing)
    BY <1>0 DEF Sourced, WellTyped, Works
  <2>2. Progress(r, j, new) /\ age' = age /\ purged' = purged /\ raw' = raw
    BY <1>6 DEF UploadLast
  <2>3. \A s \in Runs, k \in Jobs : Sourced(work'[s][k], Existing')
    BY <2>1, <2>2, ProgressSourced
  <2>4. QED
    BY <2>2, <2>3
<1>7. ASSUME NEW done \in SUBSET w.batches, ClearJob(r, j, done)
      PROVE  Kept
  <2>1. Sourced(Idle("over"), Existing)
    BY IdleSourced
  <2>2. QED
    BY <1>7, <2>1, ProgressSourced DEF ClearJob
<1>8. CASE Kept
  <2>1. Existing' = Existing
    BY <1>8 DEF Existing, Written
  <2>2. QED
    BY <1>8, <2>1 DEF LakeInv, Sourced
<1>9. CASE BatchGone(r, j)
  BY <1>9, EndRunSourced DEF BatchGone
<1>10. QED
  BY <1>1, <1>2, <1>3, <1>4, <1>5, <1>6, <1>7, <1>8, <1>9 DEF JobStep

LEMMA LakeStep ==
    ASSUME TypeInv, LakeInv, [Next]_vars
    PROVE  LakeInv'
<1> USE DEF TypeInv, CompactorTypeOK
<1>1. ASSUME Existing \subseteq Existing',
             \A s \in Runs, k \in Jobs :
               work'[s][k] \in {work[s][k], Idle("absent"), Idle("unlisted")}
      PROVE  \A s \in Runs, k \in Jobs : Sourced(work'[s][k], Existing')
  <2>1. ASSUME NEW s \in Runs, NEW k \in Jobs
        PROVE  Sourced(work'[s][k], Existing')
    <3>1. Sourced(work[s][k], Existing)
      BY DEF LakeInv
    <3>2. Sourced(work[s][k], Existing')
      BY <1>1, <3>1, SourcedGrows
    <3>3. Sourced(Idle("absent"), Existing') /\ Sourced(Idle("unlisted"), Existing')
      BY IdleSourced
    <3>4. work'[s][k] \in {work[s][k], Idle("absent"), Idle("unlisted")}
      BY <1>1
    <3>5. QED
      BY <3>2, <3>3, <3>4
  <2>2. QED
    BY <2>1
<1>2. ASSUME NEW o \in Objects, WorkerWrites(o)
      PROVE  LakeInv'
  <2>1. Existing' = Existing \cup {o} /\ o \notin Existing
    BY <1>2 DEF WorkerWrites, Existing, Written
  <2>2. raw' = raw \cup {o} /\ purged' = purged /\ work' = work
    BY <1>2 DEF WorkerWrites
  <2>3. \A s \in Runs, k \in Jobs : Sourced(work'[s][k], Existing')
    BY <1>1, <2>1, <2>2
  <2>4. QED
    BY <2>1, <2>2, <2>3 DEF LakeInv, Sourced
<1>3. ASSUME age' = age, raw' \subseteq raw, purged' \subseteq purged \cup (raw \ raw'),
             \A s \in Runs, k \in Jobs :
               work'[s][k] \in {work[s][k], Idle("absent"), Idle("unlisted")}
      PROVE  LakeInv'
  <2>1. Existing' = Existing
    BY <1>3 DEF Existing, Written
  <2>2. \A s \in Runs, k \in Jobs : Sourced(work'[s][k], Existing')
    BY <1>1, <1>3, <2>1
  <2>3. QED
    BY <1>3, <2>1, <2>2 DEF LakeInv, Sourced
<1>4. ASSUME NEW o \in Objects, GrowOld(o)
      PROVE  LakeInv'
  <2>1. Existing' = Existing
    BY <1>4 DEF GrowOld, Existing, Written
  <2>2. raw' = raw /\ purged' = purged /\ work' = work
    BY <1>4 DEF GrowOld
  <2>3. QED
    BY <2>1, <2>2 DEF LakeInv, Sourced
<1>5. ASSUME NEW r \in Runs, StartRun(r)
      PROVE  LakeInv'
  BY <1>3, <1>5 DEF StartRun
<1>6. ASSUME NEW r \in Runs, StartCompaction(r)
      PROVE  LakeInv'
  BY <1>3, <1>6 DEF StartCompaction
<1>7. ASSUME NEW r \in Runs, NEW done \in SUBSET Expired, Purge(r, done)
      PROVE  LakeInv'
  <2>1. purged' \subseteq purged \cup (raw \ raw') /\ raw' \subseteq raw
    BY <1>7 DEF Purge, Expired
  <2>2. QED
    BY <1>3, <1>7, <2>1 DEF Purge
<1>8. ASSUME NEW r \in Runs, Abort(r)
      PROVE  LakeInv'
  BY <1>8, EndRunSourced DEF Abort
<1>9. CASE UNCHANGED vars
  BY <1>3, <1>9 DEF vars
<1>10. QED
  BY <1>2, <1>4, <1>5, <1>6, <1>7, <1>8, <1>9, LakeJobStep DEF Next, RunStep

LEMMA LakeInitially ==
    ASSUME Init
    PROVE  LakeInv
<1>1. \A r \in Runs, j \in Jobs : work[r][j] = Idle("absent")
  BY DEF Init
<1>2. QED
  BY <1>1, IdleSourced DEF Init, LakeInv

\* The place of an object follows from what the landing zone holds.
LEMMA PlacesOf ==
    ASSUME LakeInv, NEW o \in Objects
    PROVE  /\ PlaceOf(o) # "unwritten" <=> o \in Existing
           /\ PlaceOf(o) = "landed" <=> o \in raw
BY DEF LakeInv, Existing, PlaceOf

\* A step that writes, moves and merges nothing is not seen in the lake.
LEMMA LakeStutter ==
    ASSUME Existing' = Existing, raw' = raw, purged' = purged, tagged' = tagged,
           Consolidated' = Consolidated
    PROVE  UNCHANGED Promise!lakeVars
<1>1. ASSUME NEW o \in Objects
      PROVE  PlaceOf(o)' = PlaceOf(o)
  BY DEF PlaceOf, Existing
<1>2. QED
  BY <1>1 DEF Promise!lakeVars

\* An upload consolidates the rows of the local file.
LEMMA LakeUpload ==
    ASSUME MergeInv, LakeInv, NEW r \in Runs, NEW j \in Jobs, Upload(r, j),
           age' = age, raw' = raw, purged' = purged, tagged' = tagged
    PROVE  Promise!Next
<1> DEFINE rows == work[r][j].rows
<1>1. Consolidated' = Consolidated \cup rows
  BY UploadParts DEF MergeInv
<1>2. rows \subseteq UNION {LinesOf[o] : o \in Existing}
  BY DEF LakeInv, Sourced
<1>3. \A l \in rows : \E o \in Objects : PlaceOf(o) # "unwritten" /\ l \in LinesOf[o]
  <2> SUFFICES ASSUME NEW l \in rows
               PROVE  \E o \in Objects : PlaceOf(o) # "unwritten" /\ l \in LinesOf[o]
    OBVIOUS
  <2>1. PICK o \in Existing : l \in LinesOf[o]
    BY <1>2
  <2>2. o \in Objects
    BY DEF Existing
  <2>3. QED
    BY <2>1, <2>2, PlacesOf
<1>4. rows \in SUBSET (UNION {LinesOf[o] : o \in Objects})
  BY <1>3
<1>5. \A o \in Objects : PlaceOf(o)' = PlaceOf(o)
  BY DEF PlaceOf, Written
<1>6. Promise!Consolidate(rows)
  BY <1>1, <1>3, <1>5 DEF Promise!Consolidate
<1>7. QED
  BY <1>4, <1>6 DEF Promise!Next

\* What a run deletes after its last upload is complete in the lake.
LEMMA LakeClear ==
    ASSUME MergeInv, LakeInv, NEW r \in Runs, NEW j \in Jobs,
           NEW done \in SUBSET work[r][j].batches, ClearJob(r, j, done)
    PROVE  Promise!Next
<1> DEFINE S == done \cap raw
<1>1. S \in SUBSET Objects /\ raw \subseteq Objects
  BY DEF MergeInv, TypeInv, CompactorTypeOK
<1>2. Promise!Complete(S)
  <2>1. Accounted(work[r][j], Consolidated)
    BY DEF MergeInv, WorkInv
  <2>2. \A o \in done : LinesOf[o] \subseteq Consolidated
    BY <2>1 DEF ClearJob, Accounted
  <2>3. QED
    BY <2>2 DEF Promise!Complete
<1>3. \A o \in S : PlaceOf(o) = "landed"
  BY <1>1, PlacesOf
<1>4. Consolidated' = Consolidated /\ age' = age /\ purged' = purged
  BY DEF ClearJob, Consolidated
<1>5. CASE DeleteRaw
  <2>1. raw' = raw \ S /\ tagged' = tagged
    BY <1>5 DEF ClearJob
  <2>2. \A o \in Objects : PlaceOf(o)' = IF o \in S THEN "cleared" ELSE PlaceOf(o)
    BY <1>4, <2>1 DEF PlaceOf, Written, LakeInv, Existing
  <2>3. Promise!Move(S, "cleared")
    BY <1>1, <1>3, <1>4, <2>1, <2>2 DEF Promise!Move
  <2>4. QED
    BY <1>1, <1>2, <2>3 DEF Promise!Next, Promise!Clear
<1>6. CASE ~DeleteRaw
  <2>1. raw' = raw /\ tagged' = tagged \cup S
    BY <1>6 DEF ClearJob
  <2>2. \A o \in Objects : PlaceOf(o)' = PlaceOf(o)
    BY <1>4, <2>1 DEF PlaceOf, Written
  <2>3. Promise!Mark(S)
    BY <1>1, <1>2, <1>3, <1>4, <2>1, <2>2 DEF Promise!Mark
  <2>4. QED
    BY <1>1, <2>3 DEF Promise!Next
<1>7. QED
  BY <1>5, <1>6

LEMMA LakeJob ==
    ASSUME MergeInv, LakeInv, NEW r \in Runs, NEW j \in Jobs, JobStep(r, j)
    PROVE  [Promise!Next]_(Promise!lakeVars)
<1> USE DEF Existing, Written, Consolidated
<1>1. ASSUME NEW unreadable \in SUBSET OfJob(j), ListBatches(r, j, unreadable)
      PROVE  [Promise!Next]_(Promise!lakeVars)
  BY <1>1, LakeStutter DEF ListBatches
<1>2. CASE StartJob(r, j)
  BY <1>2, LakeStutter DEF StartJob
<1>3. ASSUME NEW o \in Objects, OpenBatch(r, j, o)
      PROVE  [Promise!Next]_(Promise!lakeVars)
  BY <1>3, LakeStutter DEF OpenBatch
<1>4. ASSUME NEW l \in Lines, AppendRecord(r, j, l)
      PROVE  [Promise!Next]_(Promise!lakeVars)
  BY <1>4, LakeStutter DEF AppendRecord
<1>5. CASE SplitFile(r, j)
  BY <1>5, LakeUpload DEF SplitFile
<1>6. CASE UploadLast(r, j)
  <2>1. CASE work[r][j].rows = {}
    BY <1>6, <2>1, LakeStutter DEF UploadLast
  <2>2. CASE work[r][j].rows # {}
    BY <1>6, <2>2, LakeUpload DEF UploadLast
  <2>3. QED
    BY <2>1, <2>2
<1>7. ASSUME NEW done \in SUBSET work[r][j].batches, ClearJob(r, j, done)
      PROVE  [Promise!Next]_(Promise!lakeVars)
  BY <1>7, LakeClear
<1>8. CASE BatchGone(r, j)
  BY <1>8, LakeStutter DEF BatchGone, EndRun
<1>9. QED
  BY <1>1, <1>2, <1>3, <1>4, <1>5, <1>6, <1>7, <1>8 DEF JobStep

\* The compactor, however many runs of it overlap and wherever they fail, and the
\* workers beside it keep what the data lake promises (compact_s3.py:95-108,
\* 219-298, 394-426, 440-512): an object goes once, merged or for its age, is tagged only
\* when merged, and no record is lost or made up on the way.
THEOREM CompactorKeepsRecords == Spec => KeepsRecords
<1>1. Init => Promise!Init
  <2> SUFFICES ASSUME Init PROVE Promise!Init
    OBVIOUS
  <2>1. \A o \in Objects : PlaceOf(o) = "unwritten"
    BY DEF Init, PlaceOf, Written
  <2>2. Consolidated = {}
    BY DEF Init, Consolidated
  <2>3. QED
    BY <2>1, <2>2 DEF Init, Promise!Init
<1>2. MergeInv /\ LakeInv /\ [Next]_vars => [Promise!Next]_(Promise!lakeVars)
  <2> SUFFICES ASSUME MergeInv, LakeInv, [Next]_vars
               PROVE  [Promise!Next]_(Promise!lakeVars)
    OBVIOUS
  <2>1. ASSUME NEW o \in Objects, WorkerWrites(o)
        PROVE  Promise!Next
    <3>1. PlaceOf(o) = "unwritten" /\ age' = [age EXCEPT ![o] = "fresh"] /\ o \in raw'
      BY <2>1 DEF WorkerWrites, PlaceOf, Written
    <3>2. \A p \in Objects : PlaceOf(p)' = IF p = o THEN "landed" ELSE PlaceOf(p)
      BY <2>1, <3>1 DEF WorkerWrites, PlaceOf, Written, MergeInv, TypeInv, CompactorTypeOK
    <3>3. Consolidated' = Consolidated /\ tagged' = tagged
      BY <2>1 DEF WorkerWrites, Consolidated
    <3>4. Promise!Land(o)
      BY <3>1, <3>2, <3>3 DEF Promise!Land
    <3>5. QED
      BY <3>4 DEF Promise!Next
  <2>2. ASSUME NEW o \in Objects, GrowOld(o)
        PROVE  UNCHANGED Promise!lakeVars
    <3>1. Existing' = Existing
      BY <2>2 DEF GrowOld, Existing, Written, MergeInv, TypeInv, CompactorTypeOK
    <3>2. QED
      BY <2>2, <3>1, LakeStutter DEF GrowOld, Consolidated
  <2>3. ASSUME NEW r \in Runs, StartRun(r)
        PROVE  UNCHANGED Promise!lakeVars
    BY <2>3, LakeStutter DEF StartRun, Existing, Written, Consolidated
  <2>4. ASSUME NEW r \in Runs, StartCompaction(r)
        PROVE  UNCHANGED Promise!lakeVars
    BY <2>4, LakeStutter DEF StartCompaction, Existing, Written, Consolidated
  <2>5. ASSUME NEW r \in Runs, NEW done \in SUBSET Expired, Purge(r, done)
        PROVE  Promise!Next
    <3>1. done \in SUBSET Objects /\ done \subseteq raw
      BY DEF Expired, MergeInv, TypeInv, CompactorTypeOK
    <3>2. \A o \in done : PlaceOf(o) = "landed"
      BY <3>1, PlacesOf
    <3>3. /\ raw' = raw \ done /\ purged' = purged \cup done
          /\ age' = age /\ tagged' = tagged /\ Consolidated' = Consolidated
      BY <2>5 DEF Purge, Consolidated
    <3>4. \A o \in Objects : PlaceOf(o)' = IF o \in done THEN "expired" ELSE PlaceOf(o)
      BY <3>1, <3>3 DEF PlaceOf, Written, LakeInv, Existing
    <3>5. Promise!Move(done, "expired")
      BY <3>1, <3>2, <3>3, <3>4 DEF Promise!Move
    <3>6. QED
      BY <3>1, <3>5 DEF Promise!Next, Promise!Expire
  <2>6. ASSUME NEW r \in Runs, Abort(r)
        PROVE  UNCHANGED Promise!lakeVars
    BY <2>6, LakeStutter DEF Abort, EndRun, Existing, Written, Consolidated
  <2>7. CASE UNCHANGED vars
    BY <2>7, LakeStutter DEF vars, Existing, Written, Consolidated
  <2>8. QED
    BY <2>1, <2>2, <2>3, <2>4, <2>5, <2>6, <2>7, LakeJob DEF Next, RunStep
<1>3. MergeInv => TypeInv
  BY DEF MergeInv
<1>4. QED
  BY <1>1, <1>2, <1>3, MergeInitially, MergeStep, LakeInitially, LakeStep,
     PTL DEF Spec, Promise!Spec, KeepsRecords

-----------------------------------------------------------------------------
(* What the promise gives over many steps, and so any number of runs.      *)

\* A step of the abstract lake keeps what is written, so no record loses its
\* object, and brings in records of written objects only.
LEMMA LakeGenuine == Promise!Spec => []Promise!Genuine
<1> DEFINE at == [o \in Objects |-> PlaceOf(o)]
<1>1. Promise!Init => Promise!Genuine
  BY DEF Promise!Init, Promise!Genuine
<1>2. Promise!Genuine /\ [Promise!Next]_(Promise!lakeVars) => Promise!Genuine'
  <2> SUFFICES ASSUME Promise!Genuine, [Promise!Next]_(Promise!lakeVars),
                      NEW l \in Consolidated'
               PROVE  \E o \in Objects : at'[o] # "unwritten" /\ l \in LinesOf[o]
    BY DEF Promise!Genuine
  <2>1. ASSUME Consolidated' = Consolidated,
               \A o \in Objects : at[o] # "unwritten" => at'[o] # "unwritten"
        PROVE  \E o \in Objects : at'[o] # "unwritten" /\ l \in LinesOf[o]
    BY <2>1 DEF Promise!Genuine
  <2>2. ASSUME NEW o \in Objects, Promise!Land(o)
        PROVE  \E p \in Objects : at'[p] # "unwritten" /\ l \in LinesOf[p]
    BY <2>1, <2>2 DEF Promise!Land
  <2>3. ASSUME NEW L \in SUBSET (UNION {LinesOf[o] : o \in Objects}), Promise!Consolidate(L)
        PROVE  \E p \in Objects : at'[p] # "unwritten" /\ l \in LinesOf[p]
    BY <2>3 DEF Promise!Consolidate, Promise!Genuine
  <2>4. ASSUME NEW S \in SUBSET Objects, Promise!Mark(S)
        PROVE  \E p \in Objects : at'[p] # "unwritten" /\ l \in LinesOf[p]
    BY <2>1, <2>4 DEF Promise!Mark
  <2>5. ASSUME NEW S \in SUBSET Objects, Promise!Clear(S) \/ Promise!Expire(S)
        PROVE  \E p \in Objects : at'[p] # "unwritten" /\ l \in LinesOf[p]
    BY <2>1, <2>5 DEF Promise!Clear, Promise!Expire, Promise!Move
  <2>6. CASE UNCHANGED Promise!lakeVars
    BY <2>1, <2>6 DEF Promise!lakeVars
  <2>7. QED
    BY <2>2, <2>3, <2>4, <2>5, <2>6 DEF Promise!Next
<1>3. QED
  BY <1>1, <1>2, PTL DEF Promise!Spec

\* No part ever holds a record that was not in an object a worker wrote,
\* however runs overlap and wherever they end (process_job and its callees).
THEOREM NothingMadeUp == Spec => []Promise!Genuine
BY CompactorKeepsRecords, LakeGenuine, PTL DEF KeepsRecords
=============================================================================
