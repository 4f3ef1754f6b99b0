----------------------------- MODULE PolicyProofs -----------------------------
(***************************************************************************)
(* Machine-checked proofs about the domain policies of the producer, for   *)
(* every number of requests, domains and policies.                         *)
(***************************************************************************)
EXTENDS PolicyCache, FiniteSetTheorems, TLAPS

-----------------------------------------------------------------------------
(* The objects of a domain.                                                *)

LEMMA ObjectsFinite ==
    /\ IsFiniteSet(Objects) /\ Cardinality(Objects) = Cardinality(Clients) + 2
    /\ 1 \in Objects /\ 0 \notin Objects /\ Objects \subseteq Nat
<1>1. Cardinality(Clients) \in Nat
  BY PolicyAssumption, FS_CardinalityType
<1>2. QED
  BY <1>1, FS_Interval DEF Objects

\* RAM holds one object of a domain and every request one at most: there is
\* always one that nothing refers to.
LEMMA NewObjectFree ==
    ASSUME PolicyTypeOK, NEW d \in Domains
    PROVE  /\ NewObject(d) \in Objects /\ NewObject(d) # ram[d]
           /\ \A c \in Pending(d) : op[c].obj # NewObject(d)
<1> DEFINE held == {op[c].obj : c \in Clients}
           used == held \cup {ram[d]}
<1>1. /\ IsFiniteSet(held) /\ Cardinality(held) \in Nat
      /\ Cardinality(held) <= Cardinality(Clients)
  <2> DEFINE f == [c \in Clients |-> op[c].obj]
  <2>1. f \in Surjection(Clients, held)
    BY DEF Surjection
  <2> HIDE DEF held, f
  <2>2. QED
    BY <2>1, PolicyAssumption, FS_Surjection, FS_CardinalityType
<1>2. /\ IsFiniteSet(used) /\ Cardinality(used) \in Nat
      /\ Cardinality(used) <= Cardinality(Clients) + 1
  <2> HIDE DEF held
  <2>1. /\ IsFiniteSet(used)
        /\ Cardinality(used) =
              IF ram[d] \in held THEN Cardinality(held) ELSE Cardinality(held) + 1
    BY <1>1, FS_AddElement
  <2>2. QED
    BY <1>1, <2>1, PolicyAssumption, FS_CardinalityType
<1> HIDE DEF used
<1>3. ~(Objects \subseteq used)
  <2> SUFFICES ASSUME Objects \subseteq used
               PROVE  FALSE
    OBVIOUS
  <2>1. Cardinality(Objects) <= Cardinality(used)
    BY <1>2, FS_Subset
  <2>2. QED
    BY <1>2, <2>1, ObjectsFinite, PolicyAssumption, FS_CardinalityType
<1>4. \E o \in Objects : o # ram[d] /\ \A c \in Pending(d) : op[c].obj # o
  BY <1>3 DEF used, Pending
<1>5. QED
  BY <1>4 DEF NewObject

\* Cutting a default rate to the hard limit, or setting only some fields,
\* leaves a policy.
LEMMA PolicyType ==
    ASSUME NEW p \in Policies, NEW q \in Policies
    PROVE  /\ Clamp(p) \in Policies /\ Merge(p, q) \in Policies
           /\ \A d \in Domains : [p EXCEPT !.name = d] \in Policies
           /\ p.name \in Domains
BY PolicyAssumption DEF Policies, Clamp, Merge

LEMMA SeedType ==
    /\ \A d \in Domains : SeedOf(d) \in Policies
    /\ Bodies \subseteq Policies /\ Default \in Domains
BY PolicyAssumption DEF SeedOf, Rates, Policies

-----------------------------------------------------------------------------
(* Typing.                                                                 *)

\* A new object takes the place of the one in RAM.
LEMMA AdoptType ==
    ASSUME PolicyTypeOK, NEW d \in Domains, NEW p \in Policies, Adopt(d, p)
    PROVE  /\ heap' \in [Domains -> [Objects -> Policies]]
           /\ ram' \in [Domains -> {0} \cup Objects] /\ ram'[Default] # 0
<1>1. NewObject(d) \in Objects /\ NewObject(d) # 0
  BY NewObjectFree, ObjectsFinite
<1>2. heap' \in [Domains -> [Objects -> Policies]]
  BY <1>1, PolicyType DEF PolicyTypeOK, Adopt
<1>3. QED
  BY <1>1, <1>2, SeedType DEF PolicyTypeOK, Adopt

\* A request counts against its bound, a failed call against that of failures.
LEMMA CountType ==
    ASSUME PolicyTypeOK
    PROVE  /\ Request => requests' \in 0..MaxRequests
           /\ Fail => failures' \in 0..MaxFailures
BY PolicyAssumption DEF PolicyTypeOK, Request, Fail

Ops == [at : {"idle", "acquire", "sent", "stored", "delete"},
        dom : Domains, obj : Objects, row : Policies]

LEMMA OpType ==
    ASSUME PolicyTypeOK, NEW c \in Clients
    PROVE  /\ op[c] \in Ops
           /\ \A new \in Ops : [op EXCEPT ![c] = new] \in [Clients -> Ops]
           /\ Idle \in Ops
BY SeedType, ObjectsFinite DEF PolicyTypeOK, Ops, Idle

LEMMA PutType ==
    ASSUME PolicyTypeOK, NEW c \in Clients, NEW d \in Domains, NEW body \in Bodies,
           Put(c, d, body)
    PROVE  PolicyTypeOK'
<1> DEFINE known == ram[d] # 0
           obj == IF known THEN ram[d] ELSE NewObject(d)
           new == [at |-> "acquire", dom |-> d, obj |-> obj, row |-> SeedOf(d)]
           put == IF known THEN Merge(heap[d][obj], Clamp(body))
                  ELSE [Clamp(body) EXCEPT !.name = d]
<1>1. obj \in Objects /\ obj # 0
  BY NewObjectFree, ObjectsFinite DEF PolicyTypeOK
<1>2. body \in Policies /\ Clamp(body) \in Policies
  BY SeedType, PolicyType
<1>3. heap[d][obj] \in Policies
  BY <1>1 DEF PolicyTypeOK
<1>4. new \in Ops
  BY <1>1, SeedType DEF Ops
<1>5. /\ Request /\ ram' = [ram EXCEPT ![d] = obj]
      /\ heap' = [heap EXCEPT ![d][obj] = IF known THEN Merge(@, Clamp(body))
                                          ELSE [Clamp(body) EXCEPT !.name = d]]
      /\ op' = IF connected THEN [op EXCEPT ![c] = new] ELSE op
      /\ deleted' = deleted \ {d, body.name} /\ UNCHANGED <<db, connected, sync, rows, failures>>
  BY DEF Put
<1> HIDE DEF obj, new
<1>6. put \in Policies
  BY <1>2, <1>3, PolicyType
<1>7. heap' \in [Domains -> [Objects -> Policies]]
  <2>1. heap' = [heap EXCEPT ![d][obj] = put]
    BY <1>1, <1>5 DEF PolicyTypeOK
  <2> HIDE DEF put
  <2> QED
    BY <1>1, <1>6, <2>1 DEF PolicyTypeOK
<1>8. ram' \in [Domains -> {0} \cup Objects] /\ ram'[Default] # 0
  BY <1>1, <1>5, SeedType DEF PolicyTypeOK
<1> HIDE DEF put
<1>9. op' \in [Clients -> Ops]
  BY <1>4, <1>5, OpType DEF PolicyTypeOK, Ops
<1>10. QED
  BY <1>5, <1>7, <1>8, <1>9, CountType DEF PolicyTypeOK, Ops

LEMMA DeleteType ==
    ASSUME PolicyTypeOK, NEW c \in Clients, NEW d \in Domains, Delete(c, d)
    PROVE  PolicyTypeOK'
<1> DEFINE new == [at |-> "delete", dom |-> d, obj |-> 1, row |-> SeedOf(d)]
<1>1. new \in Ops
  BY SeedType, ObjectsFinite DEF Ops
<1>2. op' \in [Clients -> Ops]
  BY <1>1, OpType DEF Delete, PolicyTypeOK, Ops
<1>3. ram' \in [Domains -> {0} \cup Objects] /\ ram'[Default] # 0
  BY SeedType DEF Delete, PolicyTypeOK
<1>4. QED
  BY <1>2, <1>3, CountType DEF Delete, PolicyTypeOK, Ops

LEMMA ServeType ==
    ASSUME PolicyTypeOK, NEW c \in Clients, Serve(c)
    PROVE  PolicyTypeOK'
<1>0. op[c] \in Ops /\ [op EXCEPT ![c] = Idle] \in [Clients -> Ops]
  BY OpType
<1>a. op[c].dom \in Domains /\ op[c].obj \in Objects /\ op[c].row \in Policies
  BY <1>0 DEF Ops
<1>1. CASE Send(c)
  <2>1. heap[op[c].dom][op[c].obj] \in Policies
    BY <1>a DEF PolicyTypeOK
  <2>2. op' \in [Clients -> Ops]
    BY <1>0, <1>1, <2>1 DEF Send, PolicyTypeOK, Ops
  <2>3. QED
    BY <1>1, <2>2 DEF Send, PolicyTypeOK, Ops
<1>2. CASE Store(c)
  <2>1. db' \in Rows
    <3>1. op[c].row.name \in Domains
      BY <1>a, PolicyType
    <3> QED
      BY <1>a, <1>2, <3>1 DEF Store, PolicyTypeOK, Rows
  <2>2. op' \in [Clients -> Ops]
    BY <1>0, <1>2 DEF Store, PolicyTypeOK, Ops
  <2>3. QED
    BY <1>2, <2>1, <2>2 DEF Store, PolicyTypeOK, Ops
<1>3. CASE Answer(c)
  <2>1. /\ heap' \in [Domains -> [Objects -> Policies]]
        /\ ram' \in [Domains -> {0} \cup Objects] /\ ram'[Default] # 0
    BY <1>a, <1>3, AdoptType DEF Answer
  <2>2. QED
    BY <1>0, <1>3, <2>1 DEF Answer, PolicyTypeOK, Ops
<1>4. CASE PutFails(c)
  <2>1. ram' \in [Domains -> {0} \cup Objects] /\ ram'[Default] # 0
    BY <1>a, <1>4, SeedType, ObjectsFinite DEF PutFails, PolicyTypeOK
  <2>2. QED
    BY <1>0, <1>4, <2>1, CountType DEF PutFails, PolicyTypeOK, Ops
<1>5. CASE DeleteRow(c)
  <2>1. db' \in Rows
    BY <1>a, <1>5 DEF DeleteRow, PolicyTypeOK, Rows
  <2>2. deleted' \subseteq Domains
    BY <1>a, <1>5 DEF DeleteRow, PolicyTypeOK
  <2>3. QED
    BY <1>0, <1>5, <2>1, <2>2 DEF DeleteRow, PolicyTypeOK, Ops
<1>6. CASE DeleteFails(c)
  BY <1>0, <1>6, CountType DEF DeleteFails, PolicyTypeOK, Ops
<1>7. QED
  BY <1>1, <1>2, <1>3, <1>4, <1>5, <1>6 DEF Serve

LEMMA SyncType ==
    ASSUME PolicyTypeOK, Sync
    PROVE  PolicyTypeOK'
<1>0. NoRows \in Rows
  BY DEF NoRows, Rows
<1>1. CASE Wake
  BY <1>1 DEF Wake, PolicyTypeOK
<1>2. CASE ListAll
  BY <1>2 DEF ListAll, PolicyTypeOK
<1>3. CASE SyncFromDb
  <2> DEFINE read == {d \in Domains : rows[d] # {}}
  <2>1. ASSUME NEW d \in read
        PROVE  (CHOOSE p \in rows[d] : TRUE) \in Policies
    BY DEF PolicyTypeOK, Rows
  <2>2. \A d \in Domains : NewObject(d) \in Objects /\ NewObject(d) # 0
    BY NewObjectFree, ObjectsFinite
  <2>3. /\ heap' = [d \in Domains |->
                      IF d \in read
                        THEN [heap[d] EXCEPT ![NewObject(d)] = Clamp(CHOOSE p \in rows[d] : TRUE)]
                        ELSE heap[d]]
        /\ ram' = [d \in Domains |-> IF d \in read THEN NewObject(d) ELSE ram[d]]
        /\ UNCHANGED <<db, connected, op, requests, failures, deleted>>
        /\ sync' = "asleep" /\ rows' = NoRows
    BY <1>3 DEF SyncFromDb
  <2>4. heap' \in [Domains -> [Objects -> Policies]]
    <3>1. ASSUME NEW d \in read
          PROVE  [heap[d] EXCEPT ![NewObject(d)] = Clamp(CHOOSE p \in rows[d] : TRUE)]
                     \in [Objects -> Policies]
      <4>1. Clamp(CHOOSE p \in rows[d] : TRUE) \in Policies
        BY <2>1, <3>1, PolicyType, SeedType
      <4>2. heap[d] \in [Objects -> Policies]
        BY DEF PolicyTypeOK
      <4>3. QED
        BY <4>1, <4>2
    <3>2. \A d \in Domains : heap[d] \in [Objects -> Policies]
      BY DEF PolicyTypeOK
    <3> HIDE DEF read
    <3>3. QED
      BY <2>3, <3>1, <3>2
  <2>5. ram' \in [Domains -> {0} \cup Objects] /\ ram'[Default] # 0
    BY <2>2, <2>3, SeedType DEF PolicyTypeOK
  <2>6. QED
    BY <1>0, <2>3, <2>4, <2>5 DEF PolicyTypeOK
<1>4. CASE ListFails
  BY <1>0, <1>4, CountType DEF ListFails, PolicyTypeOK
<1>5. QED
  BY <1>1, <1>2, <1>3, <1>4 DEF Sync

LEMMA TypeStep ==
    ASSUME PolicyTypeOK, [Next]_vars
    PROVE  PolicyTypeOK'
<1>1. CASE UNCHANGED vars
  BY <1>1 DEF vars, PolicyTypeOK
<1>2. QED
  BY <1>1, PutType, DeleteType, ServeType, SyncType DEF Next

LEMMA TypeInit ==
    ASSUME Init
    PROVE  PolicyTypeOK
<1>1. db \in Rows /\ NoRows \in Rows
  <2>1. NoRows \in Rows
    BY DEF Rows, NoRows
  <2>2. PICK old \in SUBSET Domains :
          db = [d \in Domains |-> IF d \in old THEN {SeedOf(d)} ELSE {}]
    BY DEF Init
  <2>3. \A d \in Domains : {SeedOf(d)} \in {{p} : p \in Policies}
    BY SeedType
  <2> QED
    BY <2>1, <2>2, <2>3 DEF Rows
<1>2. Idle \in [at : {"idle", "acquire", "sent", "stored", "delete"},
                dom : Domains, obj : Objects, row : Policies]
  BY SeedType, ObjectsFinite DEF Idle
<1>3. heap \in [Domains -> [Objects -> Policies]]
  BY SeedType DEF Init
<1>4. ram \in [Domains -> {0} \cup Objects] /\ ram[Default] # 0
  BY SeedType, ObjectsFinite, PolicyAssumption DEF Init
<1>5. requests \in 0..MaxRequests /\ failures \in 0..MaxFailures
  BY PolicyAssumption DEF Init
<1>6. QED
  BY <1>1, <1>2, <1>3, <1>4, <1>5 DEF Init, PolicyTypeOK

\* Whatever requests, late answers, failures and stale snapshots do, the
\* wildcard policy stays registered: get_policy always has one to fall back on
\* (domain_policy_service.py:81-108, 119-165).
THEOREM PolicyTypeCorrect == Spec => []PolicyTypeOK
BY TypeInit, TypeStep, PTL DEF Spec
=============================================================================
