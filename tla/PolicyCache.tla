----------------------------- MODULE PolicyCache -----------------------------
(***************************************************************************)
(* The domain policies of the producer API: DomainPolicyService keeps them *)
(* in RAM, PostgresDomainPolicyRepository keeps them in PostgreSQL, and a  *)
(* background task copies the rows into RAM every 30 seconds.  Requests    *)
(* and the task interleave at every await.                                 *)
(*                                                                         *)
(* RAM holds references: an update changes the object in place, also for a *)
(* request that has not sent it yet.  A policy is its name and its two     *)
(* rate limits; 0 stands for null, and null in an update leaves the field  *)
(* alone.  The name need not be the domain it is registered under.         *)
(***************************************************************************)
EXTENDS Naturals, FiniteSets

CONSTANTS
    Domains,      \* names policies are registered under
    Default,      \* the wildcard policy
    Seeds,        \* domains of the JSON seed
    Seed,         \* the rates of every seed
    MaxRate,      \* BOUND: rates are 0..MaxRate
    Clients,      \* requests that may be under way at one time
    Bodies,       \* BOUND: the policies that are put
    MaxRequests,  \* BOUND: PUT and DELETE requests
    MaxFailures   \* BOUND: failed database calls

Rates == [hard : 0..MaxRate, soft : 0..MaxRate]
Policies == [name : Domains, hard : 0..MaxRate, soft : 0..MaxRate]

ASSUME PolicyAssumption ==
    /\ MaxRate \in Nat /\ MaxRequests \in Nat /\ MaxFailures \in Nat
    /\ IsFiniteSet(Clients)
    /\ Default \in Seeds /\ Seeds \subseteq Domains
    /\ Seed \in Rates
    /\ Bodies \subseteq Policies

VARIABLES
    heap,      \* the policy objects of each domain
    ram,       \* _policies: the object RAM holds for a domain, 0 for none
    db,        \* the row of each domain, a set of at most one
    connected, \* the repository has a pool
    op,        \* what each request is waiting for
    sync,      \* what the background task is waiting for
    rows,      \* the rows it has read
    requests, failures,
    deleted    \* HISTORY: domains whose last request was a DELETE that returned

vars == <<heap, ram, db, connected, op, sync, rows, requests, failures, deleted>>

\* One object may be in RAM and one in each request; a new one is needed then.
Objects == 1..(Cardinality(Clients) + 2)
Rows == [Domains -> {{}} \cup {{p} : p \in Policies}]
NoRows == [d \in Domains |-> {}]
SeedOf(d) == [name |-> d, hard |-> Seed.hard, soft |-> Seed.soft]
Idle == [at |-> "idle", dom |-> Default, obj |-> 1, row |-> SeedOf(Default)]

\* The type invariant: whatever requests and synchronisation do, the wildcard
\* policy stays registered, so that get_policy always finds one.
PolicyTypeOK ==
    /\ heap \in [Domains -> [Objects -> Policies]]
    /\ ram \in [Domains -> {0} \cup Objects]
    /\ ram[Default] # 0
    /\ db \in Rows
    /\ connected \in BOOLEAN
    /\ op \in [Clients -> [at : {"idle", "acquire", "sent", "stored", "delete"},
                           dom : Domains, obj : Objects, row : Policies]]
    /\ sync \in {"asleep", "listing", "read"}
    /\ rows \in Rows
    /\ requests \in 0..MaxRequests
    /\ failures \in 0..MaxFailures
    /\ deleted \subseteq Domains

\* Rows may be left from an earlier life of the API.
Init ==
    /\ heap = [d \in Domains |-> [o \in Objects |-> SeedOf(d)]]
    /\ ram = [d \in Domains |-> IF d \in Seeds THEN 1 ELSE 0]
    /\ \E old \in SUBSET Domains :
         db = [d \in Domains |-> IF d \in old THEN {SeedOf(d)} ELSE {}]
    /\ connected = FALSE
    /\ op = [c \in Clients |-> Idle]
    /\ sync = "asleep"
    /\ rows = NoRows
    /\ requests = 0 /\ failures = 0
    /\ deleted = {}

\* Requests that hold an object of the domain.
Pending(d) == {c \in Clients : op[c].at # "idle" /\ op[c].dom = d}

\* A new object of the domain: nothing refers to it.
NewObject(d) ==
    CHOOSE o \in Objects : o # ram[d] /\ \A c \in Pending(d) : op[c].obj # o

\* validate_rate_limits, applied whenever a DomainPolicy is built: a default
\* rate over the hard limit is cut to it.
Clamp(p) == [p EXCEPT !.soft = IF p.hard # 0 /\ @ > p.hard THEN p.hard ELSE @]

\* The setattr loop of upsert_policy: no validation, null is skipped, and the
\* object takes the domain of the body for its name.
Merge(p, body) ==
    [name |-> body.name,
     hard |-> IF body.hard # 0 THEN body.hard ELSE p.hard,
     soft |-> IF body.soft # 0 THEN body.soft ELSE p.soft]

\* RAM gets a new object with the policy of a row.
Adopt(d, p) ==
    /\ heap' = [heap EXCEPT ![d][NewObject(d)] = Clamp(p)]
    /\ ram' = [ram EXCEPT ![d] = NewObject(d)]

Request ==
    /\ requests < MaxRequests
    /\ requests' = requests + 1

Fail ==
    /\ failures < MaxFailures
    /\ failures' = failures + 1

-----------------------------------------------------------------------------
(* Plausible bugs, used as mutants of the definitions that follow.         *)

\* The wildcard can be deleted like any other policy.
DeleteAny(c, d) ==
    /\ op[c].at = "idle"
    /\ Request
    /\ ram' = [ram EXCEPT ![d] = 0]
    /\ op' = IF connected
               THEN [op EXCEPT ![c] = [at |-> "delete", dom |-> d, obj |-> 1, row |-> SeedOf(d)]]
               ELSE op
    /\ UNCHANGED <<heap, db, connected, sync, rows, failures, deleted>>

\* The synchronisation only adds the domains RAM does not know.
SyncAdds ==
    LET read == {d \in Domains : rows[d] # {} /\ ram[d] = 0}
    IN  /\ sync = "read"
        /\ heap' = [d \in Domains |->
                      IF d \in read
                        THEN [heap[d] EXCEPT ![NewObject(d)] = Clamp(CHOOSE p \in rows[d] : TRUE)]
                        ELSE heap[d]]
        /\ ram' = [d \in Domains |-> IF d \in read THEN NewObject(d) ELSE ram[d]]
        /\ sync' = "asleep"
        /\ rows' = NoRows
        /\ UNCHANGED <<db, connected, op, requests, failures, deleted>>

-----------------------------------------------------------------------------
(* PUT /domains/{domain}: upsert_policy.                                   *)

\* RAM is changed at once; without a pool the repository returns the policy
\* as it is and the request is over.
Put(c, d, body) ==
    LET known == ram[d] # 0
        obj == IF known THEN ram[d] ELSE NewObject(d)
    IN  /\ op[c].at = "idle"
        /\ Request
        /\ heap' = [heap EXCEPT ![d][obj] =
                      IF known THEN Merge(@, Clamp(body))
                      ELSE [Clamp(body) EXCEPT !.name = d]]
        /\ ram' = [ram EXCEPT ![d] = obj]
        /\ op' = IF connected
                   THEN [op EXCEPT ![c] = [at |-> "acquire", dom |-> d, obj |-> obj,
                                           row |-> SeedOf(d)]]
                   ELSE op
        /\ deleted' = deleted \ {d, body.name}
        /\ UNCHANGED <<db, connected, sync, rows, failures>>

\* A connection is acquired and the object's fields are sent.
Send(c) ==
    /\ op[c].at = "acquire"
    /\ op' = [op EXCEPT ![c].at = "sent", ![c].row = heap[op[c].dom][op[c].obj]]
    /\ UNCHANGED <<heap, ram, db, connected, sync, rows, requests, failures, deleted>>

\* PostgreSQL stores the row, under the name of the policy.
Store(c) ==
    /\ op[c].at = "sent"
    /\ db' = [db EXCEPT ![op[c].row.name] = {op[c].row}]
    /\ op' = [op EXCEPT ![c].at = "stored"]
    /\ UNCHANGED <<heap, ram, connected, sync, rows, requests, failures, deleted>>

\* The stored row comes back and replaces what RAM holds by now.
Answer(c) ==
    /\ op[c].at = "stored"
    /\ Adopt(op[c].dom, op[c].row)
    /\ op' = [op EXCEPT ![c] = Idle]
    /\ UNCHANGED <<db, connected, sync, rows, requests, failures, deleted>>

\* The call fails, stored or not: RAM gets the request's own object.
PutFails(c) ==
    /\ op[c].at \in {"acquire", "sent", "stored"}
    /\ Fail
    /\ ram' = [ram EXCEPT ![op[c].dom] = op[c].obj]
    /\ op' = [op EXCEPT ![c] = Idle]
    /\ UNCHANGED <<heap, db, connected, sync, rows, requests, deleted>>

-----------------------------------------------------------------------------
(* DELETE /domains/{domain}: delete_policy.                                *)

\* The wildcard is refused; any other domain leaves RAM at once.
Delete(c, d) ==
    /\ op[c].at = "idle"
    /\ d # Default
    /\ Request
    /\ ram' = [ram EXCEPT ![d] = 0]
    /\ op' = IF connected
               THEN [op EXCEPT ![c] = [at |-> "delete", dom |-> d, obj |-> 1, row |-> SeedOf(d)]]
               ELSE op
    /\ UNCHANGED <<heap, db, connected, sync, rows, failures, deleted>>

\* PostgreSQL deletes the row and the request returns.
DeleteRow(c) ==
    LET d == op[c].dom
    IN  /\ op[c].at = "delete"
        /\ db' = [db EXCEPT ![d] = {}]
        /\ op' = [op EXCEPT ![c] = Idle]
        /\ deleted' = IF Pending(d) = {c} THEN deleted \cup {d} ELSE deleted
        /\ UNCHANGED <<heap, ram, connected, sync, rows, requests, failures>>

DeleteFails(c) ==
    /\ op[c].at = "delete"
    /\ Fail
    /\ op' = [op EXCEPT ![c] = Idle]
    /\ UNCHANGED <<heap, ram, db, connected, sync, rows, requests, deleted>>

-----------------------------------------------------------------------------
(* The background task: _background_db_health_and_sync.                    *)

\* It wakes, connects if there is no pool yet, and calls sync_from_db.
Wake ==
    /\ sync = "asleep"
    /\ connected' = TRUE
    /\ sync' = "listing"
    /\ UNCHANGED <<heap, ram, db, op, rows, requests, failures, deleted>>

\* list_all reads the table.
ListAll ==
    /\ sync = "listing"
    /\ rows' = db
    /\ sync' = "read"
    /\ UNCHANGED <<heap, ram, db, connected, op, requests, failures, deleted>>

\* Every row replaces what RAM holds by now; nothing is removed from RAM.
SyncFromDb ==
    LET read == {d \in Domains : rows[d] # {}}
    IN  /\ sync = "read"
        /\ heap' = [d \in Domains |->
                      IF d \in read
                        THEN [heap[d] EXCEPT ![NewObject(d)] = Clamp(CHOOSE p \in rows[d] : TRUE)]
                        ELSE heap[d]]
        /\ ram' = [d \in Domains |-> IF d \in read THEN NewObject(d) ELSE ram[d]]
        /\ sync' = "asleep"
        /\ rows' = NoRows
        /\ UNCHANGED <<db, connected, op, requests, failures, deleted>>

\* list_all returns no policies when the query fails.
ListFails ==
    /\ sync \in {"listing", "read"}
    /\ Fail
    /\ sync' = "asleep"
    /\ rows' = NoRows
    /\ UNCHANGED <<heap, ram, db, connected, op, requests, deleted>>

-----------------------------------------------------------------------------

Serve(c) ==
    \/ Send(c) \/ Store(c) \/ Answer(c) \/ PutFails(c)
    \/ DeleteRow(c) \/ DeleteFails(c)

Sync == Wake \/ ListAll \/ SyncFromDb \/ ListFails

Next ==
    \/ \E c \in Clients, d \in Domains :
         \/ \E body \in Bodies : Put(c, d, body)
         \/ Delete(c, d)
    \/ \E c \in Clients : Serve(c)
    \/ Sync

Spec == Init /\ [][Next]_vars

\* Database calls end (command_timeout), the task wakes again and again, and
\* PostgreSQL can be reached in the end.
Fairness == WF_vars(Sync) /\ \A c \in Clients : WF_vars(Serve(c))

FairSpec == Spec /\ Fairness

-----------------------------------------------------------------------------

\* Once requests stop, RAM ends up with every row of the database, whatever
\* stale snapshots and late answers it took on the way ("mantiene la memoria
\* RAM L1 sincronizada periodicamente", producer/main.py:22).
RamFollowsDb ==
    <>[](\A d \in Domains : \A p \in db[d] : ram[d] # 0 /\ heap[d][ram[d]] = Clamp(p))

\* A domain whose DELETE returned stays unregistered until a PUT of it, or of
\* a policy with its name
\* ("Elimina una politica de dominio de la cache L1 y de PostgreSQL",
\* domain_policy_service.py:160).
DeleteSticks == \A d \in deleted : ram[d] = 0
=============================================================================
