# WebScrapingDistributed: specification and proofs

TLA+ modules of the distributed scraper in this repository, the TLC
configurations that check them on small instances, and TLAPS proofs of their
main properties. Paths are relative to the repository's root; line numbers are in
`PROJECT.json` (`map`), definition by definition.

## 1. The system

A *producer* API turns a request into scraping tasks and puts them on two SQS
queues. *Worker* pods receive tasks, fetch and parse pages, gather the records in
RAM per job, write them as JSONL objects to the raw bucket (MinIO) and only then
acknowledge the tasks. A *compactor* CronJob merges raw objects into Parquet parts
in the analytical bucket and removes the raw ones. *Domain policies* (rate limits,
headers, robots) live in PostgreSQL with a copy in the producer's RAM; a *rate
limiter* in Redis is shared by all workers.

| Component | State | Operations | Talks to | What makes it correct | Module |
|---|---|---|---|---|---|
| Worker engine (`worker/scraping/controller.py`) | running flag, active tasks, semaphore, ack queue, backoff | fetch loop, task coroutine, ack flusher, stop, shutdown | SQS, buffers, limiter, robots, parsers | nothing acknowledged before it is stored or given up; one place per delivery; shutdown drains everything and ends; slots are given back | `Worker` |
| SQS consumer adapter (`worker/infrastructure/task/sqs/adapter.py`) | client | fetch (several requests), drop poison messages, acknowledge_batch, heartbeat | SQS | failures leave messages to be redelivered | `Worker`, `SQS` |
| Task queues (external, `infra/init-aws.sh`) | messages, receive counts, receipt handles | receive, delete, visibility timeout, redrive | workers, producer | a message is visible, in flight, deleted or dead | `SQS` |
| Job buffers (`worker/scraping/services/storage_buffer.py`) | a buffer per job, background flushes | add_record, ticker, flush, close | raw bucket, ack queue | a record is flushed once and never stays in RAM | `JobBuffer` |
| Raw storage (`worker/infrastructure/storage/s3/adapter.py`) | client | save | MinIO | an error may come after the object was stored | `JobBuffer` |
| Compactor (`jobs/compact_s3.py`) | raw objects, tags, Parquet parts, a local file per job | list, eligibility, merge with splits, delete or tag, retention purge | both buckets, workers as writers | no raw object goes before its records are merged; few duplicates; everything is merged in the end | `Compactor` |
| Domain policies (`producer/scraping/services/domain_policy_service.py`, `domain_repository.py`, `main.py`) | RAM cache, rows | PUT, DELETE, lookup, periodic sync | PostgreSQL | RAM converges to the rows; deletions last; a policy is always found | `PolicyCache` |
| Rate limiter (`worker/scraping/security/rate_limiter.py`, `infrastructure/cache/redis`) | a counter per domain and second | acquire, incr | Redis | at most the limit per second over all pods; nobody waits for ever | `RateLimiter` |
| Dispatch (`producer/scraping/services/scraping_service.py`, `producer/infrastructure/task/sqs/adapter.py`) | per request: a bounded queue, the batch being sent, results | mapper, sender, send_batch, merge | SQS, policies | every task is reported once and truthfully; nothing is sent twice but by the AWS client; every request ends | `Dispatch`, `Submission` |
| HTTP session pool (`worker/infrastructure/network/client.py`) | sessions by key, last use, request count, sweep task | get_session (reuse, rotate, evict, create), sweep, close after a grace | proxies, parsers, robots service | no open session is forgotten; none is closed under a request that could have ended | `Sessions` |
| Shared browser (`parsers/dinamic_parse.py`) | browser, driver, task count, lock | get_browser (launch, recycle), close_browser | Chromium, the engine's stop | one browser at a time; it is recycled; every parse ends | `Browser` |
| Extractor, honeypot guard and the parsers' verdicts (`parsers/extractor.py`, `security/honeypot_guard.py`, `static_css_parse.py`, `dinamic_parse.py`) | none | extract_from_soup, filter_static_elements, validation | | a trap is read only as part of the text around it; both parsers judge a page alike | `Extraction` |
| Robots service | rules cached in Redis | is_allowed | limiter's adapter, session pool | (a choice in `Worker`) | not modelled |
| Parser factory, proxy providers | none to speak of | a table; the choice of a proxy | | | not modelled |
| Shared models, logging, deployment files | none | validation, configuration | | | only what the control needs |

**What is hard here.** The workers are at-least-once consumers with three
concurrent background activities on one event loop, so every `await` is a point
of interleaving; SQS redelivers at any moment, including while a record waits in
RAM; uploads and acknowledgements fail on their own; pods are stopped and killed.
The compactor works on a bucket that others write, may overlap with another run
and may die anywhere. The policy cache is changed in RAM first and in the database
later, by requests and by a synchronisation that holds rows it read earlier. The
limiter relies on an atomic counter it may not reach. The dispatch of a request runs after its answer, as two
coroutines around a bounded queue, over calls that fail in part or lose their answer. Sessions and the browser
are given out under a lock and used without it, while other tasks rotate, evict, sweep or recycle them. `PROJECT.json` lists these as
`hazards`, each at its line with the properties that cover it.

## 2. Modules and how they follow the code

```
SQS <- JobBuffer <- Worker --implements--> AtLeastOnce
                      ^-- MCWorker, WorkerProofs
Compactor --implements--> Lake
   ^-- MCCompactor, CompactorProofs
PolicyCache <- MCPolicyCache, PolicyProofs
RateLimiter <- MCRateLimiter, RateLimiterProofs
Dispatch --implements--> Submission
   ^-- MCDispatch, DispatchProofs
Sessions <- MCSessions, SessionsProofs
Browser, Extraction <- MCDynamicParser, ParserProofs
Pipeline (EXTENDS Worker, INSTANCE Compactor) <- MCPipeline, PipelineProofs
```

Arrows are EXTENDS; `Worker` composes the queue, the buffers and the engine,
which share variables as the code shares objects. `Pipeline` composes the workers with the compactor. MC modules only give the
constants their values; `MCDynamicParser` also runs the browser and the reading of pages side by side
in one state space, where a behaviour does one or the other.

asyncio runs one coroutine at a time: the code between two awaits that really
suspend is one action, and every suspension lets all others run.

**SQS** (external service). `queue[m]` and `receives[m]`; a delivery `[msg, rc]` is
a message with the receive it came from, which is also its receipt handle. Only
the newest handle deletes. Any invisibility may end at any moment: that covers the
visibility timeout and whatever a heartbeat sets.

**JobBuffer**. `buffer[w]` (all buffers of a pod; `OfJob` selects one), `uploads[w]`
(flushes S3 has not answered), `written[w]` (S3 has stored the object, the flush has
not resumed), `lake`, `acks[w]` (the ack queue). Limits of size and age are choices:
`AddRecord` may or may not pop the buffer, `Tick` takes any set of non-empty ones.
`UploadFails` covers a lost answer. `close()` is two actions around its gathers, and
keeps the buffers in `_buffers` until the end, as the code does.

**Worker**. `pc[w]` follows `run()` and `_execute_shutdown` ("loop", "fetching", then
"gathering", "closing", "draining", "closed"; "down" after a kill). `stage[w][d]` is
where the coroutine of a delivery is: waiting for the semaphore, checking (robots
and limiter), parsing. `StartFetch` fixes the batch size, including the full request
asked for after an empty fetch. `FetchReturns` may lose some of the messages received: one
that the adapter logs and passes over, or those of a request of several that failed; `FetchFails` loses them all. `SendBatch` deletes the accepted entries,
and none when an entry Id (the task id) is repeated. `Stop` cancels the fetch whatever
SQS has already answered. `ground` is a history variable: why a worker gave a message up.

**AtLeastOnce**, the abstract promise: a message is removed only if its record is in
the lake or a worker condemned it; otherwise it is pending or dead. `Worker` maps to
it by forgetting pods, buffers and receive counts (`Promise`).

**Compactor**. `raw`, `tagged`, `parts`, and for every run and job a record of
`process_job`: the batches listed, those not opened, the unread lines of the open one,
the rows of the local file. A part may end inside a batch. `ClearJob` deletes or tags
any part of the batches because the code swallows errors there. `Abort` stands for
any exception, a cancellation by `gather` or a kill. Sizes count objects and an age
is fresh, stale (inactive long enough: 7 minutes) or expired (past retention: 7 days). An object may pass either
in the middle of a run, and so be purged by the run that listed it unexpired. What the model rules out, with the guard of `GrowOld` and the variable `young`, is that runs
go on without a pause for the days between the two: an object that was not stale when the runs now under way began expires after them. `UploadLast` leaves
out the return of a job without a part, which takes objects of no lines (`CompactorAssumption`; workers write none).

**Lake**, the abstract promise of the data lake: an object is unwritten, landed, cleared or expired, and moves forward once;
records only come into the analytical lake from objects that were written, and never leave it; an object is tagged or cleared
only when all its records are there. `Compactor` maps to it by forgetting runs, jobs and parts (`PlaceOf`, `Consolidated`):
listing, reading and dying are stuttering steps, an upload is `Consolidate`, `ClearJob` is `Clear` or `Mark`, `Purge` is `Expire`.

**Pipeline**, the workers and the compactor over the raw bucket. They share nothing else, so a step is one of either side, with the
other's variables unchanged, but for one: the `PutObject` of a flush is at once the `WorkerWrites` of a new object of its job with its
records (`StoreObject`). `lake`, what the workers take for stored, is therefore the union of the objects written (`SameRecords`, a theorem). The
objects a behaviour may write are a constant, with the job and the records of each: a flush may only be stored while an object that
fits it is unwritten, which is a bound of the instance, and an object's key is never used again (its name holds pod, second and six random hex digits,
which the model takes as unique). A failed message may be acknowledged and never stored: `ground` says so, here as in `Worker`.

**PolicyCache**. `heap` holds policy objects, because an update mutates the object in
RAM in place while another request may hold it; `ram` is the reference, `db` the row. A
PUT is four actions (RAM, send, stored, answer) and fails at any of them; the
synchronisation reads rows and applies them later. A policy is reduced to its name and its two rate
limits (0 is null); `Clamp` is the model validator, which `Merge` (setattr) bypasses. The body of an update may name another domain than its path:
the object takes that name, the row is stored under it, and RAM keeps both under the domain of the path until a synchronisation brings the row to its own.

**RateLimiter**. Per second counters `count`, and per task the second it counted itself in
(`key`) and the answer (`got`). `link[p]` is the adapter of a pod: a first ping that fails
disables it for good, be it of a task (`PingFails`) or of the robots service (`RobotsPing`, `RobotsPinged`); the client is set before that ping
ends, and other tasks use it meanwhile. Rates are in tenths so that truncation shows. `IncrAgain`: the
client library repeats a command whose answer is lost.

**Dispatch**. Per request: `todo` and `mapper` follow the mapper, `queue` is the asyncio queue with `End` for `None`,
`sender` and `batch` follow the sender into `send_batch`. A batch is taken by SQS in part (`SQSTakes`), and then answered,
sent again by the AWS client because the answer was lost (`Resend`), or reported as failed altogether because the call raised
(`CallFails`), whether SQS took it or not. `Refuse` is the `ValueError` of a batch over `NUM_MAX_TASKS`, which ends the
request while its mapper stays behind; the limit is a choice of `Init`. `MapFails` is a task that `_map_to_task` cannot make a `ScrapingTask` of: the request ends
with no report, and its sender goes on to send what is in the queue, then waits for an end signal that never comes. Which tasks a chunk takes is left open; that
static ones come first is not. Every HTTP request has an orchestrator, and so a semaphore, of its own
(`producer/dependencies/dependencies.py`), which a single sender never waits for; the queue's `task_done` has no `join`. Requests
share the SQS client only, and no two of them a task.

**Submission**, the abstract promise to a client: tasks of a request get on a queue, maybe more than once; then one report says of
every distinct task whether it was sent, truthfully, or the request is given up, after which tasks may still be sent. `Dispatch` maps to it by `copies`
and `report` (`Owed`): failed tasks may be on the queue, sent ones are.

**Sessions**. `lockq` is the asyncio lock with its waiters in order. `since[k]` holds the keys handed out after `k`, which is what
`last_used` is compared for. A session is pooled, in its grace (rotated or swept, `left` ticks before it is closed) or
closed. `Evict` closes at once and keeps the lock while it does ("evicting"), because `__aexit__` is awaited there;
the entry's limit is drawn from `MinRequests..MaxRequests`. A task that was handed a session
first waits for one of its handles ("waiting"; curl_cffi makes an `AsyncSession` with ten unless it is told, and `client.py:109-114` does not), for as long as others keep them, and only with
a handle ("using") does its timeout run. `Tick` is time: a request ends by `ClientTimeout` from its handle on, sleeps end when due or later. Two history variables: `newer`, the keys handed out
while a task holds its session, and `late`, how long it waited for a handle after the session was retired. An error of closing a session
(`client.py:53-55`, `150-151`) is logged and the session forgotten: it counts as closed.

**Browser**. `count`, `browser`, `driver` are the class attributes; `drivers` and `alive` the processes they stand for. `Begin`
counts before it asks for the lock, as `parse()` does, and `Launch` sets the count to 0 whoever has counted meanwhile. `Reuse` does not
look whether the browser runs. `LaunchFails` has two outcomes, before and after the driver has started: `_playwright` is assigned in
between and the next launch overwrites it. `End` stands for all the rest of `parse()`, which ends with a page's content or an error
and closes what it opened. Errors of closing browser and driver are swallowed (`dinamic_parse.py:45-48`, `51-54`): they count as ended.

**Extraction**. Operators named after the functions of the extractor and the guard. A page is the sequence of its elements in document
order, each with the last element in it, so elements and containers nest at any depth and `select` finds them in order. Each has the selectors it matches, attributes and its own words,
taken to come before those of the elements in it; `Text` (`get_text`) is all the words in an element, hidden or not. A field is a plain string or a spec. `Honeypot` looks at the element itself and for a
`noscript` around it, as the code does; the extractor calls it for containers and for the elements of a field, and `dependencies.py:87-88` always gives it a guard. `StaticOutcome` and `DynamicOutcome` are what each parser then says. `Read` chooses a page, a
configuration and a status, so that TLC compares every combination.

## 3. Runs

`Spec` runs check safety; `FairSpec` runs liveness. Symmetry is used only in safety
runs: over pods, over runs, and over the tasks, keys and sessions of the pool.

| Run | Instance | Checks |
|---|---|---|
| `worker_fleet` | 2 pods, 2 tasks of 2 jobs and a poison message, 2 receives of the tasks and 1 of the poison, requests larger than the slots, 1 stop or crash | `TypeOK`; `OnePlace`: a delivery is in one place of its pod; `StoredOnce`: no delivery is uploaded again once in the lake; `CleanStop`: a pod that stopped holds nothing; `ActiveBound` (the real bound on active tasks); `KeepsPromise` (refinement of `AtLeastOnce`) |
| `worker_live` | 1 pod, fair | `EveryMessageSettles`, `StopEnds`, `RecordLeavesRam` |
| `pipeline` | 1 pod, 1 task received twice, 1 stop or crash; an object for either record and one for both; 1 run in delete mode, 1 failure | `Traced`: what left the queue was given up or is found in the raw bucket, the analytical lake or among the purged; `FewCopies`: at most `receives * (1 + failures)` copies of a message in the analytical lake |
| `compactor_overlap` | 2 runs, 2 objects of 3 records, delete mode, 1 failure | `CompactorTypeOK`, `LeavesMerged`, `PurgeSparesQuietJobs` |
| `compactor_tags` | 1 run, 2 jobs, 3 objects, tag mode, 1 failure, fair | `CopiesBounded`, `KeepsRecords` (refinement of `Lake`), `EventuallyMerged` |
| `compactor_purge` (violation) | 1 run, no failure | `DeleteOnSuccess`: finding 1 |
| `policy_sync` | 2 clients, 2 requests of three bodies, each for the domain it names or the other, 1 failure, fair | `PolicyTypeOK` (the wildcard is always there), `RamFollowsDb` |
| `policy_delete` (violation) | 1 client | `DeleteSticks`: finding 2 |
| `rate_limit` | 2 pods, 4 tasks with limits 1, 1, 2 and none, 1 repeated INCR, a ping of the robots service in one pod, any failures, fair | `RateTypeOK`, `RateBound`, `WaitBound`, `EveryTaskGoes` |
| `dispatch` | 2 requests, the first of 5 tasks with a URL listed twice and one dynamic task, the second with one of the same URLs; chunks of 2, a queue of 1, limit 1 or 2, 1 repeated call, any task unfit to be mapped, fair | `DispatchTypeOK` (with the queue's bound), `Accounted`, `NoDuplicates`, `KeepsAccount` (refinement of `Submission`), `RequestsEnd` |
| `sessions` | 2 tasks, 3 keys, a pool of 2, 4 sessions at a time, limits 1..2, 1 handle, timeout 2, margin, idle time and period 1 | `SessionsTypeOK` (with the sizes), `EveryOpenHasAKey`, `SweepIsThere`; `GraceSuffices` (an action property): a retired session is closed under no request that got its handle within the margin; `CutOnlyUnderPressure`: under any other only when as many other keys as the pool holds were handed out |
| `parsers` | 3 tasks, recycling after 2, 1 failed launch, 1 crash, 1 stop, fair; pages of up to three elements in every shape with every kind of trap, 22 configurations, 5 statuses | `BrowserTypeOK`, `OneBrowser`, `ServedBound`, `DriversBound`, `EveryParseEnds`; `TrapsOnlyInText` (a page reads the same with the matches and attributes of its traps wiped out, and all words that are in no element seen and asked for), `SameVerdict` |

**Bounds.** Two receives give a first delivery and a redelivery racing it or the redrive of one task, or the first
deliveries of two: a batch with two entries, a repeated entry Id, two buffers or one shared, and a poison
message beside a valid one (`FewReceives` is the constraint of `worker_fleet`; `worker_live` has three receives of one task, and the
theorems of section 5 have no bound); two pods give a stale handle in one
pod while another has the newest; one disruption reaches every step of the shutdown and a crash
at every point, and the restart. In the compactor an object with two records lets a part end
inside a batch; two runs give every overlap of reading and deleting; one failure stops a run
anywhere, and the next run must cope. In the pipeline the objects are every batch that two receives of a task can
make, so that no flush lacks its object. In the policy cache two requests and one synchronisation
give every order of update, row read and answer; the three bodies set a default rate, a hard limit below it and both,
so that an update leaves a policy the validator would not have let through. In the limiter three limited tasks are enough to be
denied twice and overtaken. In the dispatch a queue of one batch makes the mapper wait for the sender at once, four distinct
tasks make two static chunks, one of them partial, and a dynamic one, and a limit below the chunk size is refused at every
chunk. In the session pool two tasks and three keys give a session evicted under the request of the other task, rotated and
swept under it, and evicted while the sweep waits for the lock; with one handle the second task of a session waits for the first, while the
session is rotated and its grace runs out; ids are reused once nobody holds them, and `Ask` waits for a free
one. For the browser three tasks with a limit of two give a task queued behind the one that recycles, and a launch that forgets
it. Three elements and two fields give an empty, a blank, a partly blank and a full collection, containers in containers and in traps, and traps before, after, in and around what is
read. The named bounds are `MaxDisruptions`, `FewReceives`, `Objects` (of `Pipeline`), `MaxFailures`, `MaxRequests`,
`MaxRate`, `Bodies`, `MaxRepeats`, `MaxResends`, `SessionIds`, `Browsers`, `MaxCrashes`, `Pages`, `Configs`, `Statuses`, and in `RateLimiter.Tick` seconds in which nobody asks are skipped, as they
leave no trace. In `rate_limit` the robots service pings in one pod (`RobotsPods`) and the task without a limit, which meets nobody, goes first (`MCSpec`); both only keep the
instance small, and the theorems have neither. In `pipeline` objects go stale between runs and expire while one is compacting (`AgesMatter`), which is when
anything in that instance looks at an age. `MaxReceiveCount` and `MaxRetries` are the program's own limits, small here.

**Fairness.** Worker: every await ends (long polling, client timeouts), coroutines get their
turn, Kubernetes restarts pods; weak fairness on each kind of step, on succeeding or failing
alike, and none on stops, crashes or on any call's success. The queue: visibility ends
(weak), and a visible message is eventually handed to pods that keep asking (strong, since a pod
is not always fetching). Compactor: the CronJob comes round, runs go on, minutes pass; failures
are finite, and no object need ever reach its retention, so that `EventuallyMerged` cannot be had by purging. Policies: database calls end and the background task wakes again and again. Limiter:
calls end within `socket_timeout`, time passes. Dispatch: the event loop runs mapper and sender, and calls to SQS end; the AWS client
repeats a call at most `MaxResends` times. Browser: the lock is passed on, and calls to Playwright end, well or badly, on a browser that died too. The latter is an assumption about Playwright: `goto` and the waits have timeouts,
`new_context`, `new_page`, `evaluate` and `content` none of their own; nobody has to start a task or a stop. No liveness is claimed of the session pool.

**Deadlock** is checked everywhere but in `rate_limit`, where all tasks end, in `dispatch`, where all requests do, and in
`parsers`, where a pod stops and a page is read once. Note
that in `Worker` this is the weaker check (restart and redelivery keep the system alive); the real
one is `StopEnds` and `EveryMessageSettles`.

## 4. Findings

1. *Retention purge* (`compact_s3.py:272`) deletes by age alone; `jobs/README.md:64` says raw
   fragments go only after their Parquet is stored. It needs a job that never becomes quiet nor
   big: `PurgeSparesQuietJobs` shows that this is the only way.
2. *Deleted policies return*: a synchronisation holding rows read before the DELETE puts
   the policy back in RAM, and no synchronisation removes one.

Met on the way, without a run of their own:

- Worker: a task out of retries is acknowledged, so its message is deleted (`controller.py:265`, `ground` "exhausted" in `Worker`);
  `worker/README.md:108` says it moves to the dead-letter queue. `README.md:118` says the fetch adapts to the free slots, but
  after an empty fetch ten are asked for (`ActiveBound` is the bound that holds). The retry count counts receives, not attempts.
- Limits: tasks carry a policy's default rate, which may be unset whatever its hard limit, and nothing else reads the hard
  limit (`scraping_service.py:49`; `domain_policy.py:19` calls it strict); null cannot clear a limit by PUT; a host of one label is
  never looked up under its own name; a limit of less than one request per second becomes one. Without Redis `incr` returns 1
  (`redis/adapter.py:80`) and every request goes, where `worker/README.md:61` promises a local fallback that keeps the rates:
  `RateBound` counts only the tasks Redis answers.
- Compactor: one failing job cancels the others of the run and skips the retention phase.
- Dispatch: the semaphore of 20 that `producer/README.md:53` describes is one per request and never more than one permit is
  taken; a `NUM_MAX_TASKS` below ten (`producer/README.md:75` allows it) makes every full chunk raise, and the rest of the request is
  dropped without a report (`Refuse`); a report only goes to the log. A mapper that raises leaves a sender waiting for ever, a sender that raises a mapper.
- Policies: a PUT whose body names another domain than its path writes the row of that other domain, and so its policy at the next synchronisation.
- Sessions: the grace is the client timeout and 5 s (`client.py:92`), but the timeout only starts with one of the session's ten handles: with 60 tasks
  to a pod (`infra/k8s/base/01-config-map.yml:11`) a request that waits for one longer than the margin may find its session closed (`late` in `GraceSuffices`); `client.py:45` says the grace lets connections end without abrupt interruptions.
- Parsers: a browser serves more tasks than `worker/README.md:78` says (`ServedBound` is the bound that holds), and a browser that died
  is handed out until it is worn; a failed launch leaks its driver. The dynamic parser reads a 404 or a 500 page like any other, and
  the static parser takes a collection of blank records for data (`SameVerdict` names both). What an ancestor hides is read all the
  same in a single record, and the words of a trap are part of the text of any visible element around it that a field asks for, though
  the element itself would be dropped. The batch check in JavaScript of `worker/README.md:81` is never called.

## 5. Proofs

`WorkerProofs` proves, for any pods, messages, jobs, limits and batch sizes, from
`SQSAssumption`, `JobAssumption` and `WorkerAssumption` only:

- `TypeCorrect`: `Spec => []TypeOK`. Inductive as it stands; the receive count stays
  within `1..MaxReceiveCount` because of the redrive guard, which is what makes every handle a
  member of `Deliveries`.
- `NoMessageLost`: `Spec => []NothingLost` (a message deleted from the queue is in the lake or was given up), and `AckAfterStore`
  with it. No run asks for either by itself: `KeepsPromise` and `Traced` say more. `NothingLost` is not
  inductive: a deletion is justified by what the flusher holds, that by what a flush had
  stored. The invariant adds `AckAfterStore` (everything in an ack queue or batch is stored or
  given up) and `WrittenIsStored` (a flush S3 has answered is in the lake). `lake` and `ground` only
  grow, so each conjunct survives the steps of other pods; `UploadDone` moves from the third to the
  second, `SendBatch` from the second to the first.
- `AcksAreStored`: `Spec => []AckAfterStore`, from the same invariant.
- `GracefulStop`: `Spec => []CleanStop`. The strengthening is `ShutdownOrder`: one line per stage of
  `_execute_shutdown`, saying which places are already empty for good. Each line holds when the stage is
  entered because of its guard, and after because nothing that is over can refill it.
- `WorkersKeepPromise`: `Spec => KeepsPromise`, step simulation under the invariants above: deletions map to
  `Remove` (or `Reject` for a poison message), `Redrive` to `Bury`, `PutObject` to `Store`, the three ways of
  giving up to `Condemn`, all others to stuttering.
- `DeliveriesInOnePlace` (`[]OnePlace`) and `RecordsStoredOnce` (`[]StoredOnce`). Neither is inductive: a receive may bring a delivery
  that another worker, or another place of this one, already holds, unless its handle is new; and an upload stores
  one batch, which must share no record with another. `OwnInv` adds `Issued` (a handle that is held or
  stored is not newer than the last receive of its message), `OneOwner` (no two workers hold the same delivery), `OneBatch` (the batches under
  way are disjoint) and the buffer's part of `StoredOnce`. While a worker is closing, its buffers may also be under way: that is the exception `OnePlace`
  makes, and why `close` needs the order of the shutdown (`ShutdownOrder`) to be safe.
- `ActiveTasksBounded`: `Spec => []ActiveBound`. What a fetch may still be given counts as active from the moment it is asked for
  (`FetchBound`): at `StartFetch` a slot is free, later answers and tasks only use that up.

`CompactorProofs` proves, from `CompactorAssumption` only, for any jobs, objects, records, runs and either
mode:

- `CompactorTypeCorrect`: `Spec => []CompactorTypeOK`, strengthened by the finiteness of `parts`, whose
  number names the next one.
- `NoRawLost` (`[]LeavesMerged`) and `TagsAreTrue` (`[]TaggedIsMerged`). Neither is inductive: that `ClearJob`
  may delete its batches depends on all that the job has done since it listed them. The strengthening is
  `Accounted`: every record of a listed batch is in the lake, the local file, the open batch or a batch not
  opened yet while the job reads, and in the lake once it has uploaded its last part. `OpenBatch`, `AppendRecord`,
  `SplitFile` and `UploadLast` each move records one place on; the lake only grows, so another run can take
  objects away but never an account.
- `CompactorKeepsRecords`: `Spec => KeepsRecords`, step simulation of `Lake` under the invariants above and `LakeInv`: an object
  is in one place, and what a job has listed, opened or read comes from objects that were written (`Sourced`), so that no
  part holds a record nobody wrote.
- `PurgeIsLate`: `Spec => PurgeSparesQuietJobs`, an action property, for objects that may expire in the middle of a run as well. `Aged` divides them at the moment the runs under way
  began: the others (`young`) do not expire before all of them have ended. `QuietInv` says what a run in progress knows of every object
  that is neither young nor merged, whether it has expired or will during the run (`Following`): while its job is under way it is among the batches; when the job is over, or was not eligible, a young
  object of the job is in the landing zone. It holds when a run starts, because such an object is in its listing, and stale by then, so that a job without a young one is eligible; and to the end, because what is young stays so
  (`IdleRuns` and `OwnBatches` keep jobs and idle runs apart).
- `OneCopyPerFailure`: `Spec /\ []Apart => []CopiesBounded`, under two hypotheses. `Alone`: there is one run at a time, as `concurrencyPolicy: Forbid`
  (`infra/k8s/base/09-cronjob-compactor.yaml:14`) gives if nobody launches one by hand; two overlapping runs do upload a record twice without any failure.
  `Apart`: the objects written share no record, which is the workers' doing and no longer a hypothesis below. `Counted` bounds the copies by the failures alone until the run has uploaded the record,
  and by one more after; a run that is interrupted or cannot delete pays for the next copy with its failure. `Once` says that a job reads a record from
  one object, once, and that what it lists stays there for it.
- `NothingMadeUp`: `Spec => []Genuine` of `Lake`, that each record in the analytical lake is one of a written object. It is proved of the
  abstract specification (`LakeGenuine`), where four actions have to be looked at, and holds of the runs because they implement it.

`PipelineProofs` proves, from the assumptions of both sides and `PipelineAssumption`, for any pods, messages, jobs, objects and runs:

- `ImplementsWorkers` and `ImplementsCompactor`: a behaviour of `Pipeline` is one of `Worker` and one of `Compactor`, step by step, so that every theorem above holds of it.
  (`CompactorProofs` is instantiated as a whole; `SameJobStep`, `SameRunStep` and `SameOutside` say that its compactor is the one `Pipeline` runs.)
- `SidesAreTied`: `PipelineSpec => [](SameRecords /\ ObjectsApart)`. A new object takes its records from a flush S3 has not answered, and by `StoredOnce` no
  record of such a flush is in the lake, so in no other object.
- `NothingUntraced`: `PipelineSpec => []Traced`. A deleted message that was not given up has a record in the lake (`NoMessageLost`), so in a written object
  (`SameRecords`), and that is in the raw bucket, merged or purged (`NoRawLost`).
- `FewCopiesHold`: `PipelineSpec => []FewCopies`, under `Alone`. `ObjectsApart` discharges `Apart`; a record in the analytical lake is of a written object (`NothingMadeUp`), so
  in the lake of the workers, so of a receive that has been (`Issued`); each is in at most `1 + failures` parts, and `PairsBounded` counts the cells of
  that table.

`RateLimiterProofs` proves, from `RateLimiterAssumption` only, for any pods, tasks, limits and repeats:

- `RateTypeCorrect`: `Spec => []RateTypeOK`.
- `RateLimitHolds`: `Spec => []RateBound`. The invariant says that tasks holding a count under one key hold different
  counts, none above the key's counter, and that those that went were within their limit; the counts of those with a limit
  of at most n are then an injection into 1..n.
- `WaitIsBounded`: `Spec => []WaitBound`. A task is denied at most once in each second of `Denials`, the seconds up to its own in which
  somebody was counted; each of them let some other task go, the first one counted, except those of `Lost`, which are at most as many as
  the repeated INCRs. The seconds that let a task go are an injection into the tasks that went.

`DispatchProofs` proves, from `DispatchAssumption` only, for any requests, tasks, chunk and queue sizes and limits:

- `DispatchTyping`, `ReportsAccount` (`[]Accounted`), `NothingTwice` (`[]NoDuplicates`), and `DispatchImplementsSubmission`
  (`Spec => KeepsAccount`). None but the first is inductive. The strengthening is about where a task is: `Placed` says that the tasks
  to map, the batches of the queue, the batch being sent and the tasks answered are disjoint and together the distinct tasks of the
  request, with the end signal last; `Summed` that the sums are the cardinalities of what was answered and of the errors, one for a task;
  `Sent` that an answered task without an error is on its queue; `Known` that only distinct tasks of some request have copies, one and the repeated calls at most. `Put`, `Take` and
  `Result` each move tasks one place on.

`SessionsProofs` proves, from `SessionsAssumption` only, for any tasks, keys, sessions, sizes and times:

- `SessionsTyping`, `NoSessionIsLost` (`[]EveryOpenHasAKey`), `SweepRuns` (`[]SweepIsThere`), `CutUnderPressure`
  (`[]CutOnlyUnderPressure`), `GraceIsEnough` (`Spec => GraceSuffices`). The strengthening: `Asking` and `Evicting` (who waits for the lock
  has asked for a key and holds nothing; only its head evicts, with room made), `InPool` (the session a task uses is pooled under its key unless
  it is retired or cut, and `newer` holds the keys handed out after that key), and `InGrace` (the ticks a session in its grace has left, those a request on it has waited for a handle since, and those it has run are together at least
  the grace, unless it waited the whole margin: so when none is left, a request that did not wait so long has had its whole timeout). Eviction takes the key all others are newer than, so that a
  request it cuts has seen as many as the pool holds.

`ParserProofs` proves, of the browser from `BrowserAssumption` only, for any number of tasks, limit, failures and crashes:

- `BrowserTyping`, `BrowserIsOne` (`[]OneBrowser`), `BrowserIsRecycled` (`[]ServedBound`), `DriversAreBounded` (`[]DriversBound`). The
  strengthening ties `served` to `count` and to the tasks that wait for the lock: each task served since the launch was counted
  since, but for those that were waiting then.

`PolicyProofs` proves, from `PolicyAssumption` only, for any requests, domains and policies:

- `PolicyTypeCorrect`: `Spec => []PolicyTypeOK`, with the wildcard always in RAM. It rests on a pigeonhole argument about the model's heap
  (`NewObjectFree`): RAM holds one object of a domain and every request at most one, so that of `Cardinality(Clients) + 2` objects a new
  policy always finds one that nothing refers to, and never shares the object of another.

`ParserProofs` also proves, for any configuration, status and record, and for any page of `PagesAssumption` (elements one in another, as
they are in any document that was parsed; how many there are and what they hold is open):

- `VerdictsAgree`: `SameVerdict` whatever has been read, by cases on the status and the shape of the result (`ExtractShape`: one record, or a list
  with a record of each container). The run checks it on small pages, the theorem on all.
- `TrapsHaveNoOtherSay`: `TrapsOnlyInText` whatever has been read. `Masked` keeps what the guard looks at (`MaskedKeeps`), so that the wiped page has the same traps. Its containers are the
  same, since they are no traps and so are seen (`SameContainers`); in each, or in the document, a field finds the same elements, since what it keeps is seen (`SafeIsSeen`, `SameElements`);
  and each has the same attributes and, since all that is in it is in an element seen and asked for, the same words (`SameSelf`, `SameMatch`, `SameText`).
  Beneath is what `InOrder` computes (`InOrderUpToDef`, `InOrderType`), by induction over a set in place of a formula (`UpTo`), which the least element of a set of
  naturals gives (`LeastNat`) and the prover can instantiate.

`OwnInv`, `LakeInv`, `Aged` and `QuietInv`, `CopyInv` (in both modes) and `WaitInv` were first checked with TLC as invariants of the instances of the runs.

Model-checked only: the liveness properties (`EveryMessageSettles`, `StopEnds`, `RecordLeavesRam`, `EventuallyMerged`, `RamFollowsDb`,
`EveryTaskGoes`, `RequestsEnd`, `EveryParseEnds`), since the prover does not do fairness or ENABLED. Every other property of a passing run is a
theorem; `CopiesBounded` and `FewCopies` are theorems about one run at a time, which is what their runs have.

## 6. What is left out

- Robots rules, headers and proxies. In `Worker` a task has an outcome, not a page; `Extraction` has small pages, where CSS
  selectors are labels, a style either matches a pattern of the guard or does not, and the words of an element are not split around the elements in it.
- Navigation, clicks, scrolling and waits of the dynamic parser: the work between `Open` and `End`.
- `get_policy` and what a task takes from its policy; the validation of requests; a crash of the producer, which loses what it has not sent,
  as nothing is persisted.
- `SecureNetworkClient.close`, which nothing calls, `filter_playwright_locators_in_batch`, which nothing calls, and the parser factory.
- The cap of ten requests per fetch and the cap of ten messages per acknowledgement request: the former
  only limits how much is lost together, the latter is `AckBatch`.
- Objects the compactor cannot parse: workers write none; a read that raises is an `Abort`.
- Local disk space of the compactor and of MinIO; clock skew between pods; loss of Redis' data.
- The robots service's cache, except that it shares (and may disable) the limiter's adapter.
- The settlement of several messages at once: `worker_live` has one task, so that a rejected batch or a failed deletion of a poison message
  beside valid tasks is only seen by the safety properties of `worker_fleet`.
- Retries inside the AWS clients: an operation that is retried succeeds or fails as one.

## 7. Plan

Done: `SQS`, `JobBuffer`, `Worker`, `AtLeastOnce`; `Compactor`, `Lake`; `Pipeline`; `PolicyCache`; `RateLimiter`; `Dispatch`, `Submission`; `Sessions`;
`Browser`, `Extraction`; every invariant and action property of theirs proved, the three refinements of abstract specifications, and the
two of the composition. Left:

1. The producer in front of `Pipeline`: a task that is reported as sent is a message of the queue (`Dispatch` has its own model of SQS).
2. The robots cache, if a property of the pipeline comes to depend on it.
