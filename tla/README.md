# ShortHub in TLA+

A verification development for the ShortHub URL shortener (Go, gin, gorm over
PostgreSQL, go-redis). TLC checks the models on small instances; TLAPS proves
the theorems for every value of the constants. Paths below are relative to the
repository; `link_service.go` and the like are under `internal/`.

## 1. The system

ShortHub is one Go process. Every HTTP request is served by a goroutine of its
own; the only state they share is in PostgreSQL, in Redis, and in three
buffered channels. There is no lock and no database transaction anywhere: every
multi-step operation is a sequence of independent remote calls, and any other
request may run between two of them.

| Component | State | Operations | Talks to | What is hard | What makes it correct |
|---|---|---|---|---|---|
| Link directory and redirect (`link_service.go`, `link_repo.go`, `redis.go`, `link_handler.go`) | table `short_links` (unique index on `short_code`), Redis keys `sc:<code>` with a ttl | Create, BatchCreate, Resolve, Update, Delete, ForceDelete, IncrClick | PostgreSQL, Redis | cache-aside fills and invalidations that overtake one another; `Save` that re-inserts a deleted row; ignored cache errors; codes that are reused | a code names one link; what a visitor is told was true during his visit; a url never strays to another code |
| Access-log pipeline (`link_service.go`) | `logChan` (10000), four workers with a batch each, `access_logs`, the fallback file | RecordAccess, logWorker, writeBatchWithRetry, writeToFallback, Shutdown | link handlers, PostgreSQL, main | retries of writes that had committed, a full channel, draining at shutdown, timeouts | an entry taken is kept, unless the process is killed, and once, unless a write was doubtful |
| Lifecycle (`cmd/server/main.go`) | none of its own | SIGTERM, `srv.Shutdown` (10s), `linkSvc.Shutdown` (5s), audit and batch shutdown, exit | all services | timeouts, `log.Fatalf` in the middle | nothing buffered is lost on a clean exit |
| Batch jobs (`batch_service.go`) | table `batch_jobs` (unique `idempotency_key`), `jobChan`, workers | SubmitAsync, SubmitCSV, processJob with rollback, Shutdown | link service, PostgreSQL | crash between insert and enqueue, full queue, idempotency key of a failed job, rollback that fails in part, links public before the batch is decided | one job under one key; all of its links or none; an outcome told stays; a job ends |
| API keys (`apikey_service.go`, `middleware/apikey.go`) | table `api_keys`, Redis counters per key prefix and minute or day, negative cache | Create, Validate, CheckRateLimit, CheckQuota, Revoke, GetUsage | Redis, PostgreSQL | INCR without EXPIRE, local and UTC days, shared prefixes, revocation in two steps, a cache of refusals | a key its owner knows revoked does nothing; a good key is not shut out; rate and quota bound what is let through |
| IP rate limiter (`link_service.go`) | Redis counter per address | CheckRateLimit | Redis | INCR without EXPIRE | at most the limit a minute, and never blocked for good |
| Analytics ingest (`analytics_service.go`) | Redis dedup keys and minute buckets | EnrichAccessLog, CheckDedup, RecordRealtime | log workers, Redis | get-then-set by several workers, buckets that expire, a default that overwrites `is_unique` | a repeat has a first; the realtime count is that of the visits counted |
| Analytics queries (`access_log_repo.go`, `analytics_handler.go`, `admin_handler.go`) | none | Summary, time series, breakdowns, realtime, overview | PostgreSQL, Redis | date ranges, filters, one number computed in several places | reports agree with one another and with the visits |
| Audit trail (`audit_service.go`) | channel (5000), two workers, `audit_logs` | Record, worker, Shutdown | handlers, PostgreSQL | one failed write loses a batch; Shutdown without a limit | an entry taken is written once; what is written happened |
| Accounts (`auth_service.go`, `middleware/auth.go`) | table `users` (two unique indexes); tokens, kept by clients | Register, Login, token check, admin check | PostgreSQL | check-then-insert with errors ignored; a role remembered in a token | a name or address has one account; admin rights end |
| QR encoder (`qrcode_service.go`) | none | encodeQR | - | sizes computed in two places, patterns drawn and written over in turn | no step spoils a pattern drawn; what is lost of the data is known |
| Validation, configuration, pages, migrations, materialized view | none | - | - | - | - |

Interactions: handlers call services; the redirect handler resolves, then
starts IncrClick in a goroutine and hands an entry to the access log; log
workers call the analytics service before they write; batch workers call the
link service; main stops the HTTP server, then the link service, the audit
service and the batch service, in that order.

`PROJECT.json` lists the hazards of this code line by line, with the properties
that watch over them, or why none does.

## 2. Modules

| Module | Models | Run by |
|---|---|---|
| `LinkTypes` | rows of `short_links`, when a row may be served, the answers to a request | (extended) |
| `LinkDirectory` | abstract: what the link service promises | property `ImplementsDirectory` |
| `LinkStore` | Create / Resolve / Update / Delete / ForceDelete, one remote call per step | `MCLinkStore` |
| `LinkStoreProofs` | theorems about `LinkStore`, which implements `LinkDirectory` | tlapm |
| `LogDelivery` | abstract: what becomes of an access-log entry | property `DeliversLog` |
| `AccessLog` | the access-log pipeline and the shutdown around it | `MCAccessLog` |
| `AccessLogProofs` | theorems about `AccessLog` | tlapm |
| `BatchJobs` | the batch service, with shutdown, crash, restart and meddling owners | `MCBatchJobs` |
| `BatchJobsProofs` | theorems about `BatchJobs` | tlapm |
| `Process` | what the following share: phase, clock, calls that may fail | (extended) |
| `AuditTrail` | the audit service | (extended) |
| `ApiKeys` | creation, validation and revocation of keys; their audit entries | (extended) |
| `Accounts` | registration, login, tokens, admin rights | (extended) |
| `Backoffice` | the composition of `Accounts`, `ApiKeys` and `AuditTrail` | `MCBackoffice` |
| `BackofficeProofs` | theorems about the composition | tlapm |
| `Limits` | the three Redis counters: per address, per key and minute, per key and day | `MCLimits` |
| `LimitsProofs` | theorems about `Limits` | tlapm |
| `Reports` | what the analytics and admin pages compute, as operators on rows | (extended) |
| `Visits` | click counter, de-duplication, realtime buckets, rows | `MCVisits` |
| `VisitsProofs` | theorems about `Visits` and `Reports` | tlapm |
| `QrCode` | encodeQR | `MCQrCode` |
| `QrCodeProofs` | theorems about `QrCode` | tlapm |
| `Recursion` | lemmas on induction over sets, recursive functions, sums over sets | tlapm |

### LinkStore

`links` is the table, `cache` the Redis keys of codes, `now` the clock both
read. `Procs` are goroutines serving one request each: `pc[p]` is the remote
call p makes next, `held[p]` the `ShortLink` struct it holds, `visit[p]` the
code a visitor asked for and the url the cache gave, `reply[p]` the answer
last sent. `issued` and `met` are history variables that no action reads: the
keys of all rows ever inserted, and the id a code had when the visit arrived.

| Code | Actions |
|---|---|
| `CreateWithBatchID` (link_service.go:253-301) | `CreateCheck` (ShortCodeExists), `CreateInsert` (INSERT under the unique index), `CreateFill` (cache SET) |
| `Resolve` (322-362) | `VisitGet` (cache GET), then `VisitHit` (+ `VisitDrop`) or `VisitMiss` (+ `VisitWarm`) |
| `Update` (364-394) | `UpdateFind`, `UpdateSave` and, when the UPDATE of gorm's Save met no row, `UpdateReinsert`, then `UpdatePurge` (cache DEL) |
| `Delete`, `ForceDelete` (396-423) | `DeleteFind`, `DeleteUnlist` (cache DEL), `DeleteRemove` |

`BatchCreate` and the batch worker call `Create` item by item, so they are
sequences of these actions by one process. `DbError` is a statement that fails;
a Redis call that fails is a choice inside the action that makes it, for its
error is ignored. `Restart` drops every request in flight and keeps both
stores. gorm v1.25's `Save` is modelled by what it sends: an UPDATE by primary
key and, when that affects no row, an INSERT with ON CONFLICT (id) DO UPDATE.
go-redis sends no expiry with a ttl that is not positive, so `Deadline` is
`Forever` for a link that has already expired.

Left out: titles, click counts and batch ids (no decision modelled here reads
them), validation (every request is one that passed), and reads that answer
nothing but their caller (`List`, `GetByID`). A statement reported failed that
nevertheless took effect is not modelled here (the INSERT of a batch's item
is, in `BatchJobs`).

### LinkDirectory

The abstract service has a directory `links` and visits that are asked, decided
and delivered. A verdict must be true of the directory at the instant it is
decided, which lies between question and answer: not found if the code is free,
inactive or expired if its link is, a redirect attributed to a link only if
that link exists and may be served then. Updates keep a link's id, code, url
and owner; a withdrawn link may come back only under its own key and while its
code is free. The mapping takes `decided` from the label a visit has reached
and everything else from the variables of the same name.

It deliberately does *not* promise which url a redirect carries, nor that a
code without a link is not redirected: the code keeps neither (section 5).

### AccessLog

`main`, `timedOut`, `hasFile` are main and Shutdown; `waiting`, `handling`,
`logChan`, `refused` the visits on their way in; `wpc`, `batch`, `back`,
`tries` the workers (`back` is where a worker goes on after a flush); `rows`,
`fileLines`, `stderrLines` what was kept; `doubted`, a history variable, the
entries of a write that committed and was reported failed.

| Code | Actions |
|---|---|
| `Redirect` up to RecordAccess, `RecordAccess` (link_service.go:226-243) | `Arrive`, `RecordAccess` |
| `logWorker` (116-174) | `Take`, `TickFlush`, `SeeStop`, `DrainEnd`; `Flush` is the closure of that name |
| `writeBatchWithRetry` (176-197) | `Write`, one attempt: `WriteOk` or `WriteFailed` |
| `writeToFallback` (199-212) | `Spill`, one record a step |
| `Shutdown` (83-109) | `WorkersAwaited`; closing stopCh is part of `ServerClosed` |
| main (cmd/server/main.go:179-195) | `Sigterm`, `ServerClosed`, `Exit`; `Kill` is SIGKILL |

Channel and batches are sets, because with several workers no property depends
on the order of entries. The clock is not modelled: a ticker may fire and a
timeout may expire at any moment. `Shutdown` after its timeout closes the
fallback file while workers may still run, and they run on until `Exit`.

### LogDelivery

Each entry is `none`, `refused`, `pending` or `kept`, in that order and never
back, and the process may end `clean` only when nothing is pending. `DeliversLog`
maps an entry in the channel or in a batch to `pending` until a row or a stderr
line exists, and the end of a process whose shutdown did not time out to `clean`.

### BatchJobs

`jobs` and `links` are the two tables, a row's id its position; `queue` is
`jobChan`; `caller[c]` a submission in progress, `worker[w]` the job at hand,
the ids `made` so far and the number of `bad` items; `edit` a link whose owner
has read it and will save it. `lost` (jobs a failed statement or a crash left
undecided) and `spared` (links a rollback left behind or knows nothing of) are
histories.

| Code | Actions |
|---|---|
| `SubmitAsync`, `SubmitCSV` (batch_service.go:55-110) | `Submit` (size check, key, first look), `SubmitInsert`, `SubmitRefind` after a duplicate key, `SubmitSend`, `SubmitRefuse`; `Answer` is the handler's 202 |
| `processJob` (150-227) | `WorkerTake`, `WorkerStart`, `WorkerItem` per item, `WorkerUndo` per deletion, `WorkerFinish` |
| `Shutdown`, main, start-up | `Shutdown`, `Exit`, `Crash`, `Start` |
| link service, meanwhile | `Squat` (a single link), `OwnerDelete`, `EditFind`, `EditSave` |

An item's creation is one step here, its calls being `LinkStore`'s: a creation
that loses the race for a code fails like one that finds it taken. An INSERT
that takes effect and is reported failed makes a bad item all the same, whose
link the rollback does not know of; `AllOrNothing` excepts these links, those
whose deletion failed, and those an owner's edit put back, and no others.

`Key` hashes what `Text` gives: the sorted urls joined by bars. A url is a
sequence of `Pieces`, what stands between the bars in it, so that one url and
two may have one text, as in the code, where `https://a/|https://b/` is one url
or two. Batches of one text share a job whatever else they ask for; the property
`IdempotentAnswers` says that the answer is the one job under the text, and
claims no more (section 5).

### Backoffice: Accounts, ApiKeys, AuditTrail

| Code | Actions |
|---|---|
| `Register` (auth_service.go:29-55) | `AskAccount`, `RegisterName`, `RegisterMail` (errors count as "free"), `RegisterInsert` under both unique indexes |
| `Login`, token checks, `RequireAdminMiddleware` | `Login`; `ValidToken`, `Acts`, `Administers` |
| the role column, set in the database | `Promote`, `Demote` |
| `APIKeyService.Create` | `AskKey`, `InsertKey` |
| `Validate` (apikey_service.go:74-103) | `Present` (negative cache), `FindKey` (active rows only), `DenyKey`; `UseKey` is the handler behind |
| `Revoke` (137-154) | `AskRevoke`, `RevokeFind`, `RevokeUnblock` (cache DEL), `RevokeUpdate` |
| `AuditService` | `Record` (in `RecordCall`, after the operation), `AuditTake`, `AuditTicker`, `AuditSeeStop`, `AuditDrained`, `AuditStop`, `AuditExit` |

An audit entry is the number of the operation it tells of, in the history
`done`. A flush is one step, for nobody else sees the worker's batch. `told`
marks a key whose owner was answered that it is revoked, `late` a request that
came after. The rate and quota stages of a key's request are in `Limits`.

### Limits

`counter` holds the Redis counters that exist, with their deadlines; `gate[g]`
is the stage at which a request stands (`incr`, then `expire` when INCR
answered 1); `hits` records what each INCR that Redis answered led to. Counters
are named by the address, by prefix and minute of the clock, or by prefix and
*local* date; the last expires at midnight *UTC* (`Truncate`). A request with a
key passes the stages `rate` and `quota`; the address stage in front of them
touches none of their counters and is explored on its own.

What the code gives, and the properties state: fewer than twice the limit in
any span of a minute, for the window is fixed; per key, no more than the limit
in a minute of the clock; no more than the quota in the part of a local day
that lies in one UTC day (the counter restarts at UTC midnight under the same
name). An INCR may take effect unanswered (`Unanswered`): the Redis client sends
it again, so that a request counts twice and the first INCR answers 2, or gives
up and the request passes. No EXPIRE follows then. An address is refused with
cause unless the EXPIRE of its counter failed or was late, or an INCR of it went
unanswered.

### Visits and Reports

`Redirect` starts a goroutine (`counting`, then `IncrClick`) and offers an
entry (`Queue`). A worker takes a batch (`Take`), judges each entry by
`DedupGet` and `DedupSet`, counts it in its minute's bucket (`RecordRealtime`,
in the same step: nobody sees the pause between) and writes the rows (`Write`,
one attempt). An attempt that fails is made again (`NextTry`) up to `MaxTries`
times, and so is one that committed and whose reply was lost: its rows are there
already, and the next attempt stores the visits once more. `copy` tells the rows
of a visit apart, which the table does not; `Doubted` are those in excess or of
visits given up on. How entries travel and drain, and the fallback file, are
`AccessLog`'s subject. `EditFind` and `EditSave` are an update that saves every
column of the row it read. An INCR of a bucket that takes effect unanswered is
not modelled.

`RowOf` stores `unique = TRUE` whatever the verdict: the column's default
replaces the zero value (section 5). Two *firsts* within one window are
reachable, two workers having read before either wrote; that is why
`RepeatsHaveFirst` says that a repeat has a first, and not that there is one.

`Reports` gives each query as an operator on the set of rows: `Where` and
`Between` select, `CountBy` groups, leaving out the empty value as the SQL
does, `Points` buckets by time in a zone. A user agent is the set of words the
code looks for.

### QrCode

The encoder's steps on a matrix whose modules hold a fixed colour or the number
of the data bit laid there. `Finders`, `Alignments`, `Timing`, `DarkModule` and
`Format` are functions from modules to colours (`Format` from two copies of its
bits, `FirstCopy` and `SecondCopy`); `PlaceRow` is one row of the zigzag.
`PatternsIntact` compares the finished matrix with each of them: it says that
what the encoder draws is not spoilt, and nothing of what it does not draw, the
version information of versions 7 and up (section 5). `LossAccounted` counts the bits that arrived: lost are those cut by `addECC`,
those beyond the symbol's modules, and those under the format information; and
of the address (`Lost`) no more than these.

## 3. Runs

| Run | Instance | Shows |
|---|---|---|
| `links` | 2 requests, 2 users, 1 code, 2 urls, 2 links ever, clock 0..2, one expiry instant, database, Redis and server faults | `TypeOK`, `UniqueCodes`, `UrlProvenance`, `ImplementsDirectory` |
| `access_log` | 3 entries, 2 workers, channel of 2, batches of 2, 2 attempts, faults db, lostReply, kill; no symmetry | `TypeOK`, `OnePlace`, `NoneStranded`, `OnceUnlessDoubted`, `FallbackComplete`, `DeliversLog`, `EntriesSettle` |
| `batch_jobs` | 2 callers, 2 workers, channel of 1, 2 jobs, 1 custom code, batches of one and two items, one of them with a refused url, one with another code and one with another url under the key of one or the other; one event of db, lostReply, crash, shutdown, squatter or owner | `TypeOK`, `IdempotentAnswers`, `AllOrNothing`, `CountersAgree`, `CleanStopSettles`, `RollbackSparesOthers`, `OutcomeFinal`, `JobsSettle` |
| `backoffice` | 2 registrations at a time over 2 names and 2 addresses, up to 2 accounts before, 1 key, 2 callers, 2 audit workers, channel of 1, batches of 2, 4 requests, one fault, clock 0..2 | `TypeOK`, `OneAccountEach`, `AdminRightsEnd`, `RevocationHolds`, `DeniedOnlyIfRevoked`, `AuditTruthful`, `AuditedOnce`, `AuditDrains` |
| `limits` | 1 address with limit 2; 2 keys with one prefix, rates 1, quotas 1 and 2; day of 4 ticks, minute of 2, zone 1 east; 2 goroutines, one fault of redis, lostReply or a kill | `TypeOK`, `BurstBound`, `MinuteBound`, `QuotaBound`, `RefusedForCause`, `UsageTruthful` |
| `visits` | 3 visits by a phone or a bot to a link, 2 workers, channel and batches of 2, 2 attempts, 1 update, one fault of db, lostReply, redis or a kill, clock 0..2 | `TypeOK`, `ClicksExact`, `RepeatsHaveFirst`, `RealtimeExact`, `ReportsReconcile` |
| `qr` | the longest addresses of versions 1, 3, 4, 5 and 7, and one of version 2 | `PatternsIntact`, `LossAccounted` |
| `unknown_code_404`, `recycled_code_url`, `sigterm_drains`, `batch_resubmission`, `unique_visitors` | no faults | counterexamples, section 5 |

Bounds, and why they are enough. Every race of `LinkStore` is between two
requests over one code: codes do not interact except through `MaxLinks`, two of
which are needed so that a code can be deleted and taken again. With one expiry
instant and a clock of three a link is created before, at and after its expiry,
and with `DayTTL = 2` a cache entry without expiry lapses within the run.
`MaxLinks` and `MaxTime` bound the guards of `CreateCheck` and `Tick`; nothing
else is cut off. In `access_log` three entries fill the channel while a worker
has a batch, or leave one worker with a full batch and the other with a half-full
one; two attempts distinguish the last from one that is not. A full disk is left
to the proofs: `FallbackComplete` excepts it. Processes, users, codes, urls,
entries and workers are interchangeable in the code, hence the symmetry sets of
the runs that check no liveness.

In `batch_jobs` two jobs and a channel of one make the queue fill while a worker
is busy, and a batch of two has a first link that is public before the second
item fails. `MaxTrouble` counts everything that does not come from the service
itself; with one such event every failed statement is reached at every place. The
action constraint `MCTwinsLater` lets the batches that share a key with another
come when the key has its job; who inserts first is explored with two
submissions of one batch.
In `backoffice` one key is enough, for keys meet only in the channel; four
requests create it, present it, revoke it and present it again. In `limits` a
request lasts at most one tick (`Patience`): go-redis gives a call up after
seconds, a tick being half a minute or more; a request with a key costs two of
`MaxRequests`. The clock reaches one local and one UTC midnight, which differ.
In `visits` the action constraint `MCApart` explores click counters and logs
one with the other at rest: no action of the one reads or writes a variable of
the other, save the visits themselves. `MCFirst` lets the first visit be the
phone's, at time 0: who is who matters to no race, and the days and minutes the
other visits fall into are still free. One fault is a failed call, a doubtful
one, or a restart, at every place; two attempts are one that is made again and
one that is not. There, the window is shorter than the
run, a bucket's life too, and hour and day are the same length, since no report
compares them; the time series is bucketed by hour, day and week in two zones
all the same. In `qr` the addresses are those at which a version is full, where
cutting begins; version 7 is the first with more than two alignment positions.

Deadlock is checked in `links` and `batch_jobs` (a server never stops, or is
started again) and not in the others, where the process ends or a bound of the
model stops it.

Fairness of `batch_jobs`: weak fairness of each caller's and each worker's next
step, nothing else. A goroutine that can run is scheduled and a statement
returns or fails; no client has to submit, no process to stop or start.
`JobsSettle` excepts the jobs in `lost`.

Fairness of `access_log`: weak fairness of each handler's send, of
each worker's next step, and of main's waits: a goroutine that can run is
scheduled, every statement returns or fails, and both waits of a shutdown have
timeouts. Nothing makes a visitor come, a signal arrive, the database recover
or a kill happen. `EntriesSettle` excepts a process that ended.

Every property has a mutant of the code it breaks under (`PROJECT.json`,
"mutants"): for instance no unique index, the drain loop without its last
flush, a hit that trusts the cache without looking at the row.

## 4. Proofs

Proved with TLAPS for every value of the constants that satisfies the named
assumptions of the modules. They ask little: bounds and periods are numbers, a
capacity is not 0, a minute is no longer than a day, markers such as `NoKey` are
not values, a batch is a sequence of rows, accounts that exist at the start have
names and addresses of their own. Two sets are finite because the model counts in
them: entries (`LogAssumption`) and links of `Visits` (`VisitAssumption`; the
overview adds over them). Users, codes, callers, workers, keys and addresses may
be infinite sets. With no bound on bounds, what is proved of histories of
`MaxRequests` requests or `MaxTime` ticks is proved of histories of any length.

Each module of proofs states one inductive invariant, `IInv` (in the two oldest
modules several in turn), one lemma per action that it is kept, and one theorem
per property, which follows from it. Every `IInv` was first checked by TLC on
the instance of its run.

`LinkStoreProofs`:

- `TypeCorrect`: `Spec => []TypeOK`. The conjuncts that tie `held` and `visit`
  to `pc` are what lets the later proofs know that a struct is there.
- `KeysInvariant`: `UniqueCodes` is not inductive on its own. `UpdateReinsert`
  writes back a struct read long ago, so one has to know that rows and structs
  in flight carry issued keys, that ids below `nextId` are the only ones
  issued, and that an id was issued once. `Keys` says so.
- `CodesAreUnique`, from `Keys`: an insert finds its code free; an update finds
  its code free or held by its own id.
- `UrlsComeFromTheirCode`, from `Keys`: a url reaches the cache only from a
  struct whose key was issued, under that struct's code.
- `StoreImplementsDirectory`, `Spec => ImplementsDirectory`. Beside `Keys` and
  `UrlProvenance` it needs `OwnersStay`: whoever holds a struct of a link, or
  writes one back, leaves its owner, and a request under way has answered
  nothing. Each action is a step of the directory (`VisitGet` asks, `VisitHit`
  and `VisitMiss` decide, the last call of a visit delivers) or changes nothing
  there (`*Shown` lemmas).

`AccessLogProofs`:

- `LogTypeCorrect`, including the channel's capacity (finite cardinality
  arithmetic) and the number of attempts.
- `EntriesInOnePlace`: `OnePlace` is inductive given types.
- `StopInvariant`: once a worker drains, no handler is left; once it is on its
  last flush or done, the channel is empty; a shutdown that did not time out
  found all workers done. `NoEntryStranded` follows from it.
- `KeptOnceUnlessDoubted`, strengthened by: an entry in a batch that already
  has a row is doubted.
- `FallbackIsComplete`, from `StopInvariant`: with the file open and no
  timeout, every spill writes both outputs.
- `PipelineDelivers`: `Spec => DeliversLog`. `StepDelivers` maps each action to
  a step of `LogDelivery` (`RecordAccess` to `Offer`, `Write` and `Spill` to
  `Keep`, the steps that end the process to `End`) or shows that no fate
  changes. `OnePlace` is needed to know that a refused entry is in no batch,
  `StopInv` that a clean exit finds channel and batches empty.

`BatchJobsProofs`: the invariant says of every job what its row tells
(`JobOK`: a completed job has each item's one link and all of them stand, a
failed one has none but the spared ones, one that is undecided is in somebody's
hands or lost), and of every caller and worker what it knows of its job: one
about to send has a fresh job (`Fresh`), one at work made exactly the job's
links (`MadeFor`), one rolling back has deleted those it has passed
(`Undoing`). `Apart` says that no two of them hold one job. From it, without
further induction: `OneAnswer`, `CompletedOrUndone`, `CountersTellTruth`,
`CleanStop`, and the action properties `RollbackKeepsToItsJob` and
`OutcomesStand`.

`BackofficeProofs`: three invariants side by side, and lemmas that a step of one
service keeps the others' (`AccountInv`, `KeyInv`, `AuditInv`).

- `AccountsAreUnique`: a row is appended only if both indexes are free.
- `DismissedAdminsEnd`: a token that says "admin" is of an admin, or expires
  within `Life` of a dismissal of its account (`Backed`), however often the role
  was given back in between.
- `RevokedKeysStayDead`, `NegativeCacheSound`: a key that was told revoked, or
  is refused by the cache, is inactive, and no step brings a key back; a request
  that came after the owner was told never gets to act (`CallOK`).
- `TrailTellsTruth`: an operation of the trail is one on a key that exists, by
  its owner, and follows the key's creation.
- `TrailHasNoDuplicates`, `ShutdownLosesNoEntry`: an entry is in the hands of
  one request, in the channel, in one worker's batch, in a row, or lost, and in
  only one of these places; and after a clean exit only in the last two.

`VisitsProofs`: four parts, by subject.

- `ClicksAreExact`: a counter and the goroutines still to run add up to the
  visits; no counter, nor a count that an update read, is ahead of them.
- `RepeatsFollowFirsts`: every dedup key was set by a visit judged first, at the
  time its deadline tells.
- `RealtimeIsExact`: a bucket that lives as long as its minute holds exactly
  the visits whose INCR Redis answered in it, from the first one on; one that
  may lapse earlier, no more than those.
- `ReportsAgree`: the summary, the time series, each breakdown and the overview
  are sums over parts of one set of rows, and as many rows are in the parts as
  in the set (`SumOfParts`); a breakdown that leaves out rows without a value
  counts no more than the summary. The set itself (`RowsInv`) has one row of each
  visit that a write is known to have stored, and besides only those of attempts
  taken to have failed (`RowsCounted`).

`LimitsProofs`: the argument follows one counter from the INCR that creates it,
at time s, to its end. `Timed` says when it ends; `Tells` what it has counted
since s, requests between INCR and EXPIRE included (`Made`); `Apart` how far
from s everything lies that earlier counters of the name counted: for an
address, less than the limit in the minute before; for a key, no request in
s's minute or UTC day. When a counter lapses its `Tells` turns into the `Apart`
of the next (`Gone`). `BurstsAreBounded`, `MinutesAreBounded`, `QuotasAreBounded`
and `UsageIsTruthful` are what two successive lives allow; `CauseInv` keeps
what `Tells` said of an address at a refusal, for `RefusalsHaveCause`; and
`CountInv`, that no counter is ahead of the requests. `BurstBound` alone is not
inductive, for two windows may share a span of a minute.

`Recursion` holds what several of them need. The prover's library states
induction with an operator parameter, which no backend can instantiate; stated
with a *set* of numbers (`SetInduction`) it can be cited, and gives the
existence and the values of recursive functions (`RecursiveFunction`) and the
sums of cardinalities (`JoinOneMore`, `SumOfParts`, `SumUpToParts`). So
`Parsed`, the parser's loop, and the folds in `Reports` and in the bags of
`Limits` are reasoned about for inputs of any length. The join in `Text` needs
no such argument: `OneAnswer` holds of whatever text a batch is given.

`QrCodeProofs`, for addresses of every length, those too long for any version
included:

- the geometry of the sixteen versions: alignment patterns stand at even places,
  at the ends or between the finders (`PositionsLie`), and apart from one another
  (`AlignmentsApart`: it does not matter that the code looks at `reserved` anew
  before each); no pattern meets another (`PatternsApart`), except that alignment
  patterns lie on the timing lines, where both have the same colours
  (`TimingAgrees`). `PatternInv` says what shows after each step, and
  `PatternsSurvive` follows from it;
- the cursor of `placeData`: `Seen` are the free modules it has passed, and a row
  adds its two and no other (`CursorMoves`); the column it jumps over is full of
  finders and timing (`SixthColumn`). So `LaidOK` is kept, that bits number 0 to
  `bitIdx - 1` lie in as many modules of `Seen`, and at the end `Seen` is every
  free module. `LossIsAccounted` counts from there.

Model-checked only:

- `EntriesSettle` and `JobsSettle`: liveness under fairness is beyond the prover.

## 5. Where code and documents disagree

- `unknown_code_404`: a visit misses the cache and reads the row; the owner
  deletes the link (cache DEL, then DELETE); the visit fills the cache. From
  then on `Resolve` answers 301 for a code that has no link, until the entry
  lapses. `TestRedirect_NotFound` expects 404 for such a code.
- `recycled_code_url`: as above, and then somebody registers the code again
  while the cache fill is on its way. Visitors of the new link are sent to the
  old url, and counted for the new link.
- `sigterm_drains`: a handler that outlasts the 10s of `srv.Shutdown` makes
  main call `log.Fatalf`, and nothing is drained. README.md:183 promises the
  drain, and the exceptions of README.md:186-191 do not include this one.
- `batch_resubmission`: a batch that found the queue full is marked failed with
  the words "job queue full, try again later" (batch_service.go:93). Sent
  again, it runs into its own idempotency key, and the handler answers 202,
  "batch job submitted" (batch_handler.go:38), with the failed job. The same
  happens to a batch one of whose items failed, and to one a crash cut off.
- `unique_visitors`: `IsUnique` has the default TRUE (model.go:46), which gorm
  puts in place of FALSE on insertion: a repeated visit is stored as unique. The
  summary's unique visitors ("独立访客", analytics.html:55) are its visits, and
  the filter `only include is_unique=true entries` (dto.go:148, "仅独立访客")
  filters nothing.

Without a run:

- the comment of `RecordAccess` says that an entry is dropped when the channel
  is full *and* there is no fallback file; the code drops it whenever the
  channel is full;
- the idempotency key joins urls with a bar it does not escape, and leaves out
  everything but urls (batch_service.go:284-293): another batch with the same
  text, of other codes or even of other urls, is answered 202 with the job of
  the first, and its links are never made;
- "delete all successfully created links" (batch_service.go:197): the link of an
  item whose INSERT committed and whose reply was lost is not deleted;
- the QR encoder calls itself one with error correction level L
  (qrcode_service.go:41); it computes none, cuts full addresses from version 5
  on, writes the format information over data, and never draws the version
  information that a symbol has from version 7 on (`encodeQR`, 42-66), whose
  modules hold bits of the address;
- the answer "api key is revoked" (middleware/apikey.go:24) is unreachable, for
  the lookup sees active rows only;
- "rate limit exceeded, please try again later" (middleware/auth.go:70) is said
  for ever to an address whose counter missed its EXPIRE, be it that EXPIRE
  failed or that the first INCR took effect unanswered.

## 6. Plan

Done: `LinkStore`, `LinkDirectory`, `AccessLog`, `LogDelivery`, `BatchJobs`,
`Accounts`, `ApiKeys`, `AuditTrail` and their composition, `Limits`, `Visits`
with `Reports`, `QrCode`, all with proofs of every safety property and
refinement the runs check.

Next: abstract specifications of the audit trail (an entry is dropped, lost or
written) and of a batch job (asked, at work, decided), of the kind `LogDelivery`
is, with the refinements proved.

### Not modelled

- `validateURL` and `isPrivateOrReservedIP`: predicates on text and DNS. Every
  url of the models passed them or, in `BatchJobs`, is one they refuse.
- Configuration, HTML pages, DDL, the periodic refresh of the materialized view
  (which no query reads): no state of the program's own.
- GeoIP, the OS column, password hashing, JWT signatures: work of libraries, or
  text that no decision and no report reads.
- Rendering a QR matrix as PNG or SVG.
- `last_used_at` of a key, written by a goroutine and read by nothing that
  decides.
- The order of the four shutdowns in one process: each is modelled where its
  service is, after the HTTP server, and they share no state.
