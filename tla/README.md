# Formal models of the heat-pump telemetry path

TLA+ models, TLC runs and TLAPS proofs about the programs that carry a reading
from a heat pump in China to the overseas dashboard. Paths below are relative to
the repository root.

## 1. The system and its parts

A device posts readings to the **CN gateway** (`services/cn-gateway`, Fastify,
Postgres, optional Redis). The gateway replaces the device id by a pseudonym,
queues the reading and exports signed batches to the **overseas API**
(`services/overseas-api`, a Cloudflare worker on D1), which stores them and
serves the **dashboard** and the **mobile app**. Cron triggers of the worker mark
silent devices offline and archive and prune old rows. People work on alerts; the
dashboards they look at are cached under keys that carry version tokens.

| Part | State | Operations | Talks to | What makes it right |
|---|---|---|---|---|
| Batch exporter, `ingest/exporter.ts` | queue, flushing, timer, back-off (memory); `export_log` (Postgres) | enqueue, scheduleFlush, flush, recordExport | called by the ingest route; POSTs to the overseas API | one batch waited for at a time, order, nothing dropped while the process lives, the log never ahead of the truth, no stranded queue, delivery in the end |
| Ingest route, `ingest/routes.ts` with `middleware/`, `db/`, `crypto/`, `kms/` | idempotency store, rate buckets, replay rings (memory or Redis); mapping table (Postgres); cached KMS adapter | POST /ingest, POST /admin/rotate-key, expiries, restart | the exporter, Postgres, Redis, KMS | one name per device, stored answers that are true, repeats rejected, the budget of a minute |
| Overseas ingest, `routes/ingest.ts` | `telemetry`, `latest_state`, `devices`, `ingest_batches` | POST /api/ingest/:profile | D1 | a batch is stored whole or not at all; a valid one is stored; one sent again leaves the history as it is and takes no device back in time |
| Offline sweep, `app.ts` `scheduled()` | `devices.online`, `latest_state.online`, `cron_cursors` | every five minutes | D1, interleaved with ingest | silent devices go offline, others do not, both tables agree |
| Retention job, `jobs/retention.ts` | `telemetry`, R2 archive, `cron_cursors` | daily | D1, R2 | archived before deleted, nothing replaced in the archive, no row skipped, none kept for ever |
| Alert lifecycle, `lib/alerts-store.ts` | `alerts`, `alert_comments` | create, acknowledge, assign, resolve, comment | D1, audit trail, dashboard cache | an update is lost to an overlapping one only; every assignment is on record |
| Dashboard cache, `lib/dashboard-cache.ts` | `cache_tokens`, cached answers | read, bump | alerts, client and archive routes | a read that begins after an invalidation sees the change |
| Accounts, `routes/auth.ts`, `lib/auth/` | users, sessions, mail tokens | sign-up, login, recover, reset, verify, logout | D1, webhooks | life of sessions and tokens |
| IP rate limiter, `lib/ip-rate-limit.ts` | token buckets in memory or KV | check | KV | budget per window |
| Mobile sign-in, `AuthContext.tsx` | session cookie (memory), cookie store of the platform, stored cookie and pending logout (SecureStore) | start, sign in, sign out, flush | `sessions` of the overseas API | a queued sign-out reaches the server and ends no other session |
| Queries, commissioning, observability, SDKs, user interfaces, bridges, scripts | — | — | — | no state of their own that other parts race for |

What is hard here: `flush()` has four awaits and three callers; a request of
`/ingest` looks at Redis, Postgres and the KMS one after the other while other
requests do the same; the sweep writes two tables in two statements while batches
are stored in between; the retention job resumes from a remembered rowid in a table
that goes on changing; an alert is read, changed in memory and written back; a
cached answer is put long after its key was made; the mobile app has one session
cookie and four procedures that set it, and a cookie store of the platform that adds its
own; the overseas API goes on storing a batch its caller has given up on; processes
stop between any two steps. `PROJECT.json` lists
these hazards at their lines with the property that covers each, and those that
no property covers yet.

## 2. Modules

| Module | Models |
|---|---|
| `BatchExporter` | the exporter, with the failures of each await and restarts of the process |
| `OrderedFeed` | what the exporter promises: an ordered at-least-once feed |
| `BatchExporterProofs` | its inductive invariant, the safety theorems and the refinement |
| `OrderLemmas` | smallest and largest numbers, and the length of a limited page of rowids: lemmas several proofs need |
| `GatewayIngest` | POST /ingest from the idempotency hook to the 202, with and without Redis, and key rotation |
| `PseudonymRegistry` | what the route promises about names: one row a device, inserted once, and nothing leaves or is answered under another name |
| `GatewayIngestProofs` | its inductive invariant, the properties of its states and steps, and the refinement of the registry |
| `MCGatewayIngest` | values of its constants: which HMACs collide under which key |
| `FleetPresence` | overseas ingest and the offline sweep, as far as a device's presence goes |
| `FleetPresenceProofs` | type correctness, that only a break-off leaves the two tables torn, and that only an overlap puts a fresh device offline |
| `ExportPath` (extends `BatchExporter`) | the exporter joined with `persistBatch()`: what `telemetry` and `latest_state` hold after batches are sent, sent again, and stored late |
| `ExportPathProofs` (extends `BatchExporterProofs`) | the tables overseas, from the exporter's invariant |
| `MCExportPath` | devices and minutes of its records |
| `RetentionJob` | the daily run over `telemetry`, the archive and the cursor, with break-offs |
| `RetentionPolicy` | what the job promises: only overdue readings leave, archived ones first, and the archive only grows |
| `RetentionJobProofs` | the job's invariant, `DrainedWhenNoMore` and the refinement of the policy |
| `DashboardCache` | tokens, keys and the look-up, query and put of a cached dashboard read |
| `CurrentReads` | what a dashboard promises, cached or not: an answer shows changes that have been made, and all that were due |
| `AlertLifecycle` (extends `DashboardCache`) | the mutations of alerts, their audit and the bumps they end with |
| `AlertLifecycleProofs` | fresh answers, lost updates and explained assignees for any number of requests and reads, and the refinement of `CurrentReads` |
| `MCAlertLifecycle` | what each request of the run asks for |
| `MobileSession` | sign-in, sign-out, start and pending logout of the mobile app with the server's sessions |
| `MobileSessionProofs` | its inductive invariant, type correctness and `OthersRevokedOnlyThroughJar` |

`ExportPath` and `AlertLifecycle` are compositions by extension: they add the
variables of the second part to those of the first and say of each action what it
does to both. Records, batches and the failures in between are those of
`BatchExporter`; a change of the database in `DashboardCache` is a request of
`AlertLifecycle`.

### BatchExporter

A *run* is a call of `flush()` past its guard (`exporter.ts:50`). `Runs` holds two
names so that overlapping runs would be states of the model; that none occur is
`SingleFlight`. `pc[r]` names the await a run is suspended at: *signing*
(`signBatch`), *posting* and *stored* (`fetch`, before and after the overseas API
has handled the request), *logging* (`recordExport`), *sleeping* (the back-off in
the catch block). `Flush`, `ScheduledTimer`, `Fail` and `Finish` are the code up to
the first await, `scheduleFlush()`, the catch block and the finally block; the
actions that call them also do everything else those calls do. `timer` is 0 or
the delay it was armed with. A record is the number of its `enqueue()`.

A POST does not end with its caller. `persistBatch()` is a sequence of round trips to
D1, and when `fetch` rejects or a proxy answers for the worker (`PostBreaks`), or the
gateway stops (`Restart`), the worker may still be in the middle of them. Such a batch
goes into `late`, one slot for each name in `Posts`, and is stored (`LateStores`) or
rolled back (`LateFails`) at any later moment: before its retry, after it, after newer
batches, or after those of the restarted gateway. `PostRefused` is the failure whose
batch is not stored, now or later. The size of `Posts` bounds how many given-up POSTs
are undecided at a time, not how many there are in all; the theorems hold for any
set.

`Restart` is a crash or `SIGTERM` (`server.ts:61-65` does not flush) and may change
`EXPORT_ENABLED`. `OrderedFeed` sees a POST as a block that is `sent` and `Arrive`s
later, perhaps more than once, or not at all. The history variables `accepted`,
`forgotten`, `delivered` and `failures` are read by properties only. `failures` stops
counting at `MaxFailures`; `FailuresReachCap` says that the delay has reached its cap
by then, so nothing is lost by it.

### GatewayIngest

One action per stretch between awaits: `Arrive` (idempotency look-up), `RejectBody`,
`Pseudonymize`, `Consume`, `SetExpiry`, `CheckSeq`, `PersistSeq`, `InsertMapping`
(one INSERT attempt, up to its COMMIT), `HandOver` (the answer of Postgres is there:
`enqueue()` and the 202), `RecordError`, `Send` (onSend stores the answer). Any of them
may end in a 500 (`InternalError`), which is not stored. Between `InsertMapping` and
`HandOver` the answer may be lost or the process stop: the row stays and nothing has
been handed over. A statement or a command is taken to have run or not by the time its
await is settled or the process stops; that Redis or Postgres run one later is left
out. With Redis the ring and the
counter are read and written by separate commands; without, by one step, because
the awaits in between do no I/O. The one case this leaves out is a pair of
requests pipelined on a connection and read in one piece.

`recent` remembers the latest `RingSize + 1` admissions of a pseudonym: each with its
sequence number and whether, as its entry was written, another request of the
pseudonym stood between GET and SET (`Overlapped`). `overtaken` holds the requests in
progress whose idempotency key has been answered since they looked it up. Both are
history, read by properties only. So are `passed`, the requests let through in this
minute; `exported` and `queued`, what was handed to the exporter; and `dropped`, the
readings whose request broke off after the ring had taken their number. A colliding
HMAC is a value of `Hmac` that two devices share. Suffixed pseudonyms are pairs of a
base and a counter. `ResponseExpires` and `RingExpires` may happen at any time, which
covers every TTL. One gateway process serves the devices.

### FleetPresence

Devices are numbered by rowid; a time is an age in ticks up to `Stale`, the first
age beyond the threshold. `Ingest` stores a batch of up to `MaxRecords` records in
one step — D1 is taken to run the transaction of `persistBatch()` alone — or rolls
it back when a statement breaks a foreign key; `foreignKeys` says whether the
database enforces them, and both are explored. `CountStale`, `ReadCursor`,
`SelectStale`, `MarkDevices`, `MarkLatestState`, `RecordMetrics`, `SaveCursor`,
`ClearCursor` are the statements of the sweep in their order; `SweepBreaksOff`
ends an invocation at any of them. Two sweeps do not overlap (cron every five
minutes). `reported` is history: the devices among those a sweep has selected of
which a batch has been stored since.

### ExportPath

`StoreBatch` is `ServerStores` of the exporter, and `StoreLate` its `LateStores`, together
with the statements of `buildRecordStatements()`, which D1 is taken to commit together
and alone (`Persist`): `HistoryAfter` is the INSERT with `ON CONFLICT DO NOTHING`
on device and minute (the gateway cuts timestamps to the minute, `sanitize.ts:34`),
`LatestAfter` the upsert, both in the order of the batch. The upsert compares no
timestamps, so a late batch sets a device's row back; `lateRows` notes the devices
whose row it wrote last, until the device's next batch stored on time. `stragglers`
notes the records such a batch was the first to bring after a restart had let go of
them. Both are history. Device and minute of the n-th record are constants.

### RetentionJob

Readings are numbered as they are stored and keep their number; `table` maps the
rowids in use to them, because SQLite hands out rowids again that were deleted at
the end of the table (`telemetry` has no integer primary key). `StartRun` fixes the
cutoff, so readings grow overdue (`GrowOld`) between runs, or arrive overdue.
`SelectBatch`, `PutObject`, `DeleteBatch`, `SaveCursor`, `PruneMetrics`,
`PruneEvents` are the awaits in their order; `BatchDone` is the end of the loop's
body. A run may be dry, refused for want of a bucket, or break off at any await
with its locals lost and its effects kept. `backlog` is a history variable: what was
overdue when the present chain of runs started without a cursor.
`ImplementsPolicy` maps the table to its readings and the bucket to the readings in
its objects.

### DashboardCache and AlertLifecycle

A read is `TakeTokens`, `Hit` or `Miss`, `Query`, `Store`. The cache is the set of
`<<key, payload>>` pairs ever put: a read may find any payload under its key, or
none, which covers expiry, overwriting, failed puts and the separate caches of the
data centres. A payload is the set of changes committed when its first query ran.
The keys of viewers are their sets of profiles, the empty set standing for admins.
`handleArchive` goes through the same steps under another area of tokens.

A mutation is `Create`, or `Load`, `CommitUpdate` or `CommitComment`, `Audit` and one
`BumpScope` for each scope. `Updated` computes all columns from the row that was
read, as the code does. Transactions are taken as isolated; a statement that fails
(`StatementFails`) ends the request, after the commit with audit or bumps undone.
`ImplementsReads` maps a read to its stage as a reader sees it — idle, pending,
answered, failed — and to what its answer has to show and shows.
`seen` and `lost` are history: what a request's read preceded and its write followed.
Who may touch an alert, times and texts are left out; alerts and comments are never
deleted. `AlertConstants` lets only the bodies of create, acknowledge and assign name
an assignee: the schemas of the other two are strict and have no such field
(`schemas/alerts.ts:57-78`).

### MobileSession

A session is its number in the order the server issued them. `cookie` is the module
variable of `api-client.ts:20`, read when a request is made; `jar` is the session in the
platform's cookie store, which `credentials: "include"` (`api-client.ts:82`,
`auth-service.ts:35`) both fills from every `Set-Cookie` and sends. `Presented` is what
the server makes of the two: the session in the header or that of the jar, whichever
comes first or replaces the other, open for each request and fixed when it is made.
The jar outlives a kill of the app. `stored` and `pending` are the two slots of
SecureStore. `boot`, `flush` and each `tap` are at one of the
awaits of `hydrateFromStorage`, `flushPendingLogout` (at most one, by its ref) and of
`login` or `logout`, and each holds what its request presents (`sent`). Two taps are
there because the dashboard stays on the screen until a logout ends, and because the
return key of the keyboard submits the login form (`LoginScreen.tsx:143`) while the
button is disabled. Requests fail before or after they have arrived; SecureStore
fails too (`...Rejects`); `Restart` kills the app, and a logout on its way may still
arrive. `exposed` is history: the sessions the jar put into a sign-out request whose
header named another one, or none. The telemetry grant and the reports to telemetry are
awaits only.

## 3. Runs

| Run | Configuration | Shows |
|---|---|---|
| `exporter` (`MCExportPath`) | 2 runs, 1 given-up POST undecided at a time, batches of 2, 4 records of 2 devices, two of one device and minute, interval 2, cap 5, 2 counted failures | the safety properties of the exporter, the refinement of `OrderedFeed`, `EveryRecordDelivered`; `NewestUnlessLate`, `HistoryKeepsFirst`, `ReadingBecomesVisible` of the tables overseas (168,834 states) |
| `gateway_naming` | 2 devices colliding under one of 2 keys, 1 sequence number, 1 idempotency key, 2 requests at a time, 3 in all | `OneNamePerDevice`, `StoredAcceptIsTrue`, the refinement of `PseudonymRegistry`, `AnswersReplacedOnlyByOverlap`, `ShutOutOnlyByBreakOff` (1,998,216 states) |
| `gateway_replay` | 1 device, 3 sequence numbers, ring of 2, budget 2, 2 requests at a time, 4 in all | `RepeatsOnlyByOverlap`, `MinuteBudget`, `RememberedWasAccepted` (1,231,762 states) |
| `fleet_presence` | 3 devices, batches of 2 records, sweep of 2 batches of 1 row, 1 break-off | `TornOnlyByBreakOff`, `SilentGoesOffline`, `LatestStateCatchesUp`, `FreshOfflineOnlyByOverlap` (49,384 states) |
| `retention` | batches of 2 rows, 2 batches a run, 4 readings, 1 break-off | `DrainedWhenNoMore`, `OverdueLeaves`, the refinement of `RetentionPolicy` |
| `alert_dashboard` | 2 requests with 4 possible bodies each, 2 alerts of 2 profiles, 2 reads by an admin and a tenant, 1 failure | `FreshAfterInvalidation`, the refinement of `CurrentReads`, `LostOnlyToOverlap`, `AssigneeIsExplained` (2,197,566 states) |
| `mobile_session` | 1 login or logout at a time, 2 sessions, 2 kills | `OthersRevokedOnlyThroughJar`, `PendingIsDrained`, `QueuedLogoutReachesServer` (151,783 states) |
| `replay_race` | as `gateway_replay`, 2 requests | with Redis a repeated sequence number is admitted twice |
| `stored_answer` | 2 requests with one key | a stored 202 is replaced by a refusal |
| `fresh_offline` | 1 device | a device that has just reported is marked offline |
| `torn_offline` | 1 device, 1 break-off | a silent device stays online in `latest_state` |
| `unknown_device` | 3 devices | the first batch of a device is refused when foreign keys are enforced |

The last five are expected violations: each property is a sentence of the
repository's documents, configuration or tests (quoted under `findings`), and TLC
finds the behaviour of the code that contradicts it. Two more findings have no run.
`docs/deployment-runbook.md:67` says that ingest invalidates the dashboard caches, and
no code does. `docs/mobile-validation.md:61` says that the cookie `api-client` owns is
the one attached to requests, but the platform's cookie store may send its own: after a
sign-out that could not reach the server and a new sign-in, the flush of the old one may
end the new session. The model has this behaviour, and its properties say what it is
confined to.

Four of the five have a counterpart that holds, and says how far the trouble goes.
`RepeatsOnlyByOverlap`: a repeated number gets past the ring only if, as it was
admitted first, another request of its pseudonym was between GET and SET.
`AnswersReplacedOnlyByOverlap`: a stored answer is replaced only by a request that had
looked its key up before it was stored. `FreshOfflineOnlyByOverlap`: a device that is
not stale is marked offline only if a batch of its own was stored after the sweep's
SELECT. `TornOnlyByBreakOff`: the two tables disagree for good only after a sweep
broke off. Each is checked by a run here and is a theorem of section 5.
`OthersRevokedOnlyThroughJar` does it for the cookie store: beyond the sessions that put
into a sign-out, none ends that nobody signed out of. `ShutOutOnlyByBreakOff` does the
same for a hazard no document speaks of: a counter without expiry, which shuts
its device out until somebody removes it, is left only by a request that broke off
between INCR and EXPIRE.

What the runs say about the hard cases. *Lost updates:* overlapping updates of an
alert do overwrite each other; `LostOnlyToOverlap` shows that a change is undone in
no other way. *Stale dashboards:* a read that begins after the last bump sees the
change, also when a slow read stores an old payload late, because the payload goes
under the tokens taken before the query. A change whose audit entry or bump failed
is not covered: it stays invisible until the entry expires (`alerts.ts:497`, 53).
*Batches stored late:* the history keeps its first rows whatever arrives late, but for
records a restart had let go of; a device's row of `latest_state` may go back in time,
and does so in no other way than by a POST that was given up.
*Pending logouts:* `displaced` names the sign-outs that another one takes the place of,
in the slot or, from the cookie store of the platform, in the request that emptied it;
every other queued one gets through. No session ends that the app was not signed in with
when somebody tapped "sign out", but one the cookie store put into the request.

Why the bounds are enough. *Exporter:* four records with batches of two give a full
batch in flight, a full batch and a partial batch waiting, and records arriving while
a failed batch is away; a back-off of 2, 4, 5 passes its cap. A given-up POST can be
stored before and after its retry, after newer batches and after a restart; that
several are undecided at once is left to the theorems of section 5, which remove all
these bounds for safety. *Gateway:* a collision needs two devices, a rotation two
versions, a race two requests; the third request finds what the others left. Four
requests with a ring of two and three sequence numbers fill the ring, push a number
out and admit it again; a budget of two is exceeded with one request to spare.
*Overseas tables:* two records of one device and minute in different batches, one of
another device between them, one of the next minute. *Retention:* four readings and
batches of two make a full batch that is the last, a run stopped at its limit, a saved
cursor, and rowids handed out again; a break-off between any two awaits is followed by
runs that do not break off. *Alerts:* every loss takes two requests on one alert;
their bodies pair each action with one that contradicts it, on an alert that may not
exist yet. A late `Store` takes two reads. *Mobile:* a flush that meets a new sign-in
takes two sessions; with one login or logout at a time two sign-outs can be queued,
overwritten and flushed, and two kills interrupt two flushes. That logins or logouts
overlap is left to the theorems, which hold for any `Taps`; the liveness of the slot
is checked without it. *Fleet:* with one row a batch and two batches a run, three
devices make a run that stops at its limit, one that resumes from the cursor and one
that reaches the end; a batch of two records can name a device twice, or a known and
an unknown one.

Deadlock is checked where the system goes on for ever (exporter, fleet, retention,
mobile). The gateway runs stop at `MaxRequests` and `alert_dashboard` when all its
requests and reads have been served, so they say `CHECK_DEADLOCK FALSE`.

## 4. Fairness

`BatchExporter!Fairness`: an armed timer fires and a settled await is resumed (weak
fairness), as the event loop guarantees. Signing, POST, answer and INSERT are strongly
fair, in whichever run: an attempt repeated for ever succeeds in the end. That is an
assumption about the key file, the network, the overseas API and Postgres, and without
it nothing can be delivered; `unknown_device` shows a batch for which it fails. New
readings and restarts are not fair, nor is a POST that was given up: it may stay
undecided. `FleetPresence!FairSpec`: the clock moves, and the cron and the statements
it awaits go on; break-offs are bounded by `MaxFailures`, reports are not fair.
`RetentionJob!Fairness`: the cron starts a run that is not dry again and again, also
between dry runs somebody starts by hand (strong fairness), and its awaits settle.
`MobileSession!Fairness`: the awaits of a flush settle, the app comes to the
foreground or goes online again and again, and a flush tried again and again reads the
slot, reaches the server and clears the slot — an assumption about SecureStore and the
network like the one about the exporter. Sign-ins, sign-outs and kills are not fair.

## 5. What is proved

### The exporter

For all values of the constants (`ExporterConstants`: intervals and sizes
positive, the first delay within the cap; `FailuresReachCap`: so many failures are
counted that the delay has reached the cap), `BatchExporterProofs` proves of `Spec`:

- `TypeCorrect`, `AtMostOneFlight`, `LogIsTruthful`, `OrderIsKept`,
  `NothingIsDropped`, `QueueIsNeverStranded`: the invariants of the same run;
- `BackoffCountsFailures`: the delay is the first one doubled once per failure in a
  row, up to the cap (`BackoffMatchesFailures`);
- `ExporterImplementsFeed`: the exporter refines `OrderedFeed`.

The argument. `SingleFlight` alone is not inductive: it needs that a
run holds a batch exactly while it tries to export it. The records are where the
inductive invariant `IInv` says: the queue is the latest records in order
(`QueueInOrder`), the batch in flight the ones just before (`BatchInOrder`),
everything older that was not forgotten is logged (`PrefixLogged`), what is logged
or awaits its answer is stored overseas (`StoredIsDelivered`, `LogNeverAhead`). Putting
a failed batch back keeps all of it because concatenation shifts positions by the
length of the batch. `StepPreservesIInv` has one lemma per action, and the
lemmas on `\o`, `SubSeq` and `Append` are stated once. POSTs
that were given up hold blocks of consecutive records (`LateOK`), and what is not
forgotten before them has been delivered; `LateStays` shows that for every step. The
refinement takes what is being posted and what was given up for the blocks on their
way (`PostsUnderway`), `SignOk` for `Send` (by `BatchInOrder` the batch is a block of
consecutive records, by `PrefixLogged` with `LogNeverAhead` everything before it is
stored), `ServerStores` and `LateStores` for `Arrive`, a failure or `LateFails` for
`Lose`, and a restart for `LetGo`, which leaves some blocks on their way.
`Doubled` is a recursive function. The provers cannot apply an induction theorem, so
its facts are proved by the least number for which they would fail
(`SmallestExists`); that it defines anything at all is `DoubledIsDefined`.

### Sessions of the mobile app

For any set of taps and any bounds (`MobileConstants`: both are natural numbers),
`MobileSessionProofs` proves `SessionTypeCorrect` and `NoOtherSessionEnds`
(`OthersRevokedOnlyThroughJar`). Neither is inductive. What a request ends was read from
the slot or from memory some awaits earlier, so `IInv` adds `LogoutsAreOfEnded`: the
session in the slot and the one in the header of every request to sign out, a flush's or
a logout's, have been ended by a tap, and what the request presents is such a session or
is noted in `exposed`. `Logout` establishes it,
`LogoutQueues` and `FlushLoads` hand it on, and `FlushPosts`, `LogoutPosts` and a
request that arrives after a kill (`OnTheWay`, in `Restart`) use it. There is one lemma
per action.

### The export path

For any devices and minutes of the records and any set of given-up POSTs,
`ExportPathProofs` proves `LatestStateIsNewest` (`NewestUnlessLate`), `HistoryIsKept`
(`HistoryKeepsFirst`), and that the exporter's theorems hold on the path
(`PathKeepsExporterSafe`: forgetting the tables, every step of the path is a step of
the exporter). A batch may be delivered, its answer lost, and delivered again with
newer readings behind it. The tables stay right because deliveries leave no hole:
`SentAgainAsLong` says that whatever was ever delivered, or may still be by a POST
that was given up (`Reached`), lies before the end of the batch in flight or, between
two batches, of the one that will be taken next; `NoHoles` that between the records a
restart forgot and a delivered one all are delivered. Both follow from the exporter's
`IInv` and the length of `TakeCount`. Within a batch, the last record of a device is
the newest. So a batch stored on time makes the rows of its devices the newest again,
whatever a late one did to them (`NewestUnlessLate`), and a late batch can bring a
record after a newer one only if a restart had let go of it (`HistoryKeepsFirst`,
`stragglers`).

### The ingest route

For any devices, keys, HMACs, ring and budget, with Redis or without
(`IngestConstants`), `GatewayIngestProofs` proves `NamesAreUnique`
(`OneNamePerDevice`), `StoredAcceptsAreTrue`, `BudgetHolds` (`MinuteBudget`),
`RepeatsNeedOverlap` (`RepeatsOnlyByOverlap`), `RememberedReadingsWereAccepted` and
`IngestTypeCorrect`; of its steps `AnswersReplacedNeedOverlap` and
`ShutOutNeedsBreakOff`; and `IngestImplementsRegistry`, the refinement of
`PseudonymRegistry`. What `IInv` adds:

- `Stages`: the base a request carries over its awaits is an HMAC of its device under
  *some* key — not the present one, which a rotation changes — and the name it carries
  from the COMMIT to the hand-over is the one in its device's row;
- `NamesDiffer`, `ExportedIsMapped`: the UNIQUE constraint, and that only names in
  the table are exported;
- `AcceptIsTrue`: the 202 of a request that has not stored it yet;
- `CountedOnce`: no more readings pass than INCR has counted, and at most one request
  of a pseudonym is about to set an expiry, because INCR answers 1 to one of them;
- `AdmissionsKept`: a ring, and the copy of it a request holds between GET and SET,
  knows every admission of the history that no other request overlapped and that is
  not older than `RingSize`, at least as near to its end. An entry written back late
  loses what was admitted since it was read, and no more; the requests that were
  about to write at that moment are why those admissions count as overlapped.
  `AdmitKeepsAdmissions` is the step, `AdmittedIsRemembered` the position of a number
  in the entry that is cut and appended to;
- `AnsweredAreOvertaken`: a request about to store its answer under a key that has one
  is among `overtaken`;
- `RingAccounted`, `LoadedAccounted`: the ring, and the copy of it a request holds
  between GET and SET, remember nothing that was refused. `Abandoned` readings count
  until their request has handed them over or has been noted in `dropped`.

The refinement maps the INSERT of a new device to the registry's naming, the hand-over
to the use of the name, and the storing of a 202 to the telling; a request that breaks
off in between has named its device and used nothing. `NamesDiffer` makes the new name
free, `Stages`, `ExportedIsMapped` and `AcceptIsTrue`
make what is used and told the name in the row. That no row ever changes is part of
the registry's specification, and so of the theorem. `ShutOutNeedsBreakOff` needs that
a request between INCR and EXPIRE is disturbed by nobody (`ExpiringStays`): a step of
another request, a minute's end or a rotation leaves it where it is.

### The retention job

For any batch size, batch limit, number of readings and of runs that break off,
`RetentionJobProofs` proves `RetentionTypeCorrect`, `NothingIsSkipped`
(`DrainedWhenNoMore`) and `RetentionImplementsPolicy`. `IInv` says that what a run holds
in its page is in the table as it was read (`PageIsLive`), that all that is left of the
backlog lies above every cursor a run may go on from (`CursorsBelowBacklog`), that the
keys in the archive are of earlier runs or earlier batches of this one
(`KeysAreOfThePast`, so no put replaces an object; it needs `FirstBatchIsPut`) and that
a page about to be deleted is in the archive (`PageIsArchived`, `RunIsAllowed`).
The refinement maps `PutObject` to the policy's archiving step, by `KeysAreOfThePast`,
and `DeleteBatch` to its removal, by `PageIsArchived`.

### Presence

For any number of devices and any page sizes, `FleetPresenceProofs` proves
`PresenceTypeCorrect` — which includes that a page never holds more ids than
`OFFLINE_BATCH_SIZE` and a sweep never does more than its limit of pages — and
`TablesAreTornByBreakOffOnly` (`TornOnlyByBreakOff`): a device online in `latest_state`
and offline in `devices` is in the page between the two UPDATEs, or a sweep broke
off. `BatchesLeft` makes it inductive. `FreshOfflineNeedsOverlap`
(`FreshOfflineOnlyByOverlap`) is about steps; `SelectedAreStale` carries it from the
SELECT to the UPDATE: whoever is in the page is stale or has reported since.

### Alerts and the dashboard cache

For any requests, bodies, alerts, scopes, reads and failures, `AlertLifecycleProofs`
proves `AnswersAreFresh` (`FreshAfterInvalidation`), `UpdatesAreLostOnlyToOverlap`
(`LostOnlyToOverlap`), `AssigneesAreExplained`, `AlertTypeCorrect` and
`AlertsImplementReads`, the refinement of `CurrentReads`. Freshness is a matter
of one token: `BumpedIsOlder` says that once a change has bumped the token of the
admins, whatever lacks the change and is cached, or is held by a read that will
cache it, carries an older token; `ExpectedIsOlder` says the same against the token
of each read that may expect the change. That the admins' scope is part of every
key and is bumped first is all that is used of the scopes. The refinement maps a
commit to `Make`, the last bump of a request to `Settle`, taking the tokens to `Begin`
and both a hit and a put to `Answer`: by `AnswerIsFresh` what is shown has all that was
due, by the types of cache and reads nothing that was not committed. All else a
request or a read does is a stutter. For the alerts
`LoadedRowIsLost` and `LoadedAssigneeIsExplained` state the two properties for the row
a request has read and not yet written back.

### How far this goes

Each `IInv` was checked by TLC on the instances of section 3 before it was proved. With
these, every safety property of a passing run, and the five refinements
(`OrderedFeed`, `RetentionPolicy`, `PseudonymRegistry`, `CurrentReads`, and the exporter
inside the path), is a theorem for all values of the constants the assumptions admit.

Model-checked only are the liveness properties — `EveryRecordDelivered`,
`ReadingBecomesVisible`, `SilentGoesOffline`, `LatestStateCatchesUp`, `OverdueLeaves`,
`PendingIsDrained`, `QueuedLogoutReachesServer` — because the provers do not reason about
fairness and ENABLED. The five violations are single counterexamples; nothing is to be
proved about them. The provers cannot apply the induction theorems of the library;
where numbers had to be counted up, the proofs take a smallest counterexample
instead (`SmallestExists`).

## 6. Not modelled, and why

Assumptions the models make about what they do not contain. One batch at a time is what
the exporter *waits for*; at the database there may be more, and `late` holds them. D1
runs the transaction of `persistBatch()` whole and alone: the interleaving of its
statements with those of another batch is not modelled. Single statements of Postgres
and commands of Redis have run or not when their await settles. The platform adds its
cookie as a request is made, and takes the one of an answer as the answer arrives.

Contents of readings, sanitization rules, signatures and schemas: a request is
sound or flawed in one of two ways. Derived metrics and query routes: floats and SQL
reads. Sizes of batches in bytes against the overseas limit. Logging and Prometheus
counters. Sign-up, verification and password reset (single statements on rows of one
user, guarded by cryptographic tokens); the rate limiter by address (wall-clock
arithmetic, best effort by design); commissioning, observability and access control
(no state two parts race for). The user interfaces beyond the mobile app's sign-in,
SDK packages, field bridges, scripts, and the bundles checked in under `.wrangler/`.
Each has its row in `PROJECT.json` with the reason.

## 7. Plan

Done: `BatchExporter` with `OrderedFeed` and its proofs, `GatewayIngest`,
`FleetPresence`, `RetentionJob` with `RetentionPolicy`, `ExportPath`,
`DashboardCache` with `AlertLifecycle`, `MobileSession`; the abstract specifications
`PseudonymRegistry` and `CurrentReads`; the safety of each proved, and what the steps
of the gateway and of the sweep may never do.

Left:

1. Models: the hazards of `PROJECT.json` that no property covers, as far as they are
   about state: sizes of batches in bytes, the life of a replay entry against the
   window of timestamps, the session cookie a flush clears.
2. Proofs: the overlap properties joined over components — a reading that passes the
   ring twice, followed through the exporter into the tables overseas.
