# Synteq in TLA+

Synteq watches the automations of small businesses: it takes in events and
executions over HTTP, analyses them, opens incidents and sends alerts. Its
backend, `apps/api`, is a Fastify application with several instances, a set of
scheduled jobs and a database (MySQL through Prisma) that is the only thing the
processes share, besides Redis, Pub/Sub and BigQuery. Its dashboard, `apps/web`, is a Next.js
application that keeps the session of a browser in cookies.

What is hard to test there is what the database sees: calls of several processes
in an order nobody chose, made with clock readings that are already old, failing
after they were applied, and processes that die between two of them. The
modules here are about that. Paths below are relative to `src/apps/api/src`, and those
that begin with `apps/web` to `src`.

## 1. Inventory

### Worker lease — `services/worker-lease-service.ts`
*State*: one row of `worker_leases` for each worker: owner token, `lease_expires_at`,
`last_completed_at`; in each process the flags `leaseLost` and `renewInFlight`.
*Operations*: `acquireWorkerLease` (conditional `updateMany`, then `create`, then
`findUnique`), `renewWorkerLease` on an interval, `releaseWorkerLease`,
`runWithWorkerLease` around a body. *Used by* every scheduled job
(`scheduler-execution-service.ts`, `pipeline-freshness-service.ts`) and by both
pipeline workers (`workers/`). *Hard*: each function reads `new Date()` before it
calls the database; a renewal may land after the release or after a crash; the
body is not interrupted when the lease is lost. *Correct if* no two runs work
under leases both believe valid, the lease changes hands only by expiry or by
release, and a crash does not keep it for ever.

### Pipeline freshness — `services/pipeline-freshness-service.ts`, `services/scheduler-execution-service.ts`
*State*: heartbeat, success and failure marks in the same rows. *Operations*: mark
start, success and failure of a stage; evaluate freshness (in `Views`). *Hard*: the marks are
upserts that do not look at the owner. *Correct if* a mark never disturbs the lease.

### Event idempotency and ingestion — `services/event-idempotency-service.ts`, `services/operational-event-ingestion-service.ts`
*State*: a ledger row for each idempotency key (`processing` with a lock expiry,
`completed`, `failed`), the `operational_event` rows. *Operations*: reserve (read,
create, read again, two conditional claims), the transaction that stores the event
and completes the row, mark failed; the loop over a batch that counts ingested,
duplicate, skipped and failed events. *Called by* the operational-events routes, the
GitHub webhook and the workflow event ingestion. *Hard*:
redeliveries run concurrently, locks expire while their holder is at work, commits
are reported as errors. *Correct if* an event is stored once, an answer
"duplicate" is true, no event is lost without somebody having been told.

### Operational analysis — `services/operational-events-analysis-service.ts`, `services/operational-events-rules.ts`, `services/operational-event-analysis-hook-service.ts`
*State*: the findings (open, resolved, `updated_at`) and a cursor over the events.
*Operations*: a batch of new events, the rules of the systems in it, opening,
refreshing and resolving findings. *Hard*: rules run only for systems with new
events; events committed out of the order of `created_at`. *Correct if* every event
is analysed and a finding does not outlive its cause.

### Incident bridge and incidents — `services/incident-bridge-service.ts`, `services/incident-bridge-rules.ts`, `services/incidents-service.ts`
*State*: incidents and their events, links from findings to incidents, the
bridge's cursor. *Operations*: a batch of changed findings, each of which opens,
refreshes or resolves its incident; operators acknowledge and resolve; SLA
breaches are marked. *Hard*: no transaction anywhere; a batch that dies is
repeated from the cursor; updates of findings land behind the cursor; operators
write between a read and a write of the bridge. *Correct if* a finding has one
incident, in its own state, none is passed over, and every opening is alerted.

### Alert dispatch — `services/alert-service.ts`
*State*: the `ALERT_PENDING`, `ALERT_CLAIMED`, `ALERT_SENT`, `ALERT_FAILED` and
`ALERT_SKIPPED` events. *Operations*: fetch, decide by plan, claim, send,
schedule a retry, settle, write the result. *Hard*: overlapping runs, a run that
dies between two of these, plans that change under way, retries that are not due
at the head of the queue. *Correct if* an event's notifications go out once, a failure leaves exactly
its retry, and everything pending is settled.

### Workflow detection — `services/workflow-event-ingestion-service.ts`, `services/gohighlevel-adapter-service.ts`, `services/generic-workflow-incident-service.ts`
*State*: the stored reports, the incidents of a workflow by rule (`failed`, `timed_out`).
*Operations*: read a plain or a GoHighLevel report, store it once, then open, refresh or
resolve the incident of its rule; mark the incidents whose SLA has passed. *Hard*: nothing
joins the store to the detection; `occurred_at` is not looked at; two failures handled at
once; breach marks written by ids read before. *Correct if* each rule has the one
incident that the latest report asks for.

### Anomaly detection — `services/anomaly-service.ts`, `utils/anomaly-math.ts`
*State*: the incident of each alert policy with what its `details_json` counts.
*Operations*: evaluate every policy over its window; open, refresh, suppress, alert,
clear after three quiet windows. *Hard*: an operator's write carries details read
before; a run dies between incident and alert; two policies of one metric share a fallback.
*Correct if* a trigger leaves an active, alerted incident or a suppression that ends.

### Metrics and simulation — `services/aggregate-metrics-service.ts`, `services/simulation-service.ts`
*State*: `execution_events` and `workflow_metrics_minute` in BigQuery. *Operations*: the rollup
(a `MERGE` over a lookback), the window of a policy, the four scenarios. *Hard*: the edge of
the lookback inside a minute; late and repeated rows; thresholds against small windows.
*Correct if* a minute counts each execution once, and what triggers a policy has happened.

### Queue and worker — `routes/ingest.ts`, `services/ingest-queue-service.ts`, `services/pubsub-ingest-worker-service.ts`, `services/ingestion-service.ts`
*State*: replay keys and dedupe keys in Redis, messages in Pub/Sub, rows in BigQuery.
*Operations*: verify, admit, publish or write; claim the key, check the workflow, write, release the
key, acknowledge. *Hard*: redelivery while a delivery is at work; a holder that dies; Redis
away. *Correct if* what was accepted arrives, once.

### GitHub webhook — `routes/github-webhook.ts`, `services/github-actions-adapter-service.ts`
*State*: integrations with their secrets, delivery keys. *Operations*: resolve the
integration, mark the delivery as seen, check its scope, map it, store its events. *Hard*: the mark
comes before the store; secrets rotate; two integrations. *Correct if* an answer
"duplicate" is true, and events stay with the integration that was signed for.

### Redis and rate limits — `lib/redis.ts`, `services/rate-limit-service.ts`
*State*: a counter in Redis, one in each process's memory, the connection with its back-off.
*Hard*: `INCR`, `TTL` and `EXPIRE` are commands of their own. *Correct if* refusals are deserved, and a call is not counted for ever.

### Sessions and login lock — `services/auth-service.ts`, `services/auth-abuse-service.ts`, `routes/auth.ts`
*State*: refresh tokens, reset and verification links, failures and locks. *Operations*: sign up, log
in, refresh with reuse detection, log out, change and reset the password, verify. *Hard*: two uses of one
token; a login half-way through when the sessions end; a lock set under another key than the one looked at. *Correct if* a credential works once, what
ended stays ended, and a lock stops the guessing of those who look at it.

### Team — `routes/team.ts`
*State*: accounts with roles, invitations. *Operations*: invite, resend, accept (which also enables), change a role,
disable. *Hard*: owners are counted before the write. *Correct if* an active owner
remains and an invitation works once.

### Plans and sources — `services/tenant-trial-service.ts`, `services/entitlement-guard-service.ts`, `services/source-service.ts`, `routes/control-plane.ts`, `routes/workflows.ts`
*State*: plan and trial, workflows, integrations, ingestion keys, alert channels and policies.
*Operations*: create, register, deactivate, rotate, revoke; start and expire the trial. *Hard*: what a request
checks is old when it writes. *Correct if* there is one trial, capacity is kept and
no row points into another tenant.

### Dashboard views — `services/operational-dashboard-service.ts`, `services/reliability-windows-service.ts`, `services/incident-attention-service.ts`
*State*: none. *Hard*: a dozen reads side by side while rows change; two
classifications of one event, by different words, types and ties. *Correct if* it hides nothing that was so all along and tells
nothing that never was.

### Web session — `apps/web/middleware.ts`, `apps/web/lib/auth.ts`, the routes of `apps/web/app/api`
*State*: two cookies of a browser. *Operations*: refresh in the middleware, in a page, in an action, in a call;
log in and out. *Hard*: requests under way together hold one refresh token, and the API takes
the second use for a theft. *Correct if* a browser stays signed in until its user signs out, and no longer.

### Not modelled
- *Reliability scan and manual checks*: reports over the metrics, cached by time; they change nothing that anything else reads.
- *HTTP application*: routing, validation, start-up; the handlers are the services above.
- *Email, secrets, settings*: external calls and single writes.
- *Shared schemas*: declarative validation.
- Of modelled components: the pages of the web application, which fetch and show; `/metrics/overview`
  with its cache; the clamp of histories by plan; timelines and guidance, which are wording over rows; the metric `cost_spike`; the
  seasonal baseline of heartbeats; the start and failure marks of a stage.

### How they interact
Scheduler → job route → *lease* → stage. A delivery → webhook or API route →
*ingestion over the ledger* → `operational_event` → for workflow reports, *workflow detection* at once. The
*analysis* worker (under a lease) reads events through its cursor and writes findings; the *bridge* worker
(under a lease) reads the findings through its cursor and writes incidents and
`ALERT_PENDING` events; the alert job (under a lease) dispatches them. Executions and heartbeats → *queue* → BigQuery →
*rollup* → *anomaly* job → the same incidents and alerts. The *dashboard* reads all of it. Nothing but rows connects the
stages, which is why each is modelled with what it reads as its environment.

## 2. Conventions

- A call of Prisma is one atomic step of the database. A failing call may or may
  not have been applied; where the code goes on after the failure, both are modelled.
  A `$transaction` is one step that is applied as a whole.
- `new Date()` is read in the step before the call that uses it; the clock may move
  and others may act in between.
- A process may die between any two steps, and loses what it holds in memory; a call under way may still be applied.
- A definition whose comment starts with *Faulty:* is not part of the model. It is the
  definition after it with a plausible slip (a dropped condition, a swapped order); each
  property was seen to fail when the slip takes the definition's place, so no property holds by itself.
- Some variables are history: actions write them and no guard reads them. They name the causes that a property
  excepts (`faults`, `abandoned`, `late`, `denied`, `touched`, `silenced`, `excused`, `raced`, `stale` in `Sources` and `Team`, `owed`,
  `dropped`, `spoilt`, `cut`, `carried`) or remember what it compares with (`bridged`, `sends`, `uses`, `answers`, `calls`, `wanted`,
  `lastAt`, `overdue`, `evaluated`, `judged`, `analysed`, `alerted`, `quiet`, `triggered`, `skipped`, `peak`, `unseen`, `mine`, `steady`, `alarmed`,
  `signedIn`, `signedOut`). Where one also bounds the model, its declaration says so.
- An exception in a property is as narrow as the model allows: where it can, it names the rule, the key or the browser it
  happened to, and is taken back when a later step makes it good.
- What a property excepts is described by it and not caught: it says that there is no other way. Which half of a hazard that concerns
  is said in the `note` of the hazard in `PROJECT.json` (a death between an incident and its alert, updates behind the cursor, a mark before the store, and so on).
- Prisma sets `@updatedAt` in the client before the write, which is why an update
  of a finding may land behind the cursor.

## 3. The modules

| Module | Models | State ↔ code |
|---|---|---|
| `LeaseService` | what a lease promises | clock, holder, until |
| `WorkerLease` | `runWithWorkerLease` and the three lease operations | `row` is the database row; `pc[r]` the place of a run in `runWithWorkerLease`; `at`, `renewAt` the captured `now`; `lost`, `renewing` the flags; `known` the expiry returned last |
| `WorkerLeaseProofs` | proofs about it | |
| `EventStore` | what the ingestion promises of an event: stored once by a delivery that holds it, and answered truly | rows kept, holders, what was told |
| `EventLedger` | reservation, transaction, failure, batches | `ledger` the row by key; `copies` the stored events; `pc`, `idx`, `at` the place in `ingestOperationalEvents` and `reserveEventIdempotency`; `answer` the counts |
| `EventLedgerProofs` | proofs about it, and that it implements `EventStore` | |
| `AlertQueue` | what all dispatch runs together promise: one queue, of which an event is taken by one run, when due | events, their sends and their takers |
| `AlertDispatch` | `dispatchPendingAlertEvents` and what it calls | `events` the rows; `run[d]` the events of the batch left, the access cache and the basic counts of a run |
| `AlertDispatchProofs` | proofs about it, and that it implements `AlertQueue` | |
| `FindingWatch` | what the bridge promises of a finding, without batches, cursor and calls | the finding, what was read of it, its one incident, whether that was opened, alerted, linked, settled |
| `IncidentBridge` | `runIncidentBridgeBatch`, the bridge part of `incidents-service` | `finding`, `incident`, `link`, `cursor` the rows; `run` the rows of the batch left, as fetched, and the locals of the calls; `bridged` the findings a run went through with |
| `IncidentBridgeProofs` | proofs about it, and that it implements `FindingWatch` | |
| `LeastElements` | that sets of numbers have a least and a greatest element and finite orders a first one, that ranks count from zero and that a large set has subsets of every smaller size: for the proofs that pick the next of a batch, the latest incident, a fresh token or a median | |
| `RedisAccess` | `withRedis`, `redisIncrWithTtl` and its fallback, `consumeRateLimit` | `shared` the counter with its time to live, `local` the one of each process; `open`, `wait` the connection and its back-off |
| `IngestQueue` | the execution and heartbeat routes, `enqueue*`, `processQueueMessage` | `req[r]` the request, `queue` what Pub/Sub holds, `shared` and `local` the dedupe keys, `rows` the inserts |
| `GithubWebhook` | the GitHub webhook route and the payload mapping | `secret`, `active` of the integrations, `seen` the delivery keys, `stored` the events |
| `Sessions` | login, `rotateRefreshToken`, links, everything that ends sessions | `token`, `link` the rows; `epoch` counts what ended the sessions |
| `LoginLock` | `getLoginLockState`, `recordFailedLoginAttempt`, clearing | `fails` and `locked`, by address and by email in a scope; `login` the keys a request looked at, `counts` those it is counted for |
| `Team` | the routes of `team.ts` | `role`, `disabled`, `invite` the rows; `req[r]` what a request has read |
| `Sources` | trial, capacity, the routes that add and remove sources | `plan`, `trial` of the tenant; `active`, `gone`, `versions`, `guards` the rows; `req[r]` the row a request has read and the time it took before |
| `ControlPlane` | keys, channels and policies in `control-plane.ts` | `key`, `channel`, `policy` the rows |
| `WebSession` | `middleware.ts`, `requireToken`, the routes under `app/api`, over refresh tokens | `jar[b]` the cookies; `req[r]` a request with the cookies in its `hand` and those its answer will `set` |
| `WorkflowDetection` | the workflow-event route with its adapters, `handleGenericWorkflowEventDetection`, `markBreachedSla` | `stored` the keys, `incident` the rows, `handler[d]` the request at work with the time it took, `marking` the ids read |
| `OperationalAnalysis` | `runOperationalEventsAnalysisBatch` with its rules | `row`, `visible` the events, `cursor`, `finding`; `run` its `now`, the batch and the fingerprints left |
| `AnomalyDetection` | `runAnomalyDetectionJob`, `upsertIncident`, `shouldSuppressReopen`, `clearIncidentIfStable`, operators | `incident` the rows with the numbers of `details_json`; `job` the policies left and what was read |
| `AnomalyMath` | `evaluateMetric`, `anomaly-math.ts` | operators only |
| `MetricsRollup` | the `MERGE`, the window of a policy, the four scenarios, judged by `AnomalyMath` | `row` and `minute` the two tables, `enabled` the policies |
| `Views` | the dashboard, the reliability windows, the attention groups | `request` the reads made so far and what they returned |
| `Intake` | `RedisAccess`, `IngestQueue` and `GithubWebhook` side by side, with their properties | `part` names the module a behaviour is about |
| `IntakeProofs` | proofs about the three | |
| `Accounts` | `Sessions`, `LoginLock`, `Team`, `Sources`, `ControlPlane` and `WebSession` side by side | `part` |
| `AccountsProofs` | proofs about the six | |
| `Detections` | `WorkflowDetection`, `OperationalAnalysis`, `AnomalyDetection`, `MetricsRollup` and `Views` side by side | `part` |
| `DetectionsProofs` | proofs about the five | |
| `MC*` | the instances | |

`Intake`, `Accounts` and `Detections` each hold several modules side by side that
share no state in the code either: `part` names the one that a behaviour is about, and the variables
of the others are `Unused`. An invariant there is the invariants of the modules, each under its `part`.
They declare the constants of all of their modules, assume of them what each module's `Proper` says, and are what the theorems are about; the `MC*` modules
only give the constants values.

Actions carry the name of what the code does: `Claim`, `Create`, `Release`, `Persist`,
`MarkFailed`, `Look`, `Send`. One that stands for a failing call ends in `Errors`
or is a disjunct of the action of the call; `Crash` and `Abort` end a process.

Abstractions worth knowing:

- **WorkerLease**. A run of a pipeline stage marks its success (`MarkSuccess`)
  before the release, a pipeline worker does not; `BodyReturns` chooses. Owner tokens are
  random UUIDs, so a finished run's place is taken by a fresh token: `Recycle`
  renews a token once no trace of the old one is left.
- **EventLedger**. Keys are abstract: normalisation and hashing are pure. The
  update of `seen_count` and `last_seen_at` changes nothing modelled, but may throw.
- **AlertDispatch**. A retry is created not `due` and becomes due at any time later
  (`Ripen`). Channels are not told apart: `Send` is the delivery to all of them, and
  succeeds or fails as a whole, as the code decides by `every`. The batch of a run is a set from which the one first in order is taken. `Modes` is what the entitlements let
  out; a change of plan or of the recipients may happen any time, but a run keeps the access it read.
- **IncidentBridge**. One fingerprint for each finding, as `bridgeFingerprint`
  makes it. The fetched rows are kept in the run, so the
  status used may be old. One run is at work at a time, as the lease of the worker has it. `Existing` allows every latest incident when `started_at` is equal, as the
  database may return either.
- **WorkflowDetection**. The store is one step: `EventLedger` is its inside. Statuses are the words of the two providers,
  read as the adapters read them. Identifiers are a prefix and a name, as the time is left out of the key only of a GoHighLevel report whose execution begins with
  `ghl_` or that has a delivery; one derived from the contents of a report is a tuple of them. The events of incidents are left out; `IncidentBridge` has them.
- **OperationalAnalysis**. One system, whose rules see all of its events: the limits on the rows that a rule reads are above the bounds.
  An event takes its `created_at` before it is visible, which is the race of the cursor. A run takes its `now` (`Begin`), reads its batch (`Fetch`), evaluates one
  fingerprint in a step (`Evaluate`) in the order of the code, and moves the cursor (`Advance`); events commit and the run may die between any two. The read of a finding and its
  write are one step, as only the run with the lease writes findings; what commits between the reads of one rule is told apart by what the drift `saw`.
- **AnomalyDetection**. What a policy's metric says is a choice of each evaluation; `AnomalyMath` has the evaluation itself and
  `MetricsRollup` runs it on rows.
- **AnomalyMath**. Rates per mille, durations in tenths of a second, and a z-score is compared by its square, so that all is whole numbers.
- **MetricsRollup**. Time is counted in half minutes, so that the lookback can end inside a minute. A policy that is enabled for the metric of a simulation is used as it is, whatever its
  threshold and window; only without one is a policy made.
- **RedisAccess**. Each command of `redisIncrWithTtl` is a step, the two `TTL`s included; one that fails, INCR or EXPIRE applied or not, sends the call to the fallback. `calls[a]` is how many calls were counted since `a` ticks ago; the counter itself stops one above the limit, as nothing tells larger counts apart.
- **LoginLock**. The scope looked at is the tenant of the request or `global`, the one counted the tenant of the request or of the user found. An email of several tenants, none of them named, is
  refused before it is counted.
- **IngestQueue**. One key per fingerprint. Redis may lose its keys when it goes away; a replay key may be gone at any time, as it lives for the maximal skew only and a process without Redis has its own. A message that is not acknowledged stays in `queue` and may be delivered any number of times, also at once.
- **GithubWebhook**. Of `ingestOperationalEvents` only the promise is used: an event with a hint is stored at most once. A request without `X-GitHub-Delivery` has neither key nor hint.
- **ControlPlane**. The properties name the rows of a tenant with operators of their own, not with the checks of the routes that they are to judge.
- **Sessions, Team, Sources, ControlPlane**. Permissions are one step with the arrival of a request; the verified mail address and the plan gate,
  which refuse before anything is done, are left out, and so are access tokens, which expire by themselves. Of roles, `owner` and `admin` are told apart.
- **WebSession**. The access and refresh token of one answer bear one number. Next.js 15 shows a page the cookies that
  the middleware set, and lets actions but not pages set cookies. The refresh cookie lives as long as the refresh token (30 days), so neither expires first;
  expiry is left out.
- **Views**. One workflow, one integration (whose `last_seen_at` is left out of its freshness), one stage; a request is short beside the unit of time. An event has its ties to the workflow and the
  integration, its type, the words of its status and outcome and whether there are blanks around the status: by these `eventStatus` and `eventMatchesWorkflow` differ from `normalizeStatus` and `matchesScope`.

## 4. What the runs check

| Run | Instance | Shows |
|---|---|---|
| `worker_lease` | 2 runs, lease of 2, clock to 4 | `LeaseExclusion`, `LeaseInv`, `LeaseChangesHandsFairly`, `ImplementsLeaseService` |
| `worker_lease_live` | lease of 1, clock to 2 | `CrashedHolderIsReplaced` |
| `event_ledger` | a batch of 2 events, 2 redeliveries, TTL 1, clock to 2 | `AtMostOnce`, `NoSilentLoss`, `LedgerInv`, `ImplementsEventStore` |
| `event_ledger_twice` | 3 deliveries of one event | `NeverTwice` fails (section 5) |
| `alert_dispatch` | 2 runs, 2 alerts, 1 retry each, batch of 2, one death | `OneSendPerEvent`, `RetriesMatchFailures`, `DispatchInv`, `ImplementsAlertQueue` |
| `alert_dispatch_live` | 1 run, batch of 1 | `PendingIsSettled` |
| `incident_bridge` | 2 findings, 3 updates, 2 acts of operators or plan changes, one death | `IncidentMirrorsFinding`, `NothingIsOverlooked`, `OpeningsAreAlerted`, `BridgeInv`, `ImplementsFindingWatch` |
| `incident_bridge_live` | batch of 1, 2 updates, 1 act | `OpenFindingIsBridged` |
| `intake` | `RedisAccess`: 2 processes, limit 1; `IngestQueue`: 2 requests of one fingerprint, 2 handlers; `GithubWebhook`: 5 deliveries, 2 integrations, 2 attempts | `RefusalsAreDeserved`, `AnsweredCallsExpire`, `AcceptedIsKeptOnce`, `DuplicatesWereSeen`, `EventsStayWithTheirOwner` |
| `accounts` | 2 requests in each; 3 tokens, 1 link; 2 emails, 1 address; 2 users, 2 invitations; 1 workflow and 1 integration on a trial; 2 tenants; 1 browser | `CredentialsWorkOnce`, `EndedSessionsStayEnded`, `LockStopsGuessing`, `LastOwnerIsProtected`, `FreePlanIsKept`, `TenantsAreSeparate`, `BrowsersKeepSession` |
| `last_owner` | as `accounts` | `AnOwnerRemains` fails (section 5) |
| `detections` | 5 feeds of reports, 2 handlers; 3 feeds of events, batch of 2; 2 policies of one metric, or 1; 4 scenarios and 2 bursts, of which 2 happen, beside no policy or 3; 2 incidents, 4 pasts | `IncidentsFollowWorkflow`, `AnalysesFollowEvents`, `TriggersAreEarned`, `AnomaliesAreTracked`, `ViewsAreTrue` |

Every safety run also checks the types of its modules, and does so with the inductive
invariant of the proofs (`LeaseInv`, `LedgerInv`, `DispatchInv`, `BridgeInv`, and those of all the modules behind the `TypeOK` of `intake`,
`accounts` and `detections`), of which the types are the first part: TLC looked for a state that breaks
it before it was proved, and each has a mutant as every property has. Reports and deliveries change places in the symmetry
of `intake` only together with what they name. `WebInv` was also checked with two browsers (4.2 million states), which no longer fits in the run.

What is worth noticing in the results:

- *Leases*. Exclusion is about belief: a run whose lease has expired goes on with
  its body, so bodies do overlap. What holds is that no two runs work while both were told
  that their lease is valid at this moment. A renewal never shortens a lease although its timestamp is
  old, because only one renewal of a run is in flight.
- *Ledger*. At most once holds but for two causes (`NoSlip`): a reservation taken over
  while its holder is at work, and a commit reported as an error. A "skipped" answer alone never loses
  an event, except after a failed create that left no row.
- *Alerts*. Delivery is at most once: a run that dies after the claim strands its
  event for ever (`abandoned`); nothing in the code takes it up again.
- *Bridge*. An active incident may lack its alert if the run died between incident and
  event, because the repeated batch finds the incident open, or if an operator resolved it between the read and the write of
  a refresh, which opens it again without an event. The proof attempt found that there is no third way. A finding is missed when its
  update lands behind the cursor or while its tenant lacks the entitlement, until it is updated again.
- *Rate limit*. A counter may live longer than its window: a process that dies between `INCR` and `EXPIRE` leaves one
  without a time to live, which the next call gives a whole window. In memory the remaining time is rounded up to whole seconds at every call (`redis.ts:99`), so
  a client that calls within each second is refused as long as it goes on: `AnsweredCallsExpire` says of Redis alone that its counters run out.
  It has to look at calls after their answer, as the counter may be gone and made anew between any two commands of one call.
- *Logins*. A login that names no tenant looks at the lock of its email under `global`, while its failures are counted, and the lock is set, under the tenant of the user
  (`auth.ts:151`, `:199`, `:241`). For such logins only the lock of the address has an effect; `LockStopsGuessing` bounds those who look at a lock.
- *Queue*. A failed insert is retried, but the dedupe key stays when the process dies before the write, and when its deletion fails: the redelivery is then
  acknowledged as a duplicate and the report is lost. A key that is in the memory of a process outlives a clean-up that reaches Redis,
  which is back by then, to the same effect. A message that is a duplicate while the first is at work is acknowledged as well.
- *GitHub*. The delivery key is set before scope, mapping and store: what fails after it is never stored, and the
  redelivery is answered "duplicate" (`dropped`).
- *Workflow incidents*. What is excepted is what happens: a success that arrives late resolves a newer failure; a crash after the store leaves no incident, as
  the retry is a duplicate; two failures at once make two incidents of one rule, of which a success resolves one; an incident reopened keeps its breach mark.
  The key of a GoHighLevel report whose execution begins with `ghl_`, or that has a delivery, bears no time: a run that fails, is tried again and succeeds, and fails once more has its last
  report dropped as a duplicate of the first, so that the incident stays resolved. The proof attempt found this, the fourth and fifth feeds show it, and what happens where the time is in the key.
- *Analysis*. Events that commit behind the cursor are analysed only as the past of later ones. A finding is evaluated when its system has a new event, not when time passes:
  a burst stays open over a quiet system.
- *Anomalies*. Two policies of one metric may track one incident, as the search falls back to the metric; of two incidents resolved at one time either may count the suppressed triggers;
  a policy whose fingerprint holds the minute opens an incident each minute; an operator's resolve writes back details that it read before, and acknowledging acts on any status.
- *Metrics*. The lookback compares `event_ts`, not the minute, so a rollup rewrites the oldest minute from the part of its rows that it sees, and the minute stays so (`cut`).
  Where that has not happened, what triggers a policy has happened (`TriggersAreEarned`), each execution counted once. Simulations do not always trigger: duplicates alone are 6 events where 20 are needed,
  the p95 is averaged over quiet minutes, a history that does not vary has no z-score, other runs dilute a share, and a policy that was there may ask for more. No property says that they do.
- *Sessions*. A token has one successor whatever happens. A reset link works twice when two requests have read it as unused. A disabled account or an
  accepted invitation ends the sessions only in a later write, or not at all when the process dies in between (`owed`).
- *Sources*. The capacity of the free plan is counted before the write: two requests at once make two sources.
- *Browser*. Two requests that refresh at once are a reuse for the API, which ends every session of the user; a page that refreshes while it is rendered cannot
  save what it got, and the next visit is a reuse; an answer that clears the cookies may land after a login; a browser that
  comes back with a token from before a password change ends the new sessions through the reuse detection.
- *Views*. The two services do not agree about an event: the windows know `error`, the outcome and words with blanks around them, the dashboard does not, and they tie events to a workflow by
  different fields. What holds is one direction (`WindowsKnowErrors`): an error that makes a workflow failing on the dashboard is never missed by a window that the event is in.
  No incident that is active throughout is hidden however the reads fall.

**Bounds.** Two competitors show every race of a conditional write that involves one
row; a third adds nothing to the lease, and is present for the ledger, where a
takeover of a takeover needs it. The clock bound lets a lease be acquired, expire,
be taken over and be renewed late (4 readings with a lease of 2); with a TTL of 1
and two readings a lock is held and expires. A batch of two with redeliveries of its first event has both a
later event that a rejected request abandons and races on the first. `Limit` and `BasicLimit` are both smaller than the
number of events, so that the limit is met; one retry gives both the case with
retries left and the case without. Two findings with a `BatchSize` of two give cursors inside and at the end of a
batch; three updates let a finding open, resolve and reopen. `MaxIncidents` is
not a limit of the behaviour: `OneIncidentPerFinding`, a conjunct of `BridgeInv`, says that no more are needed. One death is enough for each
place where a run may die; the state after a second is one the first can reach as well.
In `intake` a limit of 1 with a window of two ticks has calls before, at and after it; the second time to live
in the clock of `IngestQueue` lets a key expire while its holder is at work; two faults allow a lost key and a failed write together, or an INCR without its EXPIRE and an outage; of the five deliveries
one is in scope, one of another integration's hook, one of another repository, one to be ignored and one without an id. In `accounts` three tokens are a login, its refresh and a reuse or a second login;
one event that ends the sessions divides them into before and after; two users are the least that can lose their last owner by a race; two tenants are the least that can mix. In `detections` the feeds
are chosen so that every rule fires and every rule does not: three reports fail, succeed and fail again, three events make a burst and a spike at a threshold of two, one slow run beside a baseline of one is
a drift; three readings of the clock pass every window. Two incidents are one for each of two policies, or one resolved and one new. Four minutes with a lookback of
a minute and a half put its edge inside a minute and at the border of two.

**Deadlock** is checked for the lease, where a new run may always start while there is
time, and finished runs are recycled. The other models come to an end when their
deliveries, alerts, tokens or updates are used up, so it is not checked there.

**Fairness.** The scheduler invokes the jobs again and again, and a live process goes
on: weak fairness of the steps of runs. `Claim` has strong fairness: the database may
fail a claim, but not every one for ever. Time passes: weak fairness of `Tick` and
`Ripen`. No fairness is assumed of heartbeats, operators, plan changes, failures or crashes.
The runs `intake`, `accounts` and `detections` state safety only and assume no fairness.
The liveness of alerts needs the bound on deaths (a run that always died before its first claim would settle nothing).

## 5. Divergences

**Stored twice.**
`tests/operational-event-idempotency-ingestion.test.ts:260` says the ingestion "does not
create a second operational_event for duplicate normalized ingestion". In a single
process without faults that is so. `NeverTwice`, the same without a proviso, is violated: a
delivery that works for longer than `PROCESSING_TTL_SEC` is taken over, and as its transaction completes
the row whatever it says by then, both store the event; likewise after a commit that is reported as an error.

**The last owner.** `routes/team.ts:530` and `:589` refuse to "demote" and to "disable the last active owner", and
`tests/last-owner-protection.test.ts` tests both. `AnOwnerRemains` is violated: the routes count the active owners and then write by id, so two
requests about two owners each count two; and accepting an invitation sets the role of an existing account without
looking at owners. `LastOwnerIsProtected` shows that these two are the only ways.

## 6. What is proved

Every safety property, action property and refinement that a run checks is a theorem, but for one
(`TriggersAreEarned`, below). The theorems hold for every value of the constants, under the assumptions that the modules name: `LeaseService`, `WorkerLease`, `EventLedger`,
`AlertDispatch` and `IncidentBridge` assume theirs themselves (`None` is no run, durations are positive, batches are sequences of keys); the modules
that are used as instances state theirs as an operator `Proper`, which `Intake`, `Accounts` and `Detections` assume
of each instance (`RedisIsProper`, ..., `ViewsAreProper`). TLC evaluates all of them in the runs. `Proper` says of constants only what their kind says:
bounds are natural numbers, `None` is none of the values it is told from, secrets of two integrations differ, sets that are counted are finite.
The bounds of the runs (clocks, retries, incidents) are constants as well, so each theorem holds for every bound.

An invariant that a run checks is seldom inductive. What each proof adds, and why, is this; TLC checked each inductive invariant before it was proved.

**WorkerLeaseProofs**: `LeaseInvariant`, `TypeCorrect`, `Exclusion`,
`ChangesHandsFairly`, `RefinesLeaseService`. `LeaseExclusion` is not inductive: it says nothing of the row,
nor of calls under way. `LeaseInv` adds that
 - captured timestamps are not ahead of the clock (`CallsAreFromThePast`);
 - an unowned row has no expiry, and no expiry is further than a lease away (`RowIsConsistent`);
 - a run that has not acquired yet left no trace in the row (`FreshTokens`);
 - the renewal in flight is at least as recent as what the row says (`RenewalIsLatest`), so that it cannot shorten the lease;
 - a run that believes in its lease owns the row, until at least the time it was told (`BelievedLeaseIsOwned`).

Exclusion follows from the last: a row has one owner. What takes the row from a believer
must have found it expired at an earlier time, which contradicts the belief. The refinement needs the
second, third and fourth part: each step of a run is a grant, an extension, a release or a stutter.

**EventLedgerProofs**: `LedgerInvariant`, `StoredAtMostOnce`, `DuplicateMeansStored`,
`CompletedStaysCompleted`, `NothingIsLostSilently`. `LedgerInv` has a part that holds whatever fails (a completed row
means a stored event, `CompletedIsStored`, with `IndexIsValid` for the current event) and one that holds
under `NoSlip`: a reservation has one holder, whose row says `processing` (`OneHolder`), and the number of
stored events is 1 if completed and 0 otherwise (`StoredOnceCompleted`). That nothing is lost in silence needs
that a delivery's answers are about the events it is through with (`AnsweredIsThrough`), and that an event
somebody skipped is stored, or failed, or in the hands of a delivery that will tell (`NothingIsForgotten`). `StepEffect` says
what every step has in common, `ReserveRow`, `FailRow` and `CommitRow` what the
three writes make of the row. `RefinesEventStore` maps the ledger away: the holders of an event are the deliveries between their
reservation and their end of it (`HoldersByKey`), the events kept those whose row is completed (`CompletedKeys`), and each step of a request
takes, stores, gives up or dismisses one event, or stutters. That a taken event is not stored yet is `StoredOnceCompleted`.

**AlertDispatchProofs**: `DispatchInvariant`, `EachEventIsSentOnce`, `EachClaimHasOneOwner`, `RetriesMatch`. The parts of `DispatchInv` tie the phase of a run to
the type of the event it is at: what is unclaimed was not sent (`UnclaimedIsUnsent`), two runs never own one event (`OwnersAreAlone`), what is
claimed has an owner or was abandoned (`ClaimedHasOwner`, `AbandonedIsClaimed`), and a retry is the only one of an event that was sent without success (`RetriesFollow`), written before that event is failed (`RetryComesBetween`).
`RefinesAlertQueue`: all runs together are one queue. Who works on an event is read off the phases of the runs (`Owners`), so that a claim is the one step by which an event gets
its taker. The queue lets only what is due be taken, which the conditional update does not check: it follows from `ClaimsAreDue`, as what a run has decided on was due when it
looked, and due events stay so.

**IncidentBridgeProofs**: `BridgeInvariant`, `OneIncidentEach`, `IncidentsMirrorFindings`, `NoFindingIsOverlooked`, `EachOpeningIsAlerted`. `BridgeInv`
says what the run has in hand at each of its calls (`InHand`), that links lead to the incidents of their findings (`LinksAreRight`), that what a run
fetched of a finding is as it was fetched or known to have changed (`FreshIsCurrent`), and that the last finding of the batch leaves none behind
but those accounted for and those in the batch (`BatchIsCovered`).
`RefinesFindingWatch`: the incidents of a finding, as a set with their status (`CareOf`), never come to two and never change their number once there is one, and each write
of the bridge to them agrees with what the run has read of the finding (`InHand`), which is settled only if it still is so (`FreshIsCurrent`). Besides, the
mapping needs that an update under way has a status and that an idle run has nothing left (`AtRest`, an invariant of its own, stated with the proofs). The search for an incident, and a look or check that only decides what
is called next, are stutters.
`OneIncidentEach` is a conjunct of `BridgeInv`, and follows from the refinement as well.

**IntakeProofs**: `IntakeInvariant` is that of all three modules.
 - `RedisAccess`: `RefusalsAreEarned`, `AnsweredCallsRunOut`. A counter timed in time counts no more than the calls of its window (`CountersAreTrue`); the step that matters is that seconds rounded up never
   come to less than the ticks left nor to more than the window (`SecondsCover`), so that a counter rewritten in memory either keeps its end or is marked.
   A call that found a counter without a time to live gives it one, and from its last EXPIRE or TTL on the counter it is counted by has one, as long as it is there (`MineAreTimed`).
 - `IngestQueue`: `AcceptedReportsAreKeptOnce`. A dedupe key has a holder, a row or an excuse behind it (`KeysAreHeld`, `OneHolder`).
 - `GithubWebhook`: `DuplicatesWereHandled`, `EventsKeepTheirOwner`. A delivery key stands for a delivery handled or under way (`SeenIsHandled`); secrets stay different under rotation (`SecretsDiffer`), an owner is one that signed (`OwnersSigned`), so two
   attempts at a delivery have one owner (`AttemptsShareOwner`).

**AccountsProofs**: `AccountsInvariant` is that of all six modules.
 - `Sessions`: `CredentialsAreUsedOnce`, `SessionsEnd`. A token that was used has one successor because the revocation that precedes it is conditional (`SuccessorsAreAlone`); what was issued before an end of the sessions
   is revoked too when it is expired by the clock, as a claim may take it yet (`ExpiredSessionsEndToo`).
 - `WebSession`: `BrowsersKeepTheirSession`. A token is meant for one jar (`TokensAreHeldByOne`), the token of an answer under way is in nobody else's hands (`AnswersAreFresh`), and a live token is in the jar or on its way there (`LiveTokensAreKept`).
 - `LoginLock`: `GuessingIsLimited`. The passwords tried under a lock and those about to be, by requests that looked at it, are fewer than the requests (`TriesAreLimited`), by counting sets.
 - `Team`: `OwnersAreKept`, `CredentialsAreUsedOnce` for invitations. What a request counted holds until it writes or is overtaken (`WritesAreDecided`); two changes that race overtake
   each other. Owners are counted with `Cardinality`, for any finite set of accounts.
 - `ControlPlane`: `TenantsStaySeparate`. What a request has checked of keys, channels and policies still holds when it writes, as rows never change their tenant.
 - `Sources`: `FreePlanStaysKept`. A request that is past its count and was not overtaken still finds the tenant without a source (`DecisionsHold`). The attempt showed
   an error in the model, now mended: the creation of an integration left `stale` both changed and unchanged, so that it never overtook anybody.

**DetectionsProofs**: `DetectionsTypes` is the inductive invariant of all five modules, each of which has a theorem of its own; `AnalysesFollow` joins those of
`OperationalAnalysis` and `MetricsRollup`.
 - `WorkflowDetection`: `WorkflowInvariant`, `IncidentsFollow`. `WorkflowInv` says when a
   handler may still be trusted: it is *clean* when no other handler overlaps it and its report is the latest (`CleanIsInOrder`). A rule that
   no handler is about has an active incident exactly when the latest report asks for one (`QuietRulesFollow`), failures of a rule that was not raced are handled by
   one handler alone (`FailuresAreAlone`), and the ids that the SLA job has read were overdue (`MarksAreDeserved`). Every kind of step has a lemma of
   its own for what it may change, and each action is shown to be of a kind.
 - `OperationalAnalysis`: `AnalysisInvariant`, `AnalysesAreKept`. That the cursor passes nothing over needs the same of the batch a run has in hand (`BatchIsCovered`). That a finding is
   current once everything is analysed needs what holds before that: it agrees with its rule, or an event it is about is not analysed yet and the run at work is not
   through with the rule (`FindingsAgree`, `Awaits`). The rules are shown to mean what they are said to: a burst counted with `Cardinality` is a set of that many failures, and a
   duration that is `DriftRatio` times the median, which `Nth` picks by rank, is that much longer than half of the durations. The attempt showed an error in the
   model, now mended: `Evaluate` chose between two arms of a `CASE` that could both be true.
 - `AnomalyDetection`: `AnomalyInvariant`, `AnomaliesAreKept`. The job knows the incidents it has read as long as no operator wrote them (`RowsAreCurrent`), what an incident counts
   bounds what was suppressed and how long it was quiet (`CountsAgree`), a trigger keeps an incident that this run will not resolve (`TriggersTrack`), and who has read an incident has
   read no alert that was not sent or about to be (`AlertsAreTold`).
 - `MetricsRollup`: `MetricsInvariant`, `MinutesAreCounted`. The rows that the deduplication keeps are as many as the executions, by a bijection (`KeptIsOneEach`), and
   a minute that begins within the lookback has all of its rows within it (`WholeMinutesCount`).
 - `Views`: `ViewsInvariant`, `ViewsAreKept`. What a request has read was so at some time in it, incidents that are still active were read, and the counts read so far only lag behind
   (`ReadsAreTrue`), which is enough however the reads fall. `WindowsKnow` and `GroupsAttend` are about the operators alone.

**Only model-checked**
 - Liveness (`CrashedHolderIsReplaced`, `PendingIsSettled`, `OpenFindingIsBridged`), which the proof system does not reach.
 - `TriggersAreEarned`: what the evaluation of a policy comes to is folds over the sequence of
   minutes, and facts about a fold need induction over data.
 - The two divergences of section 5, which are violations.

## 7. Plan

To prove: one abstract credential (issued, used at most once, ended for good) that `Sessions`, `Team` and the links implement, as
`EventLedger`, `AlertDispatch` and `IncidentBridge` implement theirs; and the use of `EventStore` in place of the set of stored keys of
`GithubWebhook` and `WorkflowDetection`.

To model: the path from event to incident as one composition of `OperationalAnalysis` and
`IncidentBridge`; the cached reports; the gate of plans in the routes.
