# Verification of the Supply Chain Integration Hub

TLA+ specifications of the hub's stateful parts, translated from its Python
source, the TLC configurations that check them on small instances, and TLAPS
proofs of the properties that matter most. Paths below are those of the
repository; `integration_services.py` is in `src/supply_chain_hub/application/`.

## The system

| Component | State it keeps | Operations | What is hard |
|---|---|---|---|
| Durable import jobs (`integration_services.py`, `worker/`) | tables `import_jobs`, `import_attempts`, `import_errors`, `inventory_snapshots`; messages in Redis | submit, publish, receipt, claim, execute, record failure, redispatch, recover | at-least-once delivery, lost messages, crashes, leases, retries, stale sessions, liveness |
| Submission and replay (`submit_inventory_import`, `replay_failed_import`, object storage) | idempotency keys, stored payloads, replay links | submit, resubmit, replay | races on a key, object stored but job not committed |
| Shipments (`services.py`, `domain/shipments.py`, Carrier C webhook) | tables `shipments`, `shipment_events` | create, add event | concurrent read-modify-write, repeated webhooks |
| Inventory positions and mappings (`services.py`, `integration_services.py`) | positions, mappings and their versions | set, upsert, import | lost updates, repeated versions, older data overwriting newer |
| Historical pipeline (`pipelines/`, `airflow/`) | raw, curated and summary objects, quality reports and manifests in SeaweedFS | seed, check, run, verify | retries after a partial publication, sources seeded meanwhile |
| Event stream and detail page (`routes/learning.py`, `learning_services.py`, console) | table `operation_events`; what a console has seen and shows | record, poll, load a page | events visible later than they are stamped, pages read in several statements while workers commit |
| Master data, orders, demo (`services.py`, `run_import_demo`) | suppliers, products, warehouses, purchase orders and their lines | create, list, demo | checks and commits in different statements, several rows in one transaction, pages that move |
| Analytics (`analytics/`) | results of runs | reconcile, risk, benchmark | arithmetic; no concurrency |
| Adapters, API plumbing, presentation, migrations | little or none | translate, show | none of concurrency |

The parts interact through PostgreSQL (rows, unique keys, row locks at READ
COMMITTED), through Redis, which carries job identifiers only, and through the
object store. The API submits and publishes; Celery workers claim and execute;
two beat tasks redispatch queued jobs (15 s) and recover expired leases (30 s).

What makes each component correct:

- imports: every job settles; no row of a completed job is lost; no source key
  is imported twice; attempts are bounded and the ledger of attempts agrees with
  the job; a terminal state is final;
- submission: a key names one job and one content, a job names a stored object;
- shipments: an event is applied once, and only when it is valid;
- inventory: a writer that nobody overtook leaves all it was asked for under a newer
  version, and a snapshot names the mapping versions it was made with;
- pipeline: a success manifest names a complete publication and never changes;
- event stream: the timeline tells what happened to every attempt, a reader is sent it
  without gaps, and whole if its last listing found the job ended, and a page never mixes a settled
  job with rows, errors or events from before it settled;
- master data: orders and shipments refer to what exists and to one supplier, a demo
  leaves all of its rows or none, and a walk of a listing misses no row.

## Modules

| Module | Models |
|---|---|
| `ImportLifecycle` | abstract: what a job promises to the API's caller |
| `ImportLedger` | abstract: what the pipeline keeps under every fault |
| `ImportJobs` | the import pipeline, its processes, tables and messages |
| `MCImportJobs` | instances of it for TLC |
| `ImportJobsProofs` | the invariants that hold under every fault, and the refinement of `ImportLedger` |
| `ImportJobsReliableProofs` | the refinement of `ImportLifecycle` without faults |
| `ImportTimeline` | `ImportJobs` with the events its steps record, and consoles that follow a job and load its page |
| `MCImportTimeline` | an instance of it for TLC |
| `ImportTimelineProofs` | that it implements `ImportJobs` and what follows, its invariants without faults, and what the timeline witnesses under every fault |
| `ShipmentLifecycle` | abstract: each event applied once to the current status |
| `Shipments` | shipments, their events, and concurrent handlers |
| `MCShipments` | instances of it for TLC |
| `ShipmentsProofs` | its invariants, the steps that leave the lifecycle, and the refinement with one handler |
| `Purchasing` | `Shipments` with the requests that create master data, orders and shipments, the learning demo, and clients that walk a listing |
| `MCPurchasing` | an instance of it for TLC |
| `PurchasingProofs` | that it implements `Shipments` and what follows, and its invariants |
| `KeyRegistry` | abstract: what an idempotency key promises whoever sends it |
| `Submission` | submissions and replays: idempotency keys, stored payloads, replay links |
| `MCSubmission` | an instance of it for TLC |
| `SubmissionProofs` | its invariants, the refinement of `KeyRegistry`, and the theorem about replayed jobs |
| `Catalog` | abstract: what the readers of a partition may rely on |
| `Pipeline` | the DAG runs of one partition date: seeding, check, transform, verify, retries |
| `MCPipeline` | an instance of it for TLC |
| `PipelineProofs` | its invariants, and the refinement of `Catalog` |
| `StockBook` | abstract: what readers of positions, mappings and snapshots may rely on |
| `Inventory` | positions, mappings, and the snapshots imports record, under concurrent requests and imports |
| `MCInventory` | an instance of it for TLC |
| `InventoryProofs` | its invariants, the refinement of `StockBook`, and mappings with one request at a time |

In every module a definition whose name begins with `Bug` is a deliberate
defect: a copy of the definition that follows with one mistake. No specification
uses it. Put in place of the definition after it, it shows that the property
named for it in `PROJECT.json` notices that mistake.

### ImportJobs

A step is one committed transaction or one broker call.

| State | Code |
|---|---|
| `job` | the columns of `ImportJob` the guards read: `status`, `attempt_count`, `lease_expires_at` (none, live, expired), `next_retry_at` in the future (`backoff`), `dispatched_at` recent (`dispatched`), the three counts |
| `attempt` | `ImportAttempt.status` by job and attempt number |
| `errors` | rows of a job with an `ImportJobError` |
| `snapshot` | `InventorySnapshot`: which job imported a source key |
| `queue` | jobs with at least one message in Redis. A delivery may leave the message there, which stands for duplicates and for the visibility timeout |
| `worker` | a call of `process_import_job_task`: what its session read and holds |
| `publisher` | an API request or a beat task between its publish and its receipt |

Choices that decide whether the model is faithful:

- The session neither autoflushes nor expires on commit (`db/session.py`). A
  worker therefore finishes from the row it cached at its claim
  (`get_import_job` at line 365 returns the cached object), looks up the attempt with
  the cached number, and its UPDATE names only the columns that differ from the
  cached values (`Written`).
- The API's receipt uses the cached row too; a beat task opens a new session and
  reads the status again (`ReadForReceipt`).
- The first flush of a worker takes a foreign-key lock on its job row, so
  `FOR UPDATE` waits for it and `SKIP LOCKED` passes it over (`RowLocked`).
- The rows of a payload are their source keys. Which of the new rows pass
  validation is a nondeterministic choice; it stands for unknown mappings,
  unit mismatches, rows the adapter refuses, rejections of the whole file and
  repeats of a key inside one payload. The per-row checks are taken
  at the last one, and the per-row inserts together. A conflict or a database
  deadlock between two inserts rolls back all of them, and is `Fail`.
- A failed commit of the claim is a claim that rolled back: the worker is then in
  `ClaimFails`. `FinishUnconfirmed` stands for a commit that took effect
  although its caller saw an error, and for a `session.refresh` that failed after it.
- The batches of the two beat tasks are taken one job at a time, each with its
  publisher; a publisher that stops leaves the rest of the batch for the next
  run of the task.
- `record_import_failure` counts an attempt only when none exists
  (`attempts = 0`), and writes whatever job it finds. A failure before the claim of a
  job that was tried before is therefore not counted, unlike that of the first delivery,
  which `test_preclaim_failure_is_counted_as_a_bounded_attempt` checks. A database that fails every
  claim is retried without bound, and no property says otherwise; such a job stays runnable with the attempts it had.

`ImportLifecycle` is what a caller may expect while leases outlive attempts. With the faults below a settled
job may move again, so `ImplementsLifecycle` fails; `ImportLedger` is what remains: attempts are charged
and never refunded, only a queued job with an attempt left begins one, a report imports or lists each of its
rows in the step that changes the status, a row is imported once, and no import or error is taken back.

Constant `Faults` chooses among three faults beyond crashes, lost, refused and
repeated messages: `stall` (a lease expires while its worker still runs; nothing
renews leases), `preclaim` (the database fails a worker before it claims),
`lostAck` (a commit takes effect and its caller sees an error).

### Shipments

| State | Code |
|---|---|
| `shipment` | `status`, `shipped_at`, `delivered_at` of table `shipments` |
| `recorded` | the rows of `shipment_events` of each shipment |
| `handler` | a call of `add_shipment_event`: the row it read, the event it carries |

A handler reads the row (`Read`, through the API or through a tracking reference
that must be unambiguous), looks for a duplicate in a second statement and decides
the next status (`Accept`, `Refuse`), and commits the row and the event together
(`Commit`), unless the unique key refuses the event (`Rollback`). The UPDATE
names only the columns that differ from the row that was read (`Update`).
Requests that are refused before they read a row change nothing and are not
actions. Instants are compared for equality only, so an event's time is the event.

Two handlers may leave the lifecycle (`shipments_race`). `OnlyLateDecisionsDepart` says that nothing else can:
a change of a shipment is one that `ShipmentLifecycle` allows, or the commit of a handler whose row had a status
that is no longer the shipment's. A comparison of that one column at the commit would
therefore restore the lifecycle. It says the same of instants: `shipped_at`, and `delivered_at` of a delivered shipment, once
known, are overwritten only by the commit of a handler whose row is outdated (`CommitOutdated`).

`CarrierFindsOne` speaks of the step in which a carrier's event begins to reach a shipment, held by
a handler that has looked it up or recorded: the shipment is then the only one with its reference.
Once a second supplier has booked the reference, events that no handler has looked up before reach neither shipment.
A lookup that took the first of two matches would violate it.

### ImportTimeline

| State | Code |
|---|---|
| `events` | rows of `operation_events`, each with an instant |
| `pending` | events that `record_import_event` has made in a session that has not committed |
| `console` | a browser: its stream (the identifiers sent, the polls), and the parts of the detail page it has read |

Each step of `ImportJobs` that records an event is conjoined with what it records
(`RecordedSubmit`, `RecordedClaim`, `StampedCheck`, `RecordedFinish`, `RecordedFailure`); the receipt,
which stamps before it commits, gets a step of its own (`StampReceipt`); everything
else is `Silent` or rolls back (`Aborted`). Recovery of an expired lease records nothing. An event is stamped
by `datetime.now` when it is made and visible when its transaction commits, so a
receipt or a translation may appear after events with later instants. Instants are
those of one job's events and strictly grow: the clocks of the processes are assumed to agree. Events
that one transaction records in a row are one event, named for the last
(`payload.transformed` stands for `payload.verified` too, `job.completed` for
`inventory.committed`).

A stream expires its session before every poll, so the listing (`ListEvents`) and
the status (`Settled`) are two statements, each of what is committed by then. It keeps the
identifiers it has sent and compares nothing else. It ends with the outcome (`TellOutcome`), without
one (`EndUnsettled`) or by a lost connection (`Disconnect`); the console closes it and loads
the detail page in each case (`WalkthroughView.tsx`). The page (`get_learning_import`) reads job, rows,
events, attempts and errors in this order, one statement each; its session keeps the job of the first. A job
that settles between a listing and the status after it ends the stream without its last
events; that is allowed, and the page makes up for it. So `StreamHasNoGap` has two
parts: whatever a stream was sent, everything with an earlier instant was sent too; and if its last
listing found the job settled (`settled` is auxiliary), it was sent all. `OutcomeShown` speaks of all pages.
Dispatch receipts may come after everything else, and neither property counts on them.

### Purchasing

| State | Code |
|---|---|
| `records` | tables `suppliers`, `products`, `warehouses` |
| `lines` | `purchase_order_lines` of each order, none before it is placed |
| `mapped`, `imported` | the mappings a demo creates, and the demos whose job is queued |
| `clerk` | a request: the references it has read so far, and the rows its transaction has flushed |
| `reader` | a client that walks a listing: the next offset, and (auxiliary) which of the rows it should see are unseen |

An order reads its supplier (`StartOrder`), its products (`CheckProducts`) and commits with its lines
(`CommitOrder`); a shipment reads its supplier (`StartShipment`), its order (`CheckOrder`) and commits, which is
`Create` of `Shipments` (`CommitShipment`). The handlers of `Shipments` run beside these, unchanged. The demo
flushes a supplier if it found none, then its product and warehouse, and commits all of it with the mappings and
the import in `submit_inventory_import`; a flushed row makes other inserts of its code wait, and they fail
or go on when that transaction ends. `GiveUp` is every refusal, conflict, failed put and death.
Listings order by code and cut with OFFSET and LIMIT; a client asks until a page is short.
Ordered quantities, names, statuses that nothing changes and the demo's random suffix (its rows are its own) are left out.

### Submission

| State | Code |
|---|---|
| `job` | the columns of `ImportJob` that a submission writes: `idempotency_key`, `content_sha256`, `payload_object_key`, `replay_of_job_id`, and a status reduced to queued (any open state), failed, completed |
| `stored` | objects in SeaweedFS; a name is the checksum and the day of the put |
| `handler` | a call of a submission route (`Loops`) or of the replay route (`Threads`) |
| `day` | the date in `build_raw_object_key` |

The submission routes are coroutines that await only the body, before the
lookup of the key, and the API is one `uvicorn` process (`Dockerfile`, `compose.yaml`):
one submission runs at a time. Replays, like the learning demo, are ordinary
functions, which FastAPI runs in threads. The demo makes a key of its own for
each call and is a submission with a fresh key. A request takes four steps: it
starts (`Submit`, or `Replay` with the checks of the original job), looks for
the key (`FindExisting`, `FindNone`), stores the payload (`Put`, `PutFails`) and
commits (`Commit`) unless the unique key refuses it. `Refuse` stands for every other
end: a key with other content, the loser of a race for the key, a failed commit,
the death of the process. Nothing deletes an object. `Settle` is all that workers do to a job;
constant `Stalls` lets them settle it twice, which `import_stalled` shows to happen.

`KeyRegistry` is what the senders of keys see: registrations (a key, a job, a stored payload, an origin), which never change
once made, and answers, each of which is a registration with the key and content of the request. `Idempotent`,
which compares the answers of one state, follows from it.

Two behaviours that the properties allow and a caller may not expect: the loser of a
race for a key is answered 409 although the winner has the same content; and a
replay under the key of the failed job itself is answered 202 with the failed job,
and starts nothing.

### Pipeline

| State | Code |
|---|---|
| `raw` | raw objects under the partition's prefix; a content is its set of rows |
| `dag` | the task and the try of each Airflow run of `inventory_risk_daily` |
| `process` | the one `historical_inventory.py run` process: its stage, the sources it listed first, the files it has yet to download, the data it has |
| `attempt` | a number for each such process, which stands for the fresh names Spark gives its files |
| `report`, `manifest`, `latest` | the quality report and manifest of each run, and `latest.json` |
| `published` | curated and summary objects |

Every call of the object store is a step, except that the files one
`upload_directory` uploads appear together, so no try dies inside one upload: until the manifest is put nothing
names them. A task fails between any two steps (`TryFails`: an exception,
the gate, the timeout, the death of the process), and is tried again or fails the run.
`SettledAgrees` compares attempts: `latest.json` is the manifest of the run, or names a
publication of another run by a newer attempt. In the code the DAG's `max_active_runs` and the backfill's `--max-active-runs` are limits of their
own; the model has one `process`, so a manual run beside a backfill of the same date is left out. Objects are never deleted. The seeder writes one file per
partition; the transform reads every object under the prefix, so the model has several.
The columns that `_transform` computes are left out: of an object the model keeps its rows.

`Catalog` is what the readers of a partition see: publications of ever later attempts, each of data that passed the
gate and there once both of its objects are, manifests that name the newest publication and files that went
into it, and `latest.json`, which only moves to a manifest of a later attempt. A manifest may be
replaced (`pipeline_immutable`), but never by an older one. `NamedObjectsFrozen` says that the
objects a manifest names do not change while it names them.

Behaviour that the properties allow and a reader may not expect: raw data without any
row passes the gate and publishes a success manifest that never verifies; while
a run is being tried again, its report may contradict its earlier manifest; a
process that dies leaves objects no manifest names.

### Inventory

| State | Code |
|---|---|
| `table` | rows of `inventory_positions`, `supplier_product_mappings`, `supplier_warehouse_mappings`: the columns a request sets, and `version` |
| `snapshots` | rows of `inventory_snapshots` |
| `handler` | a call of `set_inventory` or of an upsert: the row it read and what it is to set |
| `worker` | an import inside `_apply_inventory_result`: the records left, the source keys seen, the mapping or position just read, the snapshots made |
| `held` | positions an import has flushed and not committed; PostgreSQL locks them |

`history`, `last` and `stale` are auxiliary: the rows ever committed, what the last
writer of each row asked for, and the keys some writer of which committed over a row
that had changed since it read it.

A request reads (`Read`) and commits (`Commit`, `CommitUnchanged`) in two steps, without a
lock or a version check. The UPDATE names the columns that differ from the row
that was read (`Update`) and sets `version` to the version read plus one
(`Write`). Two writers that read the same row therefore both write the same version, and
may leave a row with columns of each; a slow one may even lower the version. `OnlyOvertakenWritesMix`
says how far that goes, whatever raced before: a row changes to exactly what a request or import asked for,
under a newer version; or the one that commits was itself overtaken, its row having changed since it read it
(`EndsOutdated`), and even then each column is as it asked or as it was. `VersionsIdentify` and `WritesKept`, which are
proved and in no run, say of the rows that are not in `stale` that a version names one content and a write is kept.
`SnapshotProvenance` needs no such condition. `StockBook` says the same step by step, with `stale` as its `mixed` keys, and
more: a commit raises the version of a row it changes and leaves what was asked for, the snapshots of an import appear with the positions
they were written to, each position with the quantities of one of them, and a source record is recorded once.
`WritesKept` follows from it.

An import reads the product mapping (`FindProduct`, with the lookup of duplicates before it), then the warehouse mapping and the position
(`FindPosition`); each takes two statements of the code in one step, because no state tells what happened between the two,
and flushes the position and the snapshot (`Flush`), for each record, and commits once
(`CommitImport`). The identity map holds objects weakly, and
nothing keeps those of an earlier record, so each record reads its mappings and
its position again; it sees its own flushed rows (`Own`). A flush waits for the lock
of another import, or for its uncommitted source key; a database
deadlock, a conflict or the death of the worker is `RollbackImport`. Where the code
leaves a duplicate of a committed snapshot out of `seen_source_records`, the model
adds it, which no later record can tell. A product's source unit and conversion
factor are one column `unit`, and a record says which units it fits. Quantities that
are refused before anything is read are not actions. The tests
`test_mapping_versions_increment_only_when_configuration_changes` and
`test_import_snapshot_preserves_mapping_versions` check one caller at a time.

## Runs

| Run | Instance | Shows |
|---|---|---|
| `import_faulty` | 1 job, 3 workers, 1 publisher, 3 attempts, every fault | types and attempt bound, ledger of attempts, jobs in processing are recoverable and queued ones have an attempt left, no row of a completed job is dropped, no key is imported twice, refinement of `ImportLedger` |
| `import_reliable` | 2 jobs with the same row, 2 workers, 1 publisher, 2 attempts, no fault | one worker per job, counts agree with rows, terminal states are final, refinement of `ImportLifecycle` |
| `import_liveness` | 1 job, 2 workers, 2 publishers, 2 attempts, `stall` and `lostAck` | every submitted job settles for good |
| `import_stalled` | 1 job, 2 workers, `stall` | violation: a stalled worker changes a terminal job |
| `import_timeline` | 1 job with 2 rows, 2 workers, 1 publisher, 2 attempts, 1 console, no fault | the timeline explains and orders the attempts, a stream has no gap and, if it saw the job settled, is whole, a page shows a settled job whole |
| `shipments_concurrent` | 1 shipment, 2 handlers, 7 events | an event is recorded once, the history explains the row, only late decisions depart from the lifecycle, only outdated rows overwrite instants |
| `purchasing` | 6 rows, 3 orders, 3 shipments with one reference, 1 demo, 2 clerks, 1 reader, 1 handler | purchases agree, a demo is whole, a walk is complete, a carrier's event begins to reach a shipment only while it is alone with its reference, refinement of `ShipmentLifecycle`, instants written once |
| `shipments_race` | 1 shipment, 2 handlers | violation: both of two conflicting events are accepted |
| `submission` | 3 jobs, 2 keys, 2 payloads, 2 days, 1 event loop, 2 replay threads, no stalls | a job names a stored object, replays form no cycle, a replayed job stays failed, refinement of `KeyRegistry` |
| `pipeline` | 2 runs, 2 raw files, 3 contents, 2 tries, 2 attempts | a manifest names a complete publication of data that passed; a settled run's manifest, `latest.json` and report agree; refinement of `Catalog` |
| `pipeline_immutable` | the same | violation: a retry overwrites the success manifest |
| `inventory` | 1 product mapping, 1 warehouse mapping, 1 position, 2 requests, 1 import of up to 2 records, versions up to 2 | a snapshot names committed mapping versions; only a writer that was overtaken mixes columns, drops what it was asked for or sets a version back; refinement of `StockBook` |

Bounds. Jobs interact only through the rows they share, so one job is enough for
its own protocol and two for the race on a row. Three workers and three attempts
allow a stalled worker, the one that replaced it and a duplicate delivery at
once, with an attempt in between that is neither first nor last. One publisher is
enough for safety, because a publisher only adds messages and receipts; the
liveness run has two, so that an API request and a beat task overlap. Seven
events cover every type, two deliveries of one type, and one identifier
with two contents. The queue keeps one message per job: more would only be
delivered again, which a delivery that leaves its message already does. In
`submission` two keys allow a race for one key and a chain of a job and its
replay under the other, and two days give one payload two names; the day is
the only counter there, bounded by `LastDay`. In `pipeline` two attempts
(`LastAttempt`) allow a failed try and its retry, an execution and its
reprocessing, or one of each of two runs; two files allow one to be
seeded between the two listings, and the contents are no row, a row that is invalid
only if both files have it, and an invalid row. In `inventory` both records
go to one position, so that an import meets its own write, and the second fits one
unit only, so that an upsert can make it fail; `LastVersion` 2 allows a creation and one
change of each row, by writers that read before or after each other. Two imports, with
the locks between them, need `Handlers = {h1}` and `Workers = {i1, i2}` in the same
configuration, under which the properties hold too; no run repeats them, because
the proofs cover any number of both. In `import_timeline` two rows allow accepted, rejected and
mixed outcomes, two attempts a retry, a crash or a failure before the last; `MaxPolls` 2 gives the stream a poll that
finds nothing new, one that does, and a timeout; `MaxReceipts` 1 allows one receipt that is
late, and `LastInstant` 9 is above the number of events this allows. In
`purchasing` a supplier is posted under the code the demo looks for, two orders of one
supplier have one reference, one shipment names the order of another supplier, and the pages of the
reader hold one row, so that every insert moves them. The import
runs do not check deadlock: once every job has settled the import system rests.

Symmetry is used in safety runs only.

Fairness of `import_liveness`: a worker that holds a task takes its next step or
dies (`Advance`; crashes and failures are never required); a publisher
goes on; time passes (leases, backoff, receipts); beat runs its tasks again and again
(strong fairness of `SelectDue` and `RecoverForRetry`, because a task may find
the job in another state on one run and eligible on the next); the broker does not
refuse every publish (strong fairness of `PublishOf`) nor lose every message
(strong fairness of `Claim`). `preclaim` is excluded: the code does not bound those failures (see
`ImportJobs` above).

## Findings

- A worker that outlives its lease changes a settled job, because neither
  the end of `execute_import_job` nor `record_import_failure` compares the job's
  state or current attempt with its own (`import_stalled`).
- Concurrent shipment events are both accepted (`shipments_race`), contrary to the
  docstring of `status_after_event`.
- The success manifest that the README calls immutable is overwritten by a retry of
  a transform that failed after publishing it, and by a reprocessing backfill
  (`pipeline_immutable`).

## Proofs

All hold for any sets of jobs, workers, keys, shipments, events and handlers, and
use the named assumptions of the modules only.

`ImportJobsProofs`: the invariant is the conjunction of the four that
`import_faulty` checks and of `QueuedMayRun` (a queued job has an attempt left, which `ImplementsLedger` rests on), made inductive by what each worker remembers (its
attempt is one the job has begun, every row of its job is accepted or in its copy
of the errors, and the rows it flushed are committed by no job and flushed by no
other worker). It holds initially and every
action preserves it, one lemma per group of actions. `ImportedOnce` follows
because only a commit writes `snapshot`, and the rows it writes are new. `LedgerRefinement` maps every step to one of `ImportLedger`
or to a stutter; it needs, beyond that invariant, that workers, attempts, errors and snapshots belong to submitted jobs and to
rows of those jobs (`OnlyAccepted`, `RowsOwn`; theorem `OnlySubmittedWork`).

`ImportJobsReliableProofs`, with `Faults = {}`: a busy worker holds the current
attempt of a job in processing and is alone on it, and the lease of such a job
cannot expire. Under that invariant every step is a step of `ImportLifecycle`
or invisible, which gives the refinement, exclusivity and the finality
of terminal states.

`ShipmentsProofs`: the history explains the row although handlers race, because an
instant that a handler read as set is still set when it commits. With one
handler, the row it read is still the row of the table, which gives the
refinement and the stability of the instants. With any number, `LateDecisionsOnly` splits a commit: if the status
a handler read is the shipment's, its decision is a step of the lifecycle, since only the
status and whether an instant is set enter that decision, and set instants stay. An instant that is known is in the row
the handler read, unless the shipment changed since; so a commit that overwrites it is outdated.
`CarrierReachesOne` rests on two facts: a handler takes up a carrier's event only in the step that finds the reference
unambiguous, and an event is recorded by the handler that took it up. Beyond types it needs that what is not booked has no history.

`SubmissionProofs`: the checked invariants become inductive with what a handler
holds (the object it is about to name is stored, the job it answers with has its
key and content, the origin of its replay has the content it carries) and with
the uniqueness of keys. That replays form no cycle is stated without recursion,
for sets of jobs, and follows because a job's origin existed before it. `OriginsStayFailed`
assumes `Stalls = FALSE`. In `RegistryRefinement` the commit registers a key, because the unique constraint finds it free and the object it names
is stored; an answer to a repetition is a registration, because the job it found has the content of the request; and
a status that workers write is in no registration.

`PipelineProofs`: the checked invariants become inductive with what the process has
done in each stage (`ProcessRight`), with at most one active run, and with the fact that no
manifest is of the current attempt until the process puts it, so that an upload
cannot add to what a manifest already names. The second listing misses no file
of the first, because nothing deletes a raw object (`SourcesInHand`). `CatalogRefinement` adds that attempts only grow:
publications are of attempts up to the current one, and manifests and `latest.json` are of earlier ones until the process puts them
(`CatalogAhead`), so that each put replaces what it finds by something newer. `NamedObjectsStay` follows: an upload is of the current attempt, which no manifest names yet.

`InventoryProofs`: the checked invariants become inductive with what readers hold. A
row that was read still exists, because nothing deletes rows (`HandlerRight`); a mapping an
import found was committed as it was found (`WorkerRight`), and what was committed
stays in `history`, which gives the provenance of snapshots. Outside `stale` every version in
`history` is at most the current one, and a held row is newer than the row of the
table it was made from (`Good`), which gives the versions and the writes. `OvertakenOnly` needs that
the row an import holds has each column as its record asked or as the row had it that the import read (also in `Good`): if the
row of the table is still that one, `Write` leaves the whole record under a newer version, otherwise the commit is overtaken.
Locks make the positions that two imports hold disjoint. `BookRefinement` adds that what an import holds of a position is
one of the snapshots it made of it (`HeldMade`), and that no two imports, nor an import and the table, have a source record
in common (`SourcesApart`), because a flush waits for the unique key of another; so its commit is one step of `StockBook`. Imports write no mapping:
with one request at a time mappings are exact for good (`SerialUpserts`).

`ImportJobsReliableProofs` ends with `CountsCorrect`: each step moves at most one job that is
not settled, or none (`StepMoves`), nothing of a settled job changes, and the counts a worker writes are the
cardinalities of the rows it commits.

`ImportTimelineProofs`, with `Faults = {}` unless said: every step of the timeline is a step of `ImportJobs`
(`TimelineComposes`, which needs no assumption on faults), so all that is proved of `ImportJobs`
holds (`WatchedPipelineKeepsLedger` under every fault, `WatchedPipelineKeepsLifecycle` without). The story of a job, its
events but the receipts, fits its row and its ledger (`StoriesFit`), a worker past its check keeps one event that is later than
its job's story (`WorkersStamp`), and whatever a console was told or has read of a settled job still holds
(`ConsolesFit`), because such a job and its story do not change any more. The last is why five statements show one state.
`StreamsGapfree` rests on the growth of stories: a step of the pipeline leaves the story of a job or adds one event later than
all of it (`Grown`), although receipts and aborted work are stamped in between, so no event appears below one that a stream has sent.

Under every fault two workers may write one timeline, a completed job may run again, and `TimelineExplains`
fails. What is left is `TimelineWitnesses`, which no run checks and `TimelineTrusted` proves for all of `Faults`: every state of the attempt ledger
was told, an attempt is claimed at most once and before all it tells, and completes at most once, and a completion, once told,
accounts for every row for good. Its invariant (`WInv`) speaks of what is stamped, committed or
not (`StampsHold`), because an event may be committed after the job moved on; an attempt that a worker holds is
nobody else's and has not completed (`AttemptsHeld`), because claims count attempts up and nothing counts them down.

`PurchasingProofs`: `Purchasing` implements `Shipments` step by step, so the theorems of `ShipmentsProofs` hold of it
(`BookedShipmentsHold`, `BookedShipmentsSerial`). References that a request has read stay
(`Requests`), because nothing is deleted; flushed rows of two transactions never clash with each other or with a
committed row (`HeldApart`), which makes the demo whole; and the rows a walk has yet to see have a
rank of at least its offset (`WalksAhead`), because inserts only raise ranks.

Model-checked only: `Settles` (liveness under fairness is beyond the prover). The violations are TLC
counterexamples.

## Not modelled

- Analytics (`analytics/`, `analytics_services.py`): sequential computations in
  floating point over data generated from a seed, whose results are inserted in one
  transaction and read by listings of one run. There is no state, order or failure to explore beyond the
  arithmetic, which is numpy's, pandas' and polars'.
- Adapters' formats: which rows of a payload they accept is a nondeterministic choice in `ImportJobs`.
- The delay before a retry (`calculate_retry_delay`): the models know only that it ends.
- Migrations, observability, health probes, security headers, and the presentation of the web
  console: no state the rest depends on. The constraints of the schema are taken from `models.py`.
- What two concurrent writers of a position or mapping should leave: nothing in the repository says. The
  properties say what they do leave: each column as one of them asked or as it was.

`PROJECT.json` lists every component and every hazard with the properties that cover it. Two hazards have
none, because the code does not prevent them and nothing in the repository says that it should: an import that
was observed earlier than the position overwrites newer quantities, and failures before the claim are retried without bound.
