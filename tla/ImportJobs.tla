---------------------------- MODULE ImportJobs ----------------------------
(***************************************************************************)
(* The durable import pipeline: an import job is a row of PostgreSQL, Redis *)
(* carries only its identifier, Celery workers claim and execute it, and    *)
(* two beat tasks redispatch queued jobs and recover expired leases         *)
(* (application/integration_services.py and worker/tasks.py).               *)
(*                                                                          *)
(* A step is one committed transaction or one broker call.  PostgreSQL runs *)
(* at READ COMMITTED.  The ORM session neither autoflushes nor expires on   *)
(* commit (infrastructure/db/session.py), so what a worker read when it     *)
(* claimed a job is what it still believes when it finishes it.             *)
(*                                                                          *)
(* Time is abstracted to what the guards compare: a lease is live or        *)
(* expired, a job is in backoff or not, a dispatch receipt is recent or     *)
(* not; NULL and an instant in the past are the same wherever the code      *)
(* treats them alike.  The payload of a job is the set of source keys       *)
(* (source_reference, external_sku, external_location) of its rows.         *)
(***************************************************************************)
EXTENDS Naturals, FiniteSets

CONSTANTS
    Jobs,         \* import jobs that clients may submit
    Workers,      \* Celery worker processes
    Publishers,   \* API requests and beat tasks that publish job identifiers
    Keys,         \* source keys of inventory records
    NoJob,        \* no job (a value outside Jobs)
    RowsOf,       \* [Jobs -> SUBSET Keys]: the rows of each job's payload
    MaxAttempts,  \* settings.import_max_attempts
    Faults        \* which of FaultKinds the environment may commit

FaultKinds == {"stall",       \* a lease expires while its worker still runs
               "preclaim",    \* the database fails a worker before it claims
               "lostAck"}     \* a commit takes effect, its caller sees an error

ASSUME JobsAssumption == NoJob \notin Jobs
ASSUME RowsAssumption == RowsOf \in [Jobs -> SUBSET Keys]
ASSUME MaxAttemptsAssumption == MaxAttempts \in Nat \ {0}
ASSUME FaultsAssumption == Faults \subseteq FaultKinds
ASSUME FiniteKeysAssumption == IsFiniteSet(Keys)

VARIABLES
    job,        \* table import_jobs
    attempt,    \* table import_attempts: status of attempt n of job j
    errors,     \* table import_errors: rows of job j with a recorded error
    snapshot,   \* table inventory_snapshots: the job that imported a key
    queue,      \* Redis: jobs with at least one message waiting
    worker,     \* process_import_job_task, one per worker process
    publisher   \* publish_import_job and the receipt that follows it

dbVars == <<job, attempt, errors, snapshot>>
vars == <<job, attempt, errors, snapshot, queue, worker, publisher>>

---------------------------------------------------------------------------
(* Types.                                                                   *)

Completed == {"completed", "completed_with_errors"}
Terminal  == Completed \union {"failed"}
JobStatus == {"absent", "queued", "processing"} \union Terminal

AttemptStatus ==
    {"absent", "running", "succeeded", "retry_scheduled", "failed", "abandoned"}

Counts == [total : Nat, accepted : Nat, rejected : Nat]

JobRow ==
    [status     : JobStatus,
     attempts   : 0 .. MaxAttempts,              \* attempt_count
     lease      : {"none", "live", "expired"},   \* lease_expires_at
     backoff    : BOOLEAN,                       \* next_retry_at > now
     dispatched : BOOLEAN,                       \* dispatched_at is recent
     counts     : Counts]

WorkerState ==
    [stage    : {"idle", "claimed", "checked", "flushed", "failing"},
     job      : Jobs \union {NoJob},
     n        : 0 .. MaxAttempts,   \* the attempt the worker opened
     cached   : Counts,             \* counts of the row it claimed
     accepted : SUBSET Keys,        \* rows it found importable
     rejected : SUBSET Keys,        \* rows in its copy of job.errors
     retryable: BOOLEAN]            \* class of the error it is recording

PublisherState ==
    [stage : {"idle", "api_publish", "beat_publish", "mark", "receipt"},
     job   : Jobs \union {NoJob}]

NoCounts == [total |-> 0, accepted |-> 0, rejected |-> 0]

AbsentJob ==
    [status |-> "absent", attempts |-> 0, lease |-> "none", backoff |-> FALSE,
     dispatched |-> FALSE, counts |-> NoCounts]

IdleWorker ==
    [stage |-> "idle", job |-> NoJob, n |-> 0, cached |-> NoCounts,
     accepted |-> {}, rejected |-> {}, retryable |-> FALSE]

IdlePublisher == [stage |-> "idle", job |-> NoJob]

Init ==
    /\ job = [j \in Jobs |-> AbsentJob]
    /\ attempt = [j \in Jobs |-> [n \in 1 .. MaxAttempts |-> "absent"]]
    /\ errors = [j \in Jobs |-> {}]
    /\ snapshot = [k \in Keys |-> NoJob]
    /\ queue = {}
    /\ worker = [w \in Workers |-> IdleWorker]
    /\ publisher = [p \in Publishers |-> IdlePublisher]

---------------------------------------------------------------------------
(* Guards and row updates the transactions share.  A definition whose name   *)
(* begins with Bug is a deliberate defect: it takes the place of the one     *)
(* after it to show which property notices.                                  *)

(* One more attempt may follow attempt n.                                    *)
BugMayRetryForever(retryable, n) == retryable
MayRetry(retryable, n) == retryable /\ n < MaxAttempts

(* Set a job back to queued, or to failed when it may not be tried again.    *)
BugSettleUncounted(j, again, n, backoff) ==
    job' = [job EXCEPT ![j].status = IF again THEN "queued" ELSE "failed",
                       ![j].lease = "none", ![j].dispatched = FALSE,
                       ![j].backoff = backoff]

BugSettleKeepsStatus(j, again, n, backoff) ==
    job' = [job EXCEPT ![j].attempts = n, ![j].lease = "none",
                       ![j].backoff = backoff, ![j].dispatched = FALSE]

Settle(j, again, n, backoff) ==
    job' = [job EXCEPT ![j].status = IF again THEN "queued" ELSE "failed",
                       ![j].attempts = n, ![j].lease = "none",
                       ![j].backoff = backoff, ![j].dispatched = FALSE]

---------------------------------------------------------------------------
(* Publishing.  Every caller publishes first and then writes the receipt    *)
(* dispatched_at; the broker and the database are never in one transaction. *)

Enter(p, stage, j) ==
    /\ publisher[p].stage = "idle"
    /\ publisher' = [publisher EXCEPT ![p] = [stage |-> stage, job |-> j]]

Leave(p) == publisher' = [publisher EXCEPT ![p] = IdlePublisher]

(* A new submission: the job row and its first events commit together.      *)
Submit(p, j) ==
    /\ job[j].status = "absent"
    /\ job' = [job EXCEPT ![j].status = "queued"]
    /\ Enter(p, "api_publish", j)
    /\ UNCHANGED <<attempt, errors, snapshot, queue, worker>>

(* The same Idempotency-Key again, while the job it returns is queued.      *)
Resubmit(p, j) ==
    /\ job[j].status = "queued"
    /\ Enter(p, "api_publish", j)
    /\ UNCHANGED <<dbVars, queue, worker>>

(* The beat task reads, without a lock, the jobs due for dispatch.          *)
DueForDispatch(j) ==
    job[j].status = "queued" /\ ~job[j].backoff /\ ~job[j].dispatched

SelectDue(p, j) ==
    /\ DueForDispatch(j)
    /\ Enter(p, "beat_publish", j)
    /\ UNCHANGED <<dbVars, queue, worker>>

(* The API marks the job from the row its session already holds; the beat   *)
(* tasks open a new session and read the row again.                         *)
Publish(p) ==
    /\ publisher[p].stage \in {"api_publish", "beat_publish"}
    /\ queue' = queue \union {publisher[p].job}
    /\ publisher' = [publisher EXCEPT ![p].stage =
                        IF @ = "api_publish" THEN "receipt" ELSE "mark"]
    /\ UNCHANGED <<dbVars, worker>>

PublishFails(p) ==
    /\ publisher[p].stage \in {"api_publish", "beat_publish"}
    /\ Leave(p)
    /\ UNCHANGED <<dbVars, queue, worker>>

ReadForReceipt(p) ==
    /\ publisher[p].stage = "mark"
    /\ IF job[publisher[p].job].status = "queued"
       THEN publisher' = [publisher EXCEPT ![p].stage = "receipt"]
       ELSE Leave(p)
    /\ UNCHANGED <<dbVars, queue, worker>>

WriteReceipt(p) ==
    /\ publisher[p].stage = "receipt"
    /\ job' = [job EXCEPT ![publisher[p].job].dispatched = TRUE]
    /\ Leave(p)
    /\ UNCHANGED <<attempt, errors, snapshot, queue, worker>>

PublisherStops(p) ==
    /\ publisher[p].stage # "idle"
    /\ Leave(p)
    /\ UNCHANGED <<dbVars, queue, worker>>

---------------------------------------------------------------------------
(* Delivery and the claim transaction.                                      *)

(* A worker that has flushed inserts holds a foreign-key (KEY SHARE) lock   *)
(* on its job row: SELECT ... FOR UPDATE waits for it, SKIP LOCKED skips it.*)
RowLocked(j) == \E w \in Workers : worker[w].stage = "flushed" /\ worker[w].job = j

(* Delivery is at least once: the message may come again (visibility        *)
(* timeout, duplicate publishes).                                           *)
Deliver(w, j) ==
    /\ j \in queue
    /\ worker[w].stage = "idle"
    /\ queue' \in {queue, queue \ {j}}

BugClaimableAnyStatus(j) == ~job[j].backoff /\ job[j].attempts < MaxAttempts
Claimable(j) == job[j].status = "queued" /\ ~job[j].backoff

(* The claim finds the job already taken, settled or in backoff, returns,   *)
(* and the message is acknowledged.                                         *)
Skip(w, j) ==
    /\ j \in queue
    /\ worker[w].stage = "idle"
    /\ ~RowLocked(j)
    /\ ~Claimable(j)
    /\ queue' = queue \ {j}
    /\ UNCHANGED <<dbVars, worker, publisher>>

Claim(w, j) ==
    LET n == job[j].attempts + 1
    IN  /\ Deliver(w, j)
        /\ ~RowLocked(j)
        /\ Claimable(j)
        /\ job' = [job EXCEPT ![j].status = "processing", ![j].attempts = n,
                              ![j].lease = "live", ![j].backoff = FALSE]
        /\ attempt' = [attempt EXCEPT ![j][n] = "running"]
        /\ worker' = [worker EXCEPT ![w] =
              [IdleWorker EXCEPT !.stage = "claimed", !.job = j, !.n = n,
                                 !.cached = job[j].counts]]
        /\ UNCHANGED <<errors, snapshot, publisher>>

Failing(w, j, n, retryable) ==
    worker' = [worker EXCEPT ![w] =
        [IdleWorker EXCEPT !.stage = "failing", !.job = j, !.n = n,
                           !.retryable = retryable]]

(* The database fails before the claim commits: an OperationalError, which  *)
(* is retryable, of a delivery that opened no attempt.                      *)
ClaimFails(w, j) ==
    /\ "preclaim" \in Faults
    /\ Deliver(w, j)
    /\ Failing(w, j, 0, TRUE)
    /\ UNCHANGED <<dbVars, publisher>>

---------------------------------------------------------------------------
(* The processing transaction.                                              *)

(* Adapt the retained payload and validate its rows: those whose key is     *)
(* already imported are duplicates, others may fail validation (unknown     *)
(* mapping, unit mismatch, malformed row).  job.errors is loaded now, so    *)
(* errors committed by an earlier pass are counted again.                   *)
Fresh(j) == {k \in RowsOf[j] : snapshot[k] = NoJob}

BugRejectedUnrecorded(j, ok) == errors[j]
RejectedRows(j, ok) == errors[j] \union (RowsOf[j] \ ok)

Check(w) ==
    LET j == worker[w].job
    IN  /\ worker[w].stage = "claimed"
        /\ \E ok \in SUBSET Fresh(j) :
              worker' = [worker EXCEPT
                  ![w].stage = "checked", ![w].accepted = ok,
                  ![w].rejected = RejectedRows(j, ok)]
        /\ UNCHANGED <<dbVars, queue, publisher>>

(* Insert the snapshots.  The unique key makes the insert wait for another  *)
(* transaction that inserted the same key and has not ended.                *)
BugNoUniqueKey(w) == TRUE
Insertable(w) ==
    /\ \A k \in worker[w].accepted : snapshot[k] = NoJob
    /\ \A v \in Workers \ {w} :
          worker[v].stage = "flushed" => worker[v].accepted \cap worker[w].accepted = {}

Flush(w) ==
    /\ worker[w].stage = "checked"
    /\ worker[w].accepted # {}
    /\ Insertable(w)
    /\ worker' = [worker EXCEPT ![w].stage = "flushed"]
    /\ UNCHANGED <<dbVars, queue, publisher>>

(* The key was committed since it was checked: IntegrityError, which is not *)
(* among the retryable classes.                                             *)
FlushConflict(w) ==
    /\ worker[w].stage = "checked"
    /\ \E k \in worker[w].accepted : snapshot[k] # NoJob
    /\ Failing(w, worker[w].job, worker[w].n, FALSE)
    /\ UNCHANGED <<dbVars, queue, publisher>>

(* The ORM writes a column only when it differs from the value it loaded.   *)
BugWrittenIfSame(new, cached, current) == IF new = cached THEN new ELSE current
Written(new, cached, current) == IF new = cached THEN current ELSE new

FinalStatus(rejected) == IF rejected = 0 THEN "completed" ELSE "completed_with_errors"

(* Commit of the whole result over the row as the worker remembers it: the  *)
(* status and the owner of the row are not read again.                      *)
CommitResult(w) ==
    LET j   == worker[w].job
        acc == Cardinality(worker[w].accepted)
        rej == Cardinality(worker[w].rejected)
        old == worker[w].cached
        now == job[j].counts
    IN  /\ \/ worker[w].stage = "flushed"
           \/ worker[w].stage = "checked" /\ worker[w].accepted = {}
        /\ job' = [job EXCEPT
              ![j].status = FinalStatus(rej),
              ![j].lease  = "none",
              ![j].counts = [total    |-> Written(acc + rej, old.total, now.total),
                             accepted |-> Written(acc, old.accepted, now.accepted),
                             rejected |-> Written(rej, old.rejected, now.rejected)]]
        /\ attempt' = [attempt EXCEPT ![j][worker[w].n] = "succeeded"]
        /\ snapshot' = [k \in Keys |-> IF k \in worker[w].accepted THEN j ELSE snapshot[k]]
        /\ errors' = [errors EXCEPT ![j] = @ \union worker[w].rejected]
        /\ UNCHANGED <<queue, publisher>>

Finish(w) ==
    /\ CommitResult(w)
    /\ worker' = [worker EXCEPT ![w] = IdleWorker]

(* The commit is durable but the connection breaks before it is confirmed.  *)
FinishUnconfirmed(w) ==
    /\ "lostAck" \in Faults
    /\ CommitResult(w)
    /\ Failing(w, worker[w].job, worker[w].n, TRUE)

(* Any other exception: the object store, the adapter, the database.        *)
Fail(w) ==
    /\ worker[w].stage \in {"claimed", "checked", "flushed"}
    /\ \E retryable \in BOOLEAN :
          Failing(w, worker[w].job, worker[w].n, retryable)
    /\ UNCHANGED <<dbVars, queue, publisher>>

---------------------------------------------------------------------------
(* Failure, retry and recovery.                                             *)

(* record_import_failure takes the row lock, but looks neither at the       *)
(* status of the job nor at whose attempt is current.  A retry message is   *)
(* published by self.retry; the broker may refuse it.                       *)
RecordFailure(w) ==
    LET j     == worker[w].job
        n     == IF job[j].attempts = 0 THEN 1 ELSE job[j].attempts
        again == MayRetry(worker[w].retryable, n)
    IN  /\ worker[w].stage = "failing"
        /\ ~RowLocked(j)
        /\ Settle(j, again, n, again)
        /\ attempt' = [attempt EXCEPT ![j][n] =
                          IF again THEN "retry_scheduled" ELSE "failed"]
        /\ worker' = [worker EXCEPT ![w] = IdleWorker]
        /\ queue' \in IF again THEN {queue, queue \union {j}} ELSE {queue}
        /\ UNCHANGED <<errors, snapshot, publisher>>

(* The failure itself cannot be stored: the task retries, the row is left.  *)
RecordFailureFails(w) ==
    /\ worker[w].stage = "failing"
    /\ worker' = [worker EXCEPT ![w] = IdleWorker]
    /\ queue' \in {queue, queue \union {worker[w].job}}
    /\ UNCHANGED <<dbVars, publisher>>

(* The worker process dies; its transaction rolls back and the broker       *)
(* redelivers the unacknowledged message, or has forgotten it.              *)
Crash(w) ==
    /\ worker[w].stage # "idle"
    /\ worker' = [worker EXCEPT ![w] = IdleWorker]
    /\ queue' \in {queue, queue \union {worker[w].job}}
    /\ UNCHANGED <<dbVars, publisher>>

BugStaleWithoutLease(j) ==
    job[j].status = "processing" /\ job[j].lease = "none" /\ ~RowLocked(j)
BugStaleAnyLease(j) == job[j].status = "processing" /\ ~RowLocked(j)
Stale(j) == job[j].status = "processing" /\ job[j].lease = "expired" /\ ~RowLocked(j)

Abandon(j) == attempt' = [attempt EXCEPT ![j][job[j].attempts] = "abandoned"]

(* recover_stale_imports, one job of its batch: next_retry_at is now, and   *)
(* the job is published once the batch has committed.                       *)
RecoverForRetry(p, j) ==
    /\ Stale(j)
    /\ MayRetry(TRUE, job[j].attempts)
    /\ Settle(j, TRUE, job[j].attempts, FALSE)
    /\ Abandon(j)
    /\ Enter(p, "beat_publish", j)
    /\ UNCHANGED <<errors, snapshot, queue, worker>>

RecoverExhausted(j) ==
    /\ Stale(j)
    /\ ~MayRetry(TRUE, job[j].attempts)
    /\ Settle(j, FALSE, job[j].attempts, FALSE)
    /\ Abandon(j)
    /\ UNCHANGED <<errors, snapshot, queue, worker, publisher>>

---------------------------------------------------------------------------
(* Time and the broker.                                                     *)

(* Nothing renews a lease.  Without stalls it outlives the attempt it was   *)
(* taken for, so only the lease of a dead attempt expires.                  *)
Held(j) ==
    \E w \in Workers : worker[w].job = j /\ worker[w].n = job[j].attempts

LeaseExpires(j) ==
    /\ job[j].lease = "live"
    /\ "stall" \in Faults \/ ~Held(j)
    /\ job' = [job EXCEPT ![j].lease = "expired"]
    /\ UNCHANGED <<attempt, errors, snapshot, queue, worker, publisher>>

BackoffEnds(j) ==
    /\ job[j].backoff
    /\ job' = [job EXCEPT ![j].backoff = FALSE]
    /\ UNCHANGED <<attempt, errors, snapshot, queue, worker, publisher>>

ReceiptAges(j) ==
    /\ job[j].dispatched
    /\ job' = [job EXCEPT ![j].dispatched = FALSE]
    /\ UNCHANGED <<attempt, errors, snapshot, queue, worker, publisher>>

LoseMessage(j) ==
    /\ j \in queue
    /\ queue' = queue \ {j}
    /\ UNCHANGED <<dbVars, worker, publisher>>

---------------------------------------------------------------------------
PublisherNext(p) ==
    \/ \E j \in Jobs : \/ Submit(p, j) \/ Resubmit(p, j)
                       \/ SelectDue(p, j) \/ RecoverForRetry(p, j)
    \/ Publish(p) \/ PublishFails(p)
    \/ ReadForReceipt(p) \/ WriteReceipt(p) \/ PublisherStops(p)

WorkerNext(w) ==
    \/ \E j \in Jobs : Skip(w, j) \/ Claim(w, j) \/ ClaimFails(w, j)
    \/ Check(w) \/ Flush(w) \/ FlushConflict(w)
    \/ Finish(w) \/ FinishUnconfirmed(w) \/ Fail(w)
    \/ RecordFailure(w) \/ RecordFailureFails(w) \/ Crash(w)

JobNext(j) ==
    \/ RecoverExhausted(j)
    \/ LeaseExpires(j) \/ BackoffEnds(j) \/ ReceiptAges(j) \/ LoseMessage(j)

Next ==
    \/ \E p \in Publishers : PublisherNext(p)
    \/ \E w \in Workers : WorkerNext(w)
    \/ \E j \in Jobs : JobNext(j)

Spec == Init /\ [][Next]_vars

(* What the scheduling justifies.  A worker that has a task takes its next   *)
(* step or dies; time passes; beat runs its two tasks again and again        *)
(* whatever else happens; the broker does not refuse every publish nor lose  *)
(* every message.  Nothing is assumed of requests, crashes or failures.      *)
Advance(w) ==
    Check(w) \/ Flush(w) \/ FlushConflict(w) \/ Finish(w) \/ RecordFailure(w)

PublishOf(j) == \E p \in Publishers : publisher[p].job = j /\ Publish(p)

Fairness ==
    /\ \A w \in Workers : WF_vars(Advance(w))
    /\ \A p \in Publishers :
          WF_vars(Publish(p) \/ PublishFails(p) \/ ReadForReceipt(p) \/ WriteReceipt(p))
    /\ \A j \in Jobs :
          /\ WF_vars(LeaseExpires(j)) /\ WF_vars(BackoffEnds(j)) /\ WF_vars(ReceiptAges(j))
          /\ WF_vars(RecoverExhausted(j))
          /\ SF_vars(\E p \in Publishers : SelectDue(p, j))
          /\ SF_vars(\E p \in Publishers : RecoverForRetry(p, j))
          /\ SF_vars(PublishOf(j))
          /\ SF_vars(\E w \in Workers : Claim(w, j))

FairSpec == Spec /\ Fairness

---------------------------------------------------------------------------
(* Properties that hold whatever the environment does.                      *)

(* Every variable keeps its type; attempt_count never exceeds max_attempts. *)
TypeOK ==
    /\ job \in [Jobs -> JobRow]
    /\ attempt \in [Jobs -> [1 .. MaxAttempts -> AttemptStatus]]
    /\ errors \in [Jobs -> SUBSET Keys]
    /\ snapshot \in [Keys -> Jobs \union {NoJob}]
    /\ queue \subseteq Jobs
    /\ worker \in [Workers -> WorkerState]
    /\ publisher \in [Publishers -> PublisherState]

(* The attempt ledger agrees with attempt_count: attempts 1..attempt_count   *)
(* exist and no other, so no worker and no recovery looks up a current       *)
(* attempt that is missing or inserts one that exists.                       *)
AttemptLedger ==
    \A j \in Jobs : \A n \in 1 .. MaxAttempts :
        attempt[j][n] = "absent" <=> n > job[j].attempts

(* A queued job always has an attempt left: nothing requeues an exhausted    *)
(* job, from however many late, duplicated or failing deliveries.            *)
QueuedMayRun ==
    \A j \in Jobs :
        job[j].status \in {"absent", "queued"} => job[j].attempts < MaxAttempts

(* A job is never stranded in processing: it has a lease that will expire    *)
(* and a running current attempt that recovery can abandon.                  *)
ProcessingIsRecoverable ==
    \A j \in Jobs : job[j].status = "processing" =>
        /\ job[j].lease # "none"
        /\ job[j].attempts > 0
        /\ attempt[j][job[j].attempts] = "running"

(* A completed job drops no row: each is imported, by it or by an earlier    *)
(* job, or has a recorded error, and a job without errors imported its own.  *)
RowsAccounted ==
    \A j \in Jobs :
        /\ job[j].status \in Completed =>
              \A k \in RowsOf[j] : snapshot[k] # NoJob \/ k \in errors[j]
        /\ job[j].status = "completed" => \A k \in RowsOf[j] : snapshot[k] = j

(* A source key is imported once: two workers, of one job or of two, that    *)
(* both found it new do not both commit it.                                  *)
ImportedOnce ==
    [][\A k \in Keys : snapshot[k] # NoJob =>
          /\ snapshot'[k] = snapshot[k]
          /\ \A w \in Workers : CommitResult(w) => k \notin worker[w].accepted]_vars

(* The ledger of attempts, rows and errors is kept under every fault.        *)
Ledger == INSTANCE ImportLedger WITH
    status     <- [j \in Jobs |-> job[j].status],
    attempts   <- [j \in Jobs |-> job[j].attempts],
    importedBy <- snapshot,
    rejected   <- errors

ImplementsLedger == Ledger!Spec

---------------------------------------------------------------------------
(* Properties of the reliable environment (Faults = {}): messages are lost   *)
(* and duplicated, brokers refuse, workers crash, failures go unrecorded,    *)
(* but a lease outlives its attempt and the database does not deceive.       *)

Busy(w, j) == worker[w].stage # "idle" /\ worker[w].job = j

(* The worker of a job holds its current attempt, and is the only one.       *)
ExclusiveWorker ==
    \A w \in Workers : \A j \in Jobs : Busy(w, j) =>
        /\ job[j].status = "processing"
        /\ worker[w].n = job[j].attempts
        /\ \A v \in Workers : Busy(v, j) => v = w

(* The counts a completed job reports are those of its rows: every snapshot  *)
(* that names it is counted, every row is counted once.                      *)
CountsAgree ==
    \A j \in Jobs :
        LET mine == {k \in Keys : snapshot[k] = j}
        IN  IF job[j].status \in Completed
            THEN job[j].counts = [total    |-> Cardinality(RowsOf[j]),
                                  accepted |-> Cardinality(mine),
                                  rejected |-> Cardinality(errors[j])]
            ELSE job[j].counts = NoCounts /\ mine = {} /\ errors[j] = {}

(* The terminal state of a job is terminal.                                  *)
TerminalStable ==
    [][\A j \in Jobs : job[j].status \in Terminal => job'[j].status = job[j].status]_vars

(* The pipeline implements the lifecycle it promises.                        *)
Lifecycle == INSTANCE ImportLifecycle WITH
    status     <- [j \in Jobs |-> job[j].status],
    attempts   <- [j \in Jobs |-> job[j].attempts],
    importedBy <- snapshot

ImplementsLifecycle == Lifecycle!Spec

(* Every submitted job reaches a terminal state and stays in one, through    *)
(* crashes, lost messages and stalled workers.                               *)
Settles ==
    \A j \in Jobs :
        [](job[j].status # "absent" => <>[](job[j].status \in Terminal))
=============================================================================
