-------------------------- MODULE ImportJobsProofs --------------------------
(***************************************************************************)
(* Theorems about ImportJobs, for every set of jobs, workers, publishers    *)
(* and keys, every payload, every MaxAttempts and every set of faults.      *)
(***************************************************************************)
EXTENDS ImportJobs, FiniteSetTheorems, TLAPS

(* A worker that is not idle works on a job, and the attempt it opened is   *)
(* one of those the job has begun.                                          *)
WorkersHold ==
    \A w \in Workers : worker[w].stage # "idle" =>
        /\ worker[w].job \in Jobs
        /\ worker[w].stage # "failing" =>
              worker[w].n \in 1 .. job[worker[w].job].attempts

PublishersHold ==
    \A p \in Publishers : publisher[p].stage # "idle" => publisher[p].job \in Jobs

(* Rows a worker has inserted are nobody else's: not committed by another   *)
(* job, not inserted by another worker.                                     *)
KeysLocked ==
    \A w \in Workers : worker[w].stage = "flushed" =>
        /\ \A k \in worker[w].accepted : snapshot[k] = NoJob
        /\ \A v \in Workers \ {w} : worker[v].stage = "flushed" =>
              \A k \in worker[w].accepted : k \notin worker[v].accepted

(* A worker past its check has sorted every row of its job.                 *)
RowsSorted ==
    \A w \in Workers : worker[w].stage \in {"checked", "flushed"} =>
        \A k \in RowsOf[worker[w].job] :
            k \in worker[w].accepted \/ k \in worker[w].rejected

IInv ==
    /\ TypeOK
    /\ WorkersHold
    /\ PublishersHold
    /\ AttemptLedger
    /\ QueuedMayRun
    /\ ProcessingIsRecoverable
    /\ KeysLocked
    /\ RowsSorted
    /\ RowsAccounted

---------------------------------------------------------------------------
(* Type correctness and the inductive invariant.                            *)

LEMMA InitHolds == Init => IInv
  <1> SUFFICES ASSUME Init PROVE IInv
    OBVIOUS
  <1> USE MaxAttemptsAssumption, JobsAssumption
  <1>1. TypeOK
    BY SMT DEF Init, TypeOK, JobRow, JobStatus, Terminal, Completed, Counts, NoCounts,
               AbsentJob, AttemptStatus, WorkerState, IdleWorker, PublisherState,
               IdlePublisher
  <1>2. WorkersHold /\ PublishersHold /\ KeysLocked /\ RowsSorted
    BY DEF Init, WorkersHold, PublishersHold, KeysLocked, RowsSorted, IdleWorker,
           IdlePublisher
  <1>3. AttemptLedger /\ QueuedMayRun /\ ProcessingIsRecoverable /\ RowsAccounted
    BY DEF Init, AttemptLedger, QueuedMayRun, ProcessingIsRecoverable, RowsAccounted,
           AbsentJob, Completed
  <1> QED
    BY <1>1, <1>2, <1>3 DEF IInv

(* A step that leaves the database and the workers alone.                   *)
LEMMA QuietStep ==
  ASSUME IInv, UNCHANGED <<dbVars, worker>>,
         queue' \subseteq Jobs,
         publisher' \in [Publishers -> PublisherState],
         PublishersHold'
  PROVE  IInv'
  BY DEF IInv, TypeOK, WorkersHold, AttemptLedger, QueuedMayRun,
         ProcessingIsRecoverable, KeysLocked, RowsSorted, RowsAccounted, dbVars

(* A step of one worker that leaves the database alone.                     *)
LEMMA WorkerStep ==
  ASSUME IInv, UNCHANGED <<dbVars, publisher>>,
         queue' \subseteq Jobs,
         worker' \in [Workers -> WorkerState],
         WorkersHold', KeysLocked', RowsSorted'
  PROVE  IInv'
  BY DEF IInv, TypeOK, PublishersHold, AttemptLedger, QueuedMayRun,
         ProcessingIsRecoverable, RowsAccounted, dbVars

(* A step that moves only the timers of a job row.                          *)
LEMMA TimerStep ==
  ASSUME IInv, UNCHANGED <<attempt, errors, snapshot, queue, worker>>,
         job' \in [Jobs -> JobRow],
         \A j \in Jobs :
            /\ job'[j].status = job[j].status
            /\ job'[j].attempts = job[j].attempts
            /\ job'[j].lease = "none" => job[j].lease = "none",
         publisher' \in [Publishers -> PublisherState],
         PublishersHold'
  PROVE  IInv'
  <1>1. TypeOK'
    BY DEF IInv, TypeOK
  <1>2. WorkersHold'
    BY DEF IInv, WorkersHold
  <1>3. AttemptLedger' /\ QueuedMayRun' /\ ProcessingIsRecoverable'
    BY DEF IInv, AttemptLedger, QueuedMayRun, ProcessingIsRecoverable
  <1>4. KeysLocked' /\ RowsSorted' /\ RowsAccounted'
    BY DEF IInv, KeysLocked, RowsSorted, RowsAccounted
  <1> QED
    BY <1>1, <1>2, <1>3, <1>4 DEF IInv

(* Requests, the beat tasks, the broker and time.                           *)
LEMMA EnterTyped ==
  ASSUME IInv, NEW p \in Publishers, NEW j \in Jobs,
         NEW s \in {"api_publish", "beat_publish"}, Enter(p, s, j)
  PROVE  publisher' \in [Publishers -> PublisherState] /\ PublishersHold'
  BY DEF Enter, IInv, TypeOK, PublisherState, PublishersHold

LEMMA LeaveTyped ==
  ASSUME IInv, NEW p \in Publishers, Leave(p)
  PROVE  publisher' \in [Publishers -> PublisherState] /\ PublishersHold'
  BY DEF Leave, IdlePublisher, IInv, TypeOK, PublisherState, PublishersHold

LEMMA PublishingStep ==
  ASSUME IInv, NEW p \in Publishers,
         \/ \E j \in Jobs : Resubmit(p, j) \/ SelectDue(p, j)
         \/ Publish(p) \/ PublishFails(p) \/ ReadForReceipt(p) \/ PublisherStops(p)
  PROVE  IInv'
  <1>1. UNCHANGED <<dbVars, worker>>
    BY DEF Resubmit, SelectDue, Publish, PublishFails, ReadForReceipt, PublisherStops
  <1>2. queue' \subseteq Jobs
    BY DEF Resubmit, SelectDue, Publish, PublishFails, ReadForReceipt, PublisherStops,
           IInv, TypeOK, PublishersHold
  <1>3. publisher' \in [Publishers -> PublisherState] /\ PublishersHold'
    <2>1. CASE \E j \in Jobs : Resubmit(p, j) \/ SelectDue(p, j)
      BY <2>1, EnterTyped DEF Resubmit, SelectDue
    <2>2. CASE PublishFails(p) \/ PublisherStops(p)
      BY <2>2, LeaveTyped DEF PublishFails, PublisherStops
    <2>3. CASE Publish(p)
      <3>1. /\ publisher[p].job \in Jobs
            /\ \E s \in {"receipt", "mark"} :
                  publisher' = [publisher EXCEPT ![p].stage = s]
        BY <2>3 DEF Publish, IInv, PublishersHold
      <3> QED
        BY <3>1 DEF IInv, TypeOK, PublishersHold, PublisherState
    <2>4. CASE ReadForReceipt(p)
      <3>1. CASE publisher' = [publisher EXCEPT ![p].stage = "receipt"]
        BY <2>4, <3>1 DEF ReadForReceipt, IInv, TypeOK, PublishersHold, PublisherState
      <3>2. CASE Leave(p)
        BY <3>2, LeaveTyped
      <3> QED
        BY <2>4, <3>1, <3>2 DEF ReadForReceipt
    <2> QED
      BY <2>1, <2>2, <2>3, <2>4
  <1> QED
    BY <1>1, <1>2, <1>3, QuietStep

LEMMA MessageStep ==
  ASSUME IInv, NEW j \in Jobs,
         LoseMessage(j) \/ \E w \in Workers : Skip(w, j)
  PROVE  IInv'
  <1>1. UNCHANGED <<dbVars, worker, publisher>> /\ queue' \subseteq Jobs
    BY DEF LoseMessage, Skip, IInv, TypeOK
  <1> QED
    BY <1>1, QuietStep DEF IInv, TypeOK, PublishersHold

LEMMA SubmitStep ==
  ASSUME IInv, NEW p \in Publishers, NEW j \in Jobs, Submit(p, j)
  PROVE  IInv'
  <1>1. /\ job \in [Jobs -> JobRow]
        /\ job' = [job EXCEPT ![j].status = "queued"]
        /\ job[j].status = "absent"
        /\ UNCHANGED <<attempt, errors, snapshot, queue, worker>>
    BY DEF Submit, IInv, TypeOK
  <1>2. /\ job' \in [Jobs -> JobRow]
        /\ job'[j].status = "queued"
        /\ job'[j].attempts = job[j].attempts
        /\ \A i \in Jobs \ {j} : job'[i] = job[i]
    BY <1>1 DEF JobRow, JobStatus
  <1>3. publisher' \in [Publishers -> PublisherState] /\ PublishersHold'
    BY DEF Submit, Enter, IInv, TypeOK, PublishersHold, PublisherState
  <1>4. TypeOK'
    BY <1>1, <1>2, <1>3 DEF IInv, TypeOK
  <1>5. WorkersHold' /\ KeysLocked' /\ RowsSorted'
    BY <1>1, <1>2 DEF IInv, WorkersHold, KeysLocked, RowsSorted
  <1>6. AttemptLedger' /\ ProcessingIsRecoverable' /\ RowsAccounted'
    BY <1>1, <1>2 DEF IInv, AttemptLedger, ProcessingIsRecoverable, RowsAccounted,
                      Completed
  <1>7. QueuedMayRun'
    BY <1>1, <1>2 DEF IInv, QueuedMayRun
  <1> QED
    BY <1>3, <1>4, <1>5, <1>6, <1>7 DEF IInv

LEMMA ClockStep ==
  ASSUME IInv, NEW j \in Jobs,
         LeaseExpires(j) \/ BackoffEnds(j) \/ ReceiptAges(j)
  PROVE  IInv'
  <1>1. /\ UNCHANGED <<attempt, errors, snapshot, queue, worker, publisher>>
        /\ job \in [Jobs -> JobRow]
    BY DEF LeaseExpires, BackoffEnds, ReceiptAges, IInv, TypeOK
  <1>2. \/ job' = [job EXCEPT ![j].lease = "expired"]
        \/ job' = [job EXCEPT ![j].backoff = FALSE]
        \/ job' = [job EXCEPT ![j].dispatched = FALSE]
    BY DEF LeaseExpires, BackoffEnds, ReceiptAges
  <1>3. /\ job' \in [Jobs -> JobRow]
        /\ \A i \in Jobs :
              /\ job'[i].status = job[i].status
              /\ job'[i].attempts = job[i].attempts
              /\ job'[i].lease = "none" => job[i].lease = "none"
    <2>1. CASE job' = [job EXCEPT ![j].lease = "expired"]
      BY <1>1, <2>1 DEF JobRow
    <2>2. CASE job' = [job EXCEPT ![j].backoff = FALSE]
      BY <1>1, <2>2 DEF JobRow
    <2>3. CASE job' = [job EXCEPT ![j].dispatched = FALSE]
      BY <1>1, <2>3 DEF JobRow
    <2> QED
      BY <1>2, <2>1, <2>2, <2>3
  <1> QED
    BY <1>1, <1>3, TimerStep DEF IInv, TypeOK, PublishersHold

LEMMA ReceiptStep ==
  ASSUME IInv, NEW p \in Publishers, WriteReceipt(p)
  PROVE  IInv'
  <1>1. /\ UNCHANGED <<attempt, errors, snapshot, queue, worker>>
        /\ job \in [Jobs -> JobRow]
        /\ publisher[p].job \in Jobs
        /\ job' = [job EXCEPT ![publisher[p].job].dispatched = TRUE]
    BY DEF WriteReceipt, IInv, TypeOK, PublishersHold
  <1>2. /\ job' \in [Jobs -> JobRow]
        /\ \A i \in Jobs :
              /\ job'[i].status = job[i].status
              /\ job'[i].attempts = job[i].attempts
              /\ job'[i].lease = "none" => job[i].lease = "none"
    BY <1>1 DEF JobRow
  <1>3. publisher' \in [Publishers -> PublisherState] /\ PublishersHold'
    BY DEF WriteReceipt, Leave, IdlePublisher, IInv, TypeOK, PublisherState,
           PublishersHold
  <1> QED
    BY <1>1, <1>2, <1>3, TimerStep

(* Steps of a worker between its claim and its commit.                      *)
LEMMA CheckStep ==
  ASSUME IInv, NEW w \in Workers, Check(w)
  PROVE  IInv'
  <1> DEFINE j == worker[w].job
  <1>1. j \in Jobs /\ worker[w].stage = "claimed"
    BY DEF Check, IInv, WorkersHold
  <1>2. PICK ok \in SUBSET Fresh(j) :
           worker' = [worker EXCEPT ![w].stage = "checked", ![w].accepted = ok,
                                    ![w].rejected = RejectedRows(j, ok)]
    BY DEF Check
  <1>3. ok \subseteq Keys /\ RejectedRows(j, ok) \subseteq Keys
    BY <1>1, RowsAssumption DEF Fresh, RejectedRows, IInv, TypeOK
  <1>4. worker' \in [Workers -> WorkerState]
    <2> DEFINE s == [worker[w] EXCEPT !.stage = "checked", !.accepted = ok,
                                      !.rejected = RejectedRows(j, ok)]
    <2>1. worker \in [Workers -> WorkerState] /\ worker' = [worker EXCEPT ![w] = s]
      BY <1>2 DEF IInv, TypeOK
    <2>2. s \in WorkerState
      BY <2>1, <1>3 DEF WorkerState
    <2> QED
      BY <2>1, <2>2
  <1>5. WorkersHold' /\ KeysLocked'
    BY <1>2 DEF Check, dbVars, IInv, TypeOK, WorkerState, WorkersHold, KeysLocked
  <1>6. RowsSorted'
    BY <1>2 DEF IInv, TypeOK, WorkerState, RowsSorted, RejectedRows
  <1> QED
    BY <1>4, <1>5, <1>6, WorkerStep DEF Check, IInv, TypeOK

LEMMA FlushStep ==
  ASSUME IInv, NEW w \in Workers, Flush(w)
  PROVE  IInv'
  <1> USE DEF Flush
  <1>1. worker' \in [Workers -> WorkerState] /\ WorkersHold' /\ RowsSorted'
    BY DEF IInv, TypeOK, WorkerState, WorkersHold, RowsSorted, dbVars
  <1>2. KeysLocked'
    BY DEF IInv, TypeOK, WorkerState, KeysLocked, Insertable, dbVars
  <1> QED
    BY <1>1, <1>2, WorkerStep DEF IInv, TypeOK

(* Steps after which a worker is idle or about to record a failure, and the *)
(* database is as it was.                                                   *)
LEMMA WithdrawStep ==
  ASSUME IInv, NEW w \in Workers,
         UNCHANGED <<dbVars, publisher>>,
         queue' \subseteq Jobs,
         NEW s \in WorkerState,
         worker' = [worker EXCEPT ![w] = s],
         s.stage \in {"idle", "failing"},
         s.stage = "failing" => s.job \in Jobs
  PROVE  IInv'
  <1>1. worker' \in [Workers -> WorkerState] /\ WorkersHold'
    BY DEF IInv, TypeOK, WorkersHold, dbVars
  <1>2. KeysLocked' /\ RowsSorted'
    BY DEF IInv, TypeOK, KeysLocked, RowsSorted, dbVars
  <1> QED
    BY <1>1, <1>2, WorkerStep

LEMMA IdleTyped == IdleWorker \in WorkerState
  BY MaxAttemptsAssumption DEF IdleWorker, WorkerState, Counts, NoCounts

LEMMA FailingTyped ==
  ASSUME NEW j \in Jobs, NEW n \in 0 .. MaxAttempts, NEW r \in BOOLEAN
  PROVE  [IdleWorker EXCEPT !.stage = "failing", !.job = j, !.n = n, !.retryable = r]
           \in WorkerState
  BY DEF IdleWorker, WorkerState, Counts, NoCounts

LEMMA LeaveStep ==
  ASSUME IInv, NEW w \in Workers,
         \/ FlushConflict(w) \/ Fail(w) \/ RecordFailureFails(w) \/ Crash(w)
         \/ \E j \in Jobs : ClaimFails(w, j)
  PROVE  IInv'
  <1> DEFINE Gone(s) == s.stage \in {"idle", "failing"}
                        /\ (s.stage = "failing" => s.job \in Jobs)
  <1>1. /\ UNCHANGED <<dbVars, publisher>>
        /\ queue' \subseteq Jobs
    BY DEF IInv, TypeOK, WorkersHold, FlushConflict, Fail, RecordFailureFails, Crash,
           ClaimFails, Deliver
  <1>2. \E s \in WorkerState : worker' = [worker EXCEPT ![w] = s] /\ Gone(s)
    <2>1. CASE FlushConflict(w) \/ Fail(w)
      <3>1. worker[w].job \in Jobs /\ worker[w].n \in 0 .. MaxAttempts
        BY <2>1 DEF IInv, TypeOK, WorkerState, WorkersHold, FlushConflict, Fail
      <3>2. PICK r \in BOOLEAN : Failing(w, worker[w].job, worker[w].n, r)
        BY <2>1 DEF FlushConflict, Fail
      <3> QED
        BY <3>1, <3>2, FailingTyped DEF Failing, IdleWorker
    <2>2. CASE RecordFailureFails(w) \/ Crash(w)
      BY <2>2, IdleTyped DEF RecordFailureFails, Crash, IdleWorker
    <2>3. CASE \E j \in Jobs : ClaimFails(w, j)
      <3>1. PICK j \in Jobs : Failing(w, j, 0, TRUE)
        BY <2>3 DEF ClaimFails
      <3> DEFINE s == [IdleWorker EXCEPT !.stage = "failing", !.job = j, !.n = 0,
                                         !.retryable = TRUE]
      <3>2. 0 \in 0 .. MaxAttempts
        BY MaxAttemptsAssumption
      <3>3. s \in WorkerState /\ worker' = [worker EXCEPT ![w] = s]
        BY <3>1, <3>2, FailingTyped DEF Failing
      <3>4. Gone(s)
        BY DEF IdleWorker
      <3> QED
        BY <3>3, <3>4
    <2> QED
      BY <2>1, <2>2, <2>3
  <1> QED
    BY <1>1, <1>2, WithdrawStep

(* Setting a job back: its current attempt, or the first one of a job that  *)
(* never had any, gets a final status.                                      *)
LEMMA SettleStep ==
  ASSUME IInv, NEW j \in Jobs, NEW again \in BOOLEAN, NEW n \in 1 .. MaxAttempts,
         NEW backoff \in BOOLEAN, NEW a \in AttemptStatus,
         Settle(j, again, n, backoff),
         again => n < MaxAttempts,
         job[j].attempts = n \/ (job[j].attempts = 0 /\ n = 1),
         a # "absent",
         attempt' = [attempt EXCEPT ![j][n] = a],
         UNCHANGED <<errors, snapshot>>,
         queue' \subseteq Jobs,
         \/ worker' = worker
         \/ \E w \in Workers : worker' = [worker EXCEPT ![w] = IdleWorker],
         publisher' \in [Publishers -> PublisherState],
         PublishersHold'
  PROVE  IInv'
  <1> DEFINE Row == [job[j] EXCEPT !.status = IF again THEN "queued" ELSE "failed",
                                   !.attempts = n, !.lease = "none",
                                   !.backoff = backoff, !.dispatched = FALSE]
  <1>1. /\ job \in [Jobs -> JobRow]
        /\ \A i \in Jobs : job[i].attempts \in 0 .. MaxAttempts
        /\ MaxAttempts \in Nat
    BY MaxAttemptsAssumption DEF IInv, TypeOK, JobRow
  <1>2. Row \in JobRow
    <2> DEFINE st == IF again THEN "queued" ELSE "failed"
    <2>1. st \in JobStatus /\ n \in 0 .. MaxAttempts /\ job[j] \in JobRow
      BY <1>1 DEF JobStatus, Terminal
    <2> HIDE DEF st
    <2>2. [job[j] EXCEPT !.status = st, !.attempts = n, !.lease = "none",
                         !.backoff = backoff, !.dispatched = FALSE] \in JobRow
      BY <2>1 DEF JobRow
    <2> QED
      BY <2>2 DEF st
  <1>3. job' = [job EXCEPT ![j] = Row]
    BY <1>1 DEF Settle
  <1>4. /\ job' \in [Jobs -> JobRow]
        /\ job'[j].status = IF again THEN "queued" ELSE "failed"
        /\ job'[j].attempts = n
        /\ \A i \in Jobs \ {j} : job'[i] = job[i]
    BY <1>1, <1>2, <1>3 DEF JobRow
  <1> HIDE DEF Row
  <1>5. worker' \in [Workers -> WorkerState]
        /\ \A w \in Workers : worker'[w] = worker[w] \/ worker'[w] = IdleWorker
    BY IdleTyped DEF IInv, TypeOK
  <1>6. TypeOK'
    BY <1>4, <1>5 DEF IInv, TypeOK
  <1>7. WorkersHold'
    <2> SUFFICES ASSUME NEW w \in Workers, worker'[w].stage # "idle"
                 PROVE  /\ worker'[w].job \in Jobs
                        /\ worker'[w].stage # "failing" =>
                              worker'[w].n \in 1 .. job'[worker'[w].job].attempts
      BY DEF WorkersHold
    <2>1. worker'[w] = worker[w]
      BY <1>5 DEF IdleWorker
    <2>2. worker[w].job \in Jobs
          /\ (worker[w].stage # "failing" =>
                worker[w].n \in 1 .. job[worker[w].job].attempts)
      BY <2>1 DEF IInv, WorkersHold
    <2>3. CASE worker[w].job = j
      BY <2>1, <2>2, <2>3, <1>1, <1>4
    <2>4. CASE worker[w].job # j
      BY <2>1, <2>2, <2>4, <1>4
    <2> QED
      BY <2>3, <2>4
  <1>8. KeysLocked' /\ RowsSorted'
    BY <1>5 DEF IInv, KeysLocked, RowsSorted, IdleWorker
  <1>9. AttemptLedger'
    <2> SUFFICES ASSUME NEW i \in Jobs, NEW m \in 1 .. MaxAttempts
                 PROVE  attempt'[i][m] = "absent" <=> m > job'[i].attempts
      BY DEF AttemptLedger
    <2>1. attempt[i][m] = "absent" <=> m > job[i].attempts
      BY DEF IInv, AttemptLedger
    <2>2. CASE i = j /\ m = n
      <3>1. attempt'[i][m] = a
        BY <2>2 DEF IInv, TypeOK
      <3> QED
        BY <2>2, <3>1, <1>4
    <2>3. CASE i = j /\ m # n
      <3>1. attempt'[i][m] = attempt[i][m]
        BY <2>3 DEF IInv, TypeOK
      <3> QED
        BY <2>1, <2>3, <3>1, <1>1, <1>4
    <2>4. CASE i # j
      BY <2>1, <2>4, <1>4 DEF IInv, TypeOK
    <2> QED
      BY <2>2, <2>3, <2>4
  <1>10. QueuedMayRun'
    BY <1>4 DEF IInv, QueuedMayRun
  <1>11. ProcessingIsRecoverable'
    BY <1>4 DEF IInv, TypeOK, ProcessingIsRecoverable
  <1>12. RowsAccounted'
    BY <1>4 DEF IInv, RowsAccounted, Completed
  <1> QED
    BY <1>6, <1>7, <1>8, <1>9, <1>10, <1>11, <1>12 DEF IInv

LEMMA RecordFailureStep ==
  ASSUME IInv, NEW w \in Workers, RecordFailure(w)
  PROVE  IInv'
  <1> DEFINE j == worker[w].job
             n == IF job[j].attempts = 0 THEN 1 ELSE job[j].attempts
             again == MayRetry(worker[w].retryable, n)
  <1>1. /\ j \in Jobs
        /\ job[j].attempts \in 0 .. MaxAttempts
        /\ worker[w].retryable \in BOOLEAN
    BY DEF RecordFailure, IInv, TypeOK, WorkersHold, JobRow, WorkerState
  <1>2. /\ n \in 1 .. MaxAttempts
        /\ job[j].attempts = n \/ (job[j].attempts = 0 /\ n = 1)
    BY <1>1, MaxAttemptsAssumption
  <1>3. again \in BOOLEAN /\ (again => n < MaxAttempts)
    BY <1>1, <1>2 DEF MayRetry
  <1>4. Settle(j, again, n, again)
    BY DEF RecordFailure
  <1>5. /\ queue' \subseteq Jobs
        /\ worker' = [worker EXCEPT ![w] = IdleWorker]
        /\ UNCHANGED <<errors, snapshot, publisher>>
    BY <1>1 DEF RecordFailure, IInv, TypeOK
  <1>6. \E a \in AttemptStatus :
           a # "absent" /\ attempt' = [attempt EXCEPT ![j][n] = a]
    BY DEF RecordFailure, AttemptStatus
  <1>7. publisher' \in [Publishers -> PublisherState] /\ PublishersHold'
    BY <1>5 DEF IInv, TypeOK, PublishersHold
  <1> HIDE DEF j, n, again
  <1> QED
    BY <1>1, <1>2, <1>3, <1>4, <1>5, <1>6, <1>7, SettleStep

LEMMA RecoverStep ==
  ASSUME IInv, NEW j \in Jobs,
         RecoverExhausted(j) \/ \E p \in Publishers : RecoverForRetry(p, j)
  PROVE  IInv'
  <1> DEFINE n == job[j].attempts
             again == MayRetry(TRUE, n)
  <1>1. n \in 1 .. MaxAttempts
    <2>1. job[j].status = "processing"
      BY DEF RecoverExhausted, RecoverForRetry, Stale
    <2>2. n > 0
      BY <2>1 DEF IInv, ProcessingIsRecoverable
    <2>3. n \in 0 .. MaxAttempts
      BY DEF IInv, TypeOK, JobRow
    <2> QED
      BY <2>2, <2>3, MaxAttemptsAssumption
  <1>2. again \in BOOLEAN /\ (again => n < MaxAttempts)
    BY <1>1 DEF MayRetry
  <1>3. Settle(j, again, n, FALSE)
    BY DEF RecoverExhausted, RecoverForRetry, Settle, MayRetry
  <1>4. /\ "abandoned" \in AttemptStatus
        /\ attempt' = [attempt EXCEPT ![j][n] = "abandoned"]
        /\ UNCHANGED <<errors, snapshot, queue, worker>>
    BY DEF RecoverExhausted, RecoverForRetry, Abandon, AttemptStatus
  <1>5. publisher' \in [Publishers -> PublisherState] /\ PublishersHold'
    <2>1. CASE RecoverExhausted(j)
      BY <2>1 DEF RecoverExhausted, IInv, TypeOK, PublishersHold
    <2>2. CASE \E p \in Publishers : RecoverForRetry(p, j)
      <3>1. PICK p \in Publishers : Enter(p, "beat_publish", j)
        BY <2>2 DEF RecoverForRetry
      <3> QED
        BY <3>1 DEF Enter, IInv, TypeOK, PublisherState, PublishersHold
    <2> QED
      BY <2>1, <2>2
  <1>6. queue' \subseteq Jobs
    BY <1>4 DEF IInv, TypeOK
  <1> HIDE DEF n, again
  <1> QED
    BY <1>1, <1>2, <1>3, <1>4, <1>5, <1>6, SettleStep DEF n

LEMMA ClaimStep ==
  ASSUME IInv, NEW w \in Workers, NEW j \in Jobs, Claim(w, j)
  PROVE  IInv'
  <1> DEFINE n == job[j].attempts + 1
             Row == [job[j] EXCEPT !.status = "processing", !.attempts = n,
                                   !.lease = "live", !.backoff = FALSE]
             Taken == [IdleWorker EXCEPT !.stage = "claimed", !.job = j, !.n = n,
                                         !.cached = job[j].counts]
  <1>1. /\ job \in [Jobs -> JobRow]
        /\ \A i \in Jobs : job[i].attempts \in 0 .. MaxAttempts
        /\ job[j].counts \in Counts
    BY DEF IInv, TypeOK, JobRow
  <1>2. n \in 1 .. MaxAttempts
    BY <1>1, MaxAttemptsAssumption DEF Claim, Claimable, IInv, QueuedMayRun
  <1>3. Row \in JobRow /\ Row.status = "processing" /\ Row.attempts = n
        /\ Row.lease = "live"
    <2>1. "processing" \in JobStatus /\ n \in 0 .. MaxAttempts /\ job[j] \in JobRow
      BY <1>1, <1>2 DEF JobStatus
    <2> QED
      BY <2>1 DEF JobRow
  <1>4. Taken \in WorkerState /\ Taken.stage = "claimed" /\ Taken.job = j
        /\ Taken.n = n
    <2>1. n \in 0 .. MaxAttempts /\ job[j].counts \in Counts
      BY <1>1, <1>2
    <2> QED
      BY <2>1 DEF IdleWorker, WorkerState
  <1>5. /\ job' = [job EXCEPT ![j] = Row]
        /\ attempt' = [attempt EXCEPT ![j][n] = "running"]
        /\ worker' = [worker EXCEPT ![w] = Taken]
        /\ UNCHANGED <<errors, snapshot, publisher>>
        /\ queue' \subseteq Jobs
    BY <1>1 DEF Claim, Deliver, IInv, TypeOK
  <1> HIDE DEF Row, Taken
  <1>6. TypeOK'
    BY <1>2, <1>3, <1>4, <1>5 DEF IInv, TypeOK, AttemptStatus
  <1>7. /\ \A i \in Jobs \ {j} : job'[i] = job[i]
        /\ \A v \in Workers \ {w} : worker'[v] = worker[v]
        /\ job'[j] = Row /\ worker'[w] = Taken
    BY <1>5 DEF IInv, TypeOK
  <1>8. WorkersHold'
    <2> SUFFICES ASSUME NEW v \in Workers, worker'[v].stage # "idle"
                 PROVE  /\ worker'[v].job \in Jobs
                        /\ worker'[v].stage # "failing" =>
                              worker'[v].n \in 1 .. job'[worker'[v].job].attempts
      BY DEF WorkersHold
    <2>1. CASE v = w
      BY <2>1, <1>1, <1>3, <1>4, <1>7
    <2>2. CASE v # w
      <3>1. worker[v].job \in Jobs
            /\ (worker[v].stage # "failing" =>
                  worker[v].n \in 1 .. job[worker[v].job].attempts)
        BY <2>2, <1>7 DEF IInv, WorkersHold
      <3> QED
        BY <2>2, <3>1, <1>1, <1>3, <1>7
    <2> QED
      BY <2>1, <2>2
  <1>9. KeysLocked' /\ RowsSorted'
    BY <1>4, <1>5, <1>7 DEF IInv, KeysLocked, RowsSorted
  <1>10. AttemptLedger'
    <2> SUFFICES ASSUME NEW i \in Jobs, NEW m \in 1 .. MaxAttempts
                 PROVE  attempt'[i][m] = "absent" <=> m > job'[i].attempts
      BY DEF AttemptLedger
    <2>1. attempt[i][m] = "absent" <=> m > job[i].attempts
      BY DEF IInv, AttemptLedger
    <2>2. CASE i = j /\ m = n
      <3>1. attempt'[i][m] = "running"
        BY <2>2, <1>5 DEF IInv, TypeOK
      <3> QED
        BY <2>2, <3>1, <1>1, <1>3, <1>7
    <2>3. CASE i = j /\ m # n
      <3>1. attempt'[i][m] = attempt[i][m]
        BY <2>3, <1>5 DEF IInv, TypeOK
      <3> QED
        BY <2>1, <2>3, <3>1, <1>1, <1>3, <1>7
    <2>4. CASE i # j
      BY <2>1, <2>4, <1>5, <1>7 DEF IInv, TypeOK
    <2> QED
      BY <2>2, <2>3, <2>4
  <1>11. QueuedMayRun'
    BY <1>3, <1>7 DEF IInv, QueuedMayRun
  <1>12. ProcessingIsRecoverable'
    <2> SUFFICES ASSUME NEW i \in Jobs, job'[i].status = "processing"
                 PROVE  /\ job'[i].lease # "none"
                        /\ job'[i].attempts > 0
                        /\ attempt'[i][job'[i].attempts] = "running"
      BY DEF ProcessingIsRecoverable
    <2>1. CASE i = j
      <3>1. attempt'[j][n] = "running"
        BY <1>2, <1>5 DEF IInv, TypeOK
      <3> QED
        BY <2>1, <3>1, <1>2, <1>3, <1>7
    <2>2. CASE i # j
      BY <2>2, <1>5, <1>7 DEF IInv, TypeOK, ProcessingIsRecoverable
    <2> QED
      BY <2>1, <2>2
  <1>13. RowsAccounted'
    BY <1>3, <1>5, <1>7 DEF IInv, RowsAccounted, Completed
  <1> QED
    BY <1>6, <1>7, <1>5, <1>8, <1>9, <1>10, <1>11, <1>12, <1>13
       DEF IInv, PublishersHold

LEMMA WrittenTyped ==
  ASSUME NEW new \in Nat, NEW cached \in Nat, NEW current \in Nat
  PROVE  Written(new, cached, current) \in Nat
  BY DEF Written

LEMMA ResultRow ==
  ASSUME job \in [Jobs -> JobRow], NEW j \in Jobs, NEW st \in JobStatus,
         NEW c \in Counts,
         job' = [job EXCEPT ![j].status = st, ![j].lease = "none", ![j].counts = c]
  PROVE  /\ job' \in [Jobs -> JobRow]
         /\ job'[j].status = st
         /\ \A i \in Jobs : job'[i].attempts = job[i].attempts
         /\ \A i \in Jobs \ {j} : job'[i] = job[i]
  BY DEF JobRow

(* The commit of a result, whether or not the job is still the worker's.    *)
LEMMA CommitStep ==
  ASSUME IInv, NEW w \in Workers, CommitResult(w),
         NEW s \in WorkerState,
         worker' = [worker EXCEPT ![w] = s],
         s.stage \in {"idle", "failing"},
         s.stage = "failing" => s.job \in Jobs
  PROVE  IInv'
  <1> DEFINE j    == worker[w].job
             acc  == Cardinality(worker[w].accepted)
             rej  == Cardinality(worker[w].rejected)
             old  == worker[w].cached
             now  == job[j].counts
             done == FinalStatus(rej)
             counts == [total    |-> Written(acc + rej, old.total, now.total),
                        accepted |-> Written(acc, old.accepted, now.accepted),
                        rejected |-> Written(rej, old.rejected, now.rejected)]
  <1>1. /\ job \in [Jobs -> JobRow]
        /\ worker[w] \in WorkerState
        /\ worker[w].stage \in {"checked", "flushed"}
        /\ worker[w].stage = "checked" => worker[w].accepted = {}
    BY DEF CommitResult, IInv, TypeOK
  <1>2. /\ j \in Jobs
        /\ worker[w].n \in 1 .. job[j].attempts
        /\ job[j].attempts \in 0 .. MaxAttempts
        /\ worker[w].n \in 1 .. MaxAttempts
    <2>1. j \in Jobs /\ worker[w].n \in 1 .. job[j].attempts
      BY <1>1 DEF IInv, WorkersHold
    <2>2. job[j].attempts \in 0 .. MaxAttempts
      BY <1>1, <2>1 DEF JobRow
    <2> QED
      BY <2>1, <2>2, MaxAttemptsAssumption
  <1>3. /\ worker[w].accepted \subseteq Keys /\ worker[w].rejected \subseteq Keys
        /\ acc \in Nat /\ rej \in Nat
        /\ rej = 0 => worker[w].rejected = {}
    <2>1. worker[w].accepted \subseteq Keys /\ worker[w].rejected \subseteq Keys
      BY <1>1 DEF WorkerState
    <2>2. IsFiniteSet(worker[w].accepted) /\ IsFiniteSet(worker[w].rejected)
      BY <2>1, FiniteKeysAssumption, FS_Subset
    <2> QED
      BY <2>1, <2>2, FS_CardinalityType, FS_EmptySet
  <1>4. counts \in Counts
    <2>1. old \in Counts /\ now \in Counts
      BY <1>1, <1>2 DEF WorkerState, JobRow
    <2>2. /\ old.total \in Nat /\ old.accepted \in Nat /\ old.rejected \in Nat
          /\ now.total \in Nat /\ now.accepted \in Nat /\ now.rejected \in Nat
          /\ acc + rej \in Nat
      BY <1>3, <2>1 DEF Counts
    <2> HIDE DEF old, now, acc, rej
    <2> QED
      BY <1>3, <2>2, WrittenTyped DEF Counts
  <1>5. /\ done \in Completed
        /\ done = "completed" <=> rej = 0
    BY DEF FinalStatus, Completed
  <1>6. /\ job' = [job EXCEPT ![j].status = done, ![j].lease = "none",
                              ![j].counts = counts]
        /\ attempt' = [attempt EXCEPT ![j][worker[w].n] = "succeeded"]
        /\ snapshot' = [k \in Keys |->
                          IF k \in worker[w].accepted THEN j ELSE snapshot[k]]
        /\ errors' = [errors EXCEPT ![j] = @ \union worker[w].rejected]
        /\ UNCHANGED <<queue, publisher>>
    BY DEF CommitResult
  <1> HIDE DEF counts, done, old, now, acc, rej
  <1>7. /\ job' \in [Jobs -> JobRow]
        /\ job'[j].status = done
        /\ \A i \in Jobs : job'[i].attempts = job[i].attempts
        /\ \A i \in Jobs \ {j} : job'[i] = job[i]
    <2>1. done \in JobStatus
      BY <1>5 DEF JobStatus, Terminal
    <2> HIDE DEF j
    <2> QED
      BY <1>1, <1>2, <1>4, <1>6, <2>1, ResultRow
  <1>8. /\ \A v \in Workers \ {w} : worker'[v] = worker[v]
        /\ worker'[w] = s
        /\ worker' \in [Workers -> WorkerState]
    BY DEF IInv, TypeOK
  <1>9. TypeOK'
    <2>1. attempt' \in [Jobs -> [1 .. MaxAttempts -> AttemptStatus]]
      BY <1>2, <1>6 DEF IInv, TypeOK, AttemptStatus
    <2>2. snapshot' \in [Keys -> Jobs \union {NoJob}]
      BY <1>2, <1>6 DEF IInv, TypeOK
    <2>3. errors' \in [Jobs -> SUBSET Keys]
      BY <1>2, <1>3, <1>6 DEF IInv, TypeOK
    <2> QED
      BY <1>6, <1>7, <1>8, <2>1, <2>2, <2>3 DEF IInv, TypeOK
  <1>10. WorkersHold' /\ PublishersHold' /\ RowsSorted'
    BY <1>6, <1>7, <1>8 DEF IInv, WorkersHold, PublishersHold, RowsSorted
  <1>11. AttemptLedger'
    <2> SUFFICES ASSUME NEW i \in Jobs, NEW m \in 1 .. MaxAttempts
                 PROVE  attempt'[i][m] = "absent" <=> m > job'[i].attempts
      BY DEF AttemptLedger
    <2>1. attempt[i][m] = "absent" <=> m > job[i].attempts
      BY DEF IInv, AttemptLedger
    <2>2. CASE i = j /\ m = worker[w].n
      <3>1. attempt'[i][m] = "succeeded"
        BY <2>2, <1>6 DEF IInv, TypeOK
      <3> QED
        BY <2>2, <3>1, <1>2, <1>7
    <2>3. CASE ~(i = j /\ m = worker[w].n)
      <3>1. attempt'[i][m] = attempt[i][m]
        BY <2>3, <1>6 DEF IInv, TypeOK
      <3> QED
        BY <2>1, <3>1, <1>7
    <2> QED
      BY <2>2, <2>3
  <1>12. QueuedMayRun'
    BY <1>5, <1>7 DEF IInv, QueuedMayRun, Completed
  <1>13. ProcessingIsRecoverable'
    <2> SUFFICES ASSUME NEW i \in Jobs, job'[i].status = "processing"
                 PROVE  /\ job'[i].lease # "none"
                        /\ job'[i].attempts > 0
                        /\ attempt'[i][job'[i].attempts] = "running"
      BY DEF ProcessingIsRecoverable
    <2>1. i # j /\ job'[i] = job[i]
      BY <1>5, <1>7 DEF Completed
    <2>2. attempt'[i] = attempt[i]
      BY <2>1, <1>6 DEF IInv, TypeOK
    <2> QED
      BY <2>1, <2>2 DEF IInv, ProcessingIsRecoverable
  <1>14. \A k \in Keys : snapshot[k] # NoJob => snapshot'[k] = snapshot[k]
    BY <1>1, <1>6 DEF IInv, KeysLocked
  <1>15. KeysLocked'
    <2> SUFFICES ASSUME NEW v \in Workers, worker'[v].stage = "flushed"
                 PROVE  /\ \A k \in worker'[v].accepted : snapshot'[k] = NoJob
                        /\ \A u \in Workers \ {v} : worker'[u].stage = "flushed" =>
                              \A k \in worker'[v].accepted : k \notin worker'[u].accepted
      BY DEF KeysLocked
    <2>1. v # w /\ worker'[v] = worker[v]
      BY <1>8
    <2>2. \A k \in worker[v].accepted : k \notin worker[w].accepted
      BY <2>1, <1>1 DEF IInv, KeysLocked
    <2>3. \A k \in worker[v].accepted : k \in Keys
      BY DEF IInv, TypeOK, WorkerState
    <2>4. \A k \in worker'[v].accepted : snapshot'[k] = NoJob
      BY <2>1, <2>2, <2>3, <1>6 DEF IInv, KeysLocked
    <2> QED
      BY <2>1, <2>4, <1>8 DEF IInv, KeysLocked
  <1>16. RowsAccounted'
    <2> SUFFICES ASSUME NEW i \in Jobs
                 PROVE  /\ job'[i].status \in Completed => \A k \in RowsOf[i] :
                              snapshot'[k] # NoJob \/ k \in errors'[i]
                        /\ job'[i].status = "completed" =>
                              \A k \in RowsOf[i] : snapshot'[k] = i
      BY DEF RowsAccounted
    <2>1. \A k \in RowsOf[i] : k \in Keys
      BY RowsAssumption
    <2>2. CASE i = j
      <3>1. \A k \in RowsOf[j] : k \in worker[w].accepted \/ k \in worker[w].rejected
        BY <1>1 DEF IInv, RowsSorted
      <3>2. errors'[j] = errors[j] \union worker[w].rejected
        BY <1>2, <1>6 DEF IInv, TypeOK
      <3>3. \A k \in RowsOf[j] : k \in worker[w].accepted => snapshot'[k] = j
        BY <2>1, <2>2, <1>6
      <3>4. \A k \in RowsOf[j] : snapshot'[k] # NoJob \/ k \in errors'[j]
        BY <3>1, <3>2, <3>3, <1>2, JobsAssumption
      <3>5. done = "completed" => \A k \in RowsOf[j] : snapshot'[k] = j
        BY <3>1, <3>3, <1>3, <1>5
      <3> QED
        BY <2>2, <3>4, <3>5, <1>7
    <2>3. CASE i # j
      <3>1. job'[i] = job[i] /\ errors'[i] = errors[i]
        BY <2>3, <1>6, <1>7 DEF IInv, TypeOK
      <3>2. /\ job[i].status \in Completed =>
                  \A k \in RowsOf[i] : snapshot[k] # NoJob \/ k \in errors[i]
            /\ job[i].status = "completed" => \A k \in RowsOf[i] : snapshot[k] = i
        BY DEF IInv, RowsAccounted
      <3> QED
        BY <3>1, <3>2, <2>1, <1>14, JobsAssumption
    <2> QED
      BY <2>2, <2>3
  <1> QED
    BY <1>9, <1>10, <1>11, <1>12, <1>13, <1>15, <1>16 DEF IInv

LEMMA FinishStep ==
  ASSUME IInv, NEW w \in Workers, Finish(w) \/ FinishUnconfirmed(w)
  PROVE  IInv'
  <1>1. CASE Finish(w)
    BY <1>1, IdleTyped, CommitStep DEF Finish, IdleWorker
  <1>2. CASE FinishUnconfirmed(w)
    <2> DEFINE s == [IdleWorker EXCEPT !.stage = "failing", !.job = worker[w].job,
                                       !.n = worker[w].n, !.retryable = TRUE]
    <2>1. worker[w].job \in Jobs /\ worker[w].n \in 0 .. MaxAttempts
      BY <1>2 DEF FinishUnconfirmed, CommitResult, IInv, TypeOK, WorkersHold, WorkerState
    <2>2. s \in WorkerState
      BY <2>1, FailingTyped
    <2>3. s.stage = "failing" /\ s.job \in Jobs
      BY <2>1 DEF IdleWorker
    <2>4. CommitResult(w) /\ worker' = [worker EXCEPT ![w] = s]
      BY <1>2 DEF FinishUnconfirmed, Failing
    <2> HIDE DEF s
    <2> QED
      BY <2>2, <2>3, <2>4, CommitStep
  <1> QED
    BY <1>1, <1>2

LEMMA StepHolds == IInv /\ [Next]_vars => IInv'
  <1> SUFFICES ASSUME IInv, [Next]_vars PROVE IInv'
    OBVIOUS
  <1>1. CASE \E p \in Publishers : PublisherNext(p)
    <2> PICK p \in Publishers : PublisherNext(p)
      BY <1>1
    <2>1. CASE \E j \in Jobs : Submit(p, j)
      BY <2>1, SubmitStep
    <2>2. CASE \E j \in Jobs : RecoverForRetry(p, j)
      BY <2>2, RecoverStep
    <2>3. CASE WriteReceipt(p)
      BY <2>3, ReceiptStep
    <2> QED
      BY <2>1, <2>2, <2>3, PublishingStep DEF PublisherNext
  <1>2. CASE \E w \in Workers : WorkerNext(w)
    <2> PICK w \in Workers : WorkerNext(w)
      BY <1>2
    <2>1. CASE \E j \in Jobs : Skip(w, j) \/ Claim(w, j)
      BY <2>1, MessageStep, ClaimStep
    <2>2. CASE Check(w) \/ Flush(w)
      BY <2>2, CheckStep, FlushStep
    <2>3. CASE Finish(w) \/ FinishUnconfirmed(w)
      BY <2>3, FinishStep
    <2>4. CASE RecordFailure(w)
      BY <2>4, RecordFailureStep
    <2> QED
      BY <2>1, <2>2, <2>3, <2>4, LeaveStep DEF WorkerNext
  <1>3. CASE \E j \in Jobs : JobNext(j)
    BY <1>3, RecoverStep, ClockStep, MessageStep DEF JobNext
  <1>4. CASE UNCHANGED vars
    BY <1>4, QuietStep DEF vars, dbVars, IInv, TypeOK, PublishersHold
  <1> QED
    BY <1>1, <1>2, <1>3, <1>4 DEF Next

THEOREM Invariance == Spec => []IInv
  BY InitHolds, StepHolds, PTL DEF Spec

(* Type correctness, with the bound on the attempts of a job: whatever      *)
(* environment, no job is attempted more than max_attempts times.           *)
THEOREM TypeCorrect == Spec => []TypeOK
  BY Invariance, PTL DEF IInv

(* The attempt ledger and attempt_count never disagree.                     *)
THEOREM LedgerCorrect == Spec => []AttemptLedger
  BY Invariance, PTL DEF IInv

(* No exhausted job is queued, no processing job is beyond recovery.        *)
THEOREM JobsRecoverable == Spec => [](QueuedMayRun /\ ProcessingIsRecoverable)
  BY Invariance, PTL DEF IInv

(* No completed job loses a row.                                            *)
THEOREM RowsKept == Spec => []RowsAccounted
  BY Invariance, PTL DEF IInv

(* A source key, once imported, stays the import of the same job.           *)
THEOREM KeysImportedOnce == Spec => ImportedOnce
  <1>1. IInv /\ [Next]_vars =>
           \A k \in Keys : snapshot[k] # NoJob =>
              /\ snapshot'[k] = snapshot[k]
              /\ \A w \in Workers : CommitResult(w) => k \notin worker[w].accepted
    <2> SUFFICES ASSUME IInv, [Next]_vars, NEW k \in Keys, snapshot[k] # NoJob
                 PROVE  /\ snapshot'[k] = snapshot[k]
                        /\ \A w \in Workers : CommitResult(w) => k \notin worker[w].accepted
      OBVIOUS
    <2>0. ASSUME NEW w \in Workers, CommitResult(w)
          PROVE  k \notin worker[w].accepted
      BY <2>0 DEF CommitResult, IInv, KeysLocked
    <2>1. CASE \E w \in Workers : CommitResult(w)
      <3> PICK w \in Workers : CommitResult(w)
        BY <2>1
      <3> QED
        BY <2>0 DEF CommitResult
    <2>2. CASE UNCHANGED snapshot
      BY <2>0, <2>2
    <2> QED
      BY <2>1, <2>2
         DEF Next, PublisherNext, WorkerNext, JobNext, vars, dbVars, Submit, Resubmit,
             SelectDue, RecoverForRetry, Publish, PublishFails, ReadForReceipt,
             WriteReceipt, PublisherStops, Skip, Claim, ClaimFails, Check, Flush,
             FlushConflict, Finish, FinishUnconfirmed, Fail, RecordFailure,
             RecordFailureFails, Crash, RecoverExhausted, LeaseExpires, BackoffEnds,
             ReceiptAges, LoseMessage
  <1> QED
    BY <1>1, Invariance, PTL DEF ImportedOnce, Spec

---------------------------------------------------------------------------
(* The pipeline keeps its ledger under every fault.                         *)

(* Only a job that was submitted is in a message, with a publisher or with  *)
(* a worker.                                                                *)
OnlyAccepted ==
    \A j \in Jobs : job[j].status = "absent" =>
        /\ j \notin queue
        /\ \A p \in Publishers : publisher[p].stage # "idle" => publisher[p].job # j
        /\ \A w \in Workers : worker[w].stage # "idle" => worker[w].job # j

(* The errors of a job, stored or about to be, and the rows a worker is     *)
(* about to import for it are rows of its payload.                          *)
RowsOwn ==
    /\ \A j \in Jobs : errors[j] \subseteq RowsOf[j]
    /\ \A w \in Workers : worker[w].stage \in {"checked", "flushed"} =>
          /\ worker[w].accepted \subseteq RowsOf[worker[w].job]
          /\ worker[w].rejected \subseteq RowsOf[worker[w].job]

LInv == IInv /\ OnlyAccepted /\ RowsOwn

LEMMA LInit == Init => LInv /\ Ledger!Init
  <1> SUFFICES ASSUME Init PROVE LInv /\ Ledger!Init
    OBVIOUS
  <1>1. OnlyAccepted /\ RowsOwn
    BY DEF Init, OnlyAccepted, RowsOwn, IdleWorker, IdlePublisher
  <1>2. Ledger!Init
    BY DEF Init, Ledger!Init, AbsentJob
  <1> QED
    BY <1>1, <1>2, InitHolds DEF LInv

(* Nothing is handed an identifier but of a job that is there.              *)
LEMMA StillAccepted ==
  ASSUME OnlyAccepted,
         \A j \in Jobs : job'[j].status = "absent" => job[j].status = "absent",
         \A j \in queue' \ queue : job'[j].status # "absent",
         \A p \in Publishers : publisher'[p].stage # "idle" =>
            \/ publisher[p].stage # "idle" /\ publisher'[p].job = publisher[p].job
            \/ job'[publisher'[p].job].status # "absent",
         \A w \in Workers : worker'[w].stage # "idle" =>
            \/ worker[w].stage # "idle" /\ worker'[w].job = worker[w].job
            \/ job'[worker'[w].job].status # "absent"
  PROVE  OnlyAccepted'
  BY DEF OnlyAccepted

LEMMA SameLedger ==
  ASSUME UNCHANGED <<errors, snapshot>>,
         \A j \in Jobs : /\ job'[j].status = job[j].status
                         /\ job'[j].attempts = job[j].attempts
  PROVE  UNCHANGED Ledger!vars
  BY DEF Ledger!vars

(* A step that changes the status of job j, and its attempts, alone.        *)
LEMMA LedgerMove ==
  ASSUME NEW j \in Jobs, NEW to, NEW n,
         job'[j].status = to, job'[j].attempts = n,
         \A i \in Jobs \ {j} : job'[i] = job[i]
  PROVE  /\ [i \in Jobs |-> job'[i].status] =
              [[i \in Jobs |-> job[i].status] EXCEPT ![j] = to]
         /\ [i \in Jobs |-> job'[i].attempts] =
              [[i \in Jobs |-> job[i].attempts] EXCEPT ![j] = n]
  OBVIOUS

(* Publishers and time.                                                     *)
LEMMA LPublisherSteps ==
  ASSUME LInv,
         \/ \E p \in Publishers :
               \/ \E j \in Jobs : Resubmit(p, j) \/ SelectDue(p, j)
               \/ Publish(p) \/ PublishFails(p) \/ ReadForReceipt(p)
               \/ WriteReceipt(p) \/ PublisherStops(p)
         \/ \E j \in Jobs :
               \/ \E w \in Workers : Skip(w, j)
               \/ LeaseExpires(j) \/ BackoffEnds(j) \/ ReceiptAges(j) \/ LoseMessage(j)
         \/ UNCHANGED vars
  PROVE  OnlyAccepted' /\ RowsOwn' /\ UNCHANGED Ledger!vars
  <1>1. UNCHANGED <<errors, snapshot, worker>>
    BY DEF Resubmit, SelectDue, Publish, PublishFails, ReadForReceipt, WriteReceipt,
           PublisherStops, Skip, LeaseExpires, BackoffEnds, ReceiptAges, LoseMessage,
           dbVars, vars
  <1>2. \A j \in Jobs : /\ job'[j].status = job[j].status
                        /\ job'[j].attempts = job[j].attempts
    <2>1. job \in [Jobs -> JobRow]
      BY DEF LInv, IInv, TypeOK
    <2>2. CASE \E p \in Publishers : WriteReceipt(p)
      BY <2>1, <2>2 DEF WriteReceipt, JobRow
    <2>3. CASE \E j \in Jobs : LeaseExpires(j) \/ BackoffEnds(j) \/ ReceiptAges(j)
      BY <2>1, <2>3 DEF LeaseExpires, BackoffEnds, ReceiptAges, JobRow
    <2>4. CASE job' = job
      BY <2>4
    <2> QED
      BY <2>2, <2>3, <2>4
         DEF Resubmit, SelectDue, Publish, PublishFails, ReadForReceipt, PublisherStops,
             Skip, LoseMessage, dbVars, vars
  <1>3. /\ \A j \in queue' \ queue : job'[j].status # "absent"
        /\ \A p \in Publishers : publisher'[p].stage # "idle" =>
              \/ publisher[p].stage # "idle" /\ publisher'[p].job = publisher[p].job
              \/ job'[publisher'[p].job].status # "absent"
    <2>1. CASE \E p \in Publishers :
                 \/ \E j \in Jobs : Resubmit(p, j) \/ SelectDue(p, j)
                 \/ Publish(p) \/ PublishFails(p) \/ ReadForReceipt(p)
                 \/ WriteReceipt(p) \/ PublisherStops(p)
      <3> PICK p \in Publishers :
                 \/ \E j \in Jobs : Resubmit(p, j) \/ SelectDue(p, j)
                 \/ Publish(p) \/ PublishFails(p) \/ ReadForReceipt(p)
                 \/ WriteReceipt(p) \/ PublisherStops(p)
        BY <2>1
      <3>1. CASE \E j \in Jobs : Resubmit(p, j) \/ SelectDue(p, j)
        BY <3>1 DEF Resubmit, SelectDue, DueForDispatch, Enter, LInv, IInv, TypeOK,
                    PublisherState, dbVars
      <3>2. CASE Publish(p)
        <4>1. /\ publisher[p].stage # "idle" /\ publisher[p].job \in Jobs
              /\ queue' = queue \union {publisher[p].job}
              /\ job' = job
          BY <3>2 DEF Publish, LInv, IInv, PublishersHold, dbVars
        <4>2. job[publisher[p].job].status # "absent"
          BY <4>1 DEF LInv, OnlyAccepted
        <4>3. \A q \in Publishers : publisher'[q].stage # "idle" =>
                 publisher[q].stage # "idle" /\ publisher'[q].job = publisher[q].job
          BY <3>2, <4>1 DEF Publish, LInv, IInv, TypeOK, PublisherState
        <4> QED
          BY <4>1, <4>2, <4>3
      <3>3. CASE PublishFails(p) \/ ReadForReceipt(p) \/ WriteReceipt(p)
                 \/ PublisherStops(p)
        BY <3>3 DEF PublishFails, ReadForReceipt, WriteReceipt, PublisherStops, Leave,
                    IdlePublisher, LInv, IInv, TypeOK, PublisherState
      <3> QED
        BY <3>1, <3>2, <3>3
    <2>2. CASE \/ \E j \in Jobs :
                    \/ \E w \in Workers : Skip(w, j)
                    \/ LeaseExpires(j) \/ BackoffEnds(j) \/ ReceiptAges(j)
                    \/ LoseMessage(j)
               \/ UNCHANGED vars
      BY <2>2 DEF Skip, LeaseExpires, BackoffEnds, ReceiptAges, LoseMessage, vars
    <2> QED
      BY <2>1, <2>2
  <1>4. OnlyAccepted'
    BY <1>1, <1>2, <1>3, StillAccepted DEF LInv
  <1>5. RowsOwn'
    BY <1>1 DEF LInv, RowsOwn
  <1> QED
    BY <1>1, <1>2, <1>4, <1>5, SameLedger

LEMMA NowFailing ==
  ASSUME worker \in [Workers -> WorkerState], NEW w \in Workers,
         NEW j, NEW n, NEW r, Failing(w, j, n, r)
  PROVE  /\ worker'[w].stage = "failing" /\ worker'[w].job = j
         /\ \A v \in Workers \ {w} : worker'[v] = worker[v]
  <1> DEFINE s == [IdleWorker EXCEPT !.stage = "failing", !.job = j, !.n = n,
                                     !.retryable = r]
  <1>1. s.stage = "failing" /\ s.job = j
    BY DEF IdleWorker
  <1>2. worker' = [worker EXCEPT ![w] = s]
    BY DEF Failing
  <1> HIDE DEF s
  <1> QED
    BY <1>1, <1>2

LEMMA NowIdle ==
  ASSUME worker \in [Workers -> WorkerState], NEW w \in Workers,
         worker' = [worker EXCEPT ![w] = IdleWorker]
  PROVE  /\ worker'[w].stage = "idle"
         /\ \A v \in Workers \ {w} : worker'[v] = worker[v]
  BY DEF IdleWorker

(* A worker that goes on with its job or leaves it.                         *)
LEMMA LWorkerMoves ==
  ASSUME LInv, NEW w \in Workers,
         \/ Check(w) \/ Flush(w) \/ FlushConflict(w) \/ Fail(w)
         \/ RecordFailureFails(w) \/ Crash(w)
         \/ \E j \in Jobs : ClaimFails(w, j)
  PROVE  /\ \A v \in Workers \ {w} : worker'[v] = worker[v]
         /\ worker'[w].stage # "idle" =>
               \/ worker[w].stage # "idle" /\ worker'[w].job = worker[w].job
               \/ worker'[w].job \in queue
         /\ worker'[w].stage \in {"checked", "flushed"} =>
               /\ worker'[w].accepted \subseteq RowsOf[worker'[w].job]
               /\ worker'[w].rejected \subseteq RowsOf[worker'[w].job]
  <1>1. worker \in [Workers -> WorkerState]
    BY DEF LInv, IInv, TypeOK
  <1>2. CASE Check(w)
    <2> DEFINE j == worker[w].job
    <2>1. PICK ok \in SUBSET Fresh(j) :
             worker' = [worker EXCEPT ![w].stage = "checked", ![w].accepted = ok,
                                      ![w].rejected = RejectedRows(j, ok)]
      BY <1>2 DEF Check
    <2>2. j \in Jobs /\ worker[w].stage = "claimed"
      BY <1>2 DEF Check, LInv, IInv, WorkersHold
    <2>3. ok \subseteq RowsOf[j] /\ RejectedRows(j, ok) \subseteq RowsOf[j]
      BY <2>2 DEF Fresh, RejectedRows, LInv, RowsOwn
    <2>4. \A bad : worker' = [worker EXCEPT ![w].stage = "checked", ![w].accepted = ok,
                                            ![w].rejected = bad]
             => /\ worker'[w].job = worker[w].job
                /\ worker'[w].accepted = ok /\ worker'[w].rejected = bad
                /\ \A v \in Workers \ {w} : worker'[v] = worker[v]
      BY <1>1 DEF WorkerState
    <2>5. /\ worker'[w].job = worker[w].job
          /\ worker'[w].accepted = ok /\ worker'[w].rejected = RejectedRows(j, ok)
          /\ \A v \in Workers \ {w} : worker'[v] = worker[v]
      BY <2>1, <2>4
    <2> HIDE DEF j
    <2> QED
      BY <2>2, <2>3, <2>5 DEF j
  <1>3. CASE Flush(w)
    BY <1>1, <1>3 DEF Flush, WorkerState, LInv, RowsOwn
  <1>4. CASE FlushConflict(w) \/ Fail(w)
    <2>1. worker[w].stage # "idle"
      BY <1>4 DEF FlushConflict, Fail
    <2> QED
      BY <1>1, <1>4, <2>1, NowFailing DEF FlushConflict, Fail
  <1>5. CASE RecordFailureFails(w) \/ Crash(w)
    BY <1>1, <1>5, NowIdle DEF RecordFailureFails, Crash
  <1>6. CASE \E j \in Jobs : ClaimFails(w, j)
    BY <1>1, <1>6, NowFailing DEF ClaimFails, Deliver
  <1> QED
    BY <1>2, <1>3, <1>4, <1>5, <1>6

LEMMA LWorkerSteps ==
  ASSUME LInv, NEW w \in Workers,
         \/ Check(w) \/ Flush(w) \/ FlushConflict(w) \/ Fail(w)
         \/ RecordFailureFails(w) \/ Crash(w)
         \/ \E j \in Jobs : ClaimFails(w, j)
  PROVE  OnlyAccepted' /\ RowsOwn' /\ UNCHANGED Ledger!vars
  <1>1. UNCHANGED <<job, errors, snapshot, publisher>>
    BY DEF Check, Flush, FlushConflict, Fail, RecordFailureFails, Crash, ClaimFails,
           dbVars
  <1>2. \A j \in queue' \ queue : worker[w].stage # "idle" /\ j = worker[w].job
    BY DEF Check, Flush, FlushConflict, Fail, RecordFailureFails, Crash, ClaimFails,
           Deliver
  <1>3. /\ \A j \in queue : j \in Jobs /\ job[j].status # "absent"
        /\ worker[w].stage # "idle" => job[worker[w].job].status # "absent"
    BY DEF LInv, IInv, TypeOK, WorkersHold, OnlyAccepted
  <1>4. OnlyAccepted'
    BY <1>1, <1>2, <1>3, LWorkerMoves, StillAccepted DEF LInv
  <1>5. RowsOwn'
    BY <1>1, LWorkerMoves DEF LInv, RowsOwn
  <1> QED
    BY <1>1, <1>4, <1>5, SameLedger

LEMMA LSubmit ==
  ASSUME LInv, NEW p \in Publishers, NEW j \in Jobs, Submit(p, j)
  PROVE  OnlyAccepted' /\ RowsOwn' /\ Ledger!Next
  <1>1. /\ job \in [Jobs -> JobRow]
        /\ job[j].status = "absent"
        /\ job' = [job EXCEPT ![j].status = "queued"]
        /\ UNCHANGED <<attempt, errors, snapshot, queue, worker>>
    BY DEF Submit, LInv, IInv, TypeOK
  <1>2. /\ job'[j].status = "queued" /\ job'[j].attempts = job[j].attempts
        /\ \A i \in Jobs \ {j} : job'[i] = job[i]
    BY <1>1 DEF JobRow
  <1>3. \A q \in Publishers : publisher'[q].stage # "idle" =>
           \/ publisher[q].stage # "idle" /\ publisher'[q].job = publisher[q].job
           \/ publisher'[q].job = j
    BY DEF Submit, Enter, LInv, IInv, TypeOK, PublisherState
  <1>4. OnlyAccepted'
    BY <1>1, <1>2, <1>3, StillAccepted DEF LInv
  <1>5. RowsOwn'
    BY <1>1 DEF LInv, RowsOwn
  <1>6. Ledger!Accept(j)
    <2>1. [[i \in Jobs |-> job[i].attempts] EXCEPT ![j] = job[j].attempts]
            = [i \in Jobs |-> job[i].attempts]
      OBVIOUS
    <2> QED
      BY <1>1, <1>2, <2>1, LedgerMove DEF Ledger!Accept
  <1> QED
    BY <1>4, <1>5, <1>6 DEF Ledger!Next

LEMMA LClaim ==
  ASSUME LInv, NEW w \in Workers, NEW j \in Jobs, Claim(w, j)
  PROVE  OnlyAccepted' /\ RowsOwn' /\ Ledger!Next
  <1> DEFINE n == job[j].attempts + 1
  <1>1. /\ job \in [Jobs -> JobRow]
        /\ worker \in [Workers -> WorkerState]
        /\ job[j].status = "queued"
        /\ job' = [job EXCEPT ![j].status = "processing", ![j].attempts = n,
                              ![j].lease = "live", ![j].backoff = FALSE]
        /\ queue' \subseteq queue
        /\ UNCHANGED <<errors, snapshot, publisher>>
    BY DEF Claim, Claimable, Deliver, LInv, IInv, TypeOK
  <1>2. /\ job'[j].status = "processing" /\ job'[j].attempts = n
        /\ \A i \in Jobs \ {j} : job'[i] = job[i]
    BY <1>1 DEF JobRow
  <1>3. /\ worker'[w].stage = "claimed" /\ worker'[w].job = j
        /\ \A v \in Workers \ {w} : worker'[v] = worker[v]
    <2> DEFINE s == [IdleWorker EXCEPT !.stage = "claimed", !.job = j, !.n = n,
                                       !.cached = job[j].counts]
    <2>1. s.stage = "claimed" /\ s.job = j
      BY DEF IdleWorker
    <2>2. worker' = [worker EXCEPT ![w] = s]
      BY DEF Claim
    <2> HIDE DEF s
    <2> QED
      BY <1>1, <2>1, <2>2
  <1>4. OnlyAccepted'
    BY <1>1, <1>2, <1>3, StillAccepted DEF LInv
  <1>5. RowsOwn'
    BY <1>1, <1>3 DEF LInv, RowsOwn
  <1>6. job[j].attempts < MaxAttempts
    BY <1>1 DEF LInv, IInv, QueuedMayRun
  <1>7. Ledger!Begin(j)
    <2>1. [[i \in Jobs |-> job[i].attempts] EXCEPT ![j] = @ + 1]
            = [[i \in Jobs |-> job[i].attempts] EXCEPT ![j] = n]
      OBVIOUS
    <2> HIDE DEF n
    <2> QED
      BY <1>1, <1>2, <1>6, <2>1, LedgerMove DEF Ledger!Begin, Ledger!Move
  <1> QED
    BY <1>4, <1>5, <1>7 DEF Ledger!Next

(* A job set back, whoever does it and whatever its status was.             *)
LEMMA LSettle ==
  ASSUME LInv, NEW j \in Jobs, NEW again \in BOOLEAN, NEW n, NEW backoff,
         job[j].status # "absent",
         n = Ledger!Charge(j),
         again => n < MaxAttempts,
         Settle(j, again, n, backoff),
         UNCHANGED <<errors, snapshot>>
  PROVE  /\ Ledger!Next
         /\ job'[j].status # "absent"
         /\ \A i \in Jobs \ {j} : job'[i] = job[i]
  <1> DEFINE to == IF again THEN "queued" ELSE "failed"
  <1>1. /\ job'[j].status = to /\ job'[j].attempts = n
        /\ \A i \in Jobs \ {j} : job'[i] = job[i]
    BY DEF Settle, LInv, IInv, TypeOK, JobRow
  <1>2. /\ [i \in Jobs |-> job'[i].status] =
              [[i \in Jobs |-> job[i].status] EXCEPT ![j] = to]
        /\ [i \in Jobs |-> job'[i].attempts] =
              [[i \in Jobs |-> job[i].attempts] EXCEPT ![j] = n]
    <2> HIDE DEF to
    <2> QED
      BY <1>1, LedgerMove
  <1>3. Ledger!SetBack(j, to)
    BY <1>2 DEF Ledger!SetBack, Ledger!Move
  <1>4. Ledger!TryAgain(j) \/ Ledger!GiveUp(j)
    BY <1>3 DEF Ledger!TryAgain, Ledger!GiveUp
  <1> QED
    BY <1>1, <1>4 DEF Ledger!Next

LEMMA LRecordFailure ==
  ASSUME LInv, NEW w \in Workers, RecordFailure(w)
  PROVE  OnlyAccepted' /\ RowsOwn' /\ Ledger!Next
  <1> DEFINE j == worker[w].job
             n == IF job[j].attempts = 0 THEN 1 ELSE job[j].attempts
             again == MayRetry(worker[w].retryable, n)
  <1>1. /\ j \in Jobs
        /\ job[j].status # "absent"
        /\ worker[w].retryable \in BOOLEAN
    BY DEF RecordFailure, LInv, IInv, TypeOK, WorkersHold, WorkerState, OnlyAccepted
  <1>2. /\ again \in BOOLEAN
        /\ again => n < MaxAttempts
        /\ Settle(j, again, n, again)
        /\ queue' \subseteq queue \union {j}
        /\ worker' = [worker EXCEPT ![w] = IdleWorker]
        /\ UNCHANGED <<errors, snapshot, publisher>>
    BY <1>1 DEF RecordFailure, MayRetry
  <1>3. n = Ledger!Charge(j)
    BY <1>1 DEF Ledger!Charge
  <1> HIDE DEF j, n, again
  <1>4. /\ Ledger!Next
        /\ job'[j].status # "absent"
        /\ \A i \in Jobs \ {j} : job'[i] = job[i]
    BY <1>1, <1>2, <1>3, LSettle
  <1>5. worker'[w].stage = "idle" /\ \A v \in Workers \ {w} : worker'[v] = worker[v]
    BY <1>2 DEF LInv, IInv, TypeOK, IdleWorker
  <1>6. OnlyAccepted'
    BY <1>2, <1>4, <1>5, StillAccepted DEF LInv
  <1>7. RowsOwn'
    BY <1>2, <1>5 DEF LInv, RowsOwn
  <1> QED
    BY <1>4, <1>6, <1>7

LEMMA LRecover ==
  ASSUME LInv, NEW j \in Jobs,
         RecoverExhausted(j) \/ \E p \in Publishers : RecoverForRetry(p, j)
  PROVE  OnlyAccepted' /\ RowsOwn' /\ Ledger!Next
  <1>1. /\ job[j].status = "processing"
        /\ UNCHANGED <<errors, snapshot, queue, worker>>
    BY DEF RecoverExhausted, RecoverForRetry, Stale
  <1>2. \E again \in BOOLEAN :
           /\ again => job[j].attempts < MaxAttempts
           /\ Settle(j, again, job[j].attempts, FALSE)
    BY DEF RecoverExhausted, RecoverForRetry, MayRetry
  <1>3. job[j].attempts = Ledger!Charge(j)
    BY <1>1 DEF LInv, IInv, ProcessingIsRecoverable, Ledger!Charge
  <1>4. /\ Ledger!Next
        /\ job'[j].status # "absent"
        /\ \A i \in Jobs \ {j} : job'[i] = job[i]
    BY <1>1, <1>2, <1>3, LSettle
  <1>5. \A p \in Publishers : publisher'[p].stage # "idle" =>
           \/ publisher[p].stage # "idle" /\ publisher'[p].job = publisher[p].job
           \/ publisher'[p].job = j
    <2>1. CASE RecoverExhausted(j)
      BY <2>1 DEF RecoverExhausted
    <2>2. CASE \E p \in Publishers : RecoverForRetry(p, j)
      <3> PICK p \in Publishers : Enter(p, "beat_publish", j)
        BY <2>2 DEF RecoverForRetry
      <3> QED
        BY DEF Enter, LInv, IInv, TypeOK
    <2> QED
      BY <2>1, <2>2
  <1>6. OnlyAccepted'
    BY <1>1, <1>4, <1>5, StillAccepted DEF LInv
  <1>7. RowsOwn'
    BY <1>1 DEF LInv, RowsOwn
  <1> QED
    BY <1>4, <1>6, <1>7

LEMMA LFinish ==
  ASSUME LInv, NEW w \in Workers, Finish(w) \/ FinishUnconfirmed(w)
  PROVE  OnlyAccepted' /\ RowsOwn' /\ Ledger!Next
  <1> DEFINE j    == worker[w].job
             rej  == Cardinality(worker[w].rejected)
             done == FinalStatus(rej)
             rows == worker[w].accepted
             bad  == worker[w].rejected
  <1>1. /\ job \in [Jobs -> JobRow]
        /\ worker \in [Workers -> WorkerState]
        /\ worker[w].stage \in {"checked", "flushed"}
        /\ worker[w].stage = "checked" => rows = {}
        /\ \E c : job' = [job EXCEPT ![j].status = done, ![j].lease = "none",
                                     ![j].counts = c]
        /\ snapshot' = [k \in Keys |-> IF k \in rows THEN j ELSE snapshot[k]]
        /\ errors' = [errors EXCEPT ![j] = @ \union bad]
        /\ UNCHANGED <<queue, publisher>>
    BY DEF Finish, FinishUnconfirmed, CommitResult, LInv, IInv, TypeOK
  <1>2. j \in Jobs /\ job[j].attempts > 0 /\ job[j].status # "absent"
    <2>1. j \in Jobs /\ worker[w].n \in 1 .. job[j].attempts
      BY <1>1 DEF LInv, IInv, WorkersHold
    <2>2. job[j].attempts \in 0 .. MaxAttempts
      BY <1>1, <2>1 DEF JobRow
    <2>3. job[j].status # "absent"
      BY <1>1, <2>1 DEF LInv, OnlyAccepted
    <2> HIDE DEF j
    <2> QED
      BY <2>1, <2>2, <2>3, MaxAttemptsAssumption
  <1>3. /\ rows \subseteq RowsOf[j] /\ bad \subseteq RowsOf[j]
        /\ RowsOf[j] \ rows \subseteq bad
        /\ \A k \in rows : snapshot[k] = NoJob
    BY <1>1, <1>2 DEF LInv, IInv, RowsSorted, KeysLocked, RowsOwn
  <1>4. done = IF bad = {} THEN "completed" ELSE "completed_with_errors"
    <2>1. IsFiniteSet(bad)
      BY <1>2, <1>3, RowsAssumption, FiniteKeysAssumption, FS_Subset
    <2> QED
      BY <2>1, FS_EmptySet DEF FinalStatus
  <1>5. done # "absent"
    BY <1>4
  <1> HIDE DEF done, rej, j, rows, bad
  <1>6. /\ job'[j].status = done
        /\ job'[j].attempts = job[j].attempts
        /\ \A i \in Jobs \ {j} : job'[i] = job[i]
    BY <1>1, <1>2 DEF JobRow
  <1>7. /\ worker'[w].stage # "idle" => worker'[w].job = j
        /\ worker'[w].stage \notin {"checked", "flushed"}
        /\ \A v \in Workers \ {w} : worker'[v] = worker[v]
    BY <1>1, NowIdle, NowFailing DEF Finish, FinishUnconfirmed, j
  <1>8. OnlyAccepted'
    BY <1>1, <1>5, <1>6, <1>7, StillAccepted DEF LInv
  <1>9. RowsOwn'
    <2>1. \A i \in Jobs : errors'[i] \subseteq RowsOf[i]
      BY <1>1, <1>2, <1>3 DEF LInv, IInv, TypeOK, RowsOwn
    <2>2. \A v \in Workers : worker'[v].stage \in {"checked", "flushed"} =>
             /\ worker'[v].accepted \subseteq RowsOf[worker'[v].job]
             /\ worker'[v].rejected \subseteq RowsOf[worker'[v].job]
      BY <1>7 DEF LInv, RowsOwn
    <2> QED
      BY <2>1, <2>2 DEF RowsOwn
  <1>10. Ledger!Report(j, rows, bad)
    <2> DEFINE was == [i \in Jobs |-> job[i].status]
               is  == [i \in Jobs |-> job'[i].status]
    <2>1. was[j] # "absent" /\ is = [was EXCEPT ![j] = done]
      BY <1>2, <1>6
    <2>2. [i \in Jobs |-> job[i].attempts][j] > 0
      BY <1>2
    <2>3. UNCHANGED [i \in Jobs |-> job[i].attempts]
      BY <1>6
    <2> QED
      BY <1>1, <1>3, <1>4, <2>1, <2>2, <2>3 DEF Ledger!Report, Ledger!Move
  <1>11. \E r, b \in SUBSET RowsOf[j] : Ledger!Report(j, r, b)
    BY <1>3, <1>10
  <1> QED
    BY <1>2, <1>8, <1>9, <1>11 DEF Ledger!Next, Ledger!Report, Ledger!Move

LEMMA LStep ==
  ASSUME LInv, [Next]_vars
  PROVE  LInv' /\ [Ledger!Next]_(Ledger!vars)
  <1>1. IInv'
    BY StepHolds DEF LInv
  <1>2. CASE \E p \in Publishers : PublisherNext(p)
    <2> PICK p \in Publishers : PublisherNext(p)
      BY <1>2
    <2>1. CASE \E j \in Jobs : Submit(p, j)
      BY <1>1, <2>1, LSubmit DEF LInv
    <2>2. CASE \E j \in Jobs : RecoverForRetry(p, j)
      BY <1>1, <2>2, LRecover DEF LInv
    <2> QED
      BY <1>1, <2>1, <2>2, LPublisherSteps DEF PublisherNext, LInv
  <1>3. CASE \E w \in Workers : WorkerNext(w)
    <2> PICK w \in Workers : WorkerNext(w)
      BY <1>3
    <2>1. CASE \E j \in Jobs : Skip(w, j)
      BY <1>1, <2>1, LPublisherSteps DEF LInv
    <2>2. CASE \E j \in Jobs : Claim(w, j)
      BY <1>1, <2>2, LClaim DEF LInv
    <2>3. CASE Finish(w) \/ FinishUnconfirmed(w)
      BY <1>1, <2>3, LFinish DEF LInv
    <2>4. CASE RecordFailure(w)
      BY <1>1, <2>4, LRecordFailure DEF LInv
    <2> QED
      BY <1>1, <2>1, <2>2, <2>3, <2>4, LWorkerSteps DEF WorkerNext, LInv
  <1>4. CASE \E j \in Jobs : JobNext(j)
    BY <1>1, <1>4, LRecover, LPublisherSteps DEF JobNext, LInv
  <1>5. CASE UNCHANGED vars
    BY <1>1, <1>5, LPublisherSteps DEF LInv
  <1> QED
    BY <1>2, <1>3, <1>4, <1>5 DEF Next

(* Under every fault the pipeline keeps the ledger it owes its callers:     *)
(* whatever steps workers, beats and a failing database take, each is one   *)
(* entry of the ledger or none.                                             *)
THEOREM LedgerRefinement == Spec => ImplementsLedger
  <1>1. Init => LInv /\ Ledger!Init
    BY LInit
  <1>2. LInv /\ [Next]_vars => LInv' /\ [Ledger!Next]_(Ledger!vars)
    BY LStep
  <1> QED
    BY <1>1, <1>2, PTL DEF Spec, ImplementsLedger, Ledger!Spec

(* No message, publisher or worker ever acts for a job nobody submitted,    *)
(* and a job imports and rejects rows of its own payload only.              *)
THEOREM OnlySubmittedWork == Spec => [](OnlyAccepted /\ RowsOwn)
  <1>1. Init => LInv
    BY LInit
  <1>2. LInv /\ [Next]_vars => LInv'
    BY LStep
  <1>3. LInv => OnlyAccepted /\ RowsOwn
    BY DEF LInv
  <1> QED
    BY <1>1, <1>2, <1>3, PTL DEF Spec

=============================================================================
