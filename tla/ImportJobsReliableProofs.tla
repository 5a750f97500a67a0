---------------------- MODULE ImportJobsReliableProofs ----------------------
(***************************************************************************)
(* ImportJobs in the reliable environment, Faults = {}: the pipeline        *)
(* implements ImportLifecycle, whatever the number of jobs, workers and     *)
(* attempts, although workers crash, messages are lost and repeated, and    *)
(* publishes and failure records fail.                                      *)
(***************************************************************************)
EXTENDS ImportJobsProofs

(* A lease that has expired belongs to no living worker.                    *)
LeaseFree ==
    \A j \in Jobs : job[j].lease = "expired" => \A w \in Workers : ~Busy(w, j)

(* Errors are stored by the commit that completes their job.                *)
ErrorsAtCompletion ==
    \A j \in Jobs : job[j].status \notin Completed => errors[j] = {}

(* A worker past its check has split the rows of its job in two.            *)
RowsSplit ==
    \A w \in Workers : worker[w].stage \in {"checked", "flushed"} =>
        /\ worker[w].accepted \subseteq RowsOf[worker[w].job]
        /\ worker[w].rejected = RowsOf[worker[w].job] \ worker[w].accepted

RInv == IInv /\ ExclusiveWorker /\ LeaseFree /\ ErrorsAtCompletion /\ RowsSplit

Parts == ExclusiveWorker /\ LeaseFree /\ ErrorsAtCompletion /\ RowsSplit

(* What a reader of the API sees of a step that moves no job.               *)
Seen(i) == <<job[i].status, job[i].attempts>>

LEMMA Unseen ==
  ASSUME job \in [Jobs -> JobRow], job' \in [Jobs -> JobRow],
         \A i \in Jobs : job'[i].status = job[i].status
                         /\ job'[i].attempts = job[i].attempts,
         snapshot' = snapshot
  PROVE  UNCHANGED Lifecycle!vars
  BY DEF Lifecycle!vars

(* A step that changes the status of job j, and its attempts, alone.        *)
LEMMA Seen1 ==
  ASSUME NEW j \in Jobs, NEW to, NEW n,
         job'[j].status = to, job'[j].attempts = n,
         \A i \in Jobs \ {j} : job'[i] = job[i]
  PROVE  /\ [i \in Jobs |-> job'[i].status] =
              [[i \in Jobs |-> job[i].status] EXCEPT ![j] = to]
         /\ [i \in Jobs |-> job'[i].attempts] =
              [[i \in Jobs |-> job[i].attempts] EXCEPT ![j] = n]
  OBVIOUS

LEMMA SameAttempts ==
  ASSUME NEW j \in Jobs
  PROVE  [[i \in Jobs |-> job[i].attempts] EXCEPT ![j] = job[j].attempts]
            = [i \in Jobs |-> job[i].attempts]
  OBVIOUS

LEMMA RInit == Init => RInv /\ Lifecycle!Init
  <1> SUFFICES ASSUME Init PROVE RInv /\ Lifecycle!Init
    OBVIOUS
  <1>1. IInv
    BY InitHolds
  <1>2. Parts
    BY DEF Init, Parts, ExclusiveWorker, LeaseFree, ErrorsAtCompletion, RowsSplit, Busy,
           IdleWorker, AbsentJob
  <1>3. Lifecycle!Init
    BY DEF Init, Lifecycle!Init, AbsentJob
  <1> QED
    BY <1>1, <1>2, <1>3 DEF RInv, Parts

(* Steps that neither move a worker nor change the status of a job.         *)
LEMMA RQuiet ==
  ASSUME RInv, IInv', UNCHANGED <<worker, errors, snapshot>>,
         \A i \in Jobs : /\ job'[i].status = job[i].status
                         /\ job'[i].attempts = job[i].attempts
                         /\ job'[i].lease = "expired" =>
                               job[i].lease = "expired" \/ \A w \in Workers : ~Busy(w, i)
  PROVE  Parts' /\ UNCHANGED Lifecycle!vars
  <1>1. Parts'
    BY DEF RInv, Parts, ExclusiveWorker, LeaseFree, ErrorsAtCompletion, RowsSplit, Busy
  <1>2. UNCHANGED Lifecycle!vars
    BY Unseen DEF RInv, IInv, TypeOK
  <1> QED
    BY <1>1, <1>2

(* Steps of a worker on the attempt it holds, or away from it.              *)
LEMMA RWorker ==
  ASSUME RInv, IInv', UNCHANGED dbVars, NEW w \in Workers, NEW s \in WorkerState,
         worker' = [worker EXCEPT ![w] = s],
         s.stage # "idle" => /\ worker[w].stage # "idle"
                             /\ s.job = worker[w].job
                             /\ s.n = worker[w].n,
         s.stage \in {"checked", "flushed"} =>
             /\ s.accepted \subseteq RowsOf[s.job]
             /\ s.rejected = RowsOf[s.job] \ s.accepted
  PROVE  Parts' /\ UNCHANGED Lifecycle!vars
  <1>1. /\ \A v \in Workers \ {w} : worker'[v] = worker[v]
        /\ worker'[w] = s
    BY DEF RInv, IInv, TypeOK
  <1>2. \A v \in Workers, i \in Jobs : Busy(v, i)' => Busy(v, i)
    BY <1>1 DEF Busy
  <1>3. \A v \in Workers, i \in Jobs : Busy(v, i)' => worker'[v].n = worker[v].n
    BY <1>1 DEF Busy
  <1>4. ExclusiveWorker'
    BY <1>2, <1>3 DEF RInv, ExclusiveWorker, dbVars
  <1>5. LeaseFree' /\ ErrorsAtCompletion'
    BY <1>2 DEF RInv, LeaseFree, ErrorsAtCompletion, dbVars
  <1>6. RowsSplit'
    BY <1>1 DEF RInv, RowsSplit
  <1>7. UNCHANGED Lifecycle!vars
    BY Unseen DEF RInv, IInv, TypeOK, dbVars
  <1> QED
    BY <1>4, <1>5, <1>6, <1>7 DEF Parts

(* Steps that move job j while, before and after them, no worker but w is   *)
(* on it; w leaves it or, by a claim, takes it.                             *)
LEMMA RMove ==
  ASSUME RInv, NEW j \in Jobs, NEW w \in Workers,
         \A v \in Workers : Busy(v, j) => v = w,
         \A i \in Jobs \ {j} : job'[i] = job[i] /\ errors'[i] = errors[i],
         \A v \in Workers \ {w} : worker'[v] = worker[v],
         \/ worker'[w].stage = "idle"
         \/ /\ worker'[w].stage \in {"claimed", "failing"}
            /\ worker'[w].job = j
            /\ job'[j].status = "processing"
            /\ worker'[w].n = job'[j].attempts
         \/ worker'[w] = worker[w] /\ ~Busy(w, j),
         job'[j].lease # "expired",
         job'[j].status \notin Completed => errors'[j] = {}
  PROVE  Parts'
  <1>1. \A v \in Workers : Busy(v, j)' =>
           /\ v = w
           /\ job'[j].status = "processing"
           /\ worker'[v].n = job'[j].attempts
    BY DEF Busy
  <1>2. \A v \in Workers : \A i \in Jobs \ {j} : Busy(v, i)' =>
           Busy(v, i) /\ worker'[v] = worker[v]
    BY DEF Busy
  <1>3. ExclusiveWorker'
    <2> SUFFICES ASSUME NEW v \in Workers, NEW i \in Jobs, Busy(v, i)'
                 PROVE  /\ job'[i].status = "processing"
                        /\ worker'[v].n = job'[i].attempts
                        /\ \A u \in Workers : Busy(u, i)' => u = v
      BY DEF ExclusiveWorker
    <2>1. CASE i = j
      BY <2>1, <1>1
    <2>2. CASE i # j
      BY <2>2, <1>2 DEF RInv, ExclusiveWorker
    <2> QED
      BY <2>1, <2>2
  <1>4. LeaseFree' /\ ErrorsAtCompletion'
    BY <1>2 DEF RInv, LeaseFree, ErrorsAtCompletion
  <1>5. RowsSplit'
    BY DEF RInv, RowsSplit
  <1> QED
    BY <1>3, <1>4, <1>5 DEF Parts
(* The same for a job no worker is on.                                      *)
LEMMA RFree ==
  ASSUME RInv, NEW j \in Jobs,
         \A v \in Workers : ~Busy(v, j),
         \A i \in Jobs \ {j} : job'[i] = job[i],
         UNCHANGED <<worker, errors>>,
         job'[j].status \notin Completed => errors[j] = {}
  PROVE  Parts'
  <1>1. \A v \in Workers, i \in Jobs : Busy(v, i)' => Busy(v, i) /\ i # j
    BY DEF Busy
  <1>2. ExclusiveWorker'
    BY <1>1 DEF RInv, ExclusiveWorker
  <1>3. LeaseFree' /\ ErrorsAtCompletion' /\ RowsSplit'
    BY <1>1 DEF RInv, LeaseFree, ErrorsAtCompletion, RowsSplit
  <1> QED
    BY <1>2, <1>3 DEF Parts

(* Only the worker of a processing job can be busy on it.                   *)
LEMMA NobodyOn ==
  ASSUME RInv, NEW j \in Jobs,
         job[j].status # "processing" \/ job[j].lease = "expired"
  PROVE  \A v \in Workers : ~Busy(v, j)
  BY DEF RInv, ExclusiveWorker, LeaseFree

LEMMA RQuietSteps ==
  ASSUME RInv, IInv', Faults = {},
         \/ \E p \in Publishers :
               \/ \E j \in Jobs : Resubmit(p, j) \/ SelectDue(p, j)
               \/ Publish(p) \/ PublishFails(p) \/ ReadForReceipt(p)
               \/ WriteReceipt(p) \/ PublisherStops(p)
         \/ \E w \in Workers, j \in Jobs : Skip(w, j)
         \/ \E j \in Jobs :
               LeaseExpires(j) \/ BackoffEnds(j) \/ ReceiptAges(j) \/ LoseMessage(j)
         \/ UNCHANGED vars
  PROVE  Parts' /\ UNCHANGED Lifecycle!vars
  <1>1. CASE \E j \in Jobs : LeaseExpires(j)
    <2> PICK j \in Jobs : LeaseExpires(j)
      BY <1>1
    <2>1. ~Held(j)
      BY DEF LeaseExpires
    <2>2. \A w \in Workers : ~Busy(w, j)
      BY <2>1 DEF RInv, ExclusiveWorker, Held, Busy
    <2>3. \A i \in Jobs : /\ job'[i].status = job[i].status
                          /\ job'[i].attempts = job[i].attempts
                          /\ i # j => job'[i].lease = job[i].lease
      BY DEF LeaseExpires, RInv, IInv, TypeOK, JobRow
    <2> QED
      BY <2>2, <2>3, RQuiet DEF LeaseExpires
  <1>2. CASE \E p \in Publishers : WriteReceipt(p)
    <2> PICK p \in Publishers : WriteReceipt(p)
      BY <1>2
    <2> DEFINE q == publisher[p].job
    <2>1. /\ job \in [Jobs -> JobRow] /\ q \in Jobs
          /\ job' = [job EXCEPT ![q].dispatched = TRUE]
          /\ UNCHANGED <<worker, errors, snapshot>>
      BY DEF WriteReceipt, RInv, IInv, TypeOK, PublishersHold
    <2> HIDE DEF q
    <2>2. \A i \in Jobs : /\ job'[i].status = job[i].status
                          /\ job'[i].attempts = job[i].attempts
                          /\ job'[i].lease = job[i].lease
      BY <2>1 DEF JobRow
    <2> QED
      BY <2>1, <2>2, RQuiet
  <1>3. CASE \E j \in Jobs : BackoffEnds(j) \/ ReceiptAges(j)
    <2> PICK j \in Jobs : BackoffEnds(j) \/ ReceiptAges(j)
      BY <1>3
    <2>1. \A i \in Jobs : /\ job'[i].status = job[i].status
                          /\ job'[i].attempts = job[i].attempts
                          /\ job'[i].lease = job[i].lease
      <3>1. /\ job \in [Jobs -> JobRow]
            /\ \/ job' = [job EXCEPT ![j].backoff = FALSE]
               \/ job' = [job EXCEPT ![j].dispatched = FALSE]
        BY DEF BackoffEnds, ReceiptAges, RInv, IInv, TypeOK
      <3>2. CASE job' = [job EXCEPT ![j].backoff = FALSE]
        BY <3>1, <3>2 DEF JobRow
      <3>3. CASE job' = [job EXCEPT ![j].dispatched = FALSE]
        BY <3>1, <3>3 DEF JobRow
      <3> QED
        BY <3>1, <3>2, <3>3
    <2> QED
      BY <2>1, RQuiet DEF BackoffEnds, ReceiptAges
  <1>4. CASE UNCHANGED <<dbVars, worker>>
    BY <1>4, RQuiet DEF dbVars
  <1> QED
    BY <1>1, <1>2, <1>3, <1>4
       DEF Resubmit, SelectDue, Publish, PublishFails, ReadForReceipt, PublisherStops,
           Skip, LoseMessage, vars, dbVars

LEMMA RWorkerSteps ==
  ASSUME RInv, IInv', NEW w \in Workers,
         Check(w) \/ Flush(w) \/ FlushConflict(w) \/ Fail(w)
           \/ RecordFailureFails(w) \/ Crash(w)
  PROVE  Parts' /\ UNCHANGED Lifecycle!vars
  <1> DEFINE j == worker[w].job
  <1>0. /\ worker \in [Workers -> WorkerState]
        /\ worker[w] \in WorkerState
        /\ worker[w].stage # "idle" /\ j \in Jobs
        /\ worker[w].n \in 0 .. MaxAttempts
    BY DEF Check, Flush, FlushConflict, Fail, RecordFailureFails, Crash, RInv, IInv,
           TypeOK, WorkersHold, WorkerState
  <1>1. CASE Check(w)
    <2>1. worker[w].stage = "claimed" /\ UNCHANGED dbVars
      BY <1>1 DEF Check
    <2>2. PICK ok \in SUBSET Fresh(j) :
             worker' = [worker EXCEPT ![w].stage = "checked", ![w].accepted = ok,
                                      ![w].rejected = RejectedRows(j, ok)]
      BY <1>1 DEF Check
    <2> DEFINE s == [worker[w] EXCEPT !.stage = "checked", !.accepted = ok,
                                      !.rejected = RejectedRows(j, ok)]
    <2>3. job[j].status = "processing"
      BY <1>0 DEF RInv, ExclusiveWorker, Busy
    <2>4. errors[j] = {}
      BY <1>0, <2>3 DEF RInv, ErrorsAtCompletion, Completed
    <2>5. /\ ok \subseteq RowsOf[j] /\ RejectedRows(j, ok) = RowsOf[j] \ ok
          /\ RowsOf[j] \subseteq Keys
      BY <1>0, <2>4, RowsAssumption DEF Fresh, RejectedRows
    <2>6. /\ s \in WorkerState /\ s.stage = "checked" /\ s.job = j /\ s.n = worker[w].n
          /\ s.accepted = ok /\ s.rejected = RowsOf[j] \ ok
      BY <1>0, <2>5 DEF WorkerState
    <2>7. worker' = [worker EXCEPT ![w] = s]
      BY <2>2, <1>0
    <2> HIDE DEF s, j
    <2> QED
      BY <1>0, <2>1, <2>5, <2>6, <2>7, RWorker DEF j
  <1>2. CASE Flush(w)
    <2> DEFINE s == [worker[w] EXCEPT !.stage = "flushed"]
    <2>1. /\ s \in WorkerState /\ s.stage = "flushed" /\ s.job = j /\ s.n = worker[w].n
          /\ s.accepted = worker[w].accepted /\ s.rejected = worker[w].rejected
      BY <1>0 DEF WorkerState
    <2>2. worker' = [worker EXCEPT ![w] = s] /\ UNCHANGED dbVars
          /\ worker[w].stage = "checked"
      BY <1>0, <1>2 DEF Flush
    <2>3. /\ worker[w].accepted \subseteq RowsOf[j]
          /\ worker[w].rejected = RowsOf[j] \ worker[w].accepted
      BY <2>2 DEF RInv, RowsSplit
    <2> HIDE DEF s
    <2> QED
      BY <1>0, <2>1, <2>2, <2>3, RWorker
  <1>3. CASE FlushConflict(w) \/ Fail(w)
    <2>1. PICK r \in BOOLEAN : Failing(w, j, worker[w].n, r)
      BY <1>3 DEF FlushConflict, Fail
    <2> DEFINE s == [IdleWorker EXCEPT !.stage = "failing", !.job = j,
                                       !.n = worker[w].n, !.retryable = r]
    <2>2. s \in WorkerState /\ worker' = [worker EXCEPT ![w] = s]
      BY <1>0, <2>1, FailingTyped DEF Failing
    <2>3. s.stage = "failing" /\ s.job = j /\ s.n = worker[w].n
      BY DEF IdleWorker
    <2>4. UNCHANGED dbVars
      BY <1>3 DEF FlushConflict, Fail
    <2> HIDE DEF s
    <2> QED
      BY <1>0, <2>2, <2>3, <2>4, RWorker
  <1>4. CASE RecordFailureFails(w) \/ Crash(w)
    <2>1. worker' = [worker EXCEPT ![w] = IdleWorker] /\ UNCHANGED dbVars
      BY <1>4 DEF RecordFailureFails, Crash
    <2>2. IdleWorker.stage = "idle"
      BY DEF IdleWorker
    <2> QED
      BY <2>1, <2>2, IdleTyped, RWorker
  <1> QED
    BY <1>1, <1>2, <1>3, <1>4

---------------------------------------------------------------------------
(* The steps a reader of the API sees.                                      *)

LEMMA RSubmit ==
  ASSUME RInv, NEW p \in Publishers, NEW j \in Jobs, Submit(p, j)
  PROVE  Parts' /\ Lifecycle!Next
  <1>1. /\ job \in [Jobs -> JobRow]
        /\ job[j].status = "absent"
        /\ job' = [job EXCEPT ![j].status = "queued"]
        /\ UNCHANGED <<attempt, errors, snapshot, queue, worker>>
    BY DEF Submit, RInv, IInv, TypeOK
  <1>2. /\ job'[j].status = "queued" /\ job'[j].attempts = job[j].attempts
        /\ \A i \in Jobs \ {j} : job'[i] = job[i]
    BY <1>1 DEF JobRow
  <1>3. \A v \in Workers : ~Busy(v, j)
    BY <1>1, NobodyOn
  <1>4. errors[j] = {}
    BY <1>1 DEF RInv, ErrorsAtCompletion, Completed
  <1>5. Parts'
    BY <1>1, <1>2, <1>3, <1>4, RFree
  <1>6. Lifecycle!Accept(j)
    BY <1>1, <1>2, Seen1, SameAttempts DEF Lifecycle!Accept, Lifecycle!Become
  <1> QED
    BY <1>5, <1>6 DEF Lifecycle!Next

LEMMA RClaim ==
  ASSUME RInv, NEW w \in Workers, NEW j \in Jobs, Claim(w, j)
  PROVE  Parts' /\ Lifecycle!Next
  <1> DEFINE n == job[j].attempts + 1
  <1>1. /\ job \in [Jobs -> JobRow]
        /\ job[j].status = "queued"
        /\ job' = [job EXCEPT ![j].status = "processing", ![j].attempts = n,
                              ![j].lease = "live", ![j].backoff = FALSE]
        /\ UNCHANGED <<errors, snapshot>>
    BY DEF Claim, Claimable, RInv, IInv, TypeOK
  <1>2. /\ job'[j].status = "processing" /\ job'[j].attempts = n
        /\ job'[j].lease = "live"
        /\ \A i \in Jobs \ {j} : job'[i] = job[i]
    BY <1>1 DEF JobRow
  <1>3. /\ worker'[w].stage = "claimed" /\ worker'[w].job = j /\ worker'[w].n = n
        /\ \A v \in Workers \ {w} : worker'[v] = worker[v]
    <2> DEFINE s == [IdleWorker EXCEPT !.stage = "claimed", !.job = j, !.n = n,
                                       !.cached = job[j].counts]
    <2>1. s.stage = "claimed" /\ s.job = j /\ s.n = n
      BY DEF IdleWorker
    <2>2. worker' = [worker EXCEPT ![w] = s]
      BY DEF Claim
    <2> HIDE DEF s
    <2> QED
      BY <2>1, <2>2 DEF RInv, IInv, TypeOK
  <1>4. \A v \in Workers : ~Busy(v, j)
    BY <1>1, NobodyOn
  <1>5. errors[j] = {}
    BY <1>1 DEF RInv, ErrorsAtCompletion, Completed
  <1>6. Parts'
    BY <1>1, <1>2, <1>3, <1>4, <1>5, RMove
  <1>7. job[j].attempts < MaxAttempts
    BY <1>1 DEF RInv, IInv, QueuedMayRun
  <1>8. Lifecycle!Begin(j)
    <2>1. [[i \in Jobs |-> job[i].attempts] EXCEPT ![j] = @ + 1]
            = [[i \in Jobs |-> job[i].attempts] EXCEPT ![j] = n]
      OBVIOUS
    <2> HIDE DEF n
    <2> QED
      BY <1>1, <1>2, <1>7, <2>1, Seen1 DEF Lifecycle!Begin, Lifecycle!Become
  <1> QED
    BY <1>6, <1>8 DEF Lifecycle!Next

(* A job set back shows as a retry or as a failure.                         *)
LEMMA SeenSettle ==
  ASSUME RInv, NEW j \in Jobs, NEW again, NEW backoff,
         job[j].status = "processing",
         again => job[j].attempts < MaxAttempts,
         Settle(j, again, job[j].attempts, backoff),
         snapshot' = snapshot
  PROVE  /\ Lifecycle!Next
         /\ job'[j].lease = "none"
         /\ job'[j].status \in {"queued", "failed"}
         /\ \A i \in Jobs \ {j} : job'[i] = job[i]
  <1> DEFINE to == IF again THEN "queued" ELSE "failed"
  <1>1. /\ job'[j].status = to /\ job'[j].attempts = job[j].attempts
        /\ job'[j].lease = "none"
        /\ \A i \in Jobs \ {j} : job'[i] = job[i]
    BY DEF Settle, RInv, IInv, TypeOK, JobRow
  <1>2. CASE again
    BY <1>1, <1>2, Seen1, SameAttempts
       DEF Lifecycle!Next, Lifecycle!TryAgain, Lifecycle!Become
  <1>3. CASE ~again
    BY <1>1, <1>3, Seen1, SameAttempts
       DEF Lifecycle!Next, Lifecycle!GiveUp, Lifecycle!Become
  <1> QED
    BY <1>1, <1>2, <1>3

LEMMA RRecordFailure ==
  ASSUME RInv, NEW w \in Workers, RecordFailure(w)
  PROVE  Parts' /\ Lifecycle!Next
  <1> DEFINE j == worker[w].job
  <1>1. /\ j \in Jobs /\ Busy(w, j)
        /\ worker' = [worker EXCEPT ![w] = IdleWorker]
        /\ UNCHANGED <<errors, snapshot>>
    BY DEF RecordFailure, Busy, RInv, IInv, WorkersHold
  <1>2. /\ job[j].status = "processing"
        /\ \A v \in Workers : Busy(v, j) => v = w
    BY <1>1 DEF RInv, ExclusiveWorker
  <1>3. job[j].attempts # 0
    BY <1>1, <1>2 DEF RInv, IInv, ProcessingIsRecoverable
  <1>4. Settle(j, MayRetry(worker[w].retryable, job[j].attempts), job[j].attempts,
               MayRetry(worker[w].retryable, job[j].attempts))
    BY <1>3 DEF RecordFailure
  <1>5. /\ Lifecycle!Next
        /\ job'[j].lease = "none"
        /\ job'[j].status \in {"queued", "failed"}
        /\ \A i \in Jobs \ {j} : job'[i] = job[i]
    BY <1>1, <1>2, <1>4, SeenSettle DEF MayRetry
  <1>6. worker'[w].stage = "idle" /\ \A v \in Workers \ {w} : worker'[v] = worker[v]
    BY <1>1 DEF RInv, IInv, TypeOK, IdleWorker
  <1>7. errors[j] = {}
    BY <1>1, <1>2 DEF RInv, ErrorsAtCompletion, Completed
  <1>8. Parts'
    BY <1>1, <1>2, <1>5, <1>6, <1>7, RMove
  <1> QED
    BY <1>5, <1>8

LEMMA RRecover ==
  ASSUME RInv, NEW j \in Jobs,
         RecoverExhausted(j) \/ \E p \in Publishers : RecoverForRetry(p, j)
  PROVE  Parts' /\ Lifecycle!Next
  <1>1. /\ job[j].status = "processing" /\ job[j].lease = "expired"
        /\ UNCHANGED <<errors, snapshot, worker>>
    BY DEF RecoverExhausted, RecoverForRetry, Stale
  <1>2. \E again \in BOOLEAN :
           /\ again => job[j].attempts < MaxAttempts
           /\ Settle(j, again, job[j].attempts, FALSE)
    BY DEF RecoverExhausted, RecoverForRetry, MayRetry
  <1>3. /\ Lifecycle!Next
        /\ job'[j].status \in {"queued", "failed"}
        /\ \A i \in Jobs \ {j} : job'[i] = job[i]
    BY <1>1, <1>2, SeenSettle
  <1>4. errors[j] = {}
    BY <1>1 DEF RInv, ErrorsAtCompletion, Completed
  <1>5. Parts'
    BY <1>1, <1>3, <1>4, NobodyOn, RFree
  <1> QED
    BY <1>3, <1>5

LEMMA RFinish ==
  ASSUME RInv, NEW w \in Workers, Finish(w)
  PROVE  Parts' /\ Lifecycle!Next
  <1> DEFINE j    == worker[w].job
             rej  == Cardinality(worker[w].rejected)
             done == FinalStatus(rej)
             rows == worker[w].accepted
  <1>1. /\ job \in [Jobs -> JobRow]
        /\ worker[w].stage \in {"checked", "flushed"}
        /\ worker[w].stage = "checked" => rows = {}
        /\ worker' = [worker EXCEPT ![w] = IdleWorker]
        /\ \E c : job' = [job EXCEPT ![j].status = done, ![j].lease = "none",
                                     ![j].counts = c]
        /\ snapshot' = [k \in Keys |-> IF k \in rows THEN j ELSE snapshot[k]]
        /\ errors' = [errors EXCEPT ![j] = @ \union worker[w].rejected]
    BY DEF Finish, CommitResult, RInv, IInv, TypeOK
  <1>2. /\ j \in Jobs /\ Busy(w, j)
        /\ job[j].status = "processing"
        /\ \A v \in Workers : Busy(v, j) => v = w
    BY <1>1 DEF RInv, IInv, WorkersHold, ExclusiveWorker, Busy
  <1>3. /\ rows \subseteq RowsOf[j]
        /\ worker[w].rejected = RowsOf[j] \ rows
        /\ \A k \in rows : snapshot[k] = NoJob
    BY <1>1 DEF RInv, IInv, RowsSplit, KeysLocked
  <1>4. rej = 0 <=> rows = RowsOf[j]
    <2>1. IsFiniteSet(worker[w].rejected)
      BY <1>2, <1>3, RowsAssumption, FiniteKeysAssumption, FS_Subset
    <2>2. rej = 0 <=> worker[w].rejected = {}
      BY <2>1, FS_EmptySet
    <2> HIDE DEF rej, j
    <2> QED
      BY <1>3, <2>2
  <1>5. done = IF rows = RowsOf[j] THEN "completed" ELSE "completed_with_errors"
    BY <1>4 DEF FinalStatus
  <1>6. done \in Completed
    BY <1>5 DEF Completed
  <1> HIDE DEF done, rej, j
  <1>7. /\ job'[j].status = done /\ job'[j].lease = "none"
        /\ job'[j].attempts = job[j].attempts
        /\ \A i \in Jobs \ {j} : job'[i] = job[i]
    BY <1>1, <1>2 DEF JobRow
  <1>8. /\ \A i \in Jobs \ {j} : errors'[i] = errors[i]
        /\ \A v \in Workers \ {w} : worker'[v] = worker[v]
        /\ worker'[w].stage = "idle"
    BY <1>1 DEF RInv, IInv, TypeOK, IdleWorker
  <1>9. Parts'
    BY <1>2, <1>6, <1>7, <1>8, RMove
  <1>10. Lifecycle!Complete(j, rows)
    <2> DEFINE was == [i \in Jobs |-> job[i].status]
               is  == [i \in Jobs |-> job'[i].status]
    <2>1. was[j] = "processing"
      BY <1>2
    <2>2. is = [was EXCEPT ![j] = done]
      BY <1>2, <1>7
    <2>3. UNCHANGED [i \in Jobs |-> job[i].attempts]
      BY <1>7
    <2> HIDE DEF rows
    <2> QED
      BY <1>1, <1>3, <1>5, <2>1, <2>2, <2>3 DEF Lifecycle!Complete, Lifecycle!Become
  <1>11. rows \in SUBSET RowsOf[j]
    BY <1>3
  <1> HIDE DEF rows
  <1>12. \E r \in SUBSET RowsOf[j] : Lifecycle!Complete(j, r)
    BY <1>10, <1>11
  <1>13. Lifecycle!Next
    BY <1>2, <1>12 DEF Lifecycle!Next, Lifecycle!Complete, Lifecycle!Become
  <1> QED
    BY <1>9, <1>13

---------------------------------------------------------------------------
LEMMA RStep ==
  ASSUME Faults = {}, RInv, [Next]_vars
  PROVE  RInv' /\ [Lifecycle!Next]_(Lifecycle!vars)
  <1>1. IInv'
    BY StepHolds DEF RInv
  <1>2. Parts' /\ [Lifecycle!Next]_(Lifecycle!vars)
    <2>1. CASE \E p \in Publishers : PublisherNext(p)
      <3> PICK p \in Publishers : PublisherNext(p)
        BY <2>1
      <3>1. CASE \E j \in Jobs : Submit(p, j)
        BY <3>1, RSubmit
      <3>2. CASE \E j \in Jobs : RecoverForRetry(p, j)
        BY <3>2, RRecover
      <3> QED
        BY <1>1, <3>1, <3>2, RQuietSteps DEF PublisherNext
    <2>2. CASE \E w \in Workers : WorkerNext(w)
      <3> PICK w \in Workers : WorkerNext(w)
        BY <2>2
      <3>1. CASE \E j \in Jobs : Skip(w, j)
        BY <1>1, <3>1, RQuietSteps
      <3>2. CASE \E j \in Jobs : Claim(w, j)
        BY <3>2, RClaim
      <3>3. CASE Finish(w)
        BY <3>3, RFinish
      <3>4. CASE RecordFailure(w)
        BY <3>4, RRecordFailure
      <3>5. CASE FinishUnconfirmed(w) \/ \E j \in Jobs : ClaimFails(w, j)
        BY <3>5 DEF FinishUnconfirmed, ClaimFails
      <3> QED
        BY <1>1, <3>1, <3>2, <3>3, <3>4, <3>5, RWorkerSteps DEF WorkerNext
    <2>3. CASE \E j \in Jobs : JobNext(j)
      BY <1>1, <2>3, RRecover, RQuietSteps DEF JobNext
    <2>4. CASE UNCHANGED vars
      BY <1>1, <2>4, RQuietSteps
    <2> QED
      BY <2>1, <2>2, <2>3, <2>4 DEF Next
  <1> QED
    BY <1>1, <1>2 DEF RInv, Parts

(* Without faults the pipeline implements the lifecycle it promises: every  *)
(* step of workers, leases, messages and timers is one step of the          *)
(* lifecycle of one job, or invisible.                                      *)
THEOREM Refinement ==
  ASSUME Faults = {}
  PROVE  Spec => ImplementsLifecycle
  <1>1. Init => RInv /\ Lifecycle!Init
    BY RInit
  <1>2. RInv /\ [Next]_vars => RInv' /\ [Lifecycle!Next]_(Lifecycle!vars)
    BY RStep
  <1> QED
    BY <1>1, <1>2, PTL DEF Spec, ImplementsLifecycle, Lifecycle!Spec

(* Without faults the worker of a job is alone on it and holds its current  *)
(* attempt, so what it commits is never a stale result.                     *)
THEOREM Exclusive ==
  ASSUME Faults = {}
  PROVE  Spec => []ExclusiveWorker
  <1>1. Init => RInv
    BY RInit
  <1>2. RInv /\ [Next]_vars => RInv'
    BY RStep
  <1>3. RInv => ExclusiveWorker
    BY DEF RInv
  <1> QED
    BY <1>1, <1>2, <1>3, PTL DEF Spec

(* Without faults a terminal state is final.                                *)
THEOREM TerminalIsFinal ==
  ASSUME Faults = {}
  PROVE  Spec => TerminalStable
  <1>1. Init => RInv
    BY RInit
  <1>2. RInv /\ [Next]_vars => RInv' /\ [Lifecycle!Next]_(Lifecycle!vars)
    BY RStep
  <1>3. RInv /\ RInv' /\ [Lifecycle!Next]_(Lifecycle!vars) =>
           \A j \in Jobs : job[j].status \in Terminal => job'[j].status = job[j].status
    <2> SUFFICES ASSUME RInv, [Lifecycle!Next]_(Lifecycle!vars),
                        NEW j \in Jobs, job[j].status \in Terminal
                 PROVE  job'[j].status = job[j].status
      OBVIOUS
    <2> DEFINE was == [i \in Jobs |-> job[i].status]
               is  == [i \in Jobs |-> job'[i].status]
    <2>1. is = was \/ \E i \in Jobs : \E to :
             is = [was EXCEPT ![i] = to] /\ was[i] \notin Terminal
      BY DEF Lifecycle!Next, Lifecycle!vars, Lifecycle!Accept, Lifecycle!Begin,
             Lifecycle!TryAgain, Lifecycle!GiveUp, Lifecycle!Complete, Lifecycle!Become,
             Terminal, Completed
    <2>2. is[j] = was[j]
      BY <2>1
    <2> QED
      BY <2>2
  <1> QED
    BY <1>1, <1>2, <1>3, PTL DEF Spec, TerminalStable

---------------------------------------------------------------------------
(* Counts.  A step moves no row of a job, or moves a job that is not        *)
(* settled, or is a worker's commit of a result.                            *)

MovesNone ==
    /\ \A i \in Jobs : /\ job'[i].status = job[i].status
                       /\ job'[i].attempts = job[i].attempts
                       /\ job'[i].counts = job[i].counts
    /\ UNCHANGED <<attempt, errors, snapshot>>

MovesOpen(j) ==
    /\ job[j].status \notin Terminal /\ job'[j].status \notin Completed
    /\ job'[j].counts = job[j].counts
    /\ \A i \in Jobs \ {j} : job'[i] = job[i] /\ attempt'[i] = attempt[i]
    /\ UNCHANGED <<errors, snapshot>>

LEMMA QuietMoves ==
    ASSUME RInv, Faults = {},
           \/ UNCHANGED dbVars
           \/ \E j \in Jobs : LeaseExpires(j) \/ BackoffEnds(j) \/ ReceiptAges(j)
           \/ \E p \in Publishers : WriteReceipt(p)
    PROVE  MovesNone
  <1>0. job \in [Jobs -> JobRow]
    BY DEF RInv, IInv, TypeOK
  <1>1. CASE UNCHANGED dbVars
    BY <1>1 DEF dbVars, MovesNone
  <1>2. ASSUME NEW j \in Jobs, LeaseExpires(j) PROVE MovesNone
    BY <1>0, <1>2 DEF LeaseExpires, MovesNone, JobRow
  <1>3. ASSUME NEW j \in Jobs, BackoffEnds(j) PROVE MovesNone
    BY <1>0, <1>3 DEF BackoffEnds, MovesNone, JobRow
  <1>4. ASSUME NEW j \in Jobs, ReceiptAges(j) PROVE MovesNone
    BY <1>0, <1>4 DEF ReceiptAges, MovesNone, JobRow
  <1>5. ASSUME NEW p \in Publishers, WriteReceipt(p) PROVE MovesNone
    BY <1>0, <1>5 DEF WriteReceipt, MovesNone, JobRow
  <1> QED
    BY <1>1, <1>2, <1>3, <1>4, <1>5

LEMMA SettleMoves ==
    ASSUME RInv, NEW j \in Jobs, NEW again, NEW n, NEW b, Settle(j, again, n, b),
           job[j].status \notin Terminal,
           \A i \in Jobs \ {j} : attempt'[i] = attempt[i],
           UNCHANGED <<errors, snapshot>>
    PROVE  MovesOpen(j)
  <1>1. job \in [Jobs -> JobRow]
    BY DEF RInv, IInv, TypeOK
  <1>2. /\ job'[j].status = IF again THEN "queued" ELSE "failed"
        /\ job'[j].counts = job[j].counts
        /\ job'[j].attempts = n
        /\ \A i \in Jobs \ {j} : job'[i] = job[i]
    BY <1>1 DEF Settle, JobRow
  <1>3. job'[j].status \notin Completed
    BY <1>2 DEF Completed
  <1> QED
    BY <1>2, <1>3 DEF MovesOpen

LEMMA OpenMoves ==
    ASSUME RInv, NEW j \in Jobs,
           \/ \E p \in Publishers : Submit(p, j) \/ RecoverForRetry(p, j)
           \/ RecoverExhausted(j)
           \/ \E w \in Workers : \/ Claim(w, j)
                                 \/ RecordFailure(w) /\ worker[w].job = j
    PROVE  MovesOpen(j)
  <1>0. job \in [Jobs -> JobRow]
        /\ attempt \in [Jobs -> [1 .. MaxAttempts -> AttemptStatus]]
    BY DEF RInv, IInv, TypeOK
  <1>1. ASSUME NEW p \in Publishers, Submit(p, j) PROVE MovesOpen(j)
    BY <1>0, <1>1 DEF Submit, MovesOpen, JobRow, Terminal, Completed
  <1>2. ASSUME NEW w \in Workers, Claim(w, j) PROVE MovesOpen(j)
    <2>1. /\ job' = [job EXCEPT ![j].status = "processing", ![j].attempts = job[j].attempts + 1,
                              ![j].lease = "live", ![j].backoff = FALSE]
          /\ attempt' = [attempt EXCEPT ![j][job[j].attempts + 1] = "running"]
          /\ job[j].status = "queued" /\ UNCHANGED <<errors, snapshot>>
      BY <1>2 DEF Claim, Claimable
    <2>2. job'[j].status = "processing" /\ job'[j].counts = job[j].counts
          /\ \A i \in Jobs \ {j} : job'[i] = job[i] /\ attempt'[i] = attempt[i]
      BY <1>0, <2>1 DEF JobRow
    <2> QED
      BY <2>1, <2>2 DEF MovesOpen, Terminal, Completed
  <1>3. ASSUME NEW w \in Workers, RecordFailure(w), worker[w].job = j PROVE MovesOpen(j)
    <2>1. Busy(w, j) /\ UNCHANGED <<errors, snapshot>>
      BY <1>3 DEF RecordFailure, Busy
    <2>2. job[j].status \notin Terminal
      BY <2>1 DEF RInv, ExclusiveWorker, Terminal, Completed
    <2>3. \A i \in Jobs \ {j} : attempt'[i] = attempt[i]
      BY <1>0, <1>3 DEF RecordFailure
    <2>4. \E again, n, b : Settle(j, again, n, b)
      BY <1>3 DEF RecordFailure
    <2> QED
      BY <2>1, <2>2, <2>3, <2>4, SettleMoves
  <1>4. CASE RecoverExhausted(j) \/ \E p \in Publishers : RecoverForRetry(p, j)
    <2>1. /\ job[j].status \notin Terminal
          /\ \A i \in Jobs \ {j} : attempt'[i] = attempt[i]
          /\ UNCHANGED <<errors, snapshot>>
      BY <1>0, <1>4 DEF RecoverExhausted, RecoverForRetry, Stale, Abandon, Terminal, Completed
    <2>2. \E again, n, b : Settle(j, again, n, b)
      BY <1>4 DEF RecoverExhausted, RecoverForRetry
    <2> QED
      BY <2>1, <2>2, SettleMoves
  <1> QED
    BY <1>1, <1>2, <1>3, <1>4

LEMMA StepMoves ==
    ASSUME RInv, Faults = {}, [Next]_vars
    PROVE  MovesNone \/ (\E j \in Jobs : MovesOpen(j)) \/ \E w \in Workers : Finish(w)
  <1>1. CASE \E p \in Publishers : PublisherNext(p)
    <2> PICK p \in Publishers : PublisherNext(p)
      BY <1>1
    <2>1. CASE \E j \in Jobs : Submit(p, j) \/ RecoverForRetry(p, j)
      BY <2>1, OpenMoves
    <2>2. CASE WriteReceipt(p)
      BY <2>2, QuietMoves
    <2>3. CASE \/ \E j \in Jobs : Resubmit(p, j) \/ SelectDue(p, j)
               \/ Publish(p) \/ PublishFails(p) \/ ReadForReceipt(p) \/ PublisherStops(p)
      BY <2>3, QuietMoves DEF Resubmit, SelectDue, Publish, PublishFails, ReadForReceipt,
         PublisherStops
    <2> QED
      BY <2>1, <2>2, <2>3 DEF PublisherNext
  <1>2. CASE \E w \in Workers : WorkerNext(w)
    <2> PICK w \in Workers : WorkerNext(w)
      BY <1>2
    <2>1. CASE \E j \in Jobs : Claim(w, j)
      BY <2>1, OpenMoves
    <2>2. CASE RecordFailure(w)
      <3>1. worker[w].job \in Jobs
        BY <2>2 DEF RecordFailure, RInv, IInv, WorkersHold
      <3> QED
        BY <2>2, <3>1, OpenMoves
    <2>3. CASE \/ \E j \in Jobs : Skip(w, j)
               \/ Check(w) \/ Flush(w) \/ FlushConflict(w) \/ Fail(w)
               \/ RecordFailureFails(w) \/ Crash(w)
      BY <2>3, QuietMoves DEF Skip, Check, Flush, FlushConflict, Fail, RecordFailureFails, Crash
    <2>4. CASE FinishUnconfirmed(w) \/ \E j \in Jobs : ClaimFails(w, j)
      BY <2>4 DEF FinishUnconfirmed, ClaimFails
    <2> QED
      BY <2>1, <2>2, <2>3, <2>4 DEF WorkerNext
  <1>3. CASE \E j \in Jobs : JobNext(j)
    <2> PICK j \in Jobs : JobNext(j)
      BY <1>3
    <2>1. CASE RecoverExhausted(j)
      BY <2>1, OpenMoves
    <2>2. CASE LoseMessage(j)
      BY <2>2, QuietMoves DEF LoseMessage
    <2> QED
      BY <2>1, <2>2, QuietMoves DEF JobNext
  <1>4. CASE UNCHANGED vars
    BY <1>4, QuietMoves DEF vars, dbVars
  <1> QED
    BY <1>1, <1>2, <1>3, <1>4 DEF Next

(* What counts rest on: a worker's copy of them is from before its job was  *)
(* settled, and a completed job has imported or refused each of its rows.   *)
Mine(s, j) == {k \in Keys : s[k] = j}

RowsWhole ==
    \A j \in Jobs : job[j].status \in Completed =>
        Mine(snapshot, j) \union errors[j] = RowsOf[j] /\ Mine(snapshot, j) \cap errors[j] = {}

NothingCached == \A w \in Workers : worker[w].cached = NoCounts

CInv == RInv /\ CountsAgree /\ RowsWhole /\ NothingCached

LEMMA CachedStep ==
    ASSUME CInv, Faults = {}, [Next]_vars
    PROVE  NothingCached'
  <1> SUFFICES ASSUME NEW v \in Workers PROVE worker'[v].cached = NoCounts
    BY DEF NothingCached
  <1>1. worker[v].cached = NoCounts /\ worker \in [Workers -> WorkerState]
    BY DEF CInv, NothingCached, RInv, IInv, TypeOK
  <1>2. ASSUME NEW w \in Workers, NEW j \in Jobs, Claim(w, j) PROVE worker'[v].cached = NoCounts
    <2>1. job[j].counts = NoCounts
      BY <1>2 DEF Claim, Claimable, CInv, CountsAgree, Completed
    <2>2. worker' = [worker EXCEPT ![w] =
              [IdleWorker EXCEPT !.stage = "claimed", !.job = j, !.n = job[j].attempts + 1,
                                 !.cached = job[j].counts]]
      BY <1>2 DEF Claim
    <2> QED
      BY <1>1, <2>1, <2>2 DEF IdleWorker
  <1>3. ASSUME NEW w \in Workers,
               \/ Check(w) \/ Flush(w) \/ FlushConflict(w) \/ Finish(w) \/ Fail(w)
               \/ RecordFailure(w) \/ RecordFailureFails(w) \/ Crash(w)
        PROVE  worker'[v].cached = NoCounts
    <2>1. \/ \E ok, r : worker' = [worker EXCEPT ![w].stage = "checked", ![w].accepted = ok,
                                                 ![w].rejected = r]
          \/ worker' = [worker EXCEPT ![w].stage = "flushed"]
          \/ \E i, n, b : worker' = [worker EXCEPT ![w] =
                 [IdleWorker EXCEPT !.stage = "failing", !.job = i, !.n = n, !.retryable = b]]
          \/ worker' = [worker EXCEPT ![w] = IdleWorker]
      BY <1>3 DEF Check, Flush, FlushConflict, Finish, Fail, RecordFailure, RecordFailureFails,
         Crash, Failing
    <2>2. CASE \E ok, r : worker' = [worker EXCEPT ![w].stage = "checked", ![w].accepted = ok,
                                                   ![w].rejected = r]
      BY <1>1, <2>2 DEF WorkerState
    <2>3. CASE worker' = [worker EXCEPT ![w].stage = "flushed"]
      BY <1>1, <2>3 DEF WorkerState
    <2>4. CASE \E i, n, b : worker' = [worker EXCEPT ![w] =
                 [IdleWorker EXCEPT !.stage = "failing", !.job = i, !.n = n, !.retryable = b]]
      BY <1>1, <2>4 DEF IdleWorker
    <2>5. CASE worker' = [worker EXCEPT ![w] = IdleWorker]
      BY <1>1, <2>5 DEF IdleWorker
    <2> QED
      BY <2>1, <2>2, <2>3, <2>4, <2>5
  <1>4. CASE worker' = worker
    BY <1>1, <1>4
  <1>5. \/ \E w \in Workers, j \in Jobs : Claim(w, j)
        \/ \E w \in Workers :
               \/ Check(w) \/ Flush(w) \/ FlushConflict(w) \/ Finish(w) \/ Fail(w)
               \/ RecordFailure(w) \/ RecordFailureFails(w) \/ Crash(w)
        \/ worker' = worker
    BY DEF Next, PublisherNext, WorkerNext, JobNext, Submit, Resubmit, SelectDue, RecoverForRetry,
       Publish, PublishFails, ReadForReceipt, WriteReceipt, PublisherStops, Skip, ClaimFails,
       FinishUnconfirmed, RecoverExhausted, LeaseExpires, BackoffEnds, ReceiptAges, LoseMessage,
       vars
  <1> QED
    BY <1>2, <1>3, <1>4, <1>5

(* What a commit leaves of its job.                                         *)
LEMMA FinishLeaves ==
    ASSUME CInv, NEW w \in Workers, Finish(w), NEW j, j = worker[w].job
    PROVE  /\ j \in Jobs /\ Busy(w, j)
           /\ job[j].status = "processing" /\ job'[j].status \in Completed
           /\ job'[j].attempts = job[j].attempts
           /\ \A i \in Jobs \ {j} : /\ job'[i] = job[i] /\ errors'[i] = errors[i]
                                    /\ attempt'[i] = attempt[i] /\ Mine(snapshot', i) = Mine(snapshot, i)
           /\ Mine(snapshot', j) = worker[w].accepted
           /\ errors'[j] = RowsOf[j] \ worker[w].accepted
           /\ worker[w].accepted \subseteq RowsOf[j]
           /\ attempt' = [attempt EXCEPT ![j][worker[w].n] = "succeeded"]
           /\ worker[w].n = job[j].attempts
           /\ job'[j].counts = [total    |-> Cardinality(RowsOf[j]),
                                accepted |-> Cardinality(Mine(snapshot', j)),
                                rejected |-> Cardinality(errors'[j])]
  <1> DEFINE acc == worker[w].accepted
             rejs == worker[w].rejected
             a == Cardinality(acc)
             b == Cardinality(rejs)
             old == worker[w].cached
             now == job[j].counts
  <1>1. /\ job \in [Jobs -> JobRow] /\ worker \in [Workers -> WorkerState]
        /\ attempt \in [Jobs -> [1 .. MaxAttempts -> AttemptStatus]]
        /\ errors \in [Jobs -> SUBSET Keys] /\ snapshot \in [Keys -> Jobs \union {NoJob}]
    BY DEF CInv, RInv, IInv, TypeOK
  <1>2. /\ worker[w].stage \in {"checked", "flushed"}
        /\ worker[w].stage = "checked" => acc = {}
        /\ job' = [job EXCEPT
              ![j].status = FinalStatus(b),
              ![j].lease  = "none",
              ![j].counts = [total    |-> Written(a + b, old.total, now.total),
                             accepted |-> Written(a, old.accepted, now.accepted),
                             rejected |-> Written(b, old.rejected, now.rejected)]]
        /\ attempt' = [attempt EXCEPT ![j][worker[w].n] = "succeeded"]
        /\ snapshot' = [k \in Keys |-> IF k \in acc THEN j ELSE snapshot[k]]
        /\ errors' = [errors EXCEPT ![j] = errors[j] \union rejs]
    BY DEF Finish, CommitResult
  <1>3. j \in Jobs /\ Busy(w, j)
    BY <1>2 DEF CInv, RInv, IInv, WorkersHold, Busy
  <1>4. job[j].status = "processing" /\ worker[w].n = job[j].attempts
    BY <1>3 DEF CInv, RInv, ExclusiveWorker
  <1>5. now = NoCounts /\ Mine(snapshot, j) = {} /\ errors[j] = {}
    BY <1>3, <1>4 DEF CInv, CountsAgree, Completed, Mine
  <1>6. acc \subseteq RowsOf[j] /\ rejs = RowsOf[j] \ acc /\ \A k \in acc : snapshot[k] = NoJob
    BY <1>2, <1>3 DEF CInv, RInv, RowsSplit, IInv, KeysLocked
  <1>7. RowsOf[j] \in SUBSET Keys /\ IsFiniteSet(RowsOf[j])
    BY <1>3, RowsAssumption, FiniteKeysAssumption, FS_Subset
  <1>8. IsFiniteSet(acc) /\ IsFiniteSet(rejs) /\ a \in Nat /\ b \in Nat
    BY <1>6, <1>7, FS_Subset, FS_CardinalityType
  <1>9. a + b = Cardinality(RowsOf[j])
    <2>1. acc \union rejs = RowsOf[j] /\ acc \cap rejs = {}
      BY <1>6
    <2>2. Cardinality(acc \union rejs) =
              Cardinality(acc) + Cardinality(rejs) - Cardinality(acc \cap rejs)
      BY <1>8, FS_Union
    <2>3. Cardinality(acc \cap rejs) = 0
      BY <2>1, FS_EmptySet
    <2>4. Cardinality(RowsOf[j]) = a + b - 0
      BY <2>1, <2>2, <2>3
    <2> HIDE DEF a, b
    <2> QED
      BY <1>8, <2>4
  <1>10. \A x \in Nat : Written(x, 0, 0) = x
    BY DEF Written
  <1>11. old = NoCounts
    BY DEF CInv, NothingCached
  <1>12. job'[j].counts = [total |-> a + b, accepted |-> a, rejected |-> b]
    <2>1. job'[j].counts = [total    |-> Written(a + b, old.total, now.total),
                            accepted |-> Written(a, old.accepted, now.accepted),
                            rejected |-> Written(b, old.rejected, now.rejected)]
      BY <1>1, <1>2, <1>3
    <2>2. /\ old.total = 0 /\ old.accepted = 0 /\ old.rejected = 0
          /\ now.total = 0 /\ now.accepted = 0 /\ now.rejected = 0
      BY <1>5, <1>11 DEF NoCounts
    <2>3. a + b \in Nat
      BY <1>8
    <2> HIDE DEF a, b, old, now
    <2> QED
      BY <1>8, <1>10, <2>1, <2>2, <2>3
  <1>13. Mine(snapshot', j) = acc
    BY <1>2, <1>5, <1>6, <1>7 DEF Mine
  <1>14. errors'[j] = rejs
    BY <1>1, <1>2, <1>3, <1>5
  <1>15. /\ job'[j].status = FinalStatus(b) /\ job'[j].attempts = job[j].attempts
         /\ \A i \in Jobs \ {j} : job'[i] = job[i]
    BY <1>1, <1>2, <1>3 DEF JobRow
  <1>16. job'[j].status \in Completed
    BY <1>15 DEF FinalStatus, Completed
  <1>17. \A i \in Jobs \ {j} : errors'[i] = errors[i] /\ attempt'[i] = attempt[i]
    BY <1>1, <1>2, <1>3
  <1>18. \A i \in Jobs \ {j} : Mine(snapshot', i) = Mine(snapshot, i)
    BY <1>2, <1>6, <1>7, JobsAssumption DEF Mine
  <1> HIDE DEF acc, rejs, a, b, old, now
  <1>19. job'[j].counts = [total |-> Cardinality(RowsOf[j]), accepted |-> Cardinality(Mine(snapshot', j)),
                           rejected |-> Cardinality(errors'[j])]
    BY <1>9, <1>12, <1>13, <1>14 DEF a, b
  <1> QED
    BY <1>2, <1>3, <1>4, <1>6, <1>13, <1>14, <1>15, <1>16, <1>17, <1>18, <1>19 DEF acc, rejs

LEMMA CountsStep ==
    ASSUME CInv, Faults = {}, [Next]_vars
    PROVE  CInv'
  <1>1. RInv' /\ NothingCached'
    BY CachedStep, RStep DEF CInv
  <1>2. CASE MovesNone
    BY <1>1, <1>2 DEF MovesNone, CInv, CountsAgree, RowsWhole, Mine
  <1>3. ASSUME NEW j \in Jobs, MovesOpen(j) PROVE CInv'
    <2>1. job[j].status \notin Completed
      BY <1>3 DEF MovesOpen, Terminal
    <2>2. CountsAgree' /\ RowsWhole'
      BY <1>3, <2>1 DEF MovesOpen, CInv, CountsAgree, RowsWhole, Mine
    <2> QED
      BY <1>1, <2>2 DEF CInv
  <1>4. ASSUME NEW w \in Workers, Finish(w) PROVE CInv'
    <2> PICK j : j = worker[w].job
      OBVIOUS
    <2>1.  /\ j \in Jobs
           /\ job'[j].status \in Completed
           /\ \A i \in Jobs \ {j} : /\ job'[i] = job[i] /\ errors'[i] = errors[i]
                                    /\ Mine(snapshot', i) = Mine(snapshot, i)
           /\ Mine(snapshot', j) \union errors'[j] = RowsOf[j] /\ Mine(snapshot', j) \cap errors'[j] = {}
           /\ job'[j].counts = [total    |-> Cardinality(RowsOf[j]),
                                accepted |-> Cardinality(Mine(snapshot', j)),
                                rejected |-> Cardinality(errors'[j])]
      BY <1>4, FinishLeaves
    <2>2. RowsWhole'
      <3> SUFFICES ASSUME NEW i \in Jobs, job'[i].status \in Completed
                   PROVE  Mine(snapshot', i) \union errors'[i] = RowsOf[i] /\ Mine(snapshot', i) \cap errors'[i] = {}
        BY DEF RowsWhole
      <3>1. CASE i = j
        BY <2>1, <3>1
      <3>2. CASE i # j
        BY <2>1, <3>2 DEF CInv, RowsWhole, Mine
      <3> QED
        BY <3>1, <3>2
    <2>3. CountsAgree'
      <3> SUFFICES ASSUME NEW i \in Jobs
                   PROVE  IF job'[i].status \in Completed
                          THEN job'[i].counts = [total    |-> Cardinality(RowsOf[i]),
                                                 accepted |-> Cardinality(Mine(snapshot', i)),
                                                 rejected |-> Cardinality(errors'[i])]
                          ELSE job'[i].counts = NoCounts /\ Mine(snapshot', i) = {} /\ errors'[i] = {}
        BY DEF CountsAgree, Mine
      <3>1. CASE i = j
        BY <2>1, <3>1
      <3>2. CASE i # j
        <4>1. job'[i] = job[i] /\ errors'[i] = errors[i] /\ Mine(snapshot', i) = Mine(snapshot, i)
          BY <2>1, <3>2 DEF Mine
        <4> QED
          BY <4>1 DEF CInv, CountsAgree, Mine
      <3> QED
        BY <3>1, <3>2
    <2> QED
      BY <1>1, <2>2, <2>3 DEF CInv
  <1> QED
    BY <1>2, <1>3, <1>4, StepMoves DEF CInv

LEMMA CInit == Init => CInv
  <1> SUFFICES ASSUME Init PROVE CInv
    OBVIOUS
  <1>1. CountsAgree
    BY JobsAssumption DEF Init, CountsAgree, AbsentJob, Completed
  <1>2. RowsWhole /\ NothingCached
    BY DEF Init, RowsWhole, NothingCached, AbsentJob, IdleWorker, Completed
  <1> QED
    BY <1>1, <1>2, RInit DEF CInv

(* Without faults a completed job reports the counts of its rows.           *)
THEOREM CountsCorrect ==
  ASSUME Faults = {}
  PROVE  Spec => []CountsAgree
  <1>1. CInv /\ [Next]_vars => CInv'
    BY CountsStep
  <1>2. CInv => CountsAgree
    BY DEF CInv
  <1> QED
    BY <1>1, <1>2, CInit, PTL DEF Spec
=============================================================================
