------------------------ MODULE ImportTimelineProofs ------------------------
(***************************************************************************)
(* Proofs about ImportTimeline, for any number of jobs, workers, consoles   *)
(* and instants.  That its steps are steps of ImportJobs, and what the      *)
(* timeline witnesses (at the end), holds in every environment; between     *)
(* them the theorems are about the reliable one, Faults = {}.               *)
(***************************************************************************)
EXTENDS ImportTimeline, ImportJobsReliableProofs

---------------------------------------------------------------------------
(* Composition.                                                             *)

LEMMA TimelineMoves == [TimelineNext]_allVars => [Next]_vars
<1> SUFFICES ASSUME [TimelineNext]_allVars PROVE [Next]_vars
  OBVIOUS
<1>1. ASSUME NEW p \in Publishers,
             StampReceipt(p) \/ RecordedReceipt(p) \/ \E j \in Jobs : RecordedSubmit(p, j)
      PROVE  [Next]_vars
  BY <1>1 DEF StampReceipt, RecordedReceipt, RecordedSubmit, Next, PublisherNext
<1>2. ASSUME NEW w \in Workers,
             \/ \E j \in Jobs : RecordedClaim(w, j)
             \/ StampedCheck(w) \/ RecordedFinish(w) \/ RecordedFailure(w)
      PROVE  [Next]_vars
  BY <1>2 DEF RecordedClaim, StampedCheck, RecordedFinish, RecordedFailure, Next, WorkerNext
<1>3. ASSUME NEW x \in Processes, Aborted(x) PROVE [Next]_vars
  BY <1>3 DEF Aborted, Next, PublisherNext, WorkerNext
<1>4. CASE Silent
  BY <1>4 DEF Silent, Next, PublisherNext, WorkerNext
<1>5. ASSUME NEW c \in Consoles, ConsoleNext(c) PROVE [Next]_vars
  BY <1>5 DEF ConsoleNext, OpenStream, ListEvents, TellOutcome, Sleep, EndUnsettled, Disconnect,
     GoToPage, OpenPage, ReadJob, ReadSnapshots, ReadEvents, ReadAttempts, ReadErrors,
     CloseConsole, ConsoleOnly
<1>6. CASE UNCHANGED allVars
  BY <1>6 DEF allVars
<1> QED
  BY <1>1, <1>2, <1>3, <1>4, <1>5, <1>6 DEF TimelineNext

(* Writing a timeline and watching it leave the pipeline as it was, so what *)
(* is proved of Spec holds of TimelineSpec.                                 *)
THEOREM TimelineComposes == TimelineSpec => Spec
<1>1. TimelineInit => Init
  BY DEF TimelineInit
<1> QED
  BY <1>1, TimelineMoves, PTL DEF TimelineSpec, Spec

(* So the pipeline that tells its timeline and is watched by consoles keeps *)
(* its ledger of attempts, rows and errors under every fault ...            *)
THEOREM WatchedPipelineKeepsLedger ==
    TimelineSpec =>
        /\ [](TypeOK /\ AttemptLedger /\ ProcessingIsRecoverable /\ RowsAccounted)
        /\ ImportedOnce
        /\ ImplementsLedger
BY TimelineComposes, TypeCorrect, LedgerCorrect, JobsRecoverable, RowsKept,
   KeysImportedOnce, LedgerRefinement, PTL

(* ... and in the reliable environment it implements the lifecycle of a job *)
(* and reports counts that agree with its rows.                             *)
THEOREM WatchedPipelineKeepsLifecycle ==
  ASSUME Faults = {}
  PROVE  TimelineSpec =>
            /\ [](ExclusiveWorker /\ CountsAgree)
            /\ TerminalStable
            /\ ImplementsLifecycle
BY TimelineComposes, Exclusive, CountsCorrect, TerminalIsFinal, Refinement, PTL

---------------------------------------------------------------------------
(* Instants.                                                                *)

LEMMA NewEvent ==
    ASSUME NEW j, NEW stage, NEW n, NEW e \in NewEvents(j, stage, n)
    PROVE  /\ e \in Event /\ e.job = j /\ e.stage = stage /\ e.n = n
           /\ \A f \in Stamped : f.job = j => f.at < e.at
  BY DEF NewEvents, Later

LEMMA EventTyped ==
    ASSUME NEW e \in Event
    PROVE  e.job \in Jobs /\ e.stage \in EventStage /\ e.n \in Nat /\ e.n <= MaxAttempts
           /\ e.at \in Nat
  BY MaxAttemptsAssumption, BoundsAssumption DEF Event

(* A process x stamps e, and commits or keeps it.                           *)
LEMMA StampTyped ==
    ASSUME TimelineTypeOK, NEW x \in Processes, NEW j, NEW stage, NEW n,
           NEW e \in NewEvents(j, stage, n), console' = console,
           \/ events' = events /\ pending' = [pending EXCEPT ![x] = {e}]
           \/ events' = events \union pending[x] \union {e} /\ Forget(x)
    PROVE  TimelineTypeOK'
<1>1. e \in Event /\ e.job = j /\ \A f \in Stamped : f.job = j => f.at < e.at
  BY NewEvent
<1>2. events \subseteq Event /\ pending \in [Processes -> SUBSET Event]
  BY DEF TimelineTypeOK
<1>3. events' \subseteq Event /\ pending' \in [Processes -> SUBSET Event]
  BY <1>1, <1>2 DEF Forget
<1>4. \A f \in Stamped' : f \in Stamped \/ f = e
  BY <1>2 DEF Stamped, Forget
<1>5. Stamped \subseteq Event
  BY <1>2 DEF Stamped
<1>6. \A f, g \in Stamped' : f.job = g.job /\ f.at = g.at => f = g
  <2> SUFFICES ASSUME NEW f \in Stamped', NEW g \in Stamped', f.job = g.job, f.at = g.at
               PROVE  f = g
    OBVIOUS
  <2>1. CASE f \in Stamped /\ g \in Stamped
    BY <2>1 DEF TimelineTypeOK
  <2>2. CASE f = e /\ g \in Stamped
    <3>1. g.at < e.at /\ g.at \in Nat /\ e.at \in Nat
      BY <1>1, <1>5, <2>2, EventTyped
    <3> QED
      BY <2>2, <3>1
  <2>3. CASE g = e /\ f \in Stamped
    <3>1. f.at < e.at /\ f.at \in Nat /\ e.at \in Nat
      BY <1>1, <1>5, <2>3, EventTyped
    <3> QED
      BY <2>3, <3>1
  <2> QED
    BY <1>4, <2>1, <2>2, <2>3
<1> QED
  BY <1>3, <1>6 DEF TimelineTypeOK

(* Nothing is stamped: a process commits what it had stamped or drops it.   *)
LEMMA DropTyped ==
    ASSUME TimelineTypeOK, NEW x \in Processes, console' = console, Forget(x),
           events' = events \/ events' = events \union pending[x]
    PROVE  TimelineTypeOK'
<1>1. events \subseteq Event /\ pending \in [Processes -> SUBSET Event]
  BY DEF TimelineTypeOK
<1>2. events' \subseteq Event /\ pending' \in [Processes -> SUBSET Event]
  BY <1>1 DEF Forget
<1>3. \A f \in Stamped' : f \in Stamped
  BY <1>1 DEF Stamped, Forget
<1> QED
  BY <1>2, <1>3 DEF TimelineTypeOK

---------------------------------------------------------------------------
(* Stories.  The story of a job is its timeline without dispatch receipts;  *)
(* it fits the row and the attempts of its job.                             *)

Story(E, j) == {e \in E : e.job = j /\ e.stage # "job.dispatched"}

Tells(S, stage, n) == \E e \in S : e.stage = stage /\ e.n = n

ExplainsOf(S, row, led) ==
    \A n \in 1 .. MaxAttempts :
        /\ Tells(S, "worker.claimed", n) <=> n <= row.attempts
        /\ Tells(S, "job.retry_scheduled", n) <=> led[n] = "retry_scheduled"
        /\ Tells(S, "job.failed", n) <=> led[n] = "failed"
        /\ Tells(S, "job.completed", n) <=> led[n] = "succeeded"
        /\ Tells(S, "payload.transformed", n) <=> led[n] = "succeeded"

ToldOnce(S) == \A e, f \in S : e.stage = f.stage /\ e.n = f.n => e = f

OrderedOf(S) ==
    \A e, f \in S : /\ e.n < f.n => e.at < f.at
                    /\ e.n = f.n /\ f.stage = "worker.claimed" => f.at <= e.at

FitsRow(S, row) ==
    \A e \in S : /\ e.n = 0 <=> e.stage = "job.queued"
                 /\ row.status # "absent"
                 /\ e.n <= row.attempts

LedgerOf(row, led) ==
    /\ \A n \in 1 .. MaxAttempts :
          led[n] = "running" => row.status = "processing" /\ n = row.attempts
    /\ row.status \in Completed => row.attempts > 0 /\ led[row.attempts] = "succeeded"
    /\ row.status = "absent" => row.attempts = 0

StoryOf(S, row, led) ==
    /\ ExplainsOf(S, row, led) /\ ToldOnce(S) /\ OrderedOf(S)
    /\ FitsRow(S, row) /\ LedgerOf(row, led)

(* A job moves on; its story gains the events A, later than the rest, of    *)
(* the attempt n that is its last.                                          *)
LEMMA StoryGrows ==
    ASSUME NEW S \in SUBSET Event, NEW A \in SUBSET Event,
           NEW row \in JobRow, NEW to \in JobRow, NEW led, NEW ledTo,
           StoryOf(S, row, led), LedgerOf(to, ledTo), ExplainsOf(S \union A, to, ledTo),
           row.attempts <= to.attempts, to.status # "absent",
           \A e \in A : /\ e.n = to.attempts
                        /\ e.n = 0 <=> e.stage = "job.queued"
                        /\ \A f \in S : f.at < e.at
                        /\ \A f \in S : e.stage = f.stage => e.n # f.n
                        /\ e.stage = "worker.claimed" => row.attempts < to.attempts,
           \A e, f \in A : e.stage = f.stage => e = f,
           \A e, f \in A : f.stage = "worker.claimed" => f.at <= e.at
    PROVE  StoryOf(S \union A, to, ledTo)
<1>1. /\ row.attempts \in Nat /\ to.attempts \in Nat
      /\ \A e \in Event : e.n \in Nat /\ e.at \in Nat
  BY EventTyped, MaxAttemptsAssumption DEF JobRow
<1>2. FitsRow(S \union A, to)
  BY <1>1 DEF StoryOf, FitsRow
<1>3. ToldOnce(S \union A)
  BY DEF StoryOf, ToldOnce
<1>4. OrderedOf(S \union A)
  <2> SUFFICES ASSUME NEW e \in S \union A, NEW f \in S \union A
               PROVE  /\ e.n < f.n => e.at < f.at
                      /\ e.n = f.n /\ f.stage = "worker.claimed" => f.at <= e.at
    BY DEF OrderedOf
  <2>1. /\ e.n \in Nat /\ f.n \in Nat /\ e.at \in Nat /\ f.at \in Nat
    BY <1>1
  <2>2. CASE e \in S /\ f \in S
    BY <2>2 DEF StoryOf, OrderedOf
  <2>3. CASE e \in S /\ f \in A
    <3>1. e.n <= row.attempts /\ e.at < f.at /\ f.n = to.attempts
      BY <2>3 DEF StoryOf, FitsRow
    <3>2. f.stage = "worker.claimed" => row.attempts < to.attempts
      BY <2>3
    <3> QED
      BY <1>1, <2>1, <3>1, <3>2
  <2>4. CASE e \in A /\ f \in S
    <3>1. f.n <= row.attempts /\ f.at < e.at /\ e.n = to.attempts
      BY <2>4 DEF StoryOf, FitsRow
    <3> QED
      BY <1>1, <2>1, <3>1
  <2>5. CASE e \in A /\ f \in A
    BY <2>1, <2>5
  <2> QED
    BY <2>2, <2>3, <2>4, <2>5
<1> QED
  BY <1>2, <1>3, <1>4 DEF StoryOf

LEMMA TellsMore ==
    ASSUME NEW S, NEW e, NEW stage, NEW n
    PROVE  Tells(S \union {e}, stage, n) <=> Tells(S, stage, n) \/ (e.stage = stage /\ e.n = n)
  BY DEF Tells

Led == [1 .. MaxAttempts -> AttemptStatus]

LEMMA StoryGrowsBy ==
    ASSUME NEW S \in SUBSET Event, NEW e \in Event,
           NEW row \in JobRow, NEW to \in JobRow, NEW led, NEW ledTo,
           StoryOf(S, row, led), LedgerOf(to, ledTo), ExplainsOf(S \union {e}, to, ledTo),
           row.attempts <= to.attempts, to.status # "absent",
           e.n = to.attempts, e.n = 0 <=> e.stage = "job.queued",
           \A f \in S : f.at < e.at, \A f \in S : e.stage = f.stage => e.n # f.n,
           e.stage = "worker.claimed" => row.attempts < to.attempts
    PROVE  StoryOf(S \union {e}, to, ledTo)
<1> DEFINE A == {e}
<1>1. A \in SUBSET Event /\ S \union {e} = S \union A
  OBVIOUS
<1>2. \A x \in A : x = e
  OBVIOUS
<1>3. e.at <= e.at
  BY EventTyped
<1> HIDE DEF A
<1>4. \A x \in A : /\ x.n = to.attempts
                   /\ x.n = 0 <=> x.stage = "job.queued"
                   /\ \A f \in S : f.at < x.at
                   /\ \A f \in S : x.stage = f.stage => x.n # f.n
                   /\ x.stage = "worker.claimed" => row.attempts < to.attempts
  BY <1>2
<1>5. /\ \A x, y \in A : x.stage = y.stage => x = y
      /\ \A x, y \in A : y.stage = "worker.claimed" => y.at <= x.at
  BY <1>2, <1>3
<1>6. ExplainsOf(S \union A, to, ledTo)
  BY <1>1
<1> QED
  BY <1>1, <1>4, <1>5, <1>6, StoryGrows

LEMMA SubmittedStory ==
    ASSUME NEW S \in SUBSET Event, NEW e \in Event, NEW row \in JobRow, NEW to \in JobRow,
           NEW led, StoryOf(S, row, led),
           row.status = "absent", to.status = "queued", to.attempts = row.attempts,
           e.stage = "job.queued", e.n = 0, \A f \in S : f.at < e.at
    PROVE  StoryOf(S \union {e}, to, led)
<1>1. S = {} /\ to.attempts = 0
  BY DEF StoryOf, FitsRow, LedgerOf
<1>2. LedgerOf(to, led)
  BY DEF StoryOf, LedgerOf, Completed
<1>3. ExplainsOf(S \union {e}, to, led)
  BY TellsMore DEF StoryOf, ExplainsOf
<1>4. row.attempts <= to.attempts
  BY <1>1
<1> QED
  BY <1>1, <1>2, <1>3, <1>4, StoryGrowsBy

LEMMA ClaimedStory ==
    ASSUME NEW S \in SUBSET Event, NEW e \in Event, NEW row \in JobRow, NEW to \in JobRow,
           NEW led \in Led, StoryOf(S, row, led),
           row.status = "queued", to.status = "processing", to.attempts = row.attempts + 1,
           led[to.attempts] = "absent",
           e.stage = "worker.claimed", e.n = to.attempts, \A f \in S : f.at < e.at
    PROVE  StoryOf(S \union {e}, to, [led EXCEPT ![to.attempts] = "running"])
<1> DEFINE n == to.attempts
           ledTo == [led EXCEPT ![n] = "running"]
<1>1. row.attempts \in Nat /\ n \in 1 .. MaxAttempts
  BY MaxAttemptsAssumption DEF JobRow
<1>2. ledTo[n] = "running" /\ \A k \in 1 .. MaxAttempts : k # n => ledTo[k] = led[k]
  BY <1>1 DEF Led
<1> HIDE DEF ledTo
<1>3. LedgerOf(to, ledTo)
  BY <1>2 DEF StoryOf, LedgerOf, Completed
<1>4. ExplainsOf(S \union {e}, to, ledTo)
  <2> SUFFICES ASSUME NEW k \in 1 .. MaxAttempts
               PROVE  /\ Tells(S \union {e}, "worker.claimed", k) <=> k <= to.attempts
                      /\ Tells(S \union {e}, "job.retry_scheduled", k) <=> ledTo[k] = "retry_scheduled"
                      /\ Tells(S \union {e}, "job.failed", k) <=> ledTo[k] = "failed"
                      /\ Tells(S \union {e}, "job.completed", k) <=> ledTo[k] = "succeeded"
                      /\ Tells(S \union {e}, "payload.transformed", k) <=> ledTo[k] = "succeeded"
    BY DEF ExplainsOf
  <2>1. /\ Tells(S, "worker.claimed", k) <=> k <= row.attempts
        /\ Tells(S, "job.retry_scheduled", k) <=> led[k] = "retry_scheduled"
        /\ Tells(S, "job.failed", k) <=> led[k] = "failed"
        /\ Tells(S, "job.completed", k) <=> led[k] = "succeeded"
        /\ Tells(S, "payload.transformed", k) <=> led[k] = "succeeded"
    BY DEF StoryOf, ExplainsOf
  <2>2. k <= to.attempts <=> k <= row.attempts \/ k = n
    BY <1>1
  <2> QED
    BY <1>2, <2>1, <2>2, TellsMore
<1>5. \A f \in S : e.n # f.n
  BY <1>1, EventTyped DEF StoryOf, FitsRow
<1>6. row.attempts <= to.attempts /\ row.attempts < to.attempts /\ to.attempts # 0
  BY <1>1
<1>7. e.n = 0 <=> e.stage = "job.queued"
  BY <1>6
<1>8. StoryOf(S \union {e}, to, ledTo)
  BY <1>3, <1>4, <1>5, <1>6, <1>7, StoryGrowsBy
<1> QED
  BY <1>8 DEF ledTo

LEMMA EndedStory ==
    ASSUME NEW S \in SUBSET Event, NEW A \in SUBSET Event, NEW row \in JobRow, NEW to \in JobRow,
           NEW led \in Led, NEW end, StoryOf(S, row, led),
           row.attempts > 0, to.attempts = row.attempts, led[row.attempts] = "running",
           to.status \notin {"absent", "processing"}, end # "running",
           to.status \in Completed <=> end = "succeeded",
           \A e \in A : /\ e.n = row.attempts
                        /\ \A f \in S : f.at < e.at
                        /\ e.stage \in {"job.retry_scheduled", "job.failed", "job.completed",
                                        "payload.transformed"},
           \A e, f \in A : e.stage = f.stage => e = f,
           /\ (\E e \in A : e.stage = "job.retry_scheduled") <=> end = "retry_scheduled"
           /\ (\E e \in A : e.stage = "job.failed") <=> end = "failed"
           /\ (\E e \in A : e.stage = "job.completed") <=> end = "succeeded"
           /\ (\E e \in A : e.stage = "payload.transformed") <=> end = "succeeded"
    PROVE  StoryOf(S \union A, to, [led EXCEPT ![row.attempts] = end])
<1> DEFINE n == row.attempts
           ledTo == [led EXCEPT ![n] = end]
<1>1. n \in 1 .. MaxAttempts
  BY MaxAttemptsAssumption DEF JobRow
<1>2. ledTo[n] = end /\ \A k \in 1 .. MaxAttempts : k # n => ledTo[k] = led[k]
  BY <1>1 DEF Led
<1> HIDE DEF ledTo
<1>3. LedgerOf(to, ledTo)
  BY <1>1, <1>2 DEF StoryOf, LedgerOf, Completed
<1>4. \A k \in 1 .. MaxAttempts :
        /\ Tells(S, "worker.claimed", k) <=> k <= row.attempts
        /\ Tells(S, "job.retry_scheduled", k) <=> led[k] = "retry_scheduled"
        /\ Tells(S, "job.failed", k) <=> led[k] = "failed"
        /\ Tells(S, "job.completed", k) <=> led[k] = "succeeded"
        /\ Tells(S, "payload.transformed", k) <=> led[k] = "succeeded"
  BY DEF StoryOf, ExplainsOf
<1>5. \A stage, k : Tells(S \union A, stage, k) <=> Tells(S, stage, k) \/ Tells(A, stage, k)
  BY DEF Tells
<1>6. /\ \A stage, k : k # n => ~Tells(A, stage, k)
      /\ ~Tells(A, "worker.claimed", n)
      /\ Tells(A, "job.retry_scheduled", n) <=> end = "retry_scheduled"
      /\ Tells(A, "job.failed", n) <=> end = "failed"
      /\ Tells(A, "job.completed", n) <=> end = "succeeded"
      /\ Tells(A, "payload.transformed", n) <=> end = "succeeded"
  BY DEF Tells
<1>7. ExplainsOf(S \union A, to, ledTo)
  <2> SUFFICES ASSUME NEW k \in 1 .. MaxAttempts
               PROVE  /\ Tells(S \union A, "worker.claimed", k) <=> k <= to.attempts
                      /\ Tells(S \union A, "job.retry_scheduled", k) <=> ledTo[k] = "retry_scheduled"
                      /\ Tells(S \union A, "job.failed", k) <=> ledTo[k] = "failed"
                      /\ Tells(S \union A, "job.completed", k) <=> ledTo[k] = "succeeded"
                      /\ Tells(S \union A, "payload.transformed", k) <=> ledTo[k] = "succeeded"
    BY DEF ExplainsOf
  <2>1. CASE k = n
    BY <1>1, <1>2, <1>4, <1>5, <1>6, <2>1
  <2>2. CASE k # n
    <3>1. \A stage : Tells(S \union A, stage, k) <=> Tells(S, stage, k)
      BY <1>5, <1>6, <2>2
    <3> QED
      BY <1>2, <1>4, <2>2, <3>1
  <2> QED
    BY <2>1, <2>2
<1>8. \A e \in A : \A f \in S : e.stage = f.stage => e.n # f.n
  BY <1>1, <1>4 DEF Tells
<1>9. \A e \in A : ~(e.n = 0) /\ ~(e.stage = "job.queued") /\ ~(e.stage = "worker.claimed")
  BY <1>1
<1>10. to.attempts \in Nat /\ row.attempts <= to.attempts
  BY <1>1
<1>11. \A e \in A : /\ e.n = to.attempts
                    /\ e.n = 0 <=> e.stage = "job.queued"
                    /\ \A f \in S : f.at < e.at
                    /\ \A f \in S : e.stage = f.stage => e.n # f.n
                    /\ e.stage = "worker.claimed" => row.attempts < to.attempts
  BY <1>8, <1>9
<1>12. \A e, f \in A : f.stage = "worker.claimed" => f.at <= e.at
  BY <1>9
<1>13. StoryOf(S \union A, to, ledTo)
  BY <1>3, <1>7, <1>10, <1>11, <1>12, StoryGrows
<1> QED
  BY <1>13 DEF ledTo

LEMMA StillStory ==
    ASSUME NEW S, NEW row, NEW to, NEW led, StoryOf(S, row, led),
           to.status = row.status, to.attempts = row.attempts
    PROVE  StoryOf(S, to, led)
  BY DEF StoryOf, ExplainsOf, FitsRow, LedgerOf

---------------------------------------------------------------------------
(* The invariant.                                                           *)

StoriesFit == \A j \in Jobs : StoryOf(Story(events, j), job[j], attempt[j])

Mid == {"checked", "flushed"}

PublishersStamp == \A p \in Publishers : \A e \in pending[p] : e.stage = "job.dispatched"

(* A worker past its check has stamped one event and kept it.               *)
Kept(w, e) ==
    /\ pending[w] = {e} /\ e.job = worker[w].job
    /\ e.stage = "payload.transformed" /\ e.n = worker[w].n
    /\ \A f \in Story(events, worker[w].job) : f.at < e.at

WorkersStamp ==
    \A w \in Workers : IF worker[w].stage \in Mid THEN \E e \in Event : Kept(w, e)
                                                  ELSE pending[w] = {}

Reading == {"snapshots", "events", "attempts", "errors", "shown"}

(* What a console was told or has read of a settled job still holds.        *)
Fits(q) ==
    LET j == q.job
    IN  /\ q.stage # "closed" => j \in Jobs
        /\ q.settled => /\ j \in Jobs /\ job[j].status \in Terminal
                        /\ \A e \in Story(events, j) : e.at \in q.seen
        /\ q.told \in Terminal => j \in Jobs /\ job[j].status = q.told
        /\ q.stage \in Reading =>
              /\ q.told \in Terminal => q.page.status = q.told
              /\ q.page.status \in Terminal =>
                    /\ job[j].status = q.page.status /\ job[j].counts = q.page.counts
                    /\ q.stage # "snapshots" => q.page.imported = Mine(snapshot, j)
                    /\ q.stage \notin {"snapshots", "events"} =>
                          \A e \in Story(events, j) : <<e.stage, e.n>> \in q.page.events
                    /\ q.stage \in {"errors", "shown"} => q.page.attempts = attempt[j]
                    /\ q.stage = "shown" => q.page.errors = errors[j]

ConsolesFit == \A c \in Consoles : Fits(console[c])

TInv ==
    /\ CInv /\ TimelineTypeOK /\ StoriesFit
    /\ PublishersStamp /\ WorkersStamp /\ ConsolesFit

(* Settled jobs stay as they are, so consoles are right about them.         *)
LEMMA ConsolesStay ==
    ASSUME ConsolesFit, UNCHANGED console,
           \A i \in Jobs : job[i].status \in Terminal =>
              /\ job'[i].status = job[i].status /\ job'[i].counts = job[i].counts
              /\ attempt'[i] = attempt[i] /\ errors'[i] = errors[i]
              /\ Mine(snapshot', i) = Mine(snapshot, i)
              /\ Story(events', i) = Story(events, i)
    PROVE  ConsolesFit'
<1> SUFFICES ASSUME NEW c \in Consoles PROVE Fits(console[c])'
  BY DEF ConsolesFit
<1> DEFINE q == console[c]
<1>1. Fits(q)
  BY DEF ConsolesFit
<1>2. PICK j : j = q.job
  OBVIOUS
<1>3. console'[c] = q
  OBVIOUS
<1> HIDE DEF q
<1>4. CASE j \in Jobs /\ job[j].status \in Terminal
  <2>1. /\ job'[j].status = job[j].status /\ job'[j].counts = job[j].counts
        /\ attempt'[j] = attempt[j] /\ errors'[j] = errors[j]
        /\ Mine(snapshot', j) = Mine(snapshot, j)
        /\ Story(events', j) = Story(events, j)
    BY <1>4
  <2> QED
    BY <1>1, <1>2, <1>3, <1>4, <2>1 DEF Fits
<1>5. CASE ~(j \in Jobs /\ job[j].status \in Terminal)
  <2>1. /\ ~q.settled /\ q.told \notin Terminal
        /\ q.stage # "closed" => j \in Jobs
        /\ q.stage \in Reading => q.page.status \notin Terminal
    BY <1>1, <1>2, <1>5 DEF Fits, Reading
  <2> QED
    BY <1>2, <1>3, <2>1 DEF Fits
<1> QED
  BY <1>4, <1>5

LEMMA QuietTimeline ==
    ASSUME TInv, CInv', TimelineTypeOK', MovesNone, UNCHANGED console,
           \A i \in Jobs : Story(events', i) = Story(events, i),
           PublishersStamp', WorkersStamp'
    PROVE  TInv'
<1>1. StoriesFit'
  <2> SUFFICES ASSUME NEW j \in Jobs PROVE StoryOf(Story(events', j), job'[j], attempt'[j])
    BY DEF StoriesFit
  <2>1. StoryOf(Story(events, j), job[j], attempt[j])
    BY DEF TInv, StoriesFit
  <2>2. /\ Story(events', j) = Story(events, j) /\ attempt'[j] = attempt[j]
        /\ job'[j].status = job[j].status /\ job'[j].attempts = job[j].attempts
    BY DEF MovesNone
  <2> QED
    BY <2>1, <2>2, StillStory
<1>2. ConsolesFit'
  BY ConsolesStay DEF TInv, MovesNone
<1> QED
  BY <1>1, <1>2 DEF TInv

LEMMA OpenTimeline ==
    ASSUME TInv, CInv', TimelineTypeOK', NEW j \in Jobs, job[j].status \notin Terminal,
           \A i \in Jobs \ {j} :
              /\ job'[i] = job[i] /\ attempt'[i] = attempt[i] /\ errors'[i] = errors[i]
              /\ Mine(snapshot', i) = Mine(snapshot, i)
              /\ Story(events', i) = Story(events, i),
           StoryOf(Story(events', j), job'[j], attempt'[j]),
           UNCHANGED console, PublishersStamp', WorkersStamp'
    PROVE  TInv'
<1>1. StoriesFit'
  <2> SUFFICES ASSUME NEW i \in Jobs PROVE StoryOf(Story(events', i), job'[i], attempt'[i])
    BY DEF StoriesFit
  <2>1. StoryOf(Story(events, i), job[i], attempt[i])
    BY DEF TInv, StoriesFit
  <2> QED
    BY <2>1
<1>2. ConsolesFit'
  <2>1. \A i \in Jobs : job[i].status \in Terminal => i \in Jobs \ {j}
    OBVIOUS
  <2> QED
    BY <2>1, ConsolesStay DEF TInv
<1> QED
  BY <1>1, <1>2 DEF TInv

LEMMA StampsStay ==
    ASSUME TInv,
           \A w \in Workers :
              \/ worker'[w].stage \notin Mid /\ pending'[w] = {}
              \/ /\ pending'[w] = pending[w]
                 /\ worker'[w].job = worker[w].job /\ worker'[w].n = worker[w].n
                 /\ worker'[w].stage \in Mid <=> worker[w].stage \in Mid
                 /\ worker[w].stage \in Mid =>
                       Story(events', worker[w].job) = Story(events, worker[w].job)
    PROVE  WorkersStamp'
<1> SUFFICES ASSUME NEW w \in Workers
             PROVE  IF worker'[w].stage \in Mid THEN \E e \in Event : Kept(w, e)'
                                                ELSE pending'[w] = {}
  BY DEF WorkersStamp
<1>1. IF worker[w].stage \in Mid THEN \E e \in Event : Kept(w, e) ELSE pending[w] = {}
  BY DEF TInv, WorkersStamp
<1>2. CASE worker'[w].stage \in Mid
  <2>1. /\ pending'[w] = pending[w] /\ worker[w].stage \in Mid
        /\ worker'[w].job = worker[w].job /\ worker'[w].n = worker[w].n
        /\ Story(events', worker[w].job) = Story(events, worker[w].job)
    BY <1>2
  <2>2. PICK e \in Event : Kept(w, e)
    BY <1>1, <2>1
  <2>3. Kept(w, e)'
    BY <2>1, <2>2 DEF Kept
  <2> QED
    BY <1>2, <2>3
<1>3. CASE worker'[w].stage \notin Mid
  BY <1>1, <1>3
<1> QED
  BY <1>2, <1>3

(* A worker that is not idle is alone on a job whose last attempt runs.     *)
LEMMA OnJob ==
    ASSUME CInv, NEW w \in Workers, NEW j, j = worker[w].job, worker[w].stage # "idle"
    PROVE  /\ j \in Jobs /\ job[j].status = "processing"
           /\ worker[w].n = job[j].attempts /\ job[j].attempts > 0
           /\ attempt[j][job[j].attempts] = "running"
           /\ \A v \in Workers \ {w} : worker[v].stage # "idle" => worker[v].job # j
<1>1. j \in Jobs
  BY DEF CInv, RInv, IInv, WorkersHold
<1>2. Busy(w, j)
  BY DEF Busy
<1>3. /\ job[j].status = "processing" /\ worker[w].n = job[j].attempts
      /\ \A v \in Workers : Busy(v, j) => v = w
  BY <1>1, <1>2 DEF CInv, RInv, ExclusiveWorker
<1>4. job[j].attempts > 0 /\ attempt[j][job[j].attempts] = "running"
  BY <1>1, <1>3 DEF CInv, RInv, IInv, ProcessingIsRecoverable
<1> QED
  BY <1>1, <1>3, <1>4 DEF Busy

LEMMA Rows ==
    ASSUME CInv
    PROVE  /\ job \in [Jobs -> JobRow] /\ attempt \in [Jobs -> Led]
           /\ worker \in [Workers -> WorkerState]
  BY DEF CInv, RInv, IInv, TypeOK, Led

LEMMA PendingTyped ==
    ASSUME TimelineTypeOK
    PROVE  /\ events \in SUBSET Event /\ pending \in [Processes -> SUBSET Event]
           /\ \A j : Story(events, j) \in SUBSET Event
           /\ \A p \in Publishers : p \in Processes /\ p \notin Workers
           /\ \A w \in Workers : w \in Processes /\ w \notin Publishers
  BY ProcessesAssumption DEF TimelineTypeOK, Processes, Story

---------------------------------------------------------------------------
(* The steps.                                                               *)

LEMMA ReceiptSteps ==
    ASSUME TInv, CInv', Faults = {}, NEW p \in Publishers, StampReceipt(p) \/ RecordedReceipt(p)
    PROVE  TInv'
<1>0. /\ p \in Processes /\ events \in SUBSET Event /\ pending \in [Processes -> SUBSET Event]
      /\ \A w \in Workers : w \in Processes /\ w # p
      /\ \A r \in Publishers : r \in Processes
  BY PendingTyped DEF TInv
<1>1. CASE StampReceipt(p)
  <2>1. PICK j, e : /\ e \in NewEvents(j, "job.dispatched", 0)
                    /\ pending' = [pending EXCEPT ![p] = {e}]
    BY <1>1 DEF StampReceipt, Stamp
  <2>2. events' = events /\ console' = console /\ UNCHANGED vars
    BY <1>1 DEF StampReceipt, Stamp
  <2>3. TimelineTypeOK'
    BY <1>0, <2>1, <2>2, StampTyped DEF TInv
  <2>4. MovesNone
    BY <2>2, QuietMoves DEF TInv, CInv, vars, dbVars
  <2>5. e.stage = "job.dispatched"
    BY <2>1, NewEvent
  <2>6. PublishersStamp'
    BY <1>0, <2>1, <2>5 DEF TInv, PublishersStamp
  <2>7. WorkersStamp'
    BY <1>0, <2>1, <2>2, StampsStay DEF vars
  <2> QED
    BY <2>2, <2>3, <2>4, <2>6, <2>7, QuietTimeline
<1>2. CASE RecordedReceipt(p)
  <2>1. /\ WriteReceipt(p) /\ events' = events \union pending[p] /\ Forget(p)
        /\ console' = console
    BY <1>2 DEF RecordedReceipt
  <2>2. UNCHANGED worker
    BY <2>1 DEF WriteReceipt
  <2>3. TimelineTypeOK'
    BY <1>0, <2>1, DropTyped DEF TInv
  <2>4. MovesNone
    BY <2>1, QuietMoves DEF TInv, CInv
  <2>5. \A j : Story(events', j) = Story(events, j)
    BY <2>1 DEF TInv, PublishersStamp, Story
  <2>6. PublishersStamp'
    BY <1>0, <2>1 DEF TInv, PublishersStamp, Forget
  <2>7. WorkersStamp'
    BY <1>0, <2>1, <2>2, <2>5, StampsStay DEF Forget
  <2> QED
    BY <2>1, <2>3, <2>4, <2>5, <2>6, <2>7, QuietTimeline
<1> QED
  BY <1>1, <1>2

LEMMA SubmitStep2 ==
    ASSUME TInv, CInv', NEW p \in Publishers, NEW j \in Jobs, RecordedSubmit(p, j)
    PROVE  TInv'
<1>0. /\ p \in Processes /\ events \in SUBSET Event /\ pending \in [Processes -> SUBSET Event]
      /\ \A w \in Workers : w \in Processes /\ w # p
      /\ \A r \in Publishers : r \in Processes
  BY PendingTyped DEF TInv
<1>1. PICK e : /\ e \in NewEvents(j, "job.queued", 0)
               /\ events' = events \union pending[p] \union {e}
  BY DEF RecordedSubmit, Record
<1>2. /\ Forget(p) /\ console' = console
      /\ job[j].status = "absent" /\ job' = [job EXCEPT ![j].status = "queued"]
      /\ UNCHANGED <<attempt, errors, snapshot, worker>>
  BY DEF RecordedSubmit, Record, Submit
<1>3. /\ e \in Event /\ e.job = j /\ e.stage = "job.queued" /\ e.n = 0
      /\ \A f \in Stamped : f.job = j => f.at < e.at
  BY <1>1, NewEvent
<1>4. job \in [Jobs -> JobRow] /\ job' \in [Jobs -> JobRow]
  BY DEF TInv, CInv, RInv, IInv, TypeOK
<1>5. /\ job'[j].status = "queued" /\ job'[j].attempts = job[j].attempts
      /\ \A i \in Jobs \ {j} : job'[i] = job[i]
  BY <1>2, <1>4 DEF JobRow
<1>6. Story(events', j) = Story(events, j) \union {e}
  BY <1>1, <1>3 DEF TInv, PublishersStamp, Story
<1>7. \A i \in Jobs \ {j} : Story(events', i) = Story(events, i)
  BY <1>1, <1>3 DEF TInv, PublishersStamp, Story
<1>8. \A f \in Story(events, j) : f.at < e.at
  BY <1>3 DEF Story, Stamped
<1>9. StoryOf(Story(events, j), job[j], attempt[j])
  BY DEF TInv, StoriesFit
<1>10. StoryOf(Story(events', j), job'[j], attempt'[j])
  <2>1. Story(events, j) \in SUBSET Event
    BY <1>0 DEF Story
  <2>2. job[j] \in JobRow /\ job'[j] \in JobRow
    BY <1>4
  <2>3. StoryOf(Story(events, j) \union {e}, job'[j], attempt[j])
    BY <1>2, <1>3, <1>5, <1>8, <1>9, <2>1, <2>2, SubmittedStory
  <2> QED
    BY <1>2, <1>6, <2>3
<1>11. TimelineTypeOK'
  BY <1>0, <1>1, <1>2, StampTyped DEF TInv
<1>12. PublishersStamp'
  BY <1>0, <1>2 DEF TInv, PublishersStamp, Forget
<1>13. WorkersStamp'
  <2>1. \A w \in Workers : worker[w].stage \in Mid => worker[w].job \in Jobs \ {j}
    BY <1>2, OnJob DEF TInv, Mid
  <2> QED
    BY <1>0, <1>2, <1>7, <2>1, StampsStay DEF Forget
<1>14. job[j].status \notin Terminal
  BY <1>2 DEF Terminal, Completed
<1> QED
  BY <1>2, <1>5, <1>7, <1>10, <1>11, <1>12, <1>13, <1>14, OpenTimeline

LEMMA CheckStep2 ==
    ASSUME TInv, CInv', Faults = {}, NEW w \in Workers, StampedCheck(w)
    PROVE  TInv'
<1>0. /\ w \in Processes /\ events \in SUBSET Event /\ pending \in [Processes -> SUBSET Event]
      /\ \A v \in Workers : v \in Processes
      /\ \A r \in Publishers : r \in Processes /\ r # w
  BY PendingTyped DEF TInv
<1> DEFINE j == worker[w].job
           n == worker[w].n
<1>1. PICK e : /\ e \in NewEvents(j, "payload.transformed", n)
               /\ pending' = [pending EXCEPT ![w] = {e}]
  BY DEF StampedCheck, Stamp
<1>2. events' = events /\ console' = console /\ Check(w)
  BY DEF StampedCheck, Stamp
<1>3. /\ e \in Event /\ e.job = j /\ e.stage = "payload.transformed" /\ e.n = n
      /\ \A f \in Stamped : f.job = j => f.at < e.at
  BY <1>1, NewEvent
<1>4. TimelineTypeOK'
  BY <1>0, <1>1, <1>2, StampTyped DEF TInv
<1>5. MovesNone
  BY <1>2, QuietMoves DEF TInv, CInv, Check
<1>6. PublishersStamp'
  BY <1>0, <1>1 DEF TInv, PublishersStamp
<1>7. /\ worker'[w].job = j /\ worker'[w].n = n /\ worker'[w].stage = "checked"
      /\ \A v \in Workers \ {w} : worker'[v] = worker[v]
  BY <1>2, Rows DEF TInv, Check, WorkerState
<1>8. WorkersStamp'
  <2> SUFFICES ASSUME NEW v \in Workers
               PROVE  IF worker'[v].stage \in Mid THEN \E f \in Event : Kept(v, f)'
                                                  ELSE pending'[v] = {}
    BY DEF WorkersStamp
  <2>1. CASE v = w
    <3>1. pending'[w] = {e}
      BY <1>0, <1>1
    <3>2. \A f \in Story(events', j) : f.at < e.at
      BY <1>2, <1>3 DEF Story, Stamped
    <3>3. Kept(w, e)'
      BY <1>3, <1>7, <3>1, <3>2 DEF Kept
    <3> QED
      BY <1>3, <1>7, <2>1, <3>3 DEF Mid
  <2>2. CASE v # w
    <3>1. worker'[v] = worker[v] /\ pending'[v] = pending[v]
      BY <1>0, <1>1, <1>7, <2>2
    <3>2. IF worker[v].stage \in Mid THEN \E f \in Event : Kept(v, f) ELSE pending[v] = {}
      BY DEF TInv, WorkersStamp
    <3>3. \A f \in Event : Kept(v, f) => Kept(v, f)'
      BY <1>2, <3>1 DEF Kept
    <3> QED
      BY <3>1, <3>2, <3>3
  <2> QED
    BY <2>1, <2>2
<1> QED
  BY <1>2, <1>4, <1>5, <1>6, <1>8, QuietTimeline

(* Workers that leave their job, or take it, beside the others.             *)
LEMMA WorkersBeside ==
    ASSUME TInv, NEW w \in Workers, NEW j, Forget(w),
           worker'[w].stage \notin Mid,
           \A v \in Workers \ {w} : /\ worker'[v] = worker[v]
                                    /\ worker[v].stage # "idle" => worker[v].job # j,
           \A i \in Jobs : i # j => Story(events', i) = Story(events, i)
    PROVE  PublishersStamp' /\ WorkersStamp'
<1>0. /\ w \in Processes /\ pending \in [Processes -> SUBSET Event]
      /\ \A v \in Workers : v \in Processes
      /\ \A r \in Publishers : r \in Processes /\ r # w
  BY PendingTyped DEF TInv
<1>1. PublishersStamp'
  BY <1>0 DEF TInv, PublishersStamp, Forget
<1>2. pending'[w] = {} /\ \A v \in Workers \ {w} : pending'[v] = pending[v]
  BY <1>0 DEF Forget
<1>3. \A v \in Workers \ {w} : worker[v].stage \in Mid =>
         worker[v].job \in Jobs /\ worker[v].job # j
  BY OnJob DEF TInv, Mid
<1>4. WorkersStamp'
  BY <1>2, <1>3, StampsStay
<1> QED
  BY <1>1, <1>4

LEMMA ClaimStep2 ==
    ASSUME TInv, CInv', NEW w \in Workers, NEW j \in Jobs, RecordedClaim(w, j)
    PROVE  TInv'
<1> DEFINE n == job[j].attempts + 1
<1>0. w \in Processes /\ events \in SUBSET Event
  BY PendingTyped DEF TInv
<1>1. PICK e : /\ e \in NewEvents(j, "worker.claimed", n)
               /\ events' = events \union pending[w] \union {e}
  BY DEF RecordedClaim, Record
<1>2. /\ Forget(w) /\ console' = console
      /\ worker[w].stage = "idle" /\ job[j].status = "queued"
      /\ job' = [job EXCEPT ![j].status = "processing", ![j].attempts = n,
                            ![j].lease = "live", ![j].backoff = FALSE]
      /\ attempt' = [attempt EXCEPT ![j][n] = "running"]
      /\ UNCHANGED <<errors, snapshot>>
  BY DEF RecordedClaim, Record, Claim, Deliver, Claimable
<1>3. /\ e \in Event /\ e.job = j /\ e.stage = "worker.claimed" /\ e.n = n
      /\ \A f \in Stamped : f.job = j => f.at < e.at
  BY <1>1, NewEvent
<1>4. /\ job \in [Jobs -> JobRow] /\ job' \in [Jobs -> JobRow]
      /\ attempt \in [Jobs -> Led] /\ worker \in [Workers -> WorkerState]
  BY DEF TInv, CInv, RInv, IInv, TypeOK, Led
<1>5. /\ job'[j].status = "processing" /\ job'[j].attempts = n
      /\ \A i \in Jobs \ {j} : job'[i] = job[i] /\ attempt'[i] = attempt[i]
  BY <1>2, <1>4 DEF JobRow
<1>6. attempt'[j] = [attempt[j] EXCEPT ![n] = "running"]
  BY <1>2, <1>4
<1>7. attempt[j][n] = "absent"
  <2>1. job[j] \in JobRow /\ job'[j] \in JobRow
    BY <1>4
  <2>2. job[j].attempts \in Nat /\ n \in 1 .. MaxAttempts
    BY <1>5, <2>1, MaxAttemptsAssumption DEF JobRow
  <2> QED
    BY <2>2 DEF TInv, CInv, RInv, IInv, AttemptLedger
<1> HIDE DEF n
<1>8. pending[w] = {}
  BY <1>2 DEF TInv, WorkersStamp, Mid
<1>9. /\ Story(events', j) = Story(events, j) \union {e}
      /\ \A i \in Jobs : i # j => Story(events', i) = Story(events, i)
  BY <1>1, <1>3, <1>8 DEF Story
<1>10. \A f \in Story(events, j) : f.at < e.at
  BY <1>3 DEF Story, Stamped
<1>11. StoryOf(Story(events', j), job'[j], attempt'[j])
  <2>1. Story(events, j) \in SUBSET Event
    BY <1>0 DEF Story
  <2>2. job[j] \in JobRow /\ job'[j] \in JobRow /\ attempt[j] \in Led
    BY <1>4
  <2>3. StoryOf(Story(events, j), job[j], attempt[j])
    BY DEF TInv, StoriesFit
  <2>4. job'[j].attempts = job[j].attempts + 1
    BY <1>5 DEF n
  <2>5. StoryOf(Story(events, j) \union {e}, job'[j], [attempt[j] EXCEPT ![job'[j].attempts] = "running"])
    <3>1. attempt[j][job'[j].attempts] = "absent" /\ e.n = job'[j].attempts
      BY <1>3, <1>5, <1>7
    <3> QED
      BY <1>2, <1>3, <1>5, <1>10, <2>1, <2>2, <2>3, <2>4, <3>1, ClaimedStory
  <2> QED
    BY <1>5, <1>6, <1>9, <2>5
<1>12. TimelineTypeOK'
  BY <1>0, <1>1, <1>2, StampTyped DEF TInv
<1>13. /\ worker'[w].stage = "claimed"
       /\ \A v \in Workers \ {w} : worker'[v] = worker[v]
  BY <1>4 DEF RecordedClaim, Claim, IdleWorker
<1>14. \A v \in Workers \ {w} : worker[v].stage # "idle" => worker[v].job # j
  BY <1>2, OnJob DEF TInv
<1>15. PublishersStamp' /\ WorkersStamp'
  BY <1>2, <1>9, <1>13, <1>14, WorkersBeside DEF Mid
<1>16. job[j].status \notin Terminal
  BY <1>2 DEF Terminal, Completed
<1> QED
  BY <1>2, <1>5, <1>9, <1>11, <1>12, <1>15, <1>16, OpenTimeline

LEMMA FailureStep2 ==
    ASSUME TInv, CInv', NEW w \in Workers, RecordedFailure(w)
    PROVE  TInv'
<1> DEFINE n == IF job[worker[w].job].attempts = 0 THEN 1 ELSE job[worker[w].job].attempts
           again == MayRetry(worker[w].retryable, n)
           told == IF again THEN "job.retry_scheduled" ELSE "job.failed"
           end == IF again THEN "retry_scheduled" ELSE "failed"
<1> PICK j : j = worker[w].job
  OBVIOUS
<1>0. w \in Processes /\ events \in SUBSET Event
  BY PendingTyped DEF TInv
<1>1. PICK e : /\ e \in NewEvents(j, told, n)
               /\ events' = events \union pending[w] \union {e}
  BY DEF RecordedFailure, Record
<1>2. /\ Forget(w) /\ console' = console /\ RecordFailure(w)
      /\ worker[w].stage = "failing"
      /\ Settle(j, again, n, again)
      /\ attempt' = [attempt EXCEPT ![j][n] = end]
      /\ worker' = [worker EXCEPT ![w] = IdleWorker]
      /\ UNCHANGED <<errors, snapshot>>
  BY DEF RecordedFailure, Record, RecordFailure
<1>3. /\ e \in Event /\ e.job = j /\ e.stage = told /\ e.n = n
      /\ \A f \in Stamped : f.job = j => f.at < e.at
  BY <1>1, NewEvent
<1>4. /\ job \in [Jobs -> JobRow] /\ job' \in [Jobs -> JobRow]
      /\ attempt \in [Jobs -> Led] /\ worker \in [Workers -> WorkerState]
  BY DEF TInv, CInv, RInv, IInv, TypeOK, Led
<1>5. /\ j \in Jobs /\ job[j].status = "processing" /\ job[j].attempts > 0
      /\ attempt[j][job[j].attempts] = "running"
      /\ \A v \in Workers \ {w} : worker[v].stage # "idle" => worker[v].job # j
  BY <1>2, OnJob DEF TInv
<1>6. n = job[j].attempts /\ job[j].attempts \in Nat
  BY <1>4, <1>5, MaxAttemptsAssumption DEF JobRow
<1>7. /\ told \in {"job.retry_scheduled", "job.failed"} /\ end \in {"retry_scheduled", "failed"}
      /\ told = "job.retry_scheduled" <=> end = "retry_scheduled"
  OBVIOUS
<1>8. /\ job'[j].status \in {"queued", "failed"} /\ job'[j].attempts = n
      /\ \A i \in Jobs \ {j} : job'[i] = job[i] /\ attempt'[i] = attempt[i]
  <2> HIDE DEF n, again, end
  <2>1. /\ job'[j].attempts = n
        /\ job'[j].status = IF again THEN "queued" ELSE "failed"
        /\ \A i \in Jobs \ {j} : job'[i] = job[i]
    BY <1>2, <1>4, <1>5 DEF Settle, JobRow
  <2>2. \A i \in Jobs \ {j} : attempt'[i] = attempt[i]
    BY <1>2, <1>4
  <2>3. job'[j].status \in {"queued", "failed"}
    BY <2>1
  <2> QED
    BY <2>1, <2>2, <2>3
<1>9. attempt'[j] = [attempt[j] EXCEPT ![job[j].attempts] = end]
  BY <1>2, <1>4, <1>5, <1>6
<1> HIDE DEF n, again, told, end
<1>10. pending[w] = {}
  BY <1>2 DEF TInv, WorkersStamp, Mid
<1>11. /\ Story(events', j) = Story(events, j) \union {e}
       /\ \A i \in Jobs : i # j => Story(events', i) = Story(events, i)
  BY <1>1, <1>3, <1>7, <1>10 DEF Story
<1>12. StoryOf(Story(events', j), job'[j], attempt'[j])
  <2> DEFINE A == {e}
  <2>1. Story(events, j) \in SUBSET Event /\ A \in SUBSET Event
    BY <1>0, <1>3 DEF Story
  <2>2. job[j] \in JobRow /\ job'[j] \in JobRow /\ attempt[j] \in Led
    BY <1>4, <1>5
  <2>3. StoryOf(Story(events, j), job[j], attempt[j])
    BY <1>5 DEF TInv, StoriesFit
  <2>4. \A f \in Story(events, j) : f.at < e.at
    BY <1>3 DEF Story, Stamped
  <2>5. \A x \in A : /\ x.n = job[j].attempts
                     /\ \A f \in Story(events, j) : f.at < x.at
                     /\ x.stage \in {"job.retry_scheduled", "job.failed", "job.completed",
                                     "payload.transformed"}
    BY <1>3, <1>6, <1>7, <2>4
  <2>6. \A x, y \in A : x.stage = y.stage => x = y
    OBVIOUS
  <2>7. /\ (\E x \in A : x.stage = "job.retry_scheduled") <=> end = "retry_scheduled"
        /\ (\E x \in A : x.stage = "job.failed") <=> end = "failed"
        /\ (\E x \in A : x.stage = "job.completed") <=> end = "succeeded"
        /\ (\E x \in A : x.stage = "payload.transformed") <=> end = "succeeded"
    BY <1>3, <1>7
  <2>8. /\ job'[j].status \notin {"absent", "processing"} /\ end # "running"
        /\ job'[j].status \in Completed <=> end = "succeeded"
        /\ job'[j].attempts = job[j].attempts
    BY <1>6, <1>7, <1>8 DEF Completed
  <2> HIDE DEF A
  <2>9. StoryOf(Story(events, j) \union A, job'[j], [attempt[j] EXCEPT ![job[j].attempts] = end])
    BY <1>5, <2>1, <2>2, <2>3, <2>5, <2>6, <2>7, <2>8, EndedStory
  <2> QED
    BY <1>9, <1>11, <2>9 DEF A
<1>13. TimelineTypeOK'
  BY <1>0, <1>1, <1>2, StampTyped DEF TInv
<1>14. /\ worker'[w].stage = "idle"
       /\ \A v \in Workers \ {w} : worker'[v] = worker[v]
  BY <1>2, <1>4 DEF IdleWorker
<1>15. PublishersStamp' /\ WorkersStamp'
  BY <1>2, <1>5, <1>11, <1>14, WorkersBeside DEF Mid
<1>16. job[j].status \notin Terminal
  BY <1>5 DEF Terminal, Completed
<1> QED
  BY <1>2, <1>5, <1>8, <1>11, <1>12, <1>13, <1>15, <1>16, OpenTimeline

LEMMA FinishStep2 ==
    ASSUME TInv, CInv', Faults = {}, NEW w \in Workers, RecordedFinish(w)
    PROVE  TInv'
<1> PICK j : j = worker[w].job
  OBVIOUS
<1>0. w \in Processes /\ events \in SUBSET Event
  BY PendingTyped DEF TInv
<1>1. PICK e : /\ e \in NewEvents(j, "job.completed", worker[w].n)
               /\ events' = events \union pending[w] \union {e}
  BY DEF RecordedFinish, Record
<1>2. Forget(w) /\ console' = console /\ Finish(w)
  BY DEF RecordedFinish, Record, FinishUnconfirmed
<1>3. /\ e \in Event /\ e.job = j /\ e.stage = "job.completed" /\ e.n = worker[w].n
      /\ \A f \in Stamped : f.job = j => f.at < e.at
  BY <1>1, NewEvent
<1>4. /\ job \in [Jobs -> JobRow] /\ job' \in [Jobs -> JobRow]
      /\ attempt \in [Jobs -> Led] /\ worker \in [Workers -> WorkerState]
  BY DEF TInv, CInv, RInv, IInv, TypeOK, Led
<1>5. /\ j \in Jobs /\ job[j].status = "processing" /\ job'[j].status \in Completed
      /\ job'[j].attempts = job[j].attempts
      /\ \A i \in Jobs \ {j} : /\ job'[i] = job[i] /\ errors'[i] = errors[i]
                               /\ attempt'[i] = attempt[i]
                               /\ Mine(snapshot', i) = Mine(snapshot, i)
      /\ attempt' = [attempt EXCEPT ![j][worker[w].n] = "succeeded"]
      /\ worker[w].n = job[j].attempts
  BY <1>2, FinishLeaves DEF TInv
<1>6. worker[w].stage \in Mid
  BY <1>2 DEF Finish, CommitResult, Mid
<1>7. PICK f \in Event : Kept(w, f)
  BY <1>6 DEF TInv, WorkersStamp
<1>8. /\ pending[w] = {f} /\ f.job = j /\ f.stage = "payload.transformed" /\ f.n = worker[w].n
      /\ \A g \in Story(events, j) : g.at < f.at
  BY <1>7 DEF Kept
<1>9. /\ job[j].attempts > 0 /\ attempt[j][job[j].attempts] = "running"
      /\ \A v \in Workers \ {w} : worker[v].stage # "idle" => worker[v].job # j
  BY <1>6, OnJob DEF TInv, Mid
<1>10. /\ Story(events', j) = Story(events, j) \union {f, e}
       /\ \A i \in Jobs : i # j => Story(events', i) = Story(events, i)
  BY <1>1, <1>3, <1>8 DEF Story
<1>11. StoryOf(Story(events', j), job'[j], attempt'[j])
  <2> DEFINE A == {f, e}
  <2>1. Story(events, j) \in SUBSET Event /\ A \in SUBSET Event
    BY <1>0, <1>3 DEF Story
  <2>2. job[j] \in JobRow /\ job'[j] \in JobRow /\ attempt[j] \in Led
    BY <1>4, <1>5
  <2>3. StoryOf(Story(events, j), job[j], attempt[j])
    BY <1>5 DEF TInv, StoriesFit
  <2>4. \A g \in Story(events, j) : g.at < e.at
    BY <1>3 DEF Story, Stamped
  <2>5. \A x \in A : /\ x.n = job[j].attempts
                     /\ \A g \in Story(events, j) : g.at < x.at
                     /\ x.stage \in {"job.retry_scheduled", "job.failed", "job.completed",
                                     "payload.transformed"}
    BY <1>3, <1>5, <1>8, <2>4
  <2>6. \A x, y \in A : x.stage = y.stage => x = y
    BY <1>3, <1>8
  <2>7. /\ (\E x \in A : x.stage = "job.retry_scheduled") <=> "succeeded" = "retry_scheduled"
        /\ (\E x \in A : x.stage = "job.failed") <=> "succeeded" = "failed"
        /\ (\E x \in A : x.stage = "job.completed") <=> "succeeded" = "succeeded"
        /\ (\E x \in A : x.stage = "payload.transformed") <=> "succeeded" = "succeeded"
    BY <1>3, <1>8
  <2>8. job'[j].status \notin {"absent", "processing"}
    BY <1>5 DEF Completed
  <2>9. attempt'[j] = [attempt[j] EXCEPT ![job[j].attempts] = "succeeded"]
    BY <1>4, <1>5
  <2> HIDE DEF A
  <2>10. StoryOf(Story(events, j) \union A, job'[j],
                 [attempt[j] EXCEPT ![job[j].attempts] = "succeeded"])
    BY <1>5, <1>9, <2>1, <2>2, <2>3, <2>5, <2>6, <2>7, <2>8, EndedStory
  <2> QED
    BY <1>10, <2>9, <2>10 DEF A
<1>12. TimelineTypeOK'
  BY <1>0, <1>1, <1>2, StampTyped DEF TInv
<1>13. /\ worker'[w].stage = "idle"
       /\ \A v \in Workers \ {w} : worker'[v] = worker[v]
  BY <1>2, <1>4 DEF Finish, IdleWorker
<1>14. PublishersStamp' /\ WorkersStamp'
  BY <1>2, <1>9, <1>10, <1>13, WorkersBeside DEF Mid
<1>15. job[j].status \notin Terminal
  BY <1>5 DEF Terminal, Completed
<1> QED
  BY <1>2, <1>5, <1>10, <1>11, <1>12, <1>14, <1>15, OpenTimeline

(* Recovery: nobody works on the job, its last attempt is abandoned.        *)
LEMMA RecoverStep2 ==
    ASSUME TInv, CInv', NEW j \in Jobs, UNCHANGED timelineVars,
           RecoverExhausted(j) \/ \E p \in Publishers : RecoverForRetry(p, j)
    PROVE  TInv'
<1>1. /\ job[j].status = "processing" /\ Abandon(j)
      /\ UNCHANGED <<errors, snapshot, worker>>
      /\ Settle(j, TRUE, job[j].attempts, FALSE) \/ Settle(j, FALSE, job[j].attempts, FALSE)
  BY DEF RecoverExhausted, RecoverForRetry, Stale
<1>2. UNCHANGED <<events, pending, console>>
  BY DEF timelineVars
<1>3. /\ job \in [Jobs -> JobRow] /\ job' \in [Jobs -> JobRow] /\ attempt \in [Jobs -> Led]
  BY DEF TInv, CInv, RInv, IInv, TypeOK, Led
<1>4. /\ job'[j].status \in {"queued", "failed"} /\ job'[j].attempts = job[j].attempts
      /\ \A i \in Jobs \ {j} : job'[i] = job[i]
  BY <1>1, <1>3 DEF Settle, JobRow
<1>5. /\ attempt'[j] = [attempt[j] EXCEPT ![job[j].attempts] = "abandoned"]
      /\ \A i \in Jobs \ {j} : attempt'[i] = attempt[i]
  BY <1>1, <1>3 DEF Abandon
<1>6. job[j].attempts > 0 /\ attempt[j][job[j].attempts] = "running"
  BY <1>1 DEF TInv, CInv, RInv, IInv, ProcessingIsRecoverable
<1>7. StoryOf(Story(events', j), job'[j], attempt'[j])
  <2> DEFINE A == {}
  <2>1. Story(events, j) \in SUBSET Event /\ A \in SUBSET Event
    BY DEF TInv, TimelineTypeOK, Story
  <2>2. job[j] \in JobRow /\ job'[j] \in JobRow /\ attempt[j] \in Led
    BY <1>3
  <2>3. StoryOf(Story(events, j), job[j], attempt[j])
    BY DEF TInv, StoriesFit
  <2>4. \A x \in A : /\ x.n = job[j].attempts
                     /\ \A g \in Story(events, j) : g.at < x.at
                     /\ x.stage \in {"job.retry_scheduled", "job.failed", "job.completed",
                                     "payload.transformed"}
    OBVIOUS
  <2>5. \A x, y \in A : x.stage = y.stage => x = y
    OBVIOUS
  <2>6. /\ (\E x \in A : x.stage = "job.retry_scheduled") <=> "abandoned" = "retry_scheduled"
        /\ (\E x \in A : x.stage = "job.failed") <=> "abandoned" = "failed"
        /\ (\E x \in A : x.stage = "job.completed") <=> "abandoned" = "succeeded"
        /\ (\E x \in A : x.stage = "payload.transformed") <=> "abandoned" = "succeeded"
    OBVIOUS
  <2>7. /\ job'[j].status \notin {"absent", "processing"}
        /\ job'[j].status \in Completed <=> "abandoned" = "succeeded"
    BY <1>4 DEF Completed
  <2>8. Story(events', j) = Story(events, j) \union A
    BY <1>2 DEF Story
  <2> HIDE DEF A
  <2>9. StoryOf(Story(events, j) \union A, job'[j],
                [attempt[j] EXCEPT ![job[j].attempts] = "abandoned"])
    BY <1>4, <1>6, <2>1, <2>2, <2>3, <2>4, <2>5, <2>6, <2>7, EndedStory
  <2> QED
    BY <1>5, <2>8, <2>9
<1>8. TimelineTypeOK'
  BY <1>2 DEF TInv, TimelineTypeOK, Stamped
<1>9. PublishersStamp' /\ WorkersStamp'
  BY <1>1, <1>2 DEF TInv, PublishersStamp, WorkersStamp, Kept, Story
<1>10. \A i \in Jobs : Story(events', i) = Story(events, i) /\ Mine(snapshot', i) = Mine(snapshot, i)
  BY <1>1, <1>2
<1>11. job[j].status \notin Terminal
  BY <1>1 DEF Terminal, Completed
<1> QED
  BY <1>1, <1>2, <1>4, <1>5, <1>7, <1>8, <1>9, <1>10, <1>11, OpenTimeline

(* Steps that record nothing and move no job.                               *)
LEMMA UnrecordedStep ==
    ASSUME TInv, CInv', MovesNone, NEW x, UNCHANGED <<events, console>>,
           pending' = pending \/ (x \in Processes /\ Forget(x)),
           \A w \in Workers :
              \/ /\ worker'[w].stage \notin Mid
                 /\ ((x = w /\ Forget(x)) \/ worker[w].stage \notin Mid)
              \/ /\ x # w \/ pending' = pending
                 /\ worker'[w].job = worker[w].job /\ worker'[w].n = worker[w].n
                 /\ worker'[w].stage \in Mid <=> worker[w].stage \in Mid
    PROVE  TInv'
<1>0. pending \in [Processes -> SUBSET Event] /\ \A r \in Publishers \union Workers : r \in Processes
  BY PendingTyped DEF TInv
<1>1. TimelineTypeOK'
  <2>1. CASE pending' = pending
    BY <2>1 DEF TInv, TimelineTypeOK, Stamped
  <2>2. CASE x \in Processes /\ Forget(x)
    BY <2>2, DropTyped DEF TInv
  <2> QED
    BY <2>1, <2>2
<1>2. \A y \in Processes : pending'[y] = pending[y] \/ pending'[y] = {}
  BY <1>0 DEF Forget
<1>3. PublishersStamp'
  BY <1>0, <1>2 DEF TInv, PublishersStamp
<1>4. \A w \in Workers : worker[w].stage \notin Mid => pending[w] = {}
  BY DEF TInv, WorkersStamp
<1>5. WorkersStamp'
  <2> SUFFICES ASSUME NEW w \in Workers
               PROVE  \/ worker'[w].stage \notin Mid /\ pending'[w] = {}
                      \/ /\ pending'[w] = pending[w]
                         /\ worker'[w].job = worker[w].job /\ worker'[w].n = worker[w].n
                         /\ worker'[w].stage \in Mid <=> worker[w].stage \in Mid
                         /\ worker[w].stage \in Mid =>
                               Story(events', worker[w].job) = Story(events, worker[w].job)
    BY StampsStay
  <2>1. x # w \/ pending' = pending => pending'[w] = pending[w]
    BY <1>0 DEF Forget
  <2>2. x = w /\ Forget(x) => pending'[w] = {}
    BY <1>0 DEF Forget
  <2> QED
    BY <1>0, <1>2, <1>4, <2>1, <2>2
<1> QED
  BY <1>1, <1>3, <1>5, QuietTimeline

LEMMA AbortedStep ==
    ASSUME TInv, CInv', Faults = {}, NEW x \in Processes, Aborted(x)
    PROVE  TInv'
<1>1. Forget(x) /\ UNCHANGED <<events, console>>
  BY DEF Aborted, RollBack
<1>2. worker \in [Workers -> WorkerState]
  BY Rows DEF TInv
<1>3. CASE x \in Publishers /\ PublisherStops(x)
  <2>1. UNCHANGED dbVars /\ worker' = worker
    BY <1>3 DEF PublisherStops
  <2>2. MovesNone
    BY <2>1, QuietMoves DEF TInv, CInv
  <2>3. \A w \in Workers : x # w
    BY <1>3, ProcessesAssumption
  <2> QED
    BY <1>1, <2>1, <2>2, <2>3, UnrecordedStep
<1>4. CASE x \in Workers /\ (FlushConflict(x) \/ Fail(x) \/ Crash(x))
  <2>1. UNCHANGED dbVars
    BY <1>4 DEF FlushConflict, Fail, Crash
  <2>2. MovesNone
    BY <2>1, QuietMoves DEF TInv, CInv
  <2>3. \/ worker' = [worker EXCEPT ![x] = IdleWorker]
        \/ \E i, n, b : Failing(x, i, n, b)
    <3>1. CASE FlushConflict(x)
      BY <3>1 DEF FlushConflict
    <3>2. CASE Fail(x)
      BY <3>2 DEF Fail
    <3>3. CASE Crash(x)
      BY <3>3 DEF Crash
    <3> QED
      BY <1>4, <3>1, <3>2, <3>3
  <2>4. worker'[x].stage \notin Mid /\ \A w \in Workers \ {x} : worker'[w] = worker[w]
    <3>1. CASE worker' = [worker EXCEPT ![x] = IdleWorker]
      BY <1>2, <1>4, <3>1 DEF IdleWorker, Mid
    <3>2. CASE \E i, n, b : Failing(x, i, n, b)
      <4>1. PICK i, n, b : worker' = [worker EXCEPT ![x] =
               [IdleWorker EXCEPT !.stage = "failing", !.job = i, !.n = n, !.retryable = b]]
        BY <3>2 DEF Failing
      <4>2. \A w \in Workers \ {x} : worker'[w] = worker[w]
        BY <1>2, <4>1
      <4>3. worker'[x].stage = "failing"
        BY <1>2, <1>4, <4>1 DEF IdleWorker
      <4> QED
        BY <4>2, <4>3 DEF Mid
    <3> QED
      BY <2>3, <3>1, <3>2
  <2> QED
    BY <1>1, <2>2, <2>4, UnrecordedStep
<1> QED
  BY <1>3, <1>4 DEF Aborted

LEMMA SilentStep ==
    ASSUME TInv, CInv', Faults = {}, Silent
    PROVE  TInv'
<1>1. UNCHANGED timelineVars /\ UNCHANGED <<events, pending, console>>
  BY DEF Silent, timelineVars
<1>2. worker \in [Workers -> WorkerState]
  BY Rows DEF TInv
<1>3. CASE \E j \in Jobs : RecoverExhausted(j) \/ \E p \in Publishers : RecoverForRetry(p, j)
  BY <1>1, <1>3, RecoverStep2
<1>4. CASE \/ \E p \in Publishers :
                \/ \E j \in Jobs : Resubmit(p, j) \/ SelectDue(p, j)
                \/ Publish(p) \/ PublishFails(p) \/ ReadForReceipt(p)
           \/ \E w \in Workers, j \in Jobs : Skip(w, j)
           \/ \E j \in Jobs : LoseMessage(j)
  <2>1. UNCHANGED dbVars /\ worker' = worker
    BY <1>4 DEF Resubmit, SelectDue, Publish, PublishFails, ReadForReceipt, Skip, LoseMessage
  <2>2. MovesNone
    BY <2>1, QuietMoves DEF TInv, CInv
  <2> QED
    BY <1>1, <2>1, <2>2, UnrecordedStep
<1>5. CASE \E j \in Jobs : LeaseExpires(j) \/ BackoffEnds(j) \/ ReceiptAges(j)
  <2>1. worker' = worker
    BY <1>5 DEF LeaseExpires, BackoffEnds, ReceiptAges
  <2>2. MovesNone
    BY <1>5, QuietMoves DEF TInv, CInv
  <2> QED
    BY <1>1, <2>1, <2>2, UnrecordedStep
<1>6. ASSUME NEW w \in Workers, Flush(w) \/ RecordFailureFails(w) PROVE TInv'
  <2>1. UNCHANGED dbVars
    BY <1>6 DEF Flush, RecordFailureFails
  <2>2. MovesNone
    BY <2>1, QuietMoves DEF TInv, CInv
  <2>3. \A v \in Workers \ {w} : worker'[v] = worker[v]
    BY <1>2, <1>6 DEF Flush, RecordFailureFails
  <2>4. \/ /\ worker'[w].stage \notin Mid /\ worker[w].stage \notin Mid
        \/ /\ worker'[w].job = worker[w].job /\ worker'[w].n = worker[w].n
           /\ worker'[w].stage \in Mid /\ worker[w].stage \in Mid
    BY <1>2, <1>6 DEF Flush, RecordFailureFails, Mid, IdleWorker, WorkerState
  <2> QED
    BY <1>1, <2>2, <2>3, <2>4, UnrecordedStep
<1>7. CASE \E w \in Workers, j \in Jobs : ClaimFails(w, j)
  BY <1>7 DEF ClaimFails
<1> QED
  BY <1>3, <1>4, <1>5, <1>6, <1>7 DEF Silent, JobNext

---------------------------------------------------------------------------
(* Consoles.                                                                *)

LEMMA ConsoleMoves ==
    ASSUME TInv, CInv', NEW c \in Consoles, ConsoleOnly,
           console' \in [Consoles -> ConsoleState],
           \A d \in Consoles \ {c} : console'[d] = console[d],
           NEW q, q = console'[c], Fits(q)
    PROVE  TInv'
<1>1. UNCHANGED <<job, attempt, errors, snapshot, worker, publisher, events, pending>>
  BY DEF ConsoleOnly, vars
<1>3. TimelineTypeOK'
  BY <1>1 DEF TInv, TimelineTypeOK, Stamped
<1>4. StoriesFit' /\ PublishersStamp' /\ WorkersStamp'
  BY <1>1 DEF TInv, StoriesFit, PublishersStamp, WorkersStamp, Kept, Story
<1>5. ConsolesFit'
  <2> SUFFICES ASSUME NEW d \in Consoles PROVE Fits(console[d])'
    BY DEF ConsolesFit
  <2>1. Fits(console'[d])
    BY DEF TInv, ConsolesFit
  <2> QED
    BY <1>1, <2>1 DEF Fits, Story
<1> QED
  BY <1>3, <1>4, <1>5 DEF TInv

LEMMA ConsoleTyped ==
    ASSUME TInv
    PROVE  /\ console \in [Consoles -> ConsoleState] /\ MaxPolls \in Nat
           /\ \A c \in Consoles : Fits(console[c])
           /\ \A j \in Jobs : job[j].status \in JobStatus /\ job[j].counts \in Counts
  BY MaxPollsAssumption DEF TInv, TimelineTypeOK, ConsolesFit, CInv, RInv, IInv, TypeOK, JobRow

(* A console whose page, if it reads one, has read the job at most.         *)
LEMMA AtTyped ==
    ASSUME NEW stage \in {"closed", "polling", "told", "snapshots"},
           NEW j \in Jobs \union {NoJob}, NEW b \in BOOLEAN,
           NEW told \in {"nothing"} \union Terminal,
           NEW status \in JobStatus, NEW counts \in Counts
    PROVE  ConsoleAt(stage, j, b, told, PageOf(status, counts)) \in ConsoleState
<1>1. [n \in 1 .. MaxAttempts |-> "absent"] \in [1 .. MaxAttempts -> AttemptStatus]
  BY DEF AttemptStatus
<1>2. PageOf(status, counts) \in Page
  BY <1>1 DEF PageOf, Page
<1>3. 0 \in 0 .. MaxPolls
  BY MaxPollsAssumption
<1>4. {} \in SUBSET Nat /\ FALSE \in BOOLEAN
  OBVIOUS
<1> HIDE DEF PageOf, Page, JobStatus, Counts, Terminal
<1> QED
  BY <1>2, <1>3, <1>4 DEF ConsoleAt, ConsoleState

LEMMA EmptyTyped ==
    "absent" \in JobStatus /\ NoCounts \in Counts /\ "nothing" \in {"nothing"} \union Terminal
  BY DEF JobStatus, Counts, NoCounts

LEMMA Puts ==
    ASSUME TInv, CInv', NEW c \in Consoles, ConsoleOnly, NEW q \in ConsoleState,
           console' = [console EXCEPT ![c] = q], Fits(q)
    PROVE  TInv'
<1>1. console \in [Consoles -> ConsoleState]
  BY ConsoleTyped
<1>2. /\ console' \in [Consoles -> ConsoleState] /\ q = console'[c]
      /\ \A d \in Consoles \ {c} : console'[d] = console[d]
  BY <1>1
<1> QED
  BY <1>2, ConsoleMoves

(* A console opens, or goes to the page without an outcome.                 *)
LEMMA Opens ==
    ASSUME TInv, CInv', NEW c \in Consoles, ConsoleOnly, NEW j \in Jobs, NEW b \in BOOLEAN,
           NEW stage \in {"polling", "told"},
           console' = [console EXCEPT
              ![c] = ConsoleAt(stage, j, b, "nothing", EmptyPage)]
    PROVE  TInv'
<1> DEFINE q == ConsoleAt(stage, j, b, "nothing", EmptyPage)
<1>1. q \in ConsoleState
  BY EmptyTyped, AtTyped DEF EmptyPage
<1>2. q.stage = stage /\ q.job = j /\ q.settled = FALSE /\ q.told = "nothing"
  BY DEF ConsoleAt
<1>3. "nothing" \notin Terminal /\ stage \notin Reading /\ stage # "closed"
  BY DEF Terminal, Completed, Reading
<1>4. console' = [console EXCEPT ![c] = q]
  OBVIOUS
<1> HIDE DEF q
<1>5. Fits(q)
  BY <1>2, <1>3 DEF Fits
<1> QED
  BY <1>1, <1>4, <1>5, Puts

LEMMA OpenSteps ==
    ASSUME TInv, CInv', NEW c \in Consoles,
           \/ \E j \in Jobs : OpenPage(c, j) \/ \E b \in BOOLEAN : OpenStream(c, j, b)
           \/ EndUnsettled(c) \/ Disconnect(c)
    PROVE  TInv'
<1>1. ASSUME NEW j \in Jobs, OpenPage(c, j) PROVE TInv'
  BY <1>1, Opens DEF OpenPage
<1>2. ASSUME NEW j \in Jobs, NEW b \in BOOLEAN, OpenStream(c, j, b) PROVE TInv'
  BY <1>2, Opens DEF OpenStream
<1>3. CASE EndUnsettled(c) \/ Disconnect(c)
  <2>1. console[c].stage # "closed" /\ GoToPage(c)
    BY <1>3 DEF EndUnsettled, Disconnect
  <2>2. console[c].job \in Jobs
    BY <2>1, ConsoleTyped DEF Fits
  <2> QED
    BY <2>1, <2>2, Opens DEF GoToPage
<1> QED
  BY <1>1, <1>2, <1>3

LEMMA CloseStep ==
    ASSUME TInv, CInv', NEW c \in Consoles, CloseConsole(c)
    PROVE  TInv'
<1> DEFINE q == ClosedConsole
<1>1. q \in ConsoleState
  BY EmptyTyped, AtTyped DEF ClosedConsole, EmptyPage
<1>2. q.stage = "closed" /\ q.settled = FALSE /\ q.told = "nothing"
  BY DEF ClosedConsole, ConsoleAt
<1>3. "nothing" \notin Terminal /\ "closed" \notin Reading
  BY DEF Terminal, Completed, Reading
<1>4. console' = [console EXCEPT ![c] = q] /\ ConsoleOnly
  BY DEF CloseConsole
<1> HIDE DEF q
<1>5. Fits(q)
  BY <1>2, <1>3 DEF Fits
<1> QED
  BY <1>1, <1>4, <1>5, Puts

(* A console changes some of the fields of its stream.                      *)
LEMMA StreamMoves ==
    ASSUME TInv, CInv', NEW c \in Consoles, ConsoleOnly, console[c].stage \in {"polling", "listed"},
           NEW stage \in {"polling", "listed", "told"}, NEW polls \in 0 .. MaxPolls,
           NEW seen \in SUBSET Nat, NEW settled \in BOOLEAN,
           NEW told \in {"nothing"} \union Terminal,
           console' = [console EXCEPT ![c].stage = stage, ![c].polls = polls,
                          ![c].seen = seen, ![c].settled = settled, ![c].told = told],
           settled => /\ job[console[c].job].status \in Terminal
                      /\ \A e \in Story(events, console[c].job) : e.at \in seen,
           told \in Terminal => job[console[c].job].status = told
    PROVE  TInv'
<1> DEFINE r == console[c]
           q == console'[c]
<1>1. /\ console \in [Consoles -> ConsoleState] /\ Fits(r)
      /\ stage \notin Reading /\ stage # "closed"
  BY ConsoleTyped DEF Reading
<1>2. r.job \in Jobs /\ r \in ConsoleState
  BY <1>1 DEF Fits
<1>3. /\ q = [r EXCEPT !.stage = stage, !.polls = polls, !.seen = seen,
                       !.settled = settled, !.told = told]
      /\ \A d \in Consoles \ {c} : console'[d] = console[d]
      /\ console' = [console EXCEPT ![c] = q]
  BY <1>1
<1> HIDE DEF q
<1>4. q \in ConsoleState
  BY <1>2, <1>3 DEF ConsoleState
<1>5. /\ q.stage = stage /\ q.job = r.job /\ q.seen = seen /\ q.settled = settled
      /\ q.told = told
  BY <1>2, <1>3 DEF ConsoleState
<1>6. Fits(q)
  BY <1>1, <1>2, <1>5 DEF Fits
<1> QED
  BY <1>3, <1>4, <1>6, Puts
LEMMA ListStep ==
    ASSUME TInv, CInv', NEW c \in Consoles, ListEvents(c)
    PROVE  TInv'
<1>1. console \in [Consoles -> ConsoleState] /\ console[c].stage = "polling" /\ ConsoleOnly
  BY ConsoleTyped DEF ListEvents
<1>2. PICK seen : seen = console[c].seen \union {e.at : e \in Unsent(c)}
  OBVIOUS
<1>3. PICK settled \in BOOLEAN : settled <=> job[console[c].job].status \in Terminal
  OBVIOUS
<1>4. settled = (job[console[c].job].status \in Terminal)
  BY <1>3
<1>5. seen \in SUBSET Nat
  <2>1. events \in SUBSET Event
    BY DEF TInv, TimelineTypeOK
  <2>2. console[c].seen \in SUBSET Nat
    BY <1>1 DEF ConsoleState
  <2>3. \A e \in Unsent(c) : e.at \in Nat
    BY <2>1, EventTyped DEF Unsent, EventsOf
  <2> QED
    BY <1>2, <2>2, <2>3
<1>6. \A e \in Story(events, console[c].job) : e.at \in seen
  BY <1>2 DEF Story, Unsent, EventsOf
<1>7. PICK polls \in 0 .. MaxPolls : polls = console[c].polls
  BY <1>1 DEF ConsoleState
<1>8. PICK told \in {"nothing"} \union Terminal : told = console[c].told
  BY <1>1 DEF ConsoleState
<1>9. console' = [console EXCEPT ![c].stage = "listed", ![c].polls = polls,
                     ![c].seen = seen, ![c].settled = settled, ![c].told = told]
  <2>1. console' = [console EXCEPT ![c].stage = "listed", ![c].seen = seen,
                                   ![c].settled = settled]
    BY <1>2, <1>4 DEF ListEvents
  <2> QED
    BY <1>1, <1>7, <1>8, <2>1 DEF ConsoleState
<1>10. told \in Terminal => job[console[c].job].status = told
  BY <1>8, ConsoleTyped DEF Fits
<1> QED
  BY <1>1, <1>3, <1>5, <1>6, <1>9, <1>10, StreamMoves

LEMMA FollowSteps ==
    ASSUME TInv, CInv', NEW c \in Consoles, TellOutcome(c) \/ Sleep(c)
    PROVE  TInv'
<1>1. console \in [Consoles -> ConsoleState] /\ console[c].stage = "listed" /\ ConsoleOnly
  BY ConsoleTyped DEF TellOutcome, Sleep
<1>2. PICK seen \in SUBSET Nat : seen = console[c].seen
  BY <1>1 DEF ConsoleState
<1>3. PICK settled \in BOOLEAN : settled = console[c].settled
  BY <1>1 DEF ConsoleState
<1>4. settled => /\ job[console[c].job].status \in Terminal
                 /\ \A e \in Story(events, console[c].job) : e.at \in seen
  BY <1>2, <1>3, ConsoleTyped DEF Fits
<1>5. CASE TellOutcome(c)
  <2>1. PICK polls \in 0 .. MaxPolls : polls = console[c].polls
    BY <1>1 DEF ConsoleState
  <2>2. PICK told \in {"nothing"} \union Terminal : told = job[console[c].job].status
    BY <1>5 DEF TellOutcome, Settled
  <2>3. console' = [console EXCEPT ![c].stage = "told", ![c].polls = polls,
                       ![c].seen = seen, ![c].settled = settled, ![c].told = told]
    <3>1. console' = [console EXCEPT ![c].stage = "told", ![c].told = told]
      BY <1>5, <2>2 DEF TellOutcome
    <3> QED
      BY <1>1, <1>2, <1>3, <2>1, <3>1 DEF ConsoleState
  <2>4. told \in Terminal => job[console[c].job].status = told
    BY <2>2
  <2> QED
    BY <1>1, <1>4, <2>3, <2>4, StreamMoves
<1>6. CASE Sleep(c)
  <2>1. console[c].polls + 1 \in 0 .. MaxPolls
    BY <1>1, <1>6, ConsoleTyped DEF Sleep, ConsoleState
  <2>2. PICK polls \in 0 .. MaxPolls : polls = console[c].polls + 1
    BY <2>1
  <2>3. PICK told \in {"nothing"} \union Terminal : told = console[c].told
    BY <1>1 DEF ConsoleState
  <2>4. console' = [console EXCEPT ![c].stage = "polling", ![c].polls = polls,
                       ![c].seen = seen, ![c].settled = settled, ![c].told = told]
    <3>1. console' = [console EXCEPT ![c].stage = "polling", ![c].polls = polls]
      BY <1>6, <2>2 DEF Sleep
    <3> QED
      BY <1>1, <1>2, <1>3, <2>3, <3>1 DEF ConsoleState
  <2>5. told \in Terminal => job[console[c].job].status = told
    BY <2>3, ConsoleTyped DEF Fits
  <2> QED
    BY <1>1, <1>4, <2>4, <2>5, StreamMoves
<1> QED
  BY <1>5, <1>6

(* The page reads the job.                                                  *)
LEMMA JobRead ==
    ASSUME TInv, CInv', NEW c \in Consoles, ReadJob(c)
    PROVE  TInv'
<1> DEFINE r == console[c]
           row == job[r.job]
           q == ConsoleAt("snapshots", r.job, FALSE, r.told, PageOf(row.status, row.counts))
<1>1. console \in [Consoles -> ConsoleState] /\ r.stage = "told" /\ Fits(r) /\ ConsoleOnly
  BY ConsoleTyped DEF ReadJob
<1>2. r.job \in Jobs /\ r.told \in {"nothing"} \union Terminal
  BY <1>1 DEF Fits, ConsoleState
<1>3. row.status \in JobStatus /\ row.counts \in Counts
  BY <1>2, ConsoleTyped
<1>4. q \in ConsoleState
  BY <1>2, <1>3, AtTyped
<1>5. console' = [console EXCEPT ![c] = q]
  BY DEF ReadJob
<1>6. /\ q.stage = "snapshots" /\ q.job = r.job /\ q.told = r.told /\ q.settled = FALSE
      /\ q.page.status = row.status /\ q.page.counts = row.counts
  BY DEF ConsoleAt, PageOf
<1> HIDE DEF q
<1>7. Fits(q)
  BY <1>1, <1>2, <1>6 DEF Fits
<1> QED
  BY <1>1, <1>4, <1>5, <1>7, Puts
(* What has been read of a settled job is right, stage by stage.            *)
PageFits(q, stage, page) ==
    LET j == q.job
    IN  /\ q.told \in Terminal => page.status = q.told
        /\ page.status \in Terminal =>
              /\ job[j].status = page.status /\ job[j].counts = page.counts
              /\ stage # "snapshots" => page.imported = Mine(snapshot, j)
              /\ stage \notin {"snapshots", "events"} =>
                    \A e \in Story(events, j) : <<e.stage, e.n>> \in page.events
              /\ stage \in {"errors", "shown"} => page.attempts = attempt[j]
              /\ stage = "shown" => page.errors = errors[j]

(* The page reads its next part.                                            *)
LEMMA PageMoves ==
    ASSUME TInv, CInv', NEW c \in Consoles, ConsoleOnly, console[c].stage \in Reading,
           NEW stage \in Reading, NEW page \in Page,
           console' = [console EXCEPT ![c].stage = stage, ![c].page = page],
           PageFits(console[c], stage, page)
    PROVE  TInv'
<1> DEFINE r == console[c]
           q == console'[c]
<1>1. console \in [Consoles -> ConsoleState] /\ Fits(r) /\ stage # "closed"
  BY ConsoleTyped DEF Reading
<1>2. r.job \in Jobs /\ r \in ConsoleState
  BY <1>1 DEF Fits, Reading
<1>3. /\ q = [r EXCEPT !.stage = stage, !.page = page]
      /\ console' = [console EXCEPT ![c] = q]
  BY <1>1
<1> HIDE DEF q
<1>4. q \in ConsoleState
  <2>1. stage \in {"snapshots", "events", "attempts", "errors", "shown"}
    BY DEF Reading
  <2> HIDE DEF Page
  <2> QED
    BY <1>2, <1>3, <2>1 DEF ConsoleState
<1>5. /\ q.stage = stage /\ q.job = r.job /\ q.seen = r.seen /\ q.settled = r.settled
      /\ q.told = r.told /\ q.page = page
  BY <1>2, <1>3 DEF ConsoleState
<1>6. Fits(q)
  BY <1>1, <1>2, <1>5 DEF Fits, PageFits
<1> QED
  BY <1>3, <1>4, <1>6, Puts

(* The page of a console that is reading.                                   *)
LEMMA PageTyped ==
    ASSUME TInv, NEW c \in Consoles, console[c].stage \in Reading
    PROVE  /\ console[c].page \in Page /\ console[c].job \in Jobs
           /\ PageFits(console[c], console[c].stage, console[c].page)
<1>1. console[c] \in ConsoleState /\ Fits(console[c])
  BY ConsoleTyped
<1>2. console[c].stage # "closed"
  BY DEF Reading
<1> QED
  BY <1>1, <1>2 DEF ConsoleState, Fits, PageFits

LEMMA SnapshotsRead ==
    ASSUME TInv, CInv', NEW c \in Consoles, ReadSnapshots(c)
    PROVE  TInv'
<1> DEFINE r == console[c]
<1>1. /\ console \in [Consoles -> ConsoleState] /\ r.stage = "snapshots" /\ ConsoleOnly
      /\ r.stage \in Reading /\ "events" \in Reading
  BY ConsoleTyped DEF ReadSnapshots, Reading
<1>2. r.page \in Page /\ r.job \in Jobs /\ PageFits(r, r.stage, r.page)
  BY <1>1, PageTyped
<1>3. PICK page : page = [r.page EXCEPT !.imported = Mine(snapshot, r.job)]
  OBVIOUS
<1>4. page \in Page
  BY <1>2, <1>3 DEF Page, Mine
<1>5. /\ page.status = r.page.status /\ page.counts = r.page.counts
      /\ page.imported = Mine(snapshot, r.job)
  BY <1>2, <1>3 DEF Page
<1>6. console' = [console EXCEPT ![c].stage = "events", ![c].page = page]
  BY <1>1, <1>3 DEF ReadSnapshots, Mine, ConsoleState
<1>7. PageFits(r, "events", page)
  BY <1>1, <1>2, <1>5 DEF PageFits
<1> QED
  BY <1>1, <1>4, <1>6, <1>7, PageMoves

LEMMA EventsRead ==
    ASSUME TInv, CInv', NEW c \in Consoles, ReadEvents(c)
    PROVE  TInv'
<1> DEFINE r == console[c]
<1>1. /\ console \in [Consoles -> ConsoleState] /\ r.stage = "events" /\ ConsoleOnly
      /\ r.stage \in Reading /\ "attempts" \in Reading
  BY ConsoleTyped DEF ReadEvents, Reading
<1>2. r.page \in Page /\ r.job \in Jobs /\ PageFits(r, r.stage, r.page)
  BY <1>1, PageTyped
<1>3. PICK shown : shown = {<<e.stage, e.n>> : e \in EventsOf(r.job)}
  OBVIOUS
<1>4. PICK page : page = [r.page EXCEPT !.events = shown]
  OBVIOUS
<1>5. events \in SUBSET Event
  BY DEF TInv, TimelineTypeOK
<1>6. shown \in SUBSET (EventStage \X (0 .. MaxAttempts))
  BY <1>3, <1>5 DEF EventsOf, Event
<1>7. page \in Page
  BY <1>2, <1>4, <1>6 DEF Page
<1>8. /\ page.status = r.page.status /\ page.counts = r.page.counts
      /\ page.imported = r.page.imported /\ page.events = shown
  BY <1>2, <1>4 DEF Page
<1>9. console' = [console EXCEPT ![c].stage = "attempts", ![c].page = page]
  BY <1>1, <1>3, <1>4 DEF ReadEvents, ConsoleState
<1>10. \A e \in Story(events, r.job) : <<e.stage, e.n>> \in page.events
  BY <1>3, <1>8 DEF Story, EventsOf
<1>11. PageFits(r, "attempts", page)
  BY <1>1, <1>2, <1>8, <1>10 DEF PageFits
<1> QED
  BY <1>1, <1>7, <1>9, <1>11, PageMoves

LEMMA AttemptsRead ==
    ASSUME TInv, CInv', NEW c \in Consoles, ReadAttempts(c)
    PROVE  TInv'
<1> DEFINE r == console[c]
<1>1. /\ console \in [Consoles -> ConsoleState] /\ r.stage = "attempts" /\ ConsoleOnly
      /\ r.stage \in Reading /\ "errors" \in Reading
  BY ConsoleTyped DEF ReadAttempts, Reading
<1>2. r.page \in Page /\ r.job \in Jobs /\ PageFits(r, r.stage, r.page)
  BY <1>1, PageTyped
<1>3. PICK page : page = [r.page EXCEPT !.attempts = attempt[r.job]]
  OBVIOUS
<1>4. attempt[r.job] \in [1 .. MaxAttempts -> AttemptStatus]
  BY <1>2 DEF TInv, CInv, RInv, IInv, TypeOK
<1>5. page \in Page
  BY <1>2, <1>3, <1>4 DEF Page
<1>6. /\ page.status = r.page.status /\ page.counts = r.page.counts
      /\ page.imported = r.page.imported /\ page.events = r.page.events
      /\ page.attempts = attempt[r.job]
  BY <1>2, <1>3 DEF Page
<1>7. console' = [console EXCEPT ![c].stage = "errors", ![c].page = page]
  BY <1>1, <1>3 DEF ReadAttempts, ConsoleState
<1>8. PageFits(r, "errors", page)
  BY <1>1, <1>2, <1>6 DEF PageFits
<1> QED
  BY <1>1, <1>5, <1>7, <1>8, PageMoves

LEMMA ErrorsRead ==
    ASSUME TInv, CInv', NEW c \in Consoles, ReadErrors(c)
    PROVE  TInv'
<1> DEFINE r == console[c]
<1>1. /\ console \in [Consoles -> ConsoleState] /\ r.stage = "errors" /\ ConsoleOnly
      /\ r.stage \in Reading /\ "shown" \in Reading
  BY ConsoleTyped DEF ReadErrors, Reading
<1>2. r.page \in Page /\ r.job \in Jobs /\ PageFits(r, r.stage, r.page)
  BY <1>1, PageTyped
<1>3. PICK page : page = [r.page EXCEPT !.errors = errors[r.job]]
  OBVIOUS
<1>4. errors[r.job] \in SUBSET Keys
  BY <1>2 DEF TInv, CInv, RInv, IInv, TypeOK
<1>5. page \in Page
  BY <1>2, <1>3, <1>4 DEF Page
<1>6. /\ page.status = r.page.status /\ page.counts = r.page.counts
      /\ page.imported = r.page.imported /\ page.events = r.page.events
      /\ page.attempts = r.page.attempts /\ page.errors = errors[r.job]
  BY <1>2, <1>3 DEF Page
<1>7. console' = [console EXCEPT ![c].stage = "shown", ![c].page = page]
  BY <1>1, <1>3 DEF ReadErrors, ConsoleState
<1>8. PageFits(r, "shown", page)
  BY <1>1, <1>2, <1>6 DEF PageFits
<1> QED
  BY <1>1, <1>5, <1>7, <1>8, PageMoves

LEMMA ConsoleStep ==
    ASSUME TInv, CInv', NEW c \in Consoles, ConsoleNext(c)
    PROVE  TInv'
<1>1. CASE \/ \E j \in Jobs : OpenPage(c, j) \/ \E b \in BOOLEAN : OpenStream(c, j, b)
           \/ EndUnsettled(c) \/ Disconnect(c)
  BY <1>1, OpenSteps
<1>2. CASE ListEvents(c) \/ TellOutcome(c) \/ Sleep(c)
  BY <1>2, ListStep, FollowSteps
<1>3. CASE \/ ReadJob(c) \/ ReadSnapshots(c) \/ ReadEvents(c) \/ ReadAttempts(c)
           \/ ReadErrors(c) \/ CloseConsole(c)
  BY <1>3, JobRead, SnapshotsRead, EventsRead, AttemptsRead, ErrorsRead, CloseStep
<1> QED
  BY <1>1, <1>2, <1>3 DEF ConsoleNext
---------------------------------------------------------------------------
(* The invariant is inductive.                                              *)

LEMMA TInit == TimelineInit => TInv
<1> SUFFICES ASSUME TimelineInit PROVE TInv
  OBVIOUS
<1>0. Init /\ CInv
  BY CInit DEF TimelineInit
<1>1. events = {} /\ pending = [x \in Processes |-> {}]
      /\ console = [c \in Consoles |-> ClosedConsole]
  BY DEF TimelineInit
<1>2. TimelineTypeOK
  <2>1. ClosedConsole \in ConsoleState
    BY EmptyTyped, AtTyped DEF ClosedConsole, EmptyPage
  <2>2. Stamped = {}
    BY <1>1 DEF Stamped
  <2> QED
    BY <1>1, <2>1, <2>2 DEF TimelineTypeOK
<1>3. StoriesFit
  <2> SUFFICES ASSUME NEW j \in Jobs PROVE StoryOf(Story(events, j), job[j], attempt[j])
    BY DEF StoriesFit
  <2>1. Story(events, j) = {}
    BY <1>1 DEF Story
  <2>2. /\ job[j].status = "absent" /\ job[j].attempts = 0
        /\ \A n \in 1 .. MaxAttempts : attempt[j][n] = "absent"
    BY <1>0 DEF Init, AbsentJob
  <2>3. ExplainsOf({}, job[j], attempt[j])
    BY <2>2, MaxAttemptsAssumption DEF ExplainsOf, Tells
  <2>4. ToldOnce({}) /\ OrderedOf({}) /\ FitsRow({}, job[j])
    BY DEF ToldOnce, OrderedOf, FitsRow
  <2>5. LedgerOf(job[j], attempt[j])
    BY <2>2 DEF LedgerOf, Completed
  <2> QED
    BY <2>1, <2>3, <2>4, <2>5 DEF StoryOf
<1>4. PublishersStamp
  BY <1>1 DEF PublishersStamp, Processes
<1>5. WorkersStamp
  BY <1>0, <1>1 DEF Init, WorkersStamp, Processes, Mid, IdleWorker
<1>6. ConsolesFit
  <2>1. ClosedConsole.stage = "closed" /\ ClosedConsole.settled = FALSE
        /\ ClosedConsole.told = "nothing"
    BY DEF ClosedConsole, ConsoleAt
  <2>2. "nothing" \notin Terminal /\ "closed" \notin Reading
    BY DEF Terminal, Completed, Reading
  <2> HIDE DEF ClosedConsole
  <2> QED
    BY <1>1, <2>1, <2>2 DEF ConsolesFit, Fits
<1> QED
  BY <1>0, <1>2, <1>3, <1>4, <1>5, <1>6 DEF TInv

LEMMA TStep ==
    ASSUME Faults = {}, TInv, [TimelineNext]_allVars
    PROVE  TInv'
<1>0. CInv'
  BY TimelineMoves, CountsStep DEF TInv
<1>1. ASSUME NEW p \in Publishers,
             StampReceipt(p) \/ RecordedReceipt(p) \/ \E j \in Jobs : RecordedSubmit(p, j)
      PROVE  TInv'
  BY <1>0, <1>1, ReceiptSteps, SubmitStep2
<1>2. ASSUME NEW w \in Workers,
             \/ \E j \in Jobs : RecordedClaim(w, j)
             \/ StampedCheck(w) \/ RecordedFinish(w) \/ RecordedFailure(w)
      PROVE  TInv'
  BY <1>0, <1>2, ClaimStep2, CheckStep2, FinishStep2, FailureStep2
<1>3. ASSUME NEW x \in Processes, Aborted(x) PROVE TInv'
  BY <1>0, <1>3, AbortedStep
<1>4. CASE Silent
  BY <1>0, <1>4, SilentStep
<1>5. ASSUME NEW c \in Consoles, ConsoleNext(c) PROVE TInv'
  BY <1>0, <1>5, ConsoleStep
<1>6. CASE UNCHANGED allVars
  <2>1. UNCHANGED <<job, attempt, errors, snapshot, worker, publisher, events, pending, console>>
    BY <1>6 DEF allVars, vars, timelineVars
  <2>2. TimelineTypeOK'
    BY <2>1 DEF TInv, TimelineTypeOK, Stamped
  <2>3. StoriesFit' /\ PublishersStamp' /\ WorkersStamp'
    BY <2>1 DEF TInv, StoriesFit, PublishersStamp, WorkersStamp, Kept, Story
  <2>4. ConsolesFit'
    BY <2>1 DEF TInv, ConsolesFit, Fits, Story
  <2> QED
    BY <1>0, <2>2, <2>3, <2>4 DEF TInv
<1> QED
  BY <1>1, <1>2, <1>3, <1>4, <1>5, <1>6 DEF TimelineNext

THEOREM TimelineInvariance ==
  ASSUME Faults = {}
  PROVE  TimelineSpec => []TInv
<1>1. TInv /\ [TimelineNext]_allVars => TInv'
  BY TStep
<1> QED
  BY <1>1, TInit, PTL DEF TimelineSpec

(* The timeline tells each attempt's claim and end, and nothing else.       *)
THEOREM TimelineTold ==
  ASSUME Faults = {}
  PROVE  TimelineSpec => []TimelineExplains
<1>1. ASSUME TInv PROVE TimelineExplains
  <2> SUFFICES ASSUME NEW j \in Jobs
               PROVE  /\ \A n \in 1 .. MaxAttempts :
                            /\ Told(j, "worker.claimed", n) <=> n <= job[j].attempts
                            /\ Told(j, "job.retry_scheduled", n) <=> attempt[j][n] = "retry_scheduled"
                            /\ Told(j, "job.failed", n) <=> attempt[j][n] = "failed"
                            /\ Told(j, "job.completed", n) <=> attempt[j][n] = "succeeded"
                            /\ Told(j, "payload.transformed", n) <=> attempt[j][n] = "succeeded"
                      /\ \A e, f \in EventsOf(j) :
                            e.stage = f.stage /\ e.n = f.n /\ e.stage # "job.dispatched" => e = f
    BY DEF TimelineExplains
  <2>1. StoryOf(Story(events, j), job[j], attempt[j])
    BY <1>1 DEF TInv, StoriesFit
  <2>2. ASSUME NEW stage, stage # "job.dispatched", NEW n
        PROVE  Told(j, stage, n) <=> Tells(Story(events, j), stage, n)
    BY <2>2 DEF Told, Tells, Story, EventsOf
  <2>3. ExplainsOf(Story(events, j), job[j], attempt[j]) /\ ToldOnce(Story(events, j))
    BY <2>1 DEF StoryOf
  <2>4. \A e \in EventsOf(j) : e.stage # "job.dispatched" => e \in Story(events, j)
    BY DEF EventsOf, Story
  <2> QED
    BY <2>2, <2>3, <2>4 DEF ExplainsOf, ToldOnce
<1> QED
  BY <1>1, TimelineInvariance, PTL

(* The instants order the timeline by attempts, each claimed first.         *)
THEOREM TimelineSorted ==
  ASSUME Faults = {}
  PROVE  TimelineSpec => []TimelineOrdered
<1>1. ASSUME TInv PROVE TimelineOrdered
  <2> SUFFICES ASSUME NEW j \in Jobs, NEW e \in EventsOf(j), NEW f \in EventsOf(j),
                      e.stage # "job.dispatched", f.stage # "job.dispatched"
               PROVE  /\ e.n < f.n => e.at < f.at
                      /\ e.n = f.n /\ f.stage = "worker.claimed" => f.at <= e.at
    BY DEF TimelineOrdered
  <2>1. OrderedOf(Story(events, j))
    BY <1>1 DEF TInv, StoriesFit, StoryOf
  <2>2. e \in Story(events, j) /\ f \in Story(events, j)
    BY DEF EventsOf, Story
  <2> QED
    BY <2>1, <2>2 DEF OrderedOf
<1> QED
  BY <1>1, TimelineInvariance, PTL

---------------------------------------------------------------------------
(* A stream sends the timeline without gaps: what is recorded of a job      *)
(* after a listing is later than all of its story that was listed.          *)

(* New events are later than the story, and no instant is used twice.       *)
Grown ==
    /\ events \subseteq events'
    /\ \A i : \A f \in Story(events', i) \ Story(events, i) :
                 \A e \in Story(events, i) : e.at < f.at

(* What a process has not committed is later than the story, or no part of it. *)
LEMMA PendingLater ==
    ASSUME TInv, NEW x \in Processes, NEW f \in pending[x], f.stage # "job.dispatched"
    PROVE  \A e \in Story(events, f.job) : e.at < f.at
<1>1. CASE x \in Publishers
  BY <1>1 DEF TInv, PublishersStamp
<1>2. CASE x \in Workers
  <2>1. PICK e \in Event : Kept(x, e)
    BY <1>2 DEF TInv, WorkersStamp
  <2> QED
    BY <2>1 DEF Kept
<1> QED
  BY <1>1, <1>2 DEF Processes

LEMMA RecordGrows ==
    ASSUME TInv, NEW x \in Processes, NEW j, NEW stage, NEW n, Record(x, j, stage, n)
    PROVE  Grown
<1>1. PICK g \in NewEvents(j, stage, n) : events' = events \union pending[x] \union {g}
  BY DEF Record
<1>2. g.job = j /\ \A e \in events : e.job = j => e.at < g.at
  BY <1>1 DEF NewEvents, Later, Stamped
<1>3. ASSUME NEW i, NEW f \in Story(events', i) \ Story(events, i), NEW e \in Story(events, i)
      PROVE  e.at < f.at
  <2>1. f \in pending[x] \/ f = g
    BY <1>1, <1>3 DEF Story
  <2>2. f.job = i /\ f.stage # "job.dispatched" /\ e \in events /\ e.job = i
    BY <1>3 DEF Story
  <2> QED
    BY <1>2, <1>3, <2>1, <2>2, PendingLater
<1> QED
  BY <1>1, <1>3 DEF Grown

LEMMA StaysGrown ==
    ASSUME events' = events
    PROVE  Grown
  BY DEF Grown

(* The steps of the pipeline.                                               *)
LEMMA PipelineGrows ==
    ASSUME TInv,
           \/ \E p \in Publishers :
                 StampReceipt(p) \/ RecordedReceipt(p) \/ \E j \in Jobs : RecordedSubmit(p, j)
           \/ \E w \in Workers :
                 \/ \E j \in Jobs : RecordedClaim(w, j)
                 \/ StampedCheck(w) \/ RecordedFinish(w) \/ RecordedFailure(w)
           \/ \E x \in Processes : Aborted(x)
           \/ Silent
    PROVE  Grown /\ console' = console
<1>1. ASSUME NEW p \in Publishers, StampReceipt(p)
      PROVE  Grown /\ console' = console
  BY <1>1, StaysGrown DEF StampReceipt, Stamp
<1>2. ASSUME NEW p \in Publishers, RecordedReceipt(p)
      PROVE  Grown /\ console' = console
  <2>1. events' = events \union pending[p] /\ console' = console
    BY <1>2 DEF RecordedReceipt
  <2>2. \A e \in pending[p] : e.stage = "job.dispatched"
    BY DEF TInv, PublishersStamp
  <2>3. \A i : Story(events', i) = Story(events, i)
    BY <2>1, <2>2 DEF Story
  <2> QED
    BY <2>1, <2>3 DEF Grown
<1>3. ASSUME NEW p \in Publishers, NEW j \in Jobs, RecordedSubmit(p, j)
      PROVE  Grown /\ console' = console
  <2>1. p \in Processes /\ Record(p, j, "job.queued", 0)
    BY <1>3 DEF RecordedSubmit, Processes
  <2> QED
    BY <2>1, RecordGrows DEF Record
<1>4. ASSUME NEW w \in Workers, NEW j \in Jobs, RecordedClaim(w, j)
      PROVE  Grown /\ console' = console
  <2>1. w \in Processes /\ Record(w, j, "worker.claimed", job[j].attempts + 1)
    BY <1>4 DEF RecordedClaim, Processes
  <2> QED
    BY <2>1, RecordGrows DEF Record
<1>5. ASSUME NEW w \in Workers, StampedCheck(w)
      PROVE  Grown /\ console' = console
  BY <1>5, StaysGrown DEF StampedCheck, Stamp
<1>6. ASSUME NEW w \in Workers, RecordedFinish(w)
      PROVE  Grown /\ console' = console
  <2>1. w \in Processes /\ Record(w, worker[w].job, "job.completed", worker[w].n)
    BY <1>6 DEF RecordedFinish, Processes
  <2> QED
    BY <2>1, RecordGrows DEF Record
<1>7. ASSUME NEW w \in Workers, RecordedFailure(w)
      PROVE  Grown /\ console' = console
  <2>1. w \in Processes /\ \E stage, n : Record(w, worker[w].job, stage, n)
    BY <1>7 DEF RecordedFailure, Processes
  <2> QED
    BY <2>1, RecordGrows DEF Record
<1>8. ASSUME NEW x \in Processes, Aborted(x)
      PROVE  Grown /\ console' = console
  BY <1>8, StaysGrown DEF Aborted, RollBack
<1>9. CASE Silent
  BY <1>9, StaysGrown DEF Silent, timelineVars
<1> QED
  BY <1>1, <1>2, <1>3, <1>4, <1>5, <1>6, <1>7, <1>8, <1>9

(* A stream has sent instants of events of its job, and no later ones of    *)
(* its story before earlier ones.                                           *)
Gapless(q) ==
    /\ \A at \in q.seen : \E e \in events : e.job = q.job /\ e.at = at
    /\ \A e, f \in Story(events, q.job) : e.at \in q.seen /\ f.at < e.at => f.at \in q.seen

StreamsGapless == \A c \in Consoles : Gapless(console[c])

(* Its gaps stay closed while the story grows.                              *)
LEMMA GaplessGrows ==
    ASSUME TInv, TInv', Grown, NEW q, Gapless(q)
    PROVE  Gapless(q)'
<1>1. \A at \in q.seen : \E e \in events' : e.job = q.job /\ e.at = at
  BY DEF Gapless, Grown
<1>2. ASSUME NEW e \in Story(events', q.job), NEW f \in Story(events', q.job),
             e.at \in q.seen, f.at < e.at
      PROVE  f.at \in q.seen
  <2>1. PICK d \in events : d.job = q.job /\ d.at = e.at
    BY <1>2 DEF Gapless
  <2>2. d = e
    BY <1>2, <2>1 DEF Grown, TInv, TimelineTypeOK, Stamped, Story
  <2>3. e \in Story(events, q.job)
    BY <1>2, <2>1, <2>2 DEF Story
  <2>4. e.at \in Nat /\ f.at \in Nat
    BY <1>2, EventTyped DEF TInv, TimelineTypeOK, Story
  <2>5. f \in Story(events, q.job)
    BY <1>2, <2>3, <2>4 DEF Grown
  <2> QED
    BY <1>2, <2>3, <2>5 DEF Gapless
<1> QED
  BY <1>1, <1>2 DEF Gapless

(* What a step of a console c may send.                                     *)
Sends(c) ==
    /\ events' = events
    /\ \A d \in Consoles \ {c} : console'[d] = console[d]
    /\ \/ console'[c].seen = {}
       \/ /\ console'[c].job = console[c].job
          /\ \/ console'[c].seen = console[c].seen
             \/ console'[c].seen = console[c].seen \union {e.at : e \in Unsent(c)}

LEMMA AtSends ==
    ASSUME TInv, NEW c \in Consoles, ConsoleOnly,
           NEW stage, NEW j, NEW b, NEW told, NEW page,
           console' = [console EXCEPT ![c] = ConsoleAt(stage, j, b, told, page)]
    PROVE  Sends(c)
<1>1. PICK q : q = ConsoleAt(stage, j, b, told, page)
  OBVIOUS
<1>2. q.seen = {}
  BY <1>1 DEF ConsoleAt
<1>3. /\ console'[c] = q
      /\ \A d \in Consoles \ {c} : console'[d] = console[d]
  BY <1>1, ConsoleTyped
<1> QED
  BY <1>2, <1>3 DEF ConsoleOnly, Sends

LEMMA ConsoleSends ==
    ASSUME TInv, NEW c \in Consoles, ConsoleNext(c)
    PROVE  Sends(c)
<1>1. /\ console \in [Consoles -> ConsoleState]
      /\ console[c] \in ConsoleState
  BY ConsoleTyped
<1>2. ASSUME NEW j \in Jobs, OpenPage(c, j) PROVE Sends(c)
  BY <1>2, AtSends DEF OpenPage
<1>3. ASSUME NEW j \in Jobs, NEW b \in BOOLEAN, OpenStream(c, j, b) PROVE Sends(c)
  BY <1>3, AtSends DEF OpenStream
<1>4. CASE EndUnsettled(c) \/ Disconnect(c)
  <2>1. GoToPage(c)
    BY <1>4 DEF EndUnsettled, Disconnect
  <2>2. PICK j : console' = [console EXCEPT
                    ![c] = ConsoleAt("told", j, FALSE, "nothing", EmptyPage)]
    BY <2>1 DEF GoToPage
  <2>3. ConsoleOnly
    BY <2>1 DEF GoToPage
  <2> QED
    BY <2>2, <2>3, AtSends
<1>5. CASE ReadJob(c)
  <2>1. PICK j, told, page :
            console' = [console EXCEPT ![c] = ConsoleAt("snapshots", j, FALSE, told, page)]
    BY <1>5 DEF ReadJob
  <2>2. ConsoleOnly
    BY <1>5 DEF ReadJob
  <2> QED
    BY <2>1, <2>2, AtSends
<1>6. CASE CloseConsole(c)
  BY <1>6, AtSends DEF CloseConsole, ClosedConsole
<1>7. CASE ListEvents(c)
  BY <1>1, <1>7 DEF ListEvents, ConsoleState, ConsoleOnly, Sends
<1>8. CASE TellOutcome(c) \/ Sleep(c)
  BY <1>1, <1>8 DEF TellOutcome, Sleep, ConsoleState, ConsoleOnly, Sends
<1>9. CASE ReadSnapshots(c) \/ ReadEvents(c) \/ ReadAttempts(c) \/ ReadErrors(c)
  BY <1>1, <1>9 DEF ReadSnapshots, ReadEvents, ReadAttempts, ReadErrors, ConsoleState,
                    ConsoleOnly, Sends
<1> QED
  BY <1>2, <1>3, <1>4, <1>5, <1>6, <1>7, <1>8, <1>9 DEF ConsoleNext

LEMMA GaplessConsole ==
    ASSUME TInv, StreamsGapless, NEW c \in Consoles, ConsoleNext(c)
    PROVE  StreamsGapless'
<1>1. /\ events' = events
      /\ \A d \in Consoles \ {c} : console'[d] = console[d]
      /\ \/ console'[c].seen = {}
         \/ /\ console'[c].job = console[c].job
            /\ \/ console'[c].seen = console[c].seen
               \/ console'[c].seen = console[c].seen \union {e.at : e \in Unsent(c)}
  BY ConsoleSends DEF Sends
<1> SUFFICES ASSUME NEW d \in Consoles PROVE Gapless(console[d])'
  BY DEF StreamsGapless
<1>2. Gapless(console[d])
  BY DEF StreamsGapless
<1>3. CASE d # c
  BY <1>1, <1>2, <1>3 DEF Gapless
<1>4. CASE d = c /\ console'[c].seen = {}
  BY <1>4 DEF Gapless
<1>5. CASE /\ d = c /\ console'[c].job = console[c].job
           /\ console'[c].seen = console[c].seen
  BY <1>1, <1>2, <1>5 DEF Gapless
<1>6. CASE /\ d = c /\ console'[c].job = console[c].job
           /\ console'[c].seen = console[c].seen \union {e.at : e \in Unsent(c)}
  <2>1. \A at \in console'[c].seen : \E e \in events : e.job = console[c].job /\ e.at = at
    BY <1>2, <1>6 DEF Gapless, Unsent, EventsOf
  <2>2. \A f \in Story(events, console[c].job) : f.at \in console'[c].seen
    BY <1>6 DEF Story, Unsent, EventsOf
  <2> QED
    BY <1>1, <1>6, <2>1, <2>2 DEF Gapless
<1> QED
  BY <1>1, <1>3, <1>4, <1>5, <1>6

LEMMA GaplessStep ==
    ASSUME TInv, TInv', StreamsGapless, [TimelineNext]_allVars
    PROVE  StreamsGapless'
<1>1. ASSUME Grown, console' = console PROVE StreamsGapless'
  <2> SUFFICES ASSUME NEW c \in Consoles PROVE Gapless(console[c])'
    BY DEF StreamsGapless
  <2>1. PICK q : q = console[c]
    OBVIOUS
  <2>2. Gapless(q)
    BY <2>1 DEF StreamsGapless
  <2>3. \A at \in q.seen : \E e \in events' : e.job = q.job /\ e.at = at
    BY <2>2, <1>1, GaplessGrows DEF Gapless
  <2>4. \A e, f \in Story(events', q.job) : e.at \in q.seen /\ f.at < e.at => f.at \in q.seen
    BY <2>2, <1>1, GaplessGrows DEF Gapless
  <2> QED
    BY <1>1, <2>1, <2>3, <2>4 DEF Gapless
<1>2. ASSUME NEW c \in Consoles, ConsoleNext(c) PROVE StreamsGapless'
  BY <1>2, GaplessConsole
<1>3. CASE UNCHANGED allVars
  BY <1>1, <1>3, StaysGrown DEF allVars, timelineVars
<1> QED
  BY <1>1, <1>2, <1>3, PipelineGrows DEF TimelineNext

(* A stream has sent all of the story before whatever it sent, however late *)
(* some of it was committed; and all of it, when it ends with an outcome    *)
(* after a listing of a settled job.                                        *)
THEOREM StreamsGapfree ==
  ASSUME Faults = {}
  PROVE  TimelineSpec => []StreamHasNoGap
<1>1. TimelineInit => StreamsGapless
  BY DEF TimelineInit, StreamsGapless, Gapless, ClosedConsole, ConsoleAt
<1>2. TInv /\ StreamsGapless /\ [TimelineNext]_allVars => StreamsGapless'
  BY TStep, GaplessStep
<1>3. TInv /\ StreamsGapless => StreamHasNoGap
  BY DEF TInv, ConsolesFit, Fits, StreamsGapless, Gapless, StreamHasNoGap, Story, EventsOf
<1> QED
  BY <1>1, <1>2, <1>3, TimelineInvariance, PTL DEF TimelineSpec

(* A page that shows a settled job shows all of its outcome.                *)
THEOREM PagesShowOutcomes ==
  ASSUME Faults = {}
  PROVE  TimelineSpec => []OutcomeShown
<1>1. ASSUME TInv PROVE OutcomeShown
  <2> SUFFICES ASSUME NEW c \in Consoles, NEW p, p = console[c].page,
                      NEW j, j = console[c].job, NEW told, told = console[c].told,
                      console[c].stage = "shown"
               PROVE  /\ told \in Terminal => p.status = told
                      /\ p.status \in Terminal =>
                            \A n \in 1 .. MaxAttempts : p.attempts[n] # "running"
                      /\ p.status \in Completed =>
                            /\ p.imported \union p.errors = RowsOf[j]
                            /\ p.imported \cap p.errors = {}
                            /\ p.counts = [total    |-> Cardinality(RowsOf[j]),
                                           accepted |-> Cardinality(p.imported),
                                           rejected |-> Cardinality(p.errors)]
                            /\ \E n \in 1 .. MaxAttempts :
                                  /\ p.attempts[n] = "succeeded"
                                  /\ <<"job.completed", n>> \in p.events
                      /\ p.status = "failed" =>
                            /\ p.imported = {} /\ p.errors = {}
                            /\ \A n \in 1 .. MaxAttempts :
                                  p.attempts[n] = "failed" => <<"job.failed", n>> \in p.events
    BY DEF OutcomeShown
  <2>1. "shown" \in Reading
    BY DEF Reading
  <2>2. j \in Jobs /\ PageFits(console[c], "shown", p)
    BY <1>1, <2>1, PageTyped
  <2>3. told \in Terminal => p.status = told
    BY <2>2 DEF PageFits
  <2>4. p.status \in Terminal =>
           /\ job[j].status = p.status /\ job[j].counts = p.counts
           /\ p.imported = Mine(snapshot, j) /\ p.attempts = attempt[j]
           /\ p.errors = errors[j]
           /\ \A e \in Story(events, j) : <<e.stage, e.n>> \in p.events
    BY <2>2 DEF PageFits
  <2>5. /\ ExplainsOf(Story(events, j), job[j], attempt[j])
        /\ LedgerOf(job[j], attempt[j])
    BY <1>1, <2>2 DEF TInv, StoriesFit, StoryOf
  <2>6. /\ Completed \subseteq Terminal /\ "failed" \in Terminal
        /\ "processing" \notin Terminal /\ "failed" \notin Completed
    BY DEF Terminal, Completed
  <2>7. p.status \in Terminal => \A n \in 1 .. MaxAttempts : p.attempts[n] # "running"
    BY <2>4, <2>5, <2>6 DEF LedgerOf
  <2>8. ASSUME p.status \in Terminal, NEW stage, NEW n, Tells(Story(events, j), stage, n)
        PROVE  <<stage, n>> \in p.events
    BY <2>4, <2>8 DEF Tells
  <2>9. ASSUME p.status \in Completed
        PROVE  /\ p.imported \union p.errors = RowsOf[j]
               /\ p.imported \cap p.errors = {}
               /\ p.counts = [total    |-> Cardinality(RowsOf[j]),
                              accepted |-> Cardinality(p.imported),
                              rejected |-> Cardinality(p.errors)]
               /\ \E n \in 1 .. MaxAttempts :
                     p.attempts[n] = "succeeded" /\ <<"job.completed", n>> \in p.events
    <3>1. /\ p.status \in Terminal /\ job[j].status \in Completed
          /\ p.imported = Mine(snapshot, j) /\ p.errors = errors[j]
          /\ p.counts = job[j].counts /\ p.attempts = attempt[j]
      BY <2>4, <2>6, <2>9
    <3>2. p.imported \union p.errors = RowsOf[j] /\ p.imported \cap p.errors = {}
      BY <1>1, <2>2, <3>1 DEF TInv, CInv, RowsWhole
    <3>3. p.counts = [total    |-> Cardinality(RowsOf[j]),
                      accepted |-> Cardinality(p.imported),
                      rejected |-> Cardinality(p.errors)]
      BY <1>1, <2>2, <3>1 DEF TInv, CInv, CountsAgree, Mine
    <3>4. PICK n : n = job[j].attempts
      OBVIOUS
    <3>5. n \in 1 .. MaxAttempts /\ p.attempts[n] = "succeeded"
      <4>1. job[j] \in JobRow
        BY <1>1, <2>2, Rows DEF TInv
      <4>2. n \in 0 .. MaxAttempts
        BY <3>4, <4>1 DEF JobRow
      <4>3. n > 0 /\ attempt[j][n] = "succeeded"
        BY <2>5, <3>1, <3>4 DEF LedgerOf
      <4> QED
        BY <3>1, <4>2, <4>3, MaxAttemptsAssumption
    <3>6. Tells(Story(events, j), "job.completed", n)
      BY <2>5, <3>1, <3>5 DEF ExplainsOf
    <3>7. <<"job.completed", n>> \in p.events
      BY <2>8, <3>1, <3>6
    <3> QED
      BY <3>2, <3>3, <3>5, <3>7
  <2>10. ASSUME p.status = "failed"
         PROVE  /\ p.imported = {} /\ p.errors = {}
                /\ \A n \in 1 .. MaxAttempts :
                      p.attempts[n] = "failed" => <<"job.failed", n>> \in p.events
    <3>1. /\ p.status \in Terminal /\ job[j].status \notin Completed
          /\ p.imported = Mine(snapshot, j) /\ p.errors = errors[j] /\ p.attempts = attempt[j]
      BY <2>4, <2>6, <2>10
    <3>2. p.imported = {} /\ p.errors = {}
      BY <1>1, <2>2, <3>1 DEF TInv, CInv, CountsAgree, Mine
    <3>3. ASSUME NEW n \in 1 .. MaxAttempts, p.attempts[n] = "failed"
          PROVE  <<"job.failed", n>> \in p.events
      <4>1. Tells(Story(events, j), "job.failed", n)
        BY <2>5, <3>1, <3>3 DEF ExplainsOf
      <4> QED
        BY <2>8, <3>1, <4>1
    <3> QED
      BY <3>2, <3>3
  <2> QED
    BY <2>3, <2>7, <2>9, <2>10
<1> QED
  BY <1>1, TimelineInvariance, PTL

---------------------------------------------------------------------------
(* What the timeline is good for under every fault.  A lease may expire     *)
(* under its worker, so several workers may hold attempts of one job, and   *)
(* what is pending may be committed after the job moved on: the invariant   *)
(* speaks of all that is stamped, committed or not.                         *)

StampsHold ==
    \A e \in Stamped :
        /\ job[e.job].status # "absent" /\ e.n <= job[e.job].attempts
        /\ \A f \in Stamped : f.job = e.job =>
              /\ f.stage = "job.queued" => f.at <= e.at
              /\ f.stage = "worker.claimed" /\ f.n = e.n => f.at <= e.at
              /\ f.stage = "job.completed" /\ f.stage = e.stage /\ f.n = e.n => f = e

Late == {"job.dispatched", "payload.transformed"}

(* A worker past its check has stamped the translation of its attempt.      *)
Translated(w) ==
    \E e \in pending[w] : /\ e.job = worker[w].job /\ e.n = worker[w].n
                          /\ e.stage = "payload.transformed"

PendingHold ==
    /\ \A x \in Processes : \A e \in pending[x] : e.stage \in Late
    /\ \A w \in Workers : worker[w].stage \in Mid => Translated(w)

Working == {"claimed"} \union Mid

(* The attempt a worker opened is its own, was told, and has not completed. *)
AttemptsHeld ==
    \A w \in Workers : worker[w].stage \in Working =>
        /\ Told(worker[w].job, "worker.claimed", worker[w].n)
        /\ \A e \in Stamped :
              e.stage = "job.completed" /\ e.job = worker[w].job => e.n # worker[w].n
        /\ \A v \in Workers \ {w} :
              worker[v].stage \in Working /\ worker[v].job = worker[w].job =>
                  worker[v].n # worker[w].n

StateTold(j, n) ==
    /\ attempt[j][n] \in {"running", "abandoned"} => Told(j, "worker.claimed", n)
    /\ attempt[j][n] = "retry_scheduled" => Told(j, "job.retry_scheduled", n)
    /\ attempt[j][n] = "failed" => Told(j, "job.failed", n)
    /\ attempt[j][n] = "succeeded" => Told(j, "job.completed", n)

Accounted(j, n) ==
    /\ Told(j, "worker.claimed", n) /\ Told(j, "payload.transformed", n)
    /\ \A k \in RowsOf[j] : snapshot[k] # NoJob \/ k \in errors[j]

LedgerTold ==
    \A j \in Jobs :
        /\ job[j].status # "absent" => Told(j, "job.queued", 0)
        /\ \A n \in 1 .. MaxAttempts :
              StateTold(j, n) /\ (Told(j, "job.completed", n) => Accounted(j, n))

ConsolesOpen == \A c \in Consoles : console[c].stage # "closed" => console[c].job \in Jobs

WTyped == LInv /\ TimelineTypeOK /\ ConsolesOpen

WInv == WTyped /\ StampsHold /\ PendingHold /\ AttemptsHeld /\ LedgerTold

LEMMA Process ==
    /\ \A p \in Publishers : p \in Processes /\ p \notin Workers
    /\ \A w \in Workers : w \in Processes /\ w \notin Publishers
  BY ProcessesAssumption DEF Processes

(* What process x stamps and commits in a step, whichever way it does.      *)
LEMMA StampsSeen ==
    ASSUME TimelineTypeOK, NEW x \in Processes, NEW A,
           \/ events' = events /\ pending' = [pending EXCEPT ![x] = A]
           \/ events' = events \union pending[x] \union A /\ Forget(x)
           \/ events' = events /\ Forget(x)
    PROVE  /\ \A e \in Stamped' : e \in Stamped \/ e \in A
           /\ \A e \in events' : e \in events \/ e \in pending[x] \/ e \in A
           /\ events \subseteq events'
           /\ \A y \in Processes \ {x} : pending'[y] = pending[y]
           /\ \A e \in pending'[x] : e \in A
<1>1. pending \in [Processes -> SUBSET Event]
  BY DEF TimelineTypeOK
<1>2. /\ \A y \in Processes \ {x} : pending'[y] = pending[y]
      /\ pending'[x] = A \/ pending'[x] = {}
  BY <1>1 DEF Forget
<1>3. \A e \in Stamped' : e \in events' \/ \E y \in Processes : e \in pending'[y]
  BY DEF Stamped
<1>4. \A e : (e \in events \/ \E y \in Processes : e \in pending[y]) => e \in Stamped
  BY DEF Stamped
<1> QED
  BY <1>2, <1>3, <1>4

(* Instants, attempts and jobs of what is stamped, as jobs move on.         *)
LEMMA StampsKeep ==
    ASSUME StampsHold, \A e \in Stamped' : e \in Stamped,
           \A e \in Stamped : e \in Event,
           job \in [Jobs -> JobRow], job' \in [Jobs -> JobRow],
           \A i \in Jobs : /\ job[i].status # "absent" => job'[i].status # "absent"
                           /\ job[i].attempts <= job'[i].attempts
    PROVE  StampsHold'
<1> SUFFICES ASSUME NEW e \in Stamped'
             PROVE  /\ job'[e.job].status # "absent" /\ e.n <= job'[e.job].attempts
                    /\ \A f \in Stamped' : f.job = e.job =>
                          /\ f.stage = "job.queued" => f.at <= e.at
                          /\ f.stage = "worker.claimed" /\ f.n = e.n => f.at <= e.at
                          /\ f.stage = "job.completed" /\ f.stage = e.stage /\ f.n = e.n
                                => f = e
  BY DEF StampsHold
<1>1. e \in Stamped /\ e.job \in Jobs /\ e.n \in Nat
  BY EventTyped
<1>2. job[e.job].status # "absent" /\ e.n <= job[e.job].attempts
  BY <1>1 DEF StampsHold
<1>3. job[e.job].attempts \in Nat /\ job'[e.job].attempts \in Nat
  BY <1>1, MaxAttemptsAssumption DEF JobRow
<1>4. e.n <= job'[e.job].attempts /\ job'[e.job].status # "absent"
  BY <1>1, <1>2, <1>3
<1> QED
  BY <1>1, <1>4 DEF StampsHold

(* A new event is the latest of its job: it must be the first if it tells   *)
(* of a submission, and of its attempt if it tells of a claim.              *)
LEMMA StampsGrow ==
    ASSUME StampsHold, NEW j \in Jobs, NEW stage, NEW n, NEW e \in NewEvents(j, stage, n),
           \A f \in Stamped' : f \in Stamped \/ f = e,
           \A f \in Stamped : f \in Event,
           job \in [Jobs -> JobRow], job' \in [Jobs -> JobRow],
           \A i \in Jobs : /\ job[i].status # "absent" => job'[i].status # "absent"
                           /\ job[i].attempts <= job'[i].attempts,
           job'[j].status # "absent", n <= job'[j].attempts,
           stage = "job.queued" => job[j].status = "absent",
           stage = "worker.claimed" => job[j].attempts < n,
           stage = "job.completed" =>
              \A f \in Stamped : f.job = j /\ f.stage = "job.completed" => f.n # n
    PROVE  StampsHold'
<1>1. /\ e \in Event /\ e.job = j /\ e.stage = stage /\ e.n = n
      /\ \A f \in Stamped : f.job = j => f.at < e.at
  BY NewEvent
<1>2. \A f \in Event : f.job \in Jobs /\ f.n \in Nat /\ f.at \in Nat
  BY EventTyped
<1>3. \A i \in Jobs : job[i].attempts \in Nat /\ job'[i].attempts \in Nat
  BY MaxAttemptsAssumption DEF JobRow
<1>4. \A f \in Stamped' : f \in Event /\ job'[f.job].status # "absent"
                          /\ f.n <= job'[f.job].attempts
  <2> SUFFICES ASSUME NEW f \in Stamped'
               PROVE  f \in Event /\ job'[f.job].status # "absent"
                      /\ f.n <= job'[f.job].attempts
    OBVIOUS
  <2>1. CASE f = e
    BY <1>1, <2>1
  <2>2. CASE f \in Stamped
    <3>1. f \in Event /\ f.job \in Jobs /\ f.n \in Nat
      BY <1>2, <2>2
    <3>2. job[f.job].status # "absent" /\ f.n <= job[f.job].attempts
      BY <2>2 DEF StampsHold
    <3>3. f.n <= job'[f.job].attempts
      BY <1>3, <3>1, <3>2
    <3> QED
      BY <3>1, <3>2, <3>3
  <2> QED
    BY <2>1, <2>2
<1>5. ASSUME NEW g \in Stamped', NEW f \in Stamped', f.job = g.job
      PROVE  /\ f.stage = "job.queued" => f.at <= g.at
             /\ f.stage = "worker.claimed" /\ f.n = g.n => f.at <= g.at
             /\ f.stage = "job.completed" /\ f.stage = g.stage /\ f.n = g.n => f = g
  <2>0. f.at \in Nat /\ g.at \in Nat /\ f.n \in Nat /\ g.n \in Nat
    BY <1>2, <1>4
  <2>1. CASE f \in Stamped /\ g \in Stamped
    BY <1>5, <2>1 DEF StampsHold
  <2>2. CASE f = e /\ g = e
    BY <2>0, <2>2
  <2>3. CASE f \in Stamped /\ g = e
    <3>1. f.at < g.at
      BY <1>1, <1>5, <2>3
    <3>2. ~(f.stage = "job.completed" /\ f.stage = g.stage /\ f.n = g.n)
      BY <1>1, <1>5, <2>3
    <3> QED
      BY <2>0, <3>1, <3>2
  <2>4. CASE f = e /\ g \in Stamped
    <3>1. /\ g.job = j /\ job[j].status # "absent" /\ g.n <= job[j].attempts
      BY <1>1, <1>5, <2>4 DEF StampsHold
    <3>2. f.stage # "job.queued"
      BY <1>1, <2>4, <3>1
    <3>3. ~(f.stage = "worker.claimed" /\ f.n = g.n)
      BY <1>1, <1>3, <2>0, <2>4, <3>1
    <3>4. ~(f.stage = "job.completed" /\ f.stage = g.stage /\ f.n = g.n)
      BY <1>1, <2>4, <3>1
    <3> QED
      BY <3>2, <3>3, <3>4
  <2> QED
    BY <2>1, <2>2, <2>3, <2>4
<1> QED
  BY <1>4, <1>5 DEF StampsHold

LEMMA ToldStays ==
    ASSUME events \subseteq events', NEW j, NEW stage, NEW n, Told(j, stage, n)
    PROVE  Told(j, stage, n)'
  BY DEF Told, EventsOf

(* Workers go on, or leave their attempt.                                   *)
LEMMA AttemptsStay ==
    ASSUME AttemptsHeld, events \subseteq events',
           \A e \in Stamped' : e.stage = "job.completed" => e \in Stamped,
           \A w \in Workers : worker'[w].stage \in Working =>
              /\ worker[w].stage \in Working
              /\ worker'[w].job = worker[w].job /\ worker'[w].n = worker[w].n
    PROVE  AttemptsHeld'
<1> SUFFICES ASSUME NEW w \in Workers, worker'[w].stage \in Working
             PROVE  /\ \E e \in events' :
                          /\ e.job = worker'[w].job /\ e.n = worker'[w].n
                          /\ e.stage = "worker.claimed"
                    /\ \A e \in Stamped' :
                          e.stage = "job.completed" /\ e.job = worker'[w].job
                             => e.n # worker'[w].n
                    /\ \A v \in Workers \ {w} :
                          worker'[v].stage \in Working /\ worker'[v].job = worker'[w].job
                             => worker'[v].n # worker'[w].n
  BY DEF AttemptsHeld, Told, EventsOf
<1>1. /\ worker[w].stage \in Working
      /\ worker'[w].job = worker[w].job /\ worker'[w].n = worker[w].n
  OBVIOUS
<1>2. \E e \in events : /\ e.job = worker[w].job /\ e.n = worker[w].n
                        /\ e.stage = "worker.claimed"
  BY <1>1 DEF AttemptsHeld, Told, EventsOf
<1> QED
  BY <1>1, <1>2 DEF AttemptsHeld

(* The ledger changes where its new state is told.                          *)
LEMMA LedgerStays ==
    ASSUME LedgerTold, events \subseteq events',
           \A k \in Keys : snapshot[k] # NoJob => snapshot'[k] # NoJob,
           \A i \in Jobs : /\ errors[i] \subseteq errors'[i]
                           /\ \/ job'[i].status # "absent" => job[i].status # "absent"
                              \/ Told(i, "job.queued", 0)',
           \A i \in Jobs : \A n \in 1 .. MaxAttempts :
              /\ attempt'[i][n] = attempt[i][n] \/ StateTold(i, n)'
              /\ Told(i, "job.completed", n)' =>
                    Told(i, "job.completed", n) \/ Accounted(i, n)'
    PROVE  LedgerTold'
<1>1. \A i \in Jobs : job'[i].status # "absent" => Told(i, "job.queued", 0)'
  BY ToldStays DEF LedgerTold
<1>2. ASSUME NEW i \in Jobs, NEW n \in 1 .. MaxAttempts
      PROVE  StateTold(i, n)' /\ (Told(i, "job.completed", n)' => Accounted(i, n)')
  <2>1. StateTold(i, n) /\ (Told(i, "job.completed", n) => Accounted(i, n))
    BY DEF LedgerTold
  <2>2. StateTold(i, n)'
    <3>1. CASE attempt'[i][n] = attempt[i][n]
      BY <2>1, <3>1, ToldStays DEF StateTold
    <3> QED
      BY <3>1
  <2>3. Accounted(i, n) => Accounted(i, n)'
    <3>1. RowsOf[i] \subseteq Keys
      BY RowsAssumption
    <3>2. errors[i] \subseteq errors'[i]
      OBVIOUS
    <3> QED
      BY <3>1, <3>2, ToldStays DEF Accounted
  <2> QED
    BY <2>1, <2>2, <2>3
<1> QED
  BY <1>1, <1>2 DEF LedgerTold

(* Pending events: process x moves, and what it has stamped is late.        *)
LEMMA PendingStays ==
    ASSUME PendingHold, NEW x \in Processes,
           \A y \in Processes \ {x} : pending'[y] = pending[y],
           \A e \in pending'[x] : e.stage \in Late,
           \A w \in Workers : worker'[w].stage \in Mid =>
              \/ /\ w # x /\ worker[w].stage \in Mid
                 /\ worker'[w].job = worker[w].job /\ worker'[w].n = worker[w].n
              \/ Translated(w)'
    PROVE  PendingHold'
<1>1. \A y \in Processes : \A e \in pending'[y] : e.stage \in Late
  BY DEF PendingHold
<1>2. ASSUME NEW w \in Workers, worker'[w].stage \in Mid PROVE Translated(w)'
  <2>1. CASE /\ w # x /\ worker[w].stage \in Mid
             /\ worker'[w].job = worker[w].job /\ worker'[w].n = worker[w].n
    <3>1. pending'[w] = pending[w] /\ Translated(w)
      BY <2>1, Process DEF PendingHold
    <3> QED
      BY <2>1, <3>1 DEF Translated
  <2> QED
    BY <1>2, <2>1
<1> QED
  BY <1>1, <1>2 DEF PendingHold

LEMMA WRows ==
    ASSUME WInv
    PROVE  /\ job \in [Jobs -> JobRow] /\ worker \in [Workers -> WorkerState]
           /\ attempt \in [Jobs -> Led] /\ errors \in [Jobs -> SUBSET Keys]
           /\ events \subseteq Event /\ \A e \in Stamped : e \in Event
           /\ \A x \in Processes : \A e \in pending[x] : e.stage \in Late /\ e \in Stamped
           /\ \A e \in events : e \in Stamped
<1>1. /\ job \in [Jobs -> JobRow] /\ worker \in [Workers -> WorkerState]
      /\ attempt \in [Jobs -> Led] /\ errors \in [Jobs -> SUBSET Keys]
  BY DEF WInv, WTyped, LInv, IInv, TypeOK, Led
<1>2. events \subseteq Event /\ pending \in [Processes -> SUBSET Event]
  BY DEF WInv, WTyped, TimelineTypeOK
<1>3. \A e \in Stamped : e \in Event
  BY <1>2 DEF Stamped
<1>4. \A x \in Processes : \A e \in pending[x] : e.stage \in Late /\ e \in Stamped
  BY DEF WInv, PendingHold, Stamped
<1>5. \A e \in events : e \in Stamped
  BY DEF Stamped
<1> QED
  BY <1>1, <1>2, <1>3, <1>4, <1>5

(* A step that leaves the ledger as it is, in which process x stamps or     *)
(* commits at most late events of a submitted job.                          *)
LEMMA LateStep ==
    ASSUME WInv, WTyped', NEW x \in Processes, NEW A,
           UNCHANGED <<attempt, errors, snapshot>>,
           \A i \in Jobs : /\ job'[i].status = job[i].status
                           /\ job'[i].attempts = job[i].attempts,
           \/ events' = events /\ pending' = [pending EXCEPT ![x] = A]
           \/ events' = events \union pending[x] \union A /\ Forget(x)
           \/ events' = events /\ Forget(x),
           \/ A = {}
           \/ \E j \in Jobs, stage \in Late : \E n : \E e \in NewEvents(j, stage, n) :
                 A = {e} /\ job[j].status # "absent" /\ n <= job[j].attempts,
           \A w \in Workers : worker'[w].stage \in Working =>
              /\ worker[w].stage \in Working
              /\ worker'[w].job = worker[w].job /\ worker'[w].n = worker[w].n,
           \A w \in Workers : worker'[w].stage \in Mid =>
              (w # x /\ worker[w].stage \in Mid) \/ Translated(w)'
    PROVE  WInv'
<1>0. /\ TimelineTypeOK /\ StampsHold /\ PendingHold /\ AttemptsHeld /\ LedgerTold
  BY DEF WInv, WTyped
<1>1. /\ job \in [Jobs -> JobRow] /\ \A e \in Stamped : e \in Event
      /\ \A e \in pending[x] : e.stage \in Late /\ e \in Stamped
      /\ \A e \in events : e \in Stamped
  BY WRows
<1>2. job' \in [Jobs -> JobRow]
  BY DEF WTyped, LInv, IInv, TypeOK
<1>3. /\ \A e \in Stamped' : e \in Stamped \/ e \in A
      /\ \A e \in events' : e \in events \/ e \in pending[x] \/ e \in A
      /\ events \subseteq events'
      /\ \A y \in Processes \ {x} : pending'[y] = pending[y]
      /\ \A e \in pending'[x] : e \in A
  BY <1>0, StampsSeen
<1>4. \A i \in Jobs : /\ job[i].status # "absent" => job'[i].status # "absent"
                      /\ job[i].attempts <= job'[i].attempts
  BY <1>1, MaxAttemptsAssumption DEF JobRow
<1>5. \A e \in A : e.stage \in Late
  BY NewEvent
<1>6. StampsHold'
  <2>1. CASE A = {}
    BY <1>0, <1>1, <1>2, <1>3, <1>4, <2>1, StampsKeep
  <2>2. CASE \E j \in Jobs, stage \in Late : \E n : \E e \in NewEvents(j, stage, n) :
                A = {e} /\ job[j].status # "absent" /\ n <= job[j].attempts
    <3>0. PICK j \in Jobs, stage \in Late :
             \E n : \E e \in NewEvents(j, stage, n) :
                A = {e} /\ job[j].status # "absent" /\ n <= job[j].attempts
      BY <2>2
    <3>1. PICK n : \E e \in NewEvents(j, stage, n) :
                A = {e} /\ job[j].status # "absent" /\ n <= job[j].attempts
      BY <3>0
    <3>2. PICK e \in NewEvents(j, stage, n) :
             A = {e} /\ job[j].status # "absent" /\ n <= job[j].attempts
      BY <3>1
    <3>3. /\ stage # "job.queued" /\ stage # "worker.claimed" /\ stage # "job.completed"
          /\ job'[j].status # "absent" /\ n <= job'[j].attempts
          /\ \A f \in Stamped' : f \in Stamped \/ f = e
      BY <1>3, <3>2 DEF Late
    <3> QED
      BY <1>0, <1>1, <1>2, <1>4, <3>3, StampsGrow
  <2> QED
    BY <2>1, <2>2
<1>7. PendingHold'
  <2>1. \A w \in Workers : worker'[w].stage \in Mid =>
              \/ /\ w # x /\ worker[w].stage \in Mid
                 /\ worker'[w].job = worker[w].job /\ worker'[w].n = worker[w].n
              \/ Translated(w)'
    BY DEF Working
  <2> QED
    BY <1>0, <1>3, <1>5, <2>1, PendingStays
<1>8. /\ \A e \in Stamped' : e.stage = "job.completed" => e \in Stamped
      /\ \A e \in events' : e.stage = "job.completed" => e \in events
  BY <1>1, <1>3, <1>5 DEF Late
<1>9. AttemptsHeld'
  BY <1>0, <1>3, <1>8, AttemptsStay
<1>10. \A i, n : Told(i, "job.completed", n)' => Told(i, "job.completed", n)
  BY <1>8 DEF Told, EventsOf
<1>11. LedgerTold'
  BY <1>0, <1>3, <1>10, LedgerStays
<1> QED
  BY <1>6, <1>7, <1>9, <1>11 DEF WInv

(* A step that stamps and commits nothing.                                  *)
LEMMA StillStep ==
    ASSUME WInv, WTyped', UNCHANGED <<events, pending, errors, snapshot>>,
           \A i \in Jobs : /\ job'[i].status # "absent" <=> job[i].status # "absent"
                           /\ job'[i].attempts = job[i].attempts,
           \A i \in Jobs : \A n \in 1 .. MaxAttempts :
              attempt'[i][n] = attempt[i][n] \/ StateTold(i, n)',
           \A w \in Workers : worker'[w].stage \in Working =>
              /\ worker[w].stage \in Working
              /\ worker'[w].stage \in Mid => worker[w].stage \in Mid
              /\ worker'[w].job = worker[w].job /\ worker'[w].n = worker[w].n
    PROVE  WInv'
<1>0. /\ StampsHold /\ PendingHold /\ AttemptsHeld /\ LedgerTold
  BY DEF WInv
<1>1. Stamped' = Stamped /\ events \subseteq events'
  BY DEF Stamped
<1>2. StampsHold'
  <2>1. job \in [Jobs -> JobRow] /\ job' \in [Jobs -> JobRow]
    BY DEF WInv, WTyped, LInv, IInv, TypeOK
  <2>2. \A i \in Jobs : job[i].attempts <= job'[i].attempts
    BY <2>1, MaxAttemptsAssumption DEF JobRow
  <2> QED
    BY <1>0, <1>1, <2>1, <2>2, WRows, StampsKeep
<1>3. PendingHold'
  BY <1>0 DEF PendingHold, Translated, Working
<1>4. AttemptsHeld'
  BY <1>0, <1>1, AttemptsStay
<1>5. \A i, n : Told(i, "job.completed", n)' => Told(i, "job.completed", n)
  BY DEF Told, EventsOf
<1>6. LedgerTold'
  BY <1>0, <1>1, <1>5, LedgerStays
<1> QED
  BY <1>2, <1>3, <1>4, <1>6 DEF WInv

LEMMA WReceipts ==
    ASSUME WInv, WTyped', NEW p \in Publishers, StampReceipt(p) \/ RecordedReceipt(p)
    PROVE  WInv'
<1>0. p \in Processes /\ \A w \in Workers : w # p
  BY Process
<1>1. job \in [Jobs -> JobRow]
  BY WRows
<1>2. CASE StampReceipt(p)
  <2>1. /\ publisher[p].stage = "receipt" /\ UNCHANGED vars /\ events' = events
        /\ Stamp(p, publisher[p].job, "job.dispatched", 0)
    BY <1>2 DEF StampReceipt, Stamp
  <2>2. publisher[p].job \in Jobs
    BY <2>1 DEF WInv, WTyped, LInv, IInv, PublishersHold
  <2>3. PICK j \in Jobs : j = publisher[p].job
    BY <2>2
  <2>4. job[j].status # "absent"
    BY <2>1, <2>3 DEF WInv, WTyped, LInv, OnlyAccepted
  <2>5. PICK e \in NewEvents(j, "job.dispatched", 0) : pending' = [pending EXCEPT ![p] = {e}]
    BY <2>1, <2>3 DEF Stamp
  <2>6. 0 <= job[j].attempts
    BY <1>1, MaxAttemptsAssumption DEF JobRow
  <2>7. \E i \in Jobs, stage \in Late : \E n : \E f \in NewEvents(i, stage, n) :
           {e} = {f} /\ job[i].status # "absent" /\ n <= job[i].attempts
    BY <2>4, <2>6 DEF Late
  <2>8. UNCHANGED <<job, attempt, errors, snapshot, worker>>
    BY <2>1 DEF vars
  <2>9. \A w \in Workers : worker'[w].stage \in Mid => w # p /\ worker[w].stage \in Mid
    BY <1>0, <2>8
  <2> QED
    BY <1>0, <2>1, <2>5, <2>7, <2>8, <2>9, LateStep
<1>3. CASE RecordedReceipt(p)
  <2>1. /\ WriteReceipt(p) /\ Forget(p) /\ events' = events \union pending[p]
    BY <1>3 DEF RecordedReceipt
  <2>2. events' = events \union pending[p] \union {}
    BY <2>1
  <2>3. UNCHANGED <<attempt, errors, snapshot, worker>>
    BY <2>1 DEF WriteReceipt
  <2>4. \A i \in Jobs : job'[i].status = job[i].status /\ job'[i].attempts = job[i].attempts
    BY <1>1, <2>1 DEF WriteReceipt, JobRow
  <2>5. \A w \in Workers : worker'[w].stage \in Mid => w # p /\ worker[w].stage \in Mid
    BY <1>0, <2>3
  <2> QED
    BY <1>0, <2>1, <2>2, <2>3, <2>4, <2>5, LateStep
<1> QED
  BY <1>2, <1>3

LEMMA WCheck ==
    ASSUME WInv, WTyped', NEW w \in Workers, StampedCheck(w)
    PROVE  WInv'
<1>0. w \in Processes /\ job \in [Jobs -> JobRow] /\ worker \in [Workers -> WorkerState]
      /\ pending \in [Processes -> SUBSET Event]
  BY Process, WRows DEF WInv, WTyped, TimelineTypeOK
<1>1. /\ worker[w].stage = "claimed" /\ Check(w) /\ events' = events
      /\ Stamp(w, worker[w].job, "payload.transformed", worker[w].n)
  BY DEF StampedCheck, Check, Stamp
<1>2. worker[w].job \in Jobs /\ worker[w].n \in 1 .. job[worker[w].job].attempts
  BY <1>1 DEF WInv, WTyped, LInv, IInv, WorkersHold
<1>3. PICK j \in Jobs : j = worker[w].job
  BY <1>2
<1>4. PICK n : n = worker[w].n
  OBVIOUS
<1>5. PICK e \in NewEvents(j, "payload.transformed", n) : pending' = [pending EXCEPT ![w] = {e}]
  BY <1>1, <1>3, <1>4 DEF Stamp
<1>6. job[j].status # "absent" /\ n <= job[j].attempts
  <2>1. job[j].status # "absent"
    BY <1>1, <1>3 DEF WInv, WTyped, LInv, OnlyAccepted
  <2>2. job[j].attempts \in Nat
    BY <1>0, MaxAttemptsAssumption DEF JobRow
  <2> QED
    BY <1>2, <1>3, <1>4, <2>1, <2>2
<1>7. \E i \in Jobs, stage \in Late : \E k : \E f \in NewEvents(i, stage, k) :
         {e} = {f} /\ job[i].status # "absent" /\ k <= job[i].attempts
  BY <1>6 DEF Late
<1>8. /\ worker'[w].job = j /\ worker'[w].n = n
      /\ \A v \in Workers \ {w} : worker'[v] = worker[v]
  BY <1>0, <1>1, <1>3, <1>4 DEF Check, WorkerState
<1>9. UNCHANGED <<job, attempt, errors, snapshot>>
  BY <1>1 DEF Check, dbVars
<1>10. \A v \in Workers : worker'[v].stage \in Working =>
          /\ worker[v].stage \in Working
          /\ worker'[v].job = worker[v].job /\ worker'[v].n = worker[v].n
  BY <1>1, <1>3, <1>4, <1>8 DEF Working
<1>11. Translated(w)'
  <2>1. pending'[w] = {e}
    BY <1>0, <1>5
  <2>2. e.job = j /\ e.n = n /\ e.stage = "payload.transformed"
    BY NewEvent
  <2> QED
    BY <1>8, <2>1, <2>2 DEF Translated
<1>12. \A v \in Workers : worker'[v].stage \in Mid =>
          (v # w /\ worker[v].stage \in Mid) \/ Translated(v)'
  BY <1>8, <1>11
<1> QED
  BY <1>0, <1>1, <1>5, <1>7, <1>9, <1>10, <1>12, LateStep

LEMMA WAborted ==
    ASSUME WInv, WTyped', NEW x \in Processes, Aborted(x)
    PROVE  WInv'
<1>0. worker \in [Workers -> WorkerState]
  BY WRows
<1>1. Forget(x) /\ events' = events
  BY DEF Aborted, RollBack
<1>2. UNCHANGED dbVars
  BY DEF Aborted, PublisherStops, FlushConflict, Fail, Crash
<1>3. \A v \in Workers : (worker'[v] = worker[v] /\ v # x) \/ worker'[v].stage \notin Working
  <2>1. CASE x \in Publishers /\ PublisherStops(x)
    BY <2>1, Process DEF PublisherStops
  <2>2. CASE x \in Workers /\ (FlushConflict(x) \/ Fail(x))
    <3>1. \E j, n, r : Failing(x, j, n, r)
      BY <2>2 DEF FlushConflict, Fail
    <3> QED
      BY <1>0, <2>2, <3>1, NowFailing DEF Working, Mid
  <2>3. CASE x \in Workers /\ Crash(x)
    BY <1>0, <2>3, NowIdle DEF Crash, Working, Mid
  <2> QED
    BY <2>1, <2>2, <2>3 DEF Aborted
<1>4. \A i \in Jobs : job'[i].status = job[i].status /\ job'[i].attempts = job[i].attempts
  BY <1>2 DEF dbVars
<1>5. /\ \A v \in Workers : worker'[v].stage \in Working =>
            /\ worker[v].stage \in Working
            /\ worker'[v].job = worker[v].job /\ worker'[v].n = worker[v].n
      /\ \A v \in Workers : worker'[v].stage \in Mid => v # x /\ worker[v].stage \in Mid
  BY <1>3 DEF Working
<1> QED
  BY <1>1, <1>2, <1>4, <1>5, LateStep DEF dbVars

(* Recovery abandons an attempt whose claim was told, and records nothing.  *)
LEMMA WRecover ==
    ASSUME WInv, WTyped', UNCHANGED <<events, pending>>, NEW j \in Jobs,
           RecoverExhausted(j) \/ \E p \in Publishers : RecoverForRetry(p, j)
    PROVE  WInv'
<1> DEFINE m == job[j].attempts
<1>0. job \in [Jobs -> JobRow] /\ attempt \in [Jobs -> Led]
  BY WRows
<1>1. /\ job[j].status = "processing" /\ UNCHANGED <<errors, snapshot, worker>>
      /\ attempt' = [attempt EXCEPT ![j][m] = "abandoned"]
  BY DEF RecoverExhausted, RecoverForRetry, Stale, Abandon
<1>2. PICK again \in BOOLEAN : Settle(j, again, m, FALSE)
  BY DEF RecoverExhausted, RecoverForRetry
<1>3. \A i \in Jobs : /\ job'[i].status # "absent" <=> job[i].status # "absent"
                      /\ job'[i].attempts = job[i].attempts
  BY <1>0, <1>1, <1>2 DEF Settle, JobRow
<1>4. m > 0 /\ attempt[j][m] = "running" /\ m \in 1 .. MaxAttempts
  <2>1. m > 0 /\ attempt[j][m] = "running"
    BY <1>1 DEF WInv, WTyped, LInv, IInv, ProcessingIsRecoverable
  <2>2. m \in 0 .. MaxAttempts
    BY <1>0 DEF JobRow
  <2> QED
    BY <2>1, <2>2, MaxAttemptsAssumption
<1>5. ASSUME NEW i \in Jobs, NEW n \in 1 .. MaxAttempts
      PROVE  attempt'[i][n] = attempt[i][n] \/ StateTold(i, n)'
  <2>1. CASE i = j /\ n = m
    <3>1. attempt'[j][m] = "abandoned"
      BY <1>0, <1>1, <1>4 DEF Led
    <3>2. Told(j, "worker.claimed", m)
      BY <1>4 DEF WInv, LedgerTold, StateTold
    <3>3. Told(i, "worker.claimed", n)'
      BY <2>1, <3>2 DEF Told, EventsOf
    <3> QED
      BY <2>1, <3>1, <3>3 DEF StateTold
  <2>2. CASE ~(i = j /\ n = m)
    BY <1>0, <1>1, <2>2 DEF Led
  <2> QED
    BY <2>1, <2>2
<1> QED
  BY <1>1, <1>3, <1>5, StillStep

LEMMA WSilent ==
    ASSUME WInv, WTyped', Silent \/ UNCHANGED allVars
    PROVE  WInv'
<1>0. worker \in [Workers -> WorkerState] /\ job \in [Jobs -> JobRow]
  BY WRows
<1>1. UNCHANGED <<events, pending>>
  BY DEF Silent, timelineVars, allVars
<1>2. CASE \E j \in Jobs : RecoverExhausted(j) \/ \E p \in Publishers : RecoverForRetry(p, j)
  BY <1>1, <1>2, WRecover
<1>3. CASE \/ \E p \in Publishers :
                 \/ \E j \in Jobs : Resubmit(p, j) \/ SelectDue(p, j)
                 \/ Publish(p) \/ PublishFails(p) \/ ReadForReceipt(p)
           \/ \E w \in Workers, j \in Jobs : Skip(w, j)
           \/ \E j \in Jobs : \/ LoseMessage(j) \/ LeaseExpires(j) \/ BackoffEnds(j)
                              \/ ReceiptAges(j)
           \/ UNCHANGED allVars
  <2>1. UNCHANGED <<attempt, errors, snapshot, worker>>
    BY <1>3 DEF Resubmit, SelectDue, Publish, PublishFails, ReadForReceipt, Skip,
       LoseMessage, LeaseExpires, BackoffEnds, ReceiptAges, allVars, vars, dbVars
  <2>2. \A i \in Jobs : job'[i].status = job[i].status /\ job'[i].attempts = job[i].attempts
    <3>1. CASE \E j \in Jobs : LeaseExpires(j) \/ BackoffEnds(j) \/ ReceiptAges(j)
      BY <1>0, <3>1 DEF LeaseExpires, BackoffEnds, ReceiptAges, JobRow
    <3>2. CASE job' = job
      BY <3>2
    <3> QED
      BY <1>3, <3>1, <3>2 DEF Resubmit, SelectDue, Publish, PublishFails, ReadForReceipt,
         Skip, LoseMessage, allVars, vars, dbVars
  <2> QED
    BY <1>1, <2>1, <2>2, StillStep
<1>4. ASSUME NEW w \in Workers,
             \/ Flush(w) \/ RecordFailureFails(w) \/ \E j \in Jobs : ClaimFails(w, j)
      PROVE  WInv'
  <2>1. UNCHANGED <<job, attempt, errors, snapshot>>
    BY <1>4 DEF Flush, RecordFailureFails, ClaimFails, dbVars
  <2>2. /\ \A v \in Workers \ {w} : worker'[v] = worker[v]
        /\ worker'[w].stage \in Working =>
              /\ worker[w].stage \in Mid
              /\ worker'[w].job = worker[w].job /\ worker'[w].n = worker[w].n
    <3>1. CASE Flush(w)
      BY <1>0, <3>1 DEF Flush, WorkerState, Mid
    <3>2. CASE RecordFailureFails(w)
      BY <1>0, <3>2, NowIdle DEF RecordFailureFails, Working, Mid
    <3>3. CASE \E j \in Jobs : ClaimFails(w, j)
      BY <1>0, <3>3, NowFailing DEF ClaimFails, Working, Mid
    <3> QED
      BY <1>4, <3>1, <3>2, <3>3
  <2>3. \A v \in Workers : worker'[v].stage \in Working =>
              /\ worker[v].stage \in Working
              /\ worker'[v].stage \in Mid => worker[v].stage \in Mid
              /\ worker'[v].job = worker[v].job /\ worker'[v].n = worker[v].n
    BY <2>2 DEF Working
  <2> QED
    BY <1>1, <2>1, <2>3, StillStep
<1> QED
  BY <1>2, <1>3, <1>4 DEF Silent, JobNext

(* A step in which process x records an event and commits.                  *)
LEMMA Recorded ==
    ASSUME WInv, NEW x \in Processes, NEW j, NEW stage, NEW n, Record(x, j, stage, n)
    PROVE  /\ console' = console /\ events \subseteq events'
           /\ Told(j, stage, n)'
           /\ \A y \in Processes \ {x} : pending'[y] = pending[y]
           /\ pending'[x] = {}
           /\ \E e \in NewEvents(j, stage, n) :
                 /\ \A f \in Stamped' : f \in Stamped \/ f = e
                 /\ \A f \in events' : f \in events \/ f.stage \in Late \/ f = e
<1>1. TimelineTypeOK /\ pending \in [Processes -> SUBSET Event] /\ Forget(x)
      /\ console' = console
  BY DEF WInv, WTyped, TimelineTypeOK, Record
<1>2. PICK e \in NewEvents(j, stage, n) : events' = events \union pending[x] \union {e}
  BY DEF Record
<1>3. /\ \A f \in Stamped' : f \in Stamped \/ f \in {e}
      /\ \A f \in events' : f \in events \/ f \in pending[x] \/ f \in {e}
      /\ events \subseteq events'
      /\ \A y \in Processes \ {x} : pending'[y] = pending[y]
  BY <1>1, <1>2, StampsSeen
<1>4. pending'[x] = {}
  BY <1>1 DEF Forget
<1>5. Told(j, stage, n)'
  BY <1>2, NewEvent DEF Told, EventsOf
<1> QED
  BY <1>1, <1>3, <1>4, <1>5, WRows

LEMMA WSubmit ==
    ASSUME WInv, WTyped', NEW p \in Publishers, NEW j \in Jobs, RecordedSubmit(p, j)
    PROVE  WInv'
<1>0. /\ job \in [Jobs -> JobRow] /\ p \in Processes /\ (\A w \in Workers : w # p)
      /\ (\A f \in Stamped : f \in Event) /\ (\A f \in events : f \in Stamped)
      /\ StampsHold /\ PendingHold /\ AttemptsHeld /\ LedgerTold
  BY WRows, Process DEF WInv
<1>1. /\ job[j].status = "absent" /\ job' = [job EXCEPT ![j].status = "queued"]
      /\ UNCHANGED <<attempt, errors, snapshot, worker>>
      /\ Record(p, j, "job.queued", 0)
  BY DEF RecordedSubmit, Submit
<1>2. /\ events \subseteq events' /\ Told(j, "job.queued", 0)'
      /\ \A y \in Processes \ {p} : pending'[y] = pending[y]
      /\ pending'[p] = {}
  BY <1>0, <1>1, Recorded
<1>3. PICK e \in NewEvents(j, "job.queued", 0) :
         /\ \A f \in Stamped' : f \in Stamped \/ f = e
         /\ \A f \in events' : f \in events \/ f.stage \in Late \/ f = e
  BY <1>0, <1>1, Recorded
<1>4. e.stage = "job.queued"
  BY NewEvent
<1>5. /\ job' \in [Jobs -> JobRow] /\ job'[j].status # "absent"
      /\ \A i \in Jobs : /\ job[i].status # "absent" => job'[i].status # "absent"
                         /\ job'[i].attempts = job[i].attempts
                         /\ i # j => job'[i] = job[i]
  BY <1>0, <1>1 DEF WTyped, LInv, IInv, TypeOK, JobRow
<1>6. \A i \in Jobs : job[i].attempts \in Nat
  BY <1>0, MaxAttemptsAssumption DEF JobRow
<1>7. StampsHold'
  <2>1. \A i \in Jobs : job[i].attempts <= job'[i].attempts /\ 0 <= job'[i].attempts
    BY <1>5, <1>6
  <2> QED
    BY <1>0, <1>1, <1>3, <1>5, <2>1, StampsGrow
<1>8. PendingHold'
  BY <1>0, <1>1, <1>2, PendingStays
<1>9. AttemptsHeld'
  BY <1>0, <1>1, <1>2, <1>3, <1>4, AttemptsStay
<1>10. \A i, n : Told(i, "job.completed", n)' => Told(i, "job.completed", n)
  BY <1>3, <1>4 DEF Told, EventsOf, Late
<1>11. \A i \in Jobs : \/ job'[i].status # "absent" => job[i].status # "absent"
                       \/ Told(i, "job.queued", 0)'
  BY <1>2, <1>5
<1>12. LedgerTold'
  BY <1>0, <1>1, <1>2, <1>10, <1>11, LedgerStays
<1> QED
  BY <1>7, <1>8, <1>9, <1>12 DEF WInv

LEMMA WClaim ==
    ASSUME WInv, WTyped', NEW w \in Workers, NEW j \in Jobs, RecordedClaim(w, j)
    PROVE  WInv'
<1>0. /\ job \in [Jobs -> JobRow] /\ worker \in [Workers -> WorkerState]
      /\ attempt \in [Jobs -> Led] /\ w \in Processes
      /\ (\A f \in Stamped : f \in Event) /\ (\A f \in events : f \in Stamped)
      /\ StampsHold /\ PendingHold /\ AttemptsHeld /\ LedgerTold
  BY WRows, Process DEF WInv
<1>1. PICK m : m = job[j].attempts + 1
  OBVIOUS
<1>2. /\ worker[w].stage = "idle"
      /\ job[j].status = "queued"
      /\ job' = [job EXCEPT ![j].status = "processing", ![j].attempts = m,
                            ![j].lease = "live", ![j].backoff = FALSE]
      /\ attempt' = [attempt EXCEPT ![j][m] = "running"]
      /\ UNCHANGED <<errors, snapshot>>
      /\ Record(w, j, "worker.claimed", m)
  BY <1>1 DEF RecordedClaim, Claim, Claimable, Deliver
<1>3. /\ events \subseteq events' /\ Told(j, "worker.claimed", m)'
      /\ \A y \in Processes \ {w} : pending'[y] = pending[y]
      /\ pending'[w] = {}
  BY <1>0, <1>2, Recorded
<1>4. PICK e \in NewEvents(j, "worker.claimed", m) :
         /\ \A f \in Stamped' : f \in Stamped \/ f = e
         /\ \A f \in events' : f \in events \/ f.stage \in Late \/ f = e
  BY <1>0, <1>2, Recorded
<1>5. e.stage = "worker.claimed"
  BY NewEvent
<1>6. \A i \in Jobs : job[i].attempts \in Nat
  BY <1>0, MaxAttemptsAssumption DEF JobRow
<1>7. /\ job' \in [Jobs -> JobRow] /\ job'[j].status # "absent" /\ job'[j].attempts = m
      /\ \A i \in Jobs : /\ job'[i].status # "absent" <=> job[i].status # "absent"
                         /\ i # j => job'[i] = job[i]
  BY <1>0, <1>2 DEF WTyped, LInv, IInv, TypeOK, JobRow
<1>8. job[j].attempts < m
  BY <1>1, <1>6
<1>9. StampsHold'
  <2>1. ASSUME NEW i \in Jobs PROVE job[i].attempts <= job'[i].attempts
    <3>1. CASE i = j
      BY <1>1, <1>6, <1>7, <3>1
    <3>2. CASE i # j
      BY <1>6, <1>7, <3>2
    <3> QED
      BY <3>1, <3>2
  <2>2. m <= job'[j].attempts
    BY <1>1, <1>6, <1>7
  <2> QED
    BY <1>0, <1>4, <1>7, <1>8, <2>1, <2>2, StampsGrow
<1>10. /\ worker'[w].stage = "claimed" /\ worker'[w].job = j /\ worker'[w].n = m
       /\ \A v \in Workers \ {w} : worker'[v] = worker[v]
  <2> DEFINE s == [IdleWorker EXCEPT !.stage = "claimed", !.job = j, !.n = m,
                                     !.cached = job[j].counts]
  <2>1. s.stage = "claimed" /\ s.job = j /\ s.n = m
    BY DEF IdleWorker
  <2>2. worker' = [worker EXCEPT ![w] = s]
    BY <1>1 DEF RecordedClaim, Claim
  <2> HIDE DEF s
  <2> QED
    BY <1>0, <2>1, <2>2
<1>11. PendingHold'
  <2>1. \A v \in Workers : worker'[v].stage \in Mid =>
           /\ v # w /\ worker[v].stage \in Mid
           /\ worker'[v].job = worker[v].job /\ worker'[v].n = worker[v].n
    BY <1>10 DEF Mid
  <2> QED
    BY <1>0, <1>3, <2>1, PendingStays
<1>12. \A f \in Stamped' : f.stage = "job.completed" => f \in Stamped
  BY <1>4, <1>5
<1>13. AttemptsHeld'
  <2>1. ASSUME NEW v \in Workers \ {w}, worker[v].stage \in Working, worker[v].job = j
        PROVE  worker[v].n # m
    <3>1. worker[v].n \in 1 .. job[j].attempts
      BY <2>1 DEF Working, Mid, WInv, WTyped, LInv, IInv, WorkersHold
    <3> QED
      BY <1>6, <1>8, <3>1
  <2>2. ASSUME NEW f \in Stamped, f.job = j PROVE f.n # m
    <3>1. f.n <= job[j].attempts /\ f.n \in Nat
      BY <1>0, <2>2, EventTyped DEF StampsHold
    <3> QED
      BY <1>6, <1>8, <3>1
  <2> SUFFICES ASSUME NEW v \in Workers, worker'[v].stage \in Working
               PROVE  /\ \E f \in events' :
                            /\ f.job = worker'[v].job /\ f.n = worker'[v].n
                            /\ f.stage = "worker.claimed"
                      /\ \A f \in Stamped' :
                            f.stage = "job.completed" /\ f.job = worker'[v].job
                               => f.n # worker'[v].n
                      /\ \A u \in Workers \ {v} :
                            worker'[u].stage \in Working /\ worker'[u].job = worker'[v].job
                               => worker'[u].n # worker'[v].n
    BY DEF AttemptsHeld, Told, EventsOf
  <2>3. CASE v = w
    <3>1. \E f \in events' : f.job = j /\ f.n = m /\ f.stage = "worker.claimed"
      BY <1>3 DEF Told, EventsOf
    <3>2. \A f \in Stamped' : f.stage = "job.completed" /\ f.job = j => f.n # m
      BY <1>12, <2>2
    <3>3. \A u \in Workers \ {w} :
             worker'[u].stage \in Working /\ worker'[u].job = j => worker'[u].n # m
      BY <1>10, <2>1
    <3> QED
      BY <1>10, <2>3, <3>1, <3>2, <3>3
  <2>4. CASE v # w
    <3>1. worker'[v] = worker[v] /\ worker[v].stage \in Working
      BY <1>10, <2>4
    <3>2. /\ \E f \in events : /\ f.job = worker[v].job /\ f.n = worker[v].n
                               /\ f.stage = "worker.claimed"
          /\ \A f \in Stamped : f.stage = "job.completed" /\ f.job = worker[v].job
                                   => f.n # worker[v].n
          /\ \A u \in Workers \ {v} :
                worker[u].stage \in Working /\ worker[u].job = worker[v].job
                   => worker[u].n # worker[v].n
      BY <1>0, <3>1 DEF AttemptsHeld, Told, EventsOf
    <3>3. \A u \in Workers \ {v} :
             worker'[u].stage \in Working /\ worker'[u].job = worker[v].job
                => worker'[u].n # worker[v].n
      <4> SUFFICES ASSUME NEW u \in Workers \ {v}, worker'[u].stage \in Working,
                          worker'[u].job = worker[v].job
                   PROVE  worker'[u].n # worker[v].n
        OBVIOUS
      <4>1. CASE u = w
        <5>1. worker[v].n # m
          BY <1>10, <2>1, <2>4, <3>1, <4>1
        <5> QED
          BY <1>10, <4>1, <5>1
      <4>2. CASE u # w
        BY <1>10, <3>2, <4>2
      <4> QED
        BY <4>1, <4>2
    <3> QED
      BY <1>3, <1>12, <3>1, <3>2, <3>3
  <2> QED
    BY <2>3, <2>4
<1>14. \A i, n : Told(i, "job.completed", n)' => Told(i, "job.completed", n)
  BY <1>4, <1>5 DEF Told, EventsOf, Late
<1>15. ASSUME NEW i \in Jobs, NEW n \in 1 .. MaxAttempts
       PROVE  attempt'[i][n] = attempt[i][n] \/ StateTold(i, n)'
  <2>1. CASE i = j /\ n = m
    <3>1. attempt'[i][n] = "running"
      BY <1>0, <1>2, <2>1 DEF Led
    <3> QED
      BY <1>3, <2>1, <3>1 DEF StateTold
  <2>2. CASE ~(i = j /\ n = m)
    BY <1>0, <1>2, <2>2 DEF Led
  <2> QED
    BY <2>1, <2>2
<1>16. LedgerTold'
  BY <1>0, <1>2, <1>3, <1>7, <1>14, <1>15, LedgerStays
<1> QED
  BY <1>9, <1>11, <1>13, <1>16 DEF WInv

LEMMA WFailure ==
    ASSUME WInv, WTyped', NEW w \in Workers, RecordedFailure(w)
    PROVE  WInv'
<1>0. /\ job \in [Jobs -> JobRow] /\ worker \in [Workers -> WorkerState]
      /\ attempt \in [Jobs -> Led] /\ w \in Processes
      /\ (\A f \in Stamped : f \in Event) /\ (\A f \in events : f \in Stamped)
      /\ StampsHold /\ PendingHold /\ AttemptsHeld /\ LedgerTold
  BY WRows, Process DEF WInv
<1>1. worker[w].stage = "failing" /\ worker[w].job \in Jobs
  BY DEF RecordedFailure, RecordFailure, WInv, WTyped, LInv, IInv, WorkersHold
<1>2. PICK j \in Jobs : j = worker[w].job
  BY <1>1
<1>3. PICK m : m = IF job[j].attempts = 0 THEN 1 ELSE job[j].attempts
  OBVIOUS
<1>4. PICK again \in BOOLEAN : again <=> MayRetry(worker[w].retryable, m)
  OBVIOUS
<1>5. PICK stage : stage = IF again THEN "job.retry_scheduled" ELSE "job.failed"
  OBVIOUS
<1>6. PICK end : end = IF again THEN "retry_scheduled" ELSE "failed"
  OBVIOUS
<1>7. /\ job' = [job EXCEPT ![j].status = IF again THEN "queued" ELSE "failed",
                            ![j].attempts = m, ![j].lease = "none",
                            ![j].backoff = MayRetry(worker[w].retryable, m),
                            ![j].dispatched = FALSE]
      /\ attempt' = [attempt EXCEPT ![j][m] = end]
      /\ worker' = [worker EXCEPT ![w] = IdleWorker]
      /\ UNCHANGED <<errors, snapshot>>
      /\ Record(w, j, stage, m)
  BY <1>2, <1>3, <1>4, <1>5, <1>6 DEF RecordedFailure, RecordFailure, Settle
<1>8. /\ events \subseteq events' /\ Told(j, stage, m)'
      /\ \A y \in Processes \ {w} : pending'[y] = pending[y]
      /\ pending'[w] = {}
  BY <1>0, <1>7, Recorded
<1>9. PICK e \in NewEvents(j, stage, m) :
         /\ \A f \in Stamped' : f \in Stamped \/ f = e
         /\ \A f \in events' : f \in events \/ f.stage \in Late \/ f = e
  BY <1>0, <1>7, Recorded
<1>10. e.stage = stage
  BY NewEvent
<1>11. \A i \in Jobs : job[i].attempts \in Nat
  BY <1>0, MaxAttemptsAssumption DEF JobRow
<1>12. job[j].status # "absent"
  BY <1>1, <1>2 DEF WInv, WTyped, LInv, OnlyAccepted
<1>13. /\ job' \in [Jobs -> JobRow] /\ job'[j].status # "absent" /\ job'[j].attempts = m
       /\ \A i \in Jobs \ {j} : job'[i] = job[i]
  BY <1>0, <1>7 DEF WTyped, LInv, IInv, TypeOK, JobRow
<1>14. StampsHold'
  <2>1. \A i \in Jobs : /\ job[i].status # "absent" => job'[i].status # "absent"
                        /\ job[i].attempts <= job'[i].attempts
    BY <1>3, <1>11, <1>13
  <2>2. m <= job'[j].attempts
    BY <1>3, <1>11, <1>13
  <2> QED
    BY <1>0, <1>5, <1>9, <1>13, <2>1, <2>2, StampsGrow
<1>15. \A v \in Workers : worker'[v].stage \in Working => v # w /\ worker'[v] = worker[v]
  BY <1>0, <1>7, NowIdle DEF Working, Mid
<1>16. PendingHold'
  <2>1. \A v \in Workers : worker'[v].stage \in Mid =>
           /\ v # w /\ worker[v].stage \in Mid
           /\ worker'[v].job = worker[v].job /\ worker'[v].n = worker[v].n
    BY <1>15 DEF Working
  <2> QED
    BY <1>0, <1>8, <2>1, PendingStays
<1>17. AttemptsHeld'
  <2>1. \A f \in Stamped' : f.stage = "job.completed" => f \in Stamped
    BY <1>5, <1>9, <1>10
  <2> QED
    BY <1>0, <1>8, <1>15, <2>1, AttemptsStay
<1>18. \A i, n : Told(i, "job.completed", n)' => Told(i, "job.completed", n)
  BY <1>5, <1>9, <1>10 DEF Told, EventsOf, Late
<1>19. ASSUME NEW i \in Jobs, NEW n \in 1 .. MaxAttempts
       PROVE  attempt'[i][n] = attempt[i][n] \/ StateTold(i, n)'
  <2>1. CASE i = j /\ n = m
    <3>1. attempt'[i][n] = end
      BY <1>0, <1>7, <2>1 DEF Led
    <3> QED
      BY <1>5, <1>6, <1>8, <2>1, <3>1 DEF StateTold
  <2>2. CASE ~(i = j /\ n = m)
    BY <1>0, <1>7, <2>2 DEF Led
  <2> QED
    BY <2>1, <2>2
<1>20. LedgerTold'
  <2>1. \A i \in Jobs : job'[i].status # "absent" => job[i].status # "absent"
    BY <1>12, <1>13
  <2> QED
    BY <1>0, <1>7, <1>8, <1>18, <1>19, <2>1, LedgerStays
<1> QED
  BY <1>14, <1>16, <1>17, <1>20 DEF WInv

LEMMA WFinish ==
    ASSUME WInv, WTyped', NEW w \in Workers, RecordedFinish(w)
    PROVE  WInv'
<1>0. /\ job \in [Jobs -> JobRow] /\ worker \in [Workers -> WorkerState]
      /\ attempt \in [Jobs -> Led] /\ errors \in [Jobs -> SUBSET Keys]
      /\ w \in Processes /\ (\A f \in Stamped : f \in Event)
      /\ (\A f \in events : f \in Stamped)
      /\ StampsHold /\ PendingHold /\ AttemptsHeld /\ LedgerTold
  BY WRows, Process DEF WInv
<1>1. /\ CommitResult(w) /\ worker[w].stage \in Mid
      /\ Record(w, worker[w].job, "job.completed", worker[w].n)
  BY DEF RecordedFinish, Finish, FinishUnconfirmed, CommitResult, Mid
<1>2. /\ worker[w].job \in Jobs /\ worker[w].n \in 1 .. job[worker[w].job].attempts
      /\ worker[w].stage \in Working
  BY <1>1 DEF WInv, WTyped, LInv, IInv, WorkersHold, Mid, Working
<1>3. PICK j \in Jobs : j = worker[w].job
  BY <1>2
<1>4. PICK m : m = worker[w].n
  OBVIOUS
<1>5. PICK rows : rows = worker[w].accepted
  OBVIOUS
<1>6. PICK bad : bad = worker[w].rejected
  OBVIOUS
<1>7. /\ attempt' = [attempt EXCEPT ![j][m] = "succeeded"]
      /\ snapshot' = [k \in Keys |-> IF k \in rows THEN j ELSE snapshot[k]]
      /\ errors' = [errors EXCEPT ![j] = @ \union bad]
  BY <1>1, <1>3, <1>4, <1>5, <1>6 DEF CommitResult
<1>8. /\ events \subseteq events' /\ Told(j, "job.completed", m)'
      /\ \A y \in Processes \ {w} : pending'[y] = pending[y]
      /\ pending'[w] = {}
  BY <1>0, <1>1, <1>3, <1>4, Recorded
<1>9. PICK e \in NewEvents(j, "job.completed", m) :
         /\ \A f \in Stamped' : f \in Stamped \/ f = e
         /\ \A f \in events' : f \in events \/ f.stage \in Late \/ f = e
  BY <1>0, <1>1, <1>3, <1>4, Recorded
<1>10. e.job = j /\ e.n = m /\ e.stage = "job.completed"
  BY NewEvent
<1>11. \A i \in Jobs : job[i].attempts \in Nat
  BY <1>0, MaxAttemptsAssumption DEF JobRow
<1>12. job[j].status # "absent" /\ m <= job[j].attempts /\ m > 0
  <2>1. job[j].status # "absent"
    BY <1>2, <1>3 DEF WInv, WTyped, LInv, OnlyAccepted, Working, Mid
  <2>2. m \in 1 .. job[j].attempts
    BY <1>2, <1>3, <1>4
  <2> QED
    BY <1>11, <2>1, <2>2
<1>13. /\ \A i \in Jobs \ {j} : job'[i] = job[i]
       /\ job'[j].attempts = job[j].attempts /\ job'[j].status # "absent"
       /\ job' \in [Jobs -> JobRow]
  <2>1. PICK done, c : /\ done # "absent"
                       /\ job' = [job EXCEPT ![j].status = done, ![j].lease = "none",
                                             ![j].counts = c]
    BY <1>1, <1>3 DEF CommitResult, FinalStatus
  <2> QED
    BY <1>0, <2>1 DEF JobRow, WTyped, LInv, IInv, TypeOK
<1>14. \A f \in Stamped : f.stage = "job.completed" /\ f.job = j => f.n # m
  BY <1>0, <1>2, <1>3, <1>4 DEF AttemptsHeld
<1>15. StampsHold'
  <2>1. \A i \in Jobs : /\ job[i].status # "absent" => job'[i].status # "absent"
                        /\ job[i].attempts <= job'[i].attempts
    BY <1>11, <1>13
  <2> QED
    BY <1>0, <1>9, <1>12, <1>13, <1>14, <2>1, StampsGrow
<1>16. \A v \in Workers : /\ worker'[v].stage \in Working => v # w
                          /\ v # w => worker'[v] = worker[v]
  BY <1>0, NowIdle, NowFailing DEF RecordedFinish, Finish, FinishUnconfirmed, Working, Mid
<1>17. PendingHold'
  <2>1. \A v \in Workers : worker'[v].stage \in Mid =>
           /\ v # w /\ worker[v].stage \in Mid
           /\ worker'[v].job = worker[v].job /\ worker'[v].n = worker[v].n
    BY <1>16 DEF Working
  <2> QED
    BY <1>0, <1>8, <2>1, PendingStays
<1>18. AttemptsHeld'
  <2> SUFFICES ASSUME NEW v \in Workers, worker'[v].stage \in Working
               PROVE  /\ \E f \in events' :
                            /\ f.job = worker'[v].job /\ f.n = worker'[v].n
                            /\ f.stage = "worker.claimed"
                      /\ \A f \in Stamped' :
                            f.stage = "job.completed" /\ f.job = worker'[v].job
                               => f.n # worker'[v].n
                      /\ \A u \in Workers \ {v} :
                            worker'[u].stage \in Working /\ worker'[u].job = worker'[v].job
                               => worker'[u].n # worker'[v].n
    BY DEF AttemptsHeld, Told, EventsOf
  <2>1. v # w /\ worker'[v] = worker[v] /\ worker[v].stage \in Working
    BY <1>16
  <2>2. /\ \E f \in events : /\ f.job = worker[v].job /\ f.n = worker[v].n
                             /\ f.stage = "worker.claimed"
        /\ \A f \in Stamped : f.stage = "job.completed" /\ f.job = worker[v].job
                                 => f.n # worker[v].n
        /\ \A u \in Workers \ {v} :
              worker[u].stage \in Working /\ worker[u].job = worker[v].job
                 => worker[u].n # worker[v].n
    BY <1>0, <2>1 DEF AttemptsHeld, Told, EventsOf
  <2>3. worker[v].job = j => worker[v].n # m
    BY <1>2, <1>3, <1>4, <2>1, <2>2
  <2>4. \A f \in Stamped' : f.stage = "job.completed" /\ f.job = worker[v].job
                               => f.n # worker[v].n
    BY <1>9, <1>10, <2>2, <2>3
  <2>5. \A u \in Workers \ {v} :
           worker'[u].stage \in Working /\ worker'[u].job = worker[v].job
              => worker'[u].n # worker[v].n
    BY <1>16, <2>2
  <2> QED
    BY <1>8, <2>1, <2>2, <2>4, <2>5
<1>19. \A k \in Keys : snapshot[k] # NoJob => snapshot'[k] # NoJob
  BY <1>7, JobsAssumption
<1>20. Accounted(j, m)'
  <2>1. Told(j, "worker.claimed", m)'
    <3>1. Told(j, "worker.claimed", m)
      BY <1>0, <1>2, <1>3, <1>4 DEF AttemptsHeld
    <3> QED
      BY <1>8, <3>1, ToldStays
  <2>2. Told(j, "payload.transformed", m)'
    <3>1. PICK f \in pending[w] : f.job = j /\ f.n = m /\ f.stage = "payload.transformed"
      BY <1>0, <1>1, <1>3, <1>4 DEF PendingHold, Translated
    <3>2. f \in events'
      BY <1>1, <3>1 DEF Record
    <3> QED
      BY <3>1, <3>2 DEF Told, EventsOf
  <2>3. ASSUME NEW k \in RowsOf[j] PROVE snapshot'[k] # NoJob \/ k \in errors'[j]
    <3>1. k \in Keys
      BY RowsAssumption
    <3>2. k \in rows \/ k \in bad
      BY <1>1, <1>3, <1>5, <1>6 DEF Mid, WInv, WTyped, LInv, IInv, RowsSorted
    <3> QED
      BY <1>0, <1>7, <3>1, <3>2, JobsAssumption
  <2> QED
    BY <2>1, <2>2, <2>3 DEF Accounted
<1>21. \A i, n : Told(i, "job.completed", n)' =>
          Told(i, "job.completed", n) \/ (i = j /\ n = m)
  BY <1>9, <1>10 DEF Told, EventsOf, Late
<1>22. ASSUME NEW i \in Jobs, NEW n \in 1 .. MaxAttempts
       PROVE  attempt'[i][n] = attempt[i][n] \/ StateTold(i, n)'
  <2>1. CASE i = j /\ n = m
    <3>1. attempt'[i][n] = "succeeded"
      BY <1>0, <1>7, <2>1 DEF Led
    <3> QED
      BY <1>8, <2>1, <3>1 DEF StateTold
  <2>2. CASE ~(i = j /\ n = m)
    BY <1>0, <1>7, <2>2 DEF Led
  <2> QED
    BY <2>1, <2>2
<1>23. LedgerTold'
  <2>1. \A i \in Jobs : /\ job'[i].status # "absent" => job[i].status # "absent"
                        /\ errors[i] \subseteq errors'[i]
    BY <1>0, <1>7, <1>12, <1>13
  <2>2. \A i \in Jobs : \A n \in 1 .. MaxAttempts :
           Told(i, "job.completed", n)' => Told(i, "job.completed", n) \/ Accounted(i, n)'
    BY <1>20, <1>21
  <2> QED
    BY <1>0, <1>8, <1>19, <1>22, <2>1, <2>2, LedgerStays
<1> QED
  BY <1>15, <1>17, <1>18, <1>23 DEF WInv

(* Types, whatever the environment does.                                    *)
LEMMA RecordTyped ==
    ASSUME TimelineTypeOK, NEW x \in Processes, NEW j, NEW stage, NEW n,
           Record(x, j, stage, n) \/ Stamp(x, j, stage, n)
    PROVE  TimelineTypeOK' /\ console' = console
<1>1. console' = console
  BY DEF Record, Stamp
<1>2. \E e \in NewEvents(j, stage, n) :
         \/ events' = events /\ pending' = [pending EXCEPT ![x] = {e}]
         \/ events' = events \union pending[x] \union {e} /\ Forget(x)
  BY DEF Record, Stamp
<1> QED
  BY <1>1, <1>2, StampTyped

LEMMA ProcessTyped ==
    ASSUME TimelineTypeOK,
           \/ \E p \in Publishers :
                 StampReceipt(p) \/ RecordedReceipt(p) \/ \E j \in Jobs : RecordedSubmit(p, j)
           \/ \E w \in Workers :
                 \/ \E j \in Jobs : RecordedClaim(w, j)
                 \/ StampedCheck(w) \/ RecordedFinish(w) \/ RecordedFailure(w)
           \/ \E x \in Processes : Aborted(x)
           \/ Silent \/ UNCHANGED allVars
    PROVE  TimelineTypeOK' /\ console' = console
<1>1. ASSUME NEW p \in Publishers,
             StampReceipt(p) \/ RecordedReceipt(p) \/ \E j \in Jobs : RecordedSubmit(p, j)
      PROVE  TimelineTypeOK' /\ console' = console
  <2>1. CASE StampReceipt(p) \/ \E j \in Jobs : RecordedSubmit(p, j)
    BY <2>1, Process, RecordTyped DEF StampReceipt, RecordedSubmit
  <2>2. CASE RecordedReceipt(p)
    BY <2>2, Process, DropTyped DEF RecordedReceipt
  <2> QED
    BY <1>1, <2>1, <2>2
<1>2. ASSUME NEW w \in Workers,
             \/ \E j \in Jobs : RecordedClaim(w, j)
             \/ StampedCheck(w) \/ RecordedFinish(w) \/ RecordedFailure(w)
      PROVE  TimelineTypeOK' /\ console' = console
  BY <1>2, Process, RecordTyped DEF RecordedClaim, StampedCheck, RecordedFinish, RecordedFailure
<1>3. ASSUME NEW x \in Processes, Aborted(x)
      PROVE  TimelineTypeOK' /\ console' = console
  BY <1>3, DropTyped DEF Aborted, RollBack
<1>4. CASE Silent \/ UNCHANGED allVars
  BY <1>4 DEF Silent, timelineVars, allVars, TimelineTypeOK, Stamped
<1> QED
  BY <1>1, <1>2, <1>3, <1>4

LEMMA PutsTyped ==
    ASSUME TimelineTypeOK, ConsolesOpen, NEW c \in Consoles, ConsoleOnly, NEW q \in ConsoleState,
           console' = [console EXCEPT ![c] = q], q.stage # "closed" => q.job \in Jobs
    PROVE  TimelineTypeOK' /\ ConsolesOpen'
<1>1. console \in [Consoles -> ConsoleState] /\ UNCHANGED <<events, pending>>
  BY DEF TimelineTypeOK, ConsoleOnly
<1>2. console' \in [Consoles -> ConsoleState]
  BY <1>1
<1>3. \A d \in Consoles : d # c => console'[d] = console[d]
  BY <1>1
<1>4. console'[c] = q
  BY <1>1
<1>5. ConsolesOpen'
  BY <1>3, <1>4 DEF ConsolesOpen
<1> QED
  BY <1>1, <1>2, <1>5 DEF TimelineTypeOK, Stamped

(* A console goes to a page, or reads the job into a fresh one.             *)
LEMMA AtPutsTyped ==
    ASSUME TimelineTypeOK, ConsolesOpen, NEW c \in Consoles, ConsoleOnly,
           NEW stage \in {"closed", "polling", "told", "snapshots"},
           NEW j \in Jobs \union {NoJob}, NEW b \in BOOLEAN,
           NEW told \in {"nothing"} \union Terminal,
           NEW status \in JobStatus, NEW counts \in Counts,
           stage # "closed" => j \in Jobs,
           console' = [console EXCEPT
              ![c] = ConsoleAt(stage, j, b, told, PageOf(status, counts))]
    PROVE  TimelineTypeOK' /\ ConsolesOpen'
<1>1. PICK q : q = ConsoleAt(stage, j, b, told, PageOf(status, counts))
  OBVIOUS
<1>2. q \in ConsoleState
  BY <1>1, AtTyped
<1>3. q.stage = stage /\ q.job = j
  BY <1>1 DEF ConsoleAt
<1> QED
  BY <1>1, <1>2, <1>3, PutsTyped

LEMMA ConsolePages ==
    ASSUME TypeOK, TimelineTypeOK, ConsolesOpen, NEW c \in Consoles,
           \/ \E j \in Jobs : OpenPage(c, j) \/ \E b \in BOOLEAN : OpenStream(c, j, b)
           \/ EndUnsettled(c) \/ Disconnect(c) \/ CloseConsole(c) \/ ReadJob(c)
    PROVE  TimelineTypeOK' /\ ConsolesOpen'
<1>1. console[c] \in ConsoleState
  BY DEF TimelineTypeOK
<1>2. ASSUME NEW j \in Jobs, NEW b \in BOOLEAN, OpenPage(c, j) \/ OpenStream(c, j, b)
      PROVE  TimelineTypeOK' /\ ConsolesOpen'
  <2>1. PICK stage \in {"polling", "told"}, follow \in BOOLEAN :
           console' = [console EXCEPT ![c] = ConsoleAt(stage, j, follow, "nothing", EmptyPage)]
    BY <1>2 DEF OpenPage, OpenStream
  <2>2. ConsoleOnly
    BY <1>2 DEF OpenPage, OpenStream
  <2> QED
    BY <2>1, <2>2, EmptyTyped, AtPutsTyped DEF EmptyPage
<1>3. CASE EndUnsettled(c) \/ Disconnect(c)
  <2>1. console[c].job \in Jobs /\ GoToPage(c)
    BY <1>3 DEF EndUnsettled, Disconnect, ConsolesOpen
  <2> QED
    BY <2>1, EmptyTyped, AtPutsTyped DEF GoToPage, EmptyPage
<1>4. CASE CloseConsole(c)
  BY <1>4, EmptyTyped, AtPutsTyped DEF CloseConsole, ClosedConsole, EmptyPage
<1>5. CASE ReadJob(c)
  <2>1. /\ console[c].job \in Jobs /\ console[c].told \in {"nothing"} \union Terminal
        /\ ConsoleOnly
    BY <1>1, <1>5 DEF ReadJob, ConsolesOpen, ConsoleState
  <2>2. PICK row : row = job[console[c].job]
    OBVIOUS
  <2>3. row.status \in JobStatus /\ row.counts \in Counts
    BY <2>1, <2>2 DEF TypeOK, JobRow
  <2>4. console' = [console EXCEPT
           ![c] = ConsoleAt("snapshots", console[c].job, FALSE, console[c].told,
                            PageOf(row.status, row.counts))]
    BY <1>5, <2>2 DEF ReadJob
  <2> QED
    BY <2>1, <2>3, <2>4, AtPutsTyped
<1> QED
  BY <1>2, <1>3, <1>4, <1>5

(* A console that is open changes some fields of its stream.                *)
LEMMA StreamTyped ==
    ASSUME TimelineTypeOK, ConsolesOpen, NEW c \in Consoles, ConsoleOnly,
           console[c].stage # "closed",
           NEW stage \in {"polling", "listed", "told"}, NEW polls \in 0 .. MaxPolls,
           NEW seen \in SUBSET Nat, NEW settled \in BOOLEAN,
           NEW told \in {"nothing"} \union Terminal,
           console' = [console EXCEPT ![c].stage = stage, ![c].polls = polls,
                          ![c].seen = seen, ![c].settled = settled, ![c].told = told]
    PROVE  TimelineTypeOK' /\ ConsolesOpen'
<1>1. PICK q : q = [console[c] EXCEPT !.stage = stage, !.polls = polls, !.seen = seen,
                                      !.settled = settled, !.told = told]
  OBVIOUS
<1>2. console \in [Consoles -> ConsoleState] /\ console[c] \in ConsoleState
  BY DEF TimelineTypeOK
<1>3. q \in ConsoleState
  <2> HIDE DEF Page
  <2> QED
    BY <1>1, <1>2 DEF ConsoleState
<1>4. q.job = console[c].job /\ console[c].job \in Jobs
  BY <1>1, <1>2 DEF ConsoleState, ConsolesOpen
<1>5. console' = [console EXCEPT ![c] = q]
  BY <1>1, <1>2
<1> QED
  BY <1>3, <1>4, <1>5, PutsTyped

LEMMA ConsoleStreams ==
    ASSUME TimelineTypeOK, ConsolesOpen, NEW c \in Consoles,
           ListEvents(c) \/ TellOutcome(c) \/ Sleep(c)
    PROVE  TimelineTypeOK' /\ ConsolesOpen'
<1>0. /\ console \in [Consoles -> ConsoleState] /\ console[c] \in ConsoleState
      /\ events \subseteq Event /\ ConsoleOnly /\ console[c].stage # "closed"
  BY DEF TimelineTypeOK, ListEvents, TellOutcome, Sleep
<1>1. /\ console[c].polls \in 0 .. MaxPolls /\ console[c].seen \in SUBSET Nat
      /\ console[c].settled \in BOOLEAN /\ console[c].told \in {"nothing"} \union Terminal
      /\ MaxPolls \in Nat
  BY <1>0, MaxPollsAssumption DEF ConsoleState
<1>2. CASE ListEvents(c)
  <2>1. PICK seen : seen = console[c].seen \union {e.at : e \in Unsent(c)}
    OBVIOUS
  <2>2. PICK settled \in BOOLEAN : settled <=> job[console[c].job].status \in Terminal
    OBVIOUS
  <2>3. seen \in SUBSET Nat
    BY <1>0, <1>1, <2>1, EventTyped DEF Unsent, EventsOf
  <2>4. console' = [console EXCEPT ![c].stage = "listed", ![c].seen = seen,
                                   ![c].settled = settled]
    <3>1. settled = (job[console[c].job].status \in Terminal)
      BY <2>2
    <3> QED
      BY <1>2, <2>1, <3>1 DEF ListEvents
  <2>5. console' = [console EXCEPT ![c].stage = "listed", ![c].polls = console[c].polls,
                       ![c].seen = seen, ![c].settled = settled,
                       ![c].told = console[c].told]
    BY <1>0, <2>4 DEF ConsoleState
  <2> QED
    BY <1>0, <1>1, <2>3, <2>5, StreamTyped
<1>3. CASE TellOutcome(c)
  <2>1. PICK told \in {"nothing"} \union Terminal : told = job[console[c].job].status
    BY <1>3 DEF TellOutcome, Settled
  <2>2. console' = [console EXCEPT ![c].stage = "told", ![c].told = told]
    BY <1>3, <2>1 DEF TellOutcome
  <2>3. console' = [console EXCEPT ![c].stage = "told", ![c].polls = console[c].polls,
                       ![c].seen = console[c].seen, ![c].settled = console[c].settled,
                       ![c].told = told]
    BY <1>0, <2>2 DEF ConsoleState
  <2> QED
    BY <1>0, <1>1, <2>3, StreamTyped
<1>4. CASE Sleep(c)
  <2>1. console[c].polls + 1 \in 0 .. MaxPolls
    BY <1>1, <1>4 DEF Sleep
  <2>2. console' = [console EXCEPT ![c].stage = "polling", ![c].polls = console[c].polls + 1]
    BY <1>4 DEF Sleep
  <2>3. console' = [console EXCEPT ![c].stage = "polling", ![c].polls = console[c].polls + 1,
                       ![c].seen = console[c].seen, ![c].settled = console[c].settled,
                       ![c].told = console[c].told]
    BY <1>0, <2>2 DEF ConsoleState
  <2> QED
    BY <1>0, <1>1, <2>1, <2>3, StreamTyped
<1> QED
  BY <1>2, <1>3, <1>4

LEMMA PartTyped ==
    ASSUME TimelineTypeOK, ConsolesOpen, NEW c \in Consoles, ConsoleOnly,
           console[c].stage # "closed",
           NEW stage \in Reading, NEW page \in Page,
           console' = [console EXCEPT ![c].stage = stage, ![c].page = page]
    PROVE  TimelineTypeOK' /\ ConsolesOpen'
<1>1. PICK q : q = [console[c] EXCEPT !.stage = stage, !.page = page]
  OBVIOUS
<1>2. console \in [Consoles -> ConsoleState] /\ console[c] \in ConsoleState
  BY DEF TimelineTypeOK
<1>3. q \in ConsoleState
  <2>1. stage \in {"snapshots", "events", "attempts", "errors", "shown"}
    BY DEF Reading
  <2> HIDE DEF Page
  <2> QED
    BY <1>1, <1>2, <2>1 DEF ConsoleState
<1>4. q.job = console[c].job /\ console[c].job \in Jobs
  BY <1>1, <1>2 DEF ConsoleState, ConsolesOpen
<1>5. console' = [console EXCEPT ![c] = q]
  BY <1>1, <1>2
<1> QED
  BY <1>3, <1>4, <1>5, PutsTyped

LEMMA ConsoleParts ==
    ASSUME TypeOK, TimelineTypeOK, ConsolesOpen, NEW c \in Consoles,
           ReadSnapshots(c) \/ ReadEvents(c) \/ ReadAttempts(c) \/ ReadErrors(c)
    PROVE  TimelineTypeOK' /\ ConsolesOpen'
<1>0. /\ console \in [Consoles -> ConsoleState] /\ ConsoleOnly /\ console[c].stage # "closed"
      /\ events \subseteq Event
  BY DEF TimelineTypeOK, ReadSnapshots, ReadEvents, ReadAttempts, ReadErrors
<1>1. console[c].page \in Page /\ console[c].job \in Jobs
  BY <1>0 DEF ConsolesOpen, ConsoleState
<1>2. PICK page : page = console[c].page
  OBVIOUS
<1>3. CASE ReadSnapshots(c)
  <2>1. PICK shown : shown = {k \in Keys : snapshot[k] = console[c].job}
    OBVIOUS
  <2>2. [page EXCEPT !.imported = shown] \in Page
    BY <1>1, <1>2, <2>1 DEF Page
  <2>3. console' = [console EXCEPT ![c].stage = "events",
                       ![c].page = [page EXCEPT !.imported = shown]]
    BY <1>0, <1>2, <1>3, <2>1 DEF ReadSnapshots, ConsoleState
  <2> QED
    BY <1>0, <2>2, <2>3, PartTyped DEF Reading
<1>4. CASE ReadEvents(c)
  <2>1. PICK shown : shown = {<<e.stage, e.n>> : e \in EventsOf(console[c].job)}
    OBVIOUS
  <2>2. shown \in SUBSET (EventStage \X (0 .. MaxAttempts))
    BY <1>0, <2>1 DEF EventsOf, Event
  <2>3. [page EXCEPT !.events = shown] \in Page
    BY <1>1, <1>2, <2>2 DEF Page
  <2>4. console' = [console EXCEPT ![c].stage = "attempts",
                       ![c].page = [page EXCEPT !.events = shown]]
    BY <1>0, <1>2, <1>4, <2>1 DEF ReadEvents, ConsoleState
  <2> QED
    BY <1>0, <2>3, <2>4, PartTyped DEF Reading
<1>5. CASE ReadAttempts(c)
  <2>1. [page EXCEPT !.attempts = attempt[console[c].job]] \in Page
    BY <1>1, <1>2 DEF Page, TypeOK
  <2>2. console' = [console EXCEPT ![c].stage = "errors",
                       ![c].page = [page EXCEPT !.attempts = attempt[console[c].job]]]
    BY <1>0, <1>2, <1>5 DEF ReadAttempts, ConsoleState
  <2> QED
    BY <1>0, <2>1, <2>2, PartTyped DEF Reading
<1>6. CASE ReadErrors(c)
  <2>1. [page EXCEPT !.errors = errors[console[c].job]] \in Page
    BY <1>1, <1>2 DEF Page, TypeOK
  <2>2. console' = [console EXCEPT ![c].stage = "shown",
                       ![c].page = [page EXCEPT !.errors = errors[console[c].job]]]
    BY <1>0, <1>2, <1>6 DEF ReadErrors, ConsoleState
  <2> QED
    BY <1>0, <2>1, <2>2, PartTyped DEF Reading
<1> QED
  BY <1>3, <1>4, <1>5, <1>6

LEMMA WTypedStep ==
    ASSUME WTyped, [TimelineNext]_allVars
    PROVE  WTyped'
<1>0. TypeOK /\ TimelineTypeOK /\ ConsolesOpen
  BY DEF WTyped, LInv, IInv
<1>1. LInv'
  BY TimelineMoves, LStep DEF WTyped
<1>2. ASSUME NEW c \in Consoles, ConsoleNext(c)
      PROVE  TimelineTypeOK' /\ ConsolesOpen'
  BY <1>0, <1>2, ConsolePages, ConsoleStreams, ConsoleParts DEF ConsoleNext
<1>3. CASE \/ \E p \in Publishers :
                 StampReceipt(p) \/ RecordedReceipt(p) \/ \E j \in Jobs : RecordedSubmit(p, j)
           \/ \E w \in Workers :
                 \/ \E j \in Jobs : RecordedClaim(w, j)
                 \/ StampedCheck(w) \/ RecordedFinish(w) \/ RecordedFailure(w)
           \/ \E x \in Processes : Aborted(x)
           \/ Silent \/ UNCHANGED allVars
  <2>1. TimelineTypeOK' /\ console' = console
    BY <1>0, <1>3, ProcessTyped
  <2>2. ConsolesOpen'
    BY <1>0, <2>1 DEF ConsolesOpen
  <2> QED
    BY <1>1, <2>1, <2>2 DEF WTyped
<1> QED
  BY <1>1, <1>2, <1>3 DEF TimelineNext, WTyped

LEMMA WInit == TimelineInit => WInv
<1> SUFFICES ASSUME TimelineInit PROVE WInv
  OBVIOUS
<1>1. /\ LInv /\ events = {} /\ pending = [x \in Processes |-> {}]
      /\ console = [c \in Consoles |-> ClosedConsole]
  BY LInit DEF TimelineInit
<1>2. Stamped = {}
  BY <1>1 DEF Stamped
<1>3. TimelineTypeOK /\ ConsolesOpen
  <2>1. ClosedConsole \in ConsoleState /\ ClosedConsole.stage = "closed"
    BY EmptyTyped, AtTyped DEF ClosedConsole, EmptyPage, ConsoleAt
  <2> HIDE DEF ClosedConsole
  <2> QED
    BY <1>1, <1>2, <2>1 DEF TimelineTypeOK, ConsolesOpen
<1>4. /\ \A w \in Workers : worker[w].stage = "idle"
      /\ \A j \in Jobs : /\ job[j].status = "absent"
                         /\ \A n \in 1 .. MaxAttempts : attempt[j][n] = "absent"
  BY DEF TimelineInit, Init, IdleWorker, AbsentJob
<1>5. StampsHold /\ PendingHold /\ AttemptsHeld
  BY <1>1, <1>2, <1>4 DEF StampsHold, PendingHold, AttemptsHeld, Working, Mid
<1>6. LedgerTold
  BY <1>1, <1>4 DEF LedgerTold, StateTold, Told, EventsOf
<1> QED
  BY <1>1, <1>3, <1>5, <1>6 DEF WInv, WTyped

LEMMA WStep ==
    ASSUME WInv, [TimelineNext]_allVars
    PROVE  WInv'
<1>0. WTyped'
  BY WTypedStep DEF WInv
<1>1. ASSUME NEW p \in Publishers,
             StampReceipt(p) \/ RecordedReceipt(p) \/ \E j \in Jobs : RecordedSubmit(p, j)
      PROVE  WInv'
  BY <1>0, <1>1, WReceipts, WSubmit
<1>2. ASSUME NEW w \in Workers,
             \/ \E j \in Jobs : RecordedClaim(w, j)
             \/ StampedCheck(w) \/ RecordedFinish(w) \/ RecordedFailure(w)
      PROVE  WInv'
  BY <1>0, <1>2, WClaim, WCheck, WFinish, WFailure
<1>3. ASSUME NEW x \in Processes, Aborted(x) PROVE WInv'
  BY <1>0, <1>3, WAborted
<1>4. CASE Silent \/ UNCHANGED allVars
  BY <1>0, <1>4, WSilent
<1>5. ASSUME NEW c \in Consoles, ConsoleNext(c) PROVE WInv'
  <2>1. UNCHANGED <<job, attempt, errors, snapshot, worker, events, pending>>
    BY <1>5 DEF ConsoleNext, OpenStream, ListEvents, TellOutcome, Sleep, EndUnsettled,
       Disconnect, GoToPage, OpenPage, ReadJob, ReadSnapshots, ReadEvents, ReadAttempts,
       ReadErrors, CloseConsole, ConsoleOnly, vars
  <2> QED
    BY <1>0, <2>1, StillStep
<1> QED
  BY <1>1, <1>2, <1>3, <1>4, <1>5 DEF TimelineNext

THEOREM WitnessInvariance == TimelineSpec => []WInv
<1>1. WInv /\ [TimelineNext]_allVars => WInv'
  BY WStep
<1> QED
  BY <1>1, WInit, PTL DEF TimelineSpec

(* Timelines, what is pending and consoles keep their types, and an instant *)
(* names one event of a job, under every fault.                             *)
THEOREM TimelineTyped == TimelineSpec => []TimelineTypeOK
<1>1. WInv => TimelineTypeOK
  BY DEF WInv, WTyped
<1> QED
  BY <1>1, WitnessInvariance, PTL

(* Under every fault, with several workers writing one timeline, it tells   *)
(* what the ledger says of every attempt, and no completion it told of is   *)
(* ever taken back.                                                         *)
THEOREM TimelineTrusted == TimelineSpec => []TimelineWitnesses
<1>1. ASSUME WInv PROVE TimelineWitnesses
  <2>1. ASSUME NEW j \in Jobs, NEW e \in EventsOf(j), NEW f \in EventsOf(j)
        PROVE  /\ job[j].status # "absent" /\ e.n <= job[j].attempts
               /\ f.stage = "job.queued" => f.at <= e.at
               /\ f.stage = "worker.claimed" /\ f.n = e.n => f.at <= e.at
               /\ f.stage = "job.completed" /\ f.stage = e.stage /\ f.n = e.n => f = e
    <3>1. e \in Stamped /\ f \in Stamped /\ e.job = j /\ f.job = j
      BY DEF EventsOf, Stamped
    <3> QED
      BY <1>1, <3>1 DEF WInv, StampsHold
  <2> QED
    BY <1>1, <2>1 DEF TimelineWitnesses, WInv, LedgerTold, StateTold, Accounted
<1> QED
  BY <1>1, WitnessInvariance, PTL
=============================================================================
