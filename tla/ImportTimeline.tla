-------------------------- MODULE ImportTimeline --------------------------
(***************************************************************************)
(* The import pipeline with the timeline of operation events it writes      *)
(* (application/learning_services.py), and the console that follows one job *)
(* (api/routes/learning.py): an event stream that polls events and status,  *)
(* and the detail page the console loads when the stream ends.              *)
(*                                                                          *)
(* An event is stamped when record_import_event makes it and is visible     *)
(* when the transaction of its session commits, possibly after events that  *)
(* were stamped later.  Events that one transaction records in a row appear *)
(* together and are one event here, named for the last of them.  The clocks *)
(* of all processes agree.                                                  *)
(***************************************************************************)
EXTENDS ImportJobs

CONSTANTS
    Consoles,     \* browsers with the hub console open
    MaxPolls,     \* polls of a stream before it times out (120 s / 0.6 s)
    MaxReceipts,  \* bound: dispatch receipts of one job
    LastInstant   \* bound: instants that events are stamped with

ASSUME MaxPollsAssumption == MaxPolls \in Nat \ {0}
ASSUME BoundsAssumption == MaxReceipts \in Nat /\ LastInstant \in Nat
ASSUME ProcessesAssumption == Workers \cap Publishers = {}

VARIABLES
    events,    \* table operation_events
    pending,   \* events a process has stamped and not committed
    console    \* each console's stream and page

timelineVars == <<events, pending, console>>
allVars == <<vars, timelineVars>>

---------------------------------------------------------------------------
(* Types.                                                                   *)

Processes == Workers \union Publishers

EventStage ==
    {"job.queued", "job.dispatched", "worker.claimed", "payload.transformed",
     "job.completed", "job.retry_scheduled", "job.failed"}

Event == [job : Jobs, stage : EventStage, n : 0 .. MaxAttempts, at : 1 .. LastInstant]

EventsOf(j) == {e \in events : e.job = j}

(* A page shows of each event its stage and attempt, in the order of the    *)
(* instants, which is left out.                                             *)
Page ==
    [status   : JobStatus,
     counts   : Counts,
     imported : SUBSET Keys,
     events   : SUBSET (EventStage \X (0 .. MaxAttempts)),
     attempts : [1 .. MaxAttempts -> AttemptStatus],
     errors   : SUBSET Keys]

ConsoleState ==
    [stage   : {"closed", "polling", "listed", "told", "snapshots", "events",
                "attempts", "errors", "shown"},
     job     : Jobs \union {NoJob},
     follow  : BOOLEAN,
     polls   : 0 .. MaxPolls,
     seen    : SUBSET Nat,    \* the events already sent, by their instant
     settled : BOOLEAN,       \* auxiliary: the last listing found a settled job
     told    : {"nothing"} \union Terminal,   \* the outcome it was told
     page    : Page]

PageOf(status, counts) ==
    [status |-> status, counts |-> counts, imported |-> {}, events |-> {},
     attempts |-> [n \in 1 .. MaxAttempts |-> "absent"], errors |-> {}]

EmptyPage == PageOf("absent", NoCounts)

ConsoleAt(stage, j, follow, told, page) ==
    [stage |-> stage, job |-> j, follow |-> follow, polls |-> 0, seen |-> {},
     settled |-> FALSE, told |-> told, page |-> page]

ClosedConsole == ConsoleAt("closed", NoJob, FALSE, "nothing", EmptyPage)

TimelineInit ==
    /\ Init
    /\ events = {}
    /\ pending = [x \in Processes |-> {}]
    /\ console = [c \in Consoles |-> ClosedConsole]

---------------------------------------------------------------------------
(* Recording.                                                               *)

Stamped == events \union UNION {pending[x] : x \in Processes}

(* An event stamped now: time has moved on since the job's last one.        *)
BugLater(j, at) == \A e \in events : e.job = j => e.at < at
Later(j, at) == \A e \in Stamped : e.job = j => e.at < at

NewEvents(j, stage, n) ==
    {e \in Event : /\ e.job = j /\ e.stage = stage /\ e.n = n
                   /\ Later(j, e.at)
                   /\ \A at \in 1 .. LastInstant : Later(j, at) => e.at <= at}

Forget(x) == pending' = [pending EXCEPT ![x] = {}]

(* Stamp an event in a transaction that stays open.                         *)
Stamp(x, j, stage, n) ==
    /\ \E e \in NewEvents(j, stage, n) : pending' = [pending EXCEPT ![x] = {e}]
    /\ UNCHANGED <<events, console>>

(* Stamp an event and commit it with whatever its transaction has stamped.  *)
BugRecord(x, j, stage, n) ==
    /\ \E e \in NewEvents(j, stage, n) : events' = events \union {e}
    /\ Forget(x)
    /\ UNCHANGED console

Record(x, j, stage, n) ==
    /\ \E e \in NewEvents(j, stage, n) : events' = events \union pending[x] \union {e}
    /\ Forget(x)
    /\ UNCHANGED console

RollBack(x) == Forget(x) /\ UNCHANGED <<events, console>>

---------------------------------------------------------------------------
(* The steps of ImportJobs with what each records.                          *)

RecordedSubmit(p, j) == Submit(p, j) /\ Record(p, j, "job.queued", 0)

(* mark_job_dispatched stamps its event when it has found the job queued,   *)
(* and commits it with the receipt.                                         *)
StampReceipt(p) ==
    LET j == publisher[p].job
    IN  /\ publisher[p].stage = "receipt"
        /\ pending[p] = {}
        /\ Cardinality({e \in EventsOf(j) : e.stage = "job.dispatched"}) < MaxReceipts
        /\ Stamp(p, j, "job.dispatched", 0)
        /\ UNCHANGED vars

RecordedReceipt(p) ==
    /\ pending[p] # {}
    /\ WriteReceipt(p)
    /\ events' = events \union pending[p]
    /\ Forget(p)
    /\ UNCHANGED console

RecordedClaim(w, j) ==
    Claim(w, j) /\ Record(w, j, "worker.claimed", job[j].attempts + 1)

(* payload.verified and payload.transformed are stamped before the rows are *)
(* validated and wait for the commit of the result.                         *)
StampedCheck(w) ==
    Check(w) /\ Stamp(w, worker[w].job, "payload.transformed", worker[w].n)

(* inventory.committed and job.completed, with those.                       *)
RecordedFinish(w) ==
    /\ Finish(w) \/ FinishUnconfirmed(w)
    /\ Record(w, worker[w].job, "job.completed", worker[w].n)

(* record_import_failure tells the attempt it found or made.                *)
RecordedFailure(w) ==
    LET j == worker[w].job
        n == IF job[j].attempts = 0 THEN 1 ELSE job[j].attempts
    IN  /\ RecordFailure(w)
        /\ Record(w, j, IF MayRetry(worker[w].retryable, n)
                        THEN "job.retry_scheduled" ELSE "job.failed", n)

Aborted(x) ==
    /\ \/ x \in Publishers /\ PublisherStops(x)
       \/ x \in Workers /\ (FlushConflict(x) \/ Fail(x) \/ Crash(x))
    /\ RollBack(x)

(* Recovery of an expired lease records no event.                           *)
Silent ==
    /\ \/ \E p \in Publishers :
             \/ \E j \in Jobs : Resubmit(p, j) \/ SelectDue(p, j) \/ RecoverForRetry(p, j)
             \/ Publish(p) \/ PublishFails(p) \/ ReadForReceipt(p)
       \/ \E w \in Workers :
             \/ \E j \in Jobs : Skip(w, j) \/ ClaimFails(w, j)
             \/ Flush(w) \/ RecordFailureFails(w)
       \/ \E j \in Jobs : JobNext(j)
    /\ UNCHANGED timelineVars

---------------------------------------------------------------------------
(* The event stream.                                                        *)

ConsoleOnly == UNCHANGED <<vars, events, pending>>

(* The console opens a stream on a job; follow is false when it only wants  *)
(* what there is.                                                           *)
OpenStream(c, j, follow) ==
    /\ console[c].stage = "closed"
    /\ job[j].status # "absent"
    /\ console' = [console EXCEPT
          ![c] = ConsoleAt("polling", j, follow, "nothing", EmptyPage)]
    /\ ConsoleOnly

(* All committed events that were not sent yet, whatever their instant.     *)
BugUnsent(c) ==
    {e \in EventsOf(console[c].job) : \A at \in console[c].seen : e.at > at}
Unsent(c) == {e \in EventsOf(console[c].job) : e.at \notin console[c].seen}

ListEvents(c) ==
    /\ console[c].stage = "polling"
    /\ console' = [console EXCEPT
          ![c].stage   = "listed",
          ![c].seen    = console[c].seen \union {e.at : e \in Unsent(c)},
          ![c].settled = job[console[c].job].status \in Terminal]
    /\ ConsoleOnly

(* The status is read by a second statement, after the events were sent.    *)
Settled(c) == job[console[c].job].status \in Terminal

TellOutcome(c) ==
    /\ console[c].stage = "listed"
    /\ Settled(c)
    /\ console' = [console EXCEPT ![c].stage = "told",
                                  ![c].told = job[console[c].job].status]
    /\ ConsoleOnly

Sleep(c) ==
    /\ console[c].stage = "listed"
    /\ console[c].follow /\ ~Settled(c)
    /\ console[c].polls + 1 < MaxPolls
    /\ console' = [console EXCEPT ![c].stage = "polling",
                                  ![c].polls = console[c].polls + 1]
    /\ ConsoleOnly

(* The console does not reconnect: like at the end of the stream, it loads  *)
(* the page.                                                                *)
GoToPage(c) ==
    /\ console' = [console EXCEPT
          ![c] = ConsoleAt("told", console[c].job, FALSE, "nothing", EmptyPage)]
    /\ ConsoleOnly

(* A stream that does not follow, or that has waited long enough, ends      *)
(* before the job has an outcome.                                           *)
EndUnsettled(c) ==
    /\ console[c].stage = "listed"
    /\ ~Settled(c)
    /\ console[c].follow => console[c].polls + 1 >= MaxPolls
    /\ GoToPage(c)

Disconnect(c) ==
    /\ console[c].stage \in {"polling", "listed"}
    /\ GoToPage(c)

---------------------------------------------------------------------------
(* The detail page: five statements, the job first.                         *)

(* The console opens the page of a job without following it.                *)
OpenPage(c, j) ==
    /\ console[c].stage = "closed"
    /\ job[j].status # "absent"
    /\ console' = [console EXCEPT
          ![c] = ConsoleAt("told", j, FALSE, "nothing", EmptyPage)]
    /\ ConsoleOnly

ReadJob(c) ==
    /\ console[c].stage = "told"
    /\ LET row == job[console[c].job]
       IN  console' = [console EXCEPT
              ![c] = ConsoleAt("snapshots", console[c].job, FALSE, console[c].told,
                               PageOf(row.status, row.counts))]
    /\ ConsoleOnly

ReadSnapshots(c) ==
    /\ console[c].stage = "snapshots"
    /\ console' = [console EXCEPT
          ![c].stage = "events",
          ![c].page.imported = {k \in Keys : snapshot[k] = console[c].job}]
    /\ ConsoleOnly

ReadEvents(c) ==
    /\ console[c].stage = "events"
    /\ console' = [console EXCEPT
          ![c].stage = "attempts",
          ![c].page.events = {<<e.stage, e.n>> : e \in EventsOf(console[c].job)}]
    /\ ConsoleOnly

ReadAttempts(c) ==
    /\ console[c].stage = "attempts"
    /\ console' = [console EXCEPT
          ![c].stage = "errors", ![c].page.attempts = attempt[console[c].job]]
    /\ ConsoleOnly

BugReadErrors(c) ==
    /\ console[c].stage = "errors"
    /\ console' = [console EXCEPT
          ![c].stage = "shown", ![c].page.errors = errors[console[c].job],
          ![c].page.status = job[console[c].job].status,
          ![c].page.counts = job[console[c].job].counts]
    /\ ConsoleOnly

ReadErrors(c) ==
    /\ console[c].stage = "errors"
    /\ console' = [console EXCEPT
          ![c].stage = "shown", ![c].page.errors = errors[console[c].job]]
    /\ ConsoleOnly

(* The page is left, or a request of it fails.                              *)
CloseConsole(c) ==
    /\ console[c].stage # "closed"
    /\ console' = [console EXCEPT ![c] = ClosedConsole]
    /\ ConsoleOnly

---------------------------------------------------------------------------
ConsoleNext(c) ==
    \/ \E j \in Jobs : OpenPage(c, j) \/ \E follow \in BOOLEAN : OpenStream(c, j, follow)
    \/ ListEvents(c) \/ TellOutcome(c) \/ Sleep(c) \/ EndUnsettled(c) \/ Disconnect(c)
    \/ ReadJob(c) \/ ReadSnapshots(c) \/ ReadEvents(c) \/ ReadAttempts(c) \/ ReadErrors(c)
    \/ CloseConsole(c)

TimelineNext ==
    \/ \E p \in Publishers :
          StampReceipt(p) \/ RecordedReceipt(p) \/ \E j \in Jobs : RecordedSubmit(p, j)
    \/ \E w \in Workers :
          \/ \E j \in Jobs : RecordedClaim(w, j)
          \/ StampedCheck(w) \/ RecordedFinish(w) \/ RecordedFailure(w)
    \/ \E x \in Processes : Aborted(x)
    \/ Silent
    \/ \E c \in Consoles : ConsoleNext(c)

TimelineSpec == TimelineInit /\ [][TimelineNext]_allVars

---------------------------------------------------------------------------
(* Properties.  All but the first two speak of the reliable environment      *)
(* (Faults = {}): while a lease may expire under its worker, two workers      *)
(* write one timeline and a settled job may change.                          *)

(* Events, what is pending, and consoles keep their types; an instant names  *)
(* one event of a job.                                                       *)
TimelineTypeOK ==
    /\ events \subseteq Event
    /\ pending \in [Processes -> SUBSET Event]
    /\ console \in [Consoles -> ConsoleState]
    /\ \A e, f \in Stamped : e.job = f.job /\ e.at = f.at => e = f

Told(j, stage, n) == \E e \in EventsOf(j) : e.stage = stage /\ e.n = n

(* What the timeline is good for whatever the environment does: it has       *)
(* events of submitted jobs only and begins with the submission; an attempt  *)
(* is claimed at most once, before all it tells, and completes at most once; *)
(* whatever the ledger says of an attempt was told; and a completion that    *)
(* was told has its translation, and accounts for every row, even if the     *)
(* job is run again.                                                         *)
TimelineWitnesses ==
    \A j \in Jobs :
        /\ job[j].status # "absent" => Told(j, "job.queued", 0)
        /\ \A e \in EventsOf(j) : job[j].status # "absent" /\ e.n <= job[j].attempts
        /\ \A e, f \in EventsOf(j) :
              /\ f.stage = "job.queued" => f.at <= e.at
              /\ f.stage = "worker.claimed" /\ f.n = e.n => f.at <= e.at
              /\ f.stage = "job.completed" /\ f.stage = e.stage /\ f.n = e.n => f = e
        /\ \A n \in 1 .. MaxAttempts :
              /\ attempt[j][n] \in {"running", "abandoned"} => Told(j, "worker.claimed", n)
              /\ attempt[j][n] = "retry_scheduled" => Told(j, "job.retry_scheduled", n)
              /\ attempt[j][n] = "failed" => Told(j, "job.failed", n)
              /\ attempt[j][n] = "succeeded" => Told(j, "job.completed", n)
              /\ Told(j, "job.completed", n) =>
                    /\ Told(j, "worker.claimed", n) /\ Told(j, "payload.transformed", n)
                    /\ \A k \in RowsOf[j] : snapshot[k] # NoJob \/ k \in errors[j]

(* The timeline tells what happened: one claim for each attempt, a failure   *)
(* or a retry exactly for the attempts that ended so, and a completion, with *)
(* the translation that led to it, exactly for the attempt that succeeded.   *)
(* An attempt that recovery abandoned has its claim alone.                   *)
TimelineExplains ==
    \A j \in Jobs :
        /\ \A n \in 1 .. MaxAttempts :
              /\ Told(j, "worker.claimed", n) <=> n <= job[j].attempts
              /\ Told(j, "job.retry_scheduled", n) <=> attempt[j][n] = "retry_scheduled"
              /\ Told(j, "job.failed", n) <=> attempt[j][n] = "failed"
              /\ Told(j, "job.completed", n) <=> attempt[j][n] = "succeeded"
              /\ Told(j, "payload.transformed", n) <=> attempt[j][n] = "succeeded"
        /\ \A e, f \in EventsOf(j) :
              e.stage = f.stage /\ e.n = f.n /\ e.stage # "job.dispatched" => e = f

(* In the order of the instants, which is the order of the console, an       *)
(* attempt is claimed before all it tells and after all that earlier         *)
(* attempts tell.  Dispatch receipts may come late.                          *)
TimelineOrdered ==
    \A j \in Jobs : \A e, f \in EventsOf(j) :
        e.stage # "job.dispatched" /\ f.stage # "job.dispatched" =>
            /\ e.n < f.n => e.at < f.at
            /\ e.n = f.n /\ f.stage = "worker.claimed" => f.at <= e.at

(* A stream tells the timeline without gaps: whatever an event was stamped   *)
(* with and whenever it was committed, all that is before an event it sent   *)
(* was sent as well; late dispatch receipts aside.  And a stream that says   *)
(* it is complete has sent all, if its last listing found the job settled.   *)
(* One whose job settles between the listing and the status misses what was  *)
(* recorded after the listing, and nothing before that.                      *)
StreamHasNoGap ==
    \A c \in Consoles :
        LET s == console[c]
            story == {e \in EventsOf(s.job) : e.stage # "job.dispatched"}
        IN  /\ \A e, f \in story : e.at \in s.seen /\ f.at < e.at => f.at \in s.seen
            /\ s.stage = "told" /\ s.settled /\ s.told \in Terminal =>
                  \A e \in story : e.at \in s.seen

(* A page that shows a settled job shows all of its outcome, although its    *)
(* parts were read one after the other while workers committed: no attempt   *)
(* still runs, rows, errors and counts of a completed job add up and its     *)
(* timeline tells of the completion, a failed job has no rows; and a         *)
(* stream that ended with an outcome is followed by a page that agrees.      *)
OutcomeShown ==
    \A c \in Consoles :
        LET p == console[c].page
            j == console[c].job
            told == console[c].told
        IN  console[c].stage = "shown" =>
              /\ told \in Terminal => p.status = told
              /\ p.status \in Terminal =>
                    \A n \in 1 .. MaxAttempts : p.attempts[n] # "running"
              /\ p.status \in Completed =>
                    /\ p.imported \union p.errors = RowsOf[j]
                    /\ p.imported \cap p.errors = {}
                    /\ p.counts = [total    |-> Cardinality(RowsOf[j]),
                                   accepted |-> Cardinality(p.imported),
                                   rejected |-> Cardinality(p.errors)]
                    /\ \E n \in 1 .. MaxAttempts :
                          p.attempts[n] = "succeeded" /\ <<"job.completed", n>> \in p.events
              /\ p.status = "failed" =>
                    /\ p.imported = {} /\ p.errors = {}
                    /\ \A n \in 1 .. MaxAttempts :
                          p.attempts[n] = "failed" => <<"job.failed", n>> \in p.events
=============================================================================
