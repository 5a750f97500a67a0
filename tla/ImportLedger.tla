--------------------------- MODULE ImportLedger ----------------------------
(***************************************************************************)
(* What the import pipeline keeps whatever happens to it: stalled workers,  *)
(* failures before a claim, commits nobody confirmed.  The status of a job  *)
(* may then move in ways ImportLifecycle forbids - a completed job may be   *)
(* queued again, a failed one completed - but attempts are counted and      *)
(* never refunded, every row that a report covers is imported or listed     *)
(* with an error in the same step, a row is imported once, and neither an   *)
(* import nor an error is ever taken back.                                  *)
(***************************************************************************)
EXTENDS Naturals

CONSTANTS Jobs, Keys, NoJob, RowsOf, MaxAttempts

VARIABLES
    status,      \* ImportJob.status as the API shows it
    attempts,    \* number of attempts charged to the job
    importedBy,  \* the job that imported a source key
    rejected     \* rows of a job that have a recorded error

vars == <<status, attempts, importedBy, rejected>>

Init ==
    /\ status = [j \in Jobs |-> "absent"]
    /\ attempts = [j \in Jobs |-> 0]
    /\ importedBy = [k \in Keys |-> NoJob]
    /\ rejected = [j \in Jobs |-> {}]

Move(j, to) == status[j] # "absent" /\ status' = [status EXCEPT ![j] = to]

Accept(j) ==
    /\ status[j] = "absent"
    /\ status' = [status EXCEPT ![j] = "queued"]
    /\ UNCHANGED <<attempts, importedBy, rejected>>

(* Only a queued job that has an attempt left begins one.                   *)
Begin(j) ==
    /\ status[j] = "queued"
    /\ attempts[j] < MaxAttempts
    /\ Move(j, "processing")
    /\ attempts' = [attempts EXCEPT ![j] = @ + 1]
    /\ UNCHANGED <<importedBy, rejected>>

(* A failure is charged to an attempt: to the first, if none has begun.     *)
Charge(j) == IF attempts[j] = 0 THEN 1 ELSE attempts[j]

SetBack(j, to) ==
    /\ Move(j, to)
    /\ attempts' = [attempts EXCEPT ![j] = Charge(j)]
    /\ UNCHANGED <<importedBy, rejected>>

TryAgain(j) == Charge(j) < MaxAttempts /\ SetBack(j, "queued")

GiveUp(j) == SetBack(j, "failed")

(* The report of an attempt, which need not be the last one begun: the rows *)
(* it imports nobody has imported, and every other row has an error.        *)
Report(j, rows, bad) ==
    /\ attempts[j] > 0
    /\ \A k \in rows : importedBy[k] = NoJob
    /\ RowsOf[j] \ rows \subseteq bad
    /\ Move(j, IF bad = {} THEN "completed" ELSE "completed_with_errors")
    /\ importedBy' = [k \in Keys |-> IF k \in rows THEN j ELSE importedBy[k]]
    /\ rejected' = [rejected EXCEPT ![j] = @ \union bad]
    /\ UNCHANGED attempts

Next ==
    \E j \in Jobs :
        \/ Accept(j) \/ Begin(j) \/ TryAgain(j) \/ GiveUp(j)
        \/ \E rows, bad \in SUBSET RowsOf[j] : Report(j, rows, bad)

Spec == Init /\ [][Next]_vars
=============================================================================
