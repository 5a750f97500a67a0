-------------------------- MODULE ImportLifecycle --------------------------
(***************************************************************************)
(* What the import pipeline promises the caller of /imports: a job runs one *)
(* attempt at a time, at most MaxAttempts of them, imports its rows in the  *)
(* step that completes it, and stays in the terminal state it reaches.      *)
(* No worker, lease, message or retry timer is visible here.                *)
(***************************************************************************)
EXTENDS Naturals

CONSTANTS Jobs, Keys, NoJob, RowsOf, MaxAttempts

VARIABLES
    status,     \* ImportJob.status as the API shows it
    attempts,   \* number of attempts begun
    importedBy  \* the job whose completion imported a source key

vars == <<status, attempts, importedBy>>

Init ==
    /\ status = [j \in Jobs |-> "absent"]
    /\ attempts = [j \in Jobs |-> 0]
    /\ importedBy = [k \in Keys |-> NoJob]

Become(j, from, to) == status[j] = from /\ status' = [status EXCEPT ![j] = to]

Accept(j) ==
    /\ Become(j, "absent", "queued")
    /\ UNCHANGED <<attempts, importedBy>>

Begin(j) ==
    /\ attempts[j] < MaxAttempts
    /\ Become(j, "queued", "processing")
    /\ attempts' = [attempts EXCEPT ![j] = @ + 1]
    /\ UNCHANGED importedBy

(* All rows and the status that reports them appear together.              *)
Complete(j, rows) ==
    /\ Become(j, "processing",
              IF rows = RowsOf[j] THEN "completed" ELSE "completed_with_errors")
    /\ \A k \in rows : importedBy[k] = NoJob
    /\ importedBy' = [k \in Keys |-> IF k \in rows THEN j ELSE importedBy[k]]
    /\ UNCHANGED attempts

TryAgain(j) ==
    /\ attempts[j] < MaxAttempts
    /\ Become(j, "processing", "queued")
    /\ UNCHANGED <<attempts, importedBy>>

GiveUp(j) ==
    /\ Become(j, "processing", "failed")
    /\ UNCHANGED <<attempts, importedBy>>

Next ==
    \E j \in Jobs :
        \/ Accept(j) \/ Begin(j) \/ TryAgain(j) \/ GiveUp(j)
        \/ \E rows \in SUBSET RowsOf[j] : Complete(j, rows)

Spec == Init /\ [][Next]_vars
=============================================================================
