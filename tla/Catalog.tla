------------------------------ MODULE Catalog ------------------------------
(***************************************************************************)
(* What the pipeline promises the readers of a partition: publications come *)
(* one after the other, each of data that passed the quality gate; the      *)
(* manifest of a run and latest.json always name a whole publication, and   *)
(* are only ever replaced to name a newer one.  No task, try, listing,      *)
(* download or single object is visible here.                               *)
(***************************************************************************)
EXTENDS Naturals

CONSTANTS
    Runs, NoRun,
    GoodData,      \* data that pass the quality gate: functions from files
    LastAttempt

VARIABLES
    publications,  \* objects of both kinds, by run, attempt and data
    manifest,      \* the manifest of each run
    latest         \* latest.json

vars == <<publications, manifest, latest>>

NoManifest == [run |-> NoRun, attempt |-> 0, sources |-> {}]

Init ==
    /\ publications = {}
    /\ manifest = [r \in Runs |-> NoManifest]
    /\ latest = NoManifest

(* A publication is of a later attempt than every other.                    *)
Publish(r, n, data) ==
    /\ \A p \in publications : p.attempt < n
    /\ publications' = publications \union {[run |-> r, attempt |-> n, data |-> data]}
    /\ UNCHANGED <<manifest, latest>>

Newest(p) == \A q \in publications : q.attempt <= p.attempt

(* A manifest names the newest publication and files that went into it.     *)
Name(r, p, sources) ==
    /\ p.run = r /\ Newest(p)
    /\ sources \subseteq DOMAIN p.data
    /\ manifest[r].attempt < p.attempt
    /\ manifest' = [manifest EXCEPT
          ![r] = [run |-> r, attempt |-> p.attempt, sources |-> sources]]
    /\ UNCHANGED <<publications, latest>>

(* latest.json becomes the manifest of a run, if that is ahead of it.       *)
Point(r) ==
    /\ manifest[r].run = r
    /\ latest.attempt < manifest[r].attempt
    /\ latest' = manifest[r]
    /\ UNCHANGED <<publications, manifest>>

Next ==
    \E r \in Runs :
        \/ \E n \in 1 .. LastAttempt, data \in GoodData : Publish(r, n, data)
        \/ \E p \in publications : \E sources \in SUBSET DOMAIN p.data : Name(r, p, sources)
        \/ Point(r)

Spec == Init /\ [][Next]_vars
=============================================================================
