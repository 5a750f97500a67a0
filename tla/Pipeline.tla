------------------------------ MODULE Pipeline ------------------------------
(***************************************************************************)
(* The daily inventory pipeline of one partition date: DAG runs that check *)
(* the raw objects, gate and transform them, publish Parquet objects and a *)
(* manifest, and verify it (pipelines/historical_inventory.py, under        *)
(* airflow/dags/inventory_risk_pipeline.py).                               *)
(*                                                                         *)
(* A run is its sanitized identifier.  Airflow executes one run at a time, *)
(* tries each task Tries times, and executes a completed run again when a   *)
(* backfill reprocesses it.  A process may die between any two calls.       *)
(*                                                                         *)
(* Raw objects are seeded at any time.  The content of one is its set of   *)
(* rows; rows of BadRows violate the quality gate.  Spark names its files  *)
(* anew in every attempt, so an upload overwrites nothing.                 *)
(***************************************************************************)
EXTENDS Naturals

CONSTANTS
    Runs,          \* DAG runs of the partition
    NoRun,         \* no run
    Files,         \* names of raw objects of the partition
    Rows,          \* rows that raw objects may have
    BadRows,       \* rows with a missing key or an invalid quantity
    Contents,      \* contents of raw objects
    Tries,         \* tries of a task: 1 + retries
    LastAttempt    \* attempts of transforms (bound for model checking)

ASSUME RunsAssumption == NoRun \notin Runs
ASSUME ContentsAssumption == Contents \subseteq SUBSET Rows
ASSUME TriesAssumption == Tries \in Nat \ {0}
ASSUME LastAttemptAssumption == LastAttempt \in Nat

VARIABLES
    raw,         \* raw objects in the object store
    dag,         \* the task of each run and its try
    attempt,     \* attempts of transforms begun, of all runs
    process,     \* the process of the transform task that is being tried
    report,      \* quality report of each run
    published,   \* Parquet objects in the object store
    manifest,    \* manifest of each run
    latest       \* latest.json of the partition

vars == <<raw, dag, attempt, process, report, published, manifest, latest>>

Kinds  == {"curated", "summary"}
Active == {"check", "transform", "verify"}
Data   == UNION {[S -> Contents] : S \in SUBSET Files}
Stages == {"none", "download", "passed", "rejected", "curated", "summary", "manifest", "latest"}

Process == [stage : Stages, listed : SUBSET Files, pending : SUBSET Files, data : Data]
Report  == [data : Data, passed : BOOLEAN]
Object  == [run : Runs, attempt : Nat, kind : Kinds, data : Data]

(* A manifest names its sources and the objects of one attempt.             *)
Manifest == [run : Runs \union {NoRun}, attempt : Nat, sources : SUBSET Files]

NoProcess  == [stage |-> "none", listed |-> {}, pending |-> {}, data |-> [f \in {} |-> {}]]
NoReport   == [data |-> [f \in {} |-> {}], passed |-> FALSE]
NoManifest == [run |-> NoRun, attempt |-> 0, sources |-> {}]

Init ==
    /\ raw = [f \in {} |-> {}]
    /\ dag = [r \in Runs |-> [task |-> "waiting", try |-> 0]]
    /\ attempt = 0
    /\ process = NoProcess
    /\ report = [r \in Runs |-> NoReport]
    /\ published = {}
    /\ manifest = [r \in Runs |-> NoManifest]
    /\ latest = NoManifest

---------------------------------------------------------------------------
(* No row is invalid, and no two files have a row in common.                *)
Passed(data) ==
    /\ \A f \in DOMAIN data : data[f] \cap BadRows = {}
    /\ \A f, g \in DOMAIN data : f # g => data[f] \cap data[g] = {}

(* Without rows Spark writes no file for any warehouse.                     *)
HasParquet(data) == \E f \in DOMAIN data : data[f] # {}

On(r, task) == dag[r].task = task

GoTo(r, task, try) == dag' = [dag EXCEPT ![r] = [task |-> task, try |-> try]]

(* Seeding writes a raw object, new or over an old one.                     *)
Seed(f, c) ==
    /\ raw' = [g \in DOMAIN raw \union {f} |-> IF g = f THEN c ELSE raw[g]]
    /\ UNCHANGED <<dag, attempt, process, report, published, manifest, latest>>

(* max_active_runs is 1, of the DAG and of the backfill.  A backfill        *)
(* reprocesses completed runs.                                              *)
Start(r) ==
    /\ dag[r].task \in {"waiting", "succeeded", "failed"}
    /\ \A s \in Runs : dag[s].task \notin Active
    /\ GoTo(r, "check", 1)
    /\ UNCHANGED <<raw, attempt, process, report, published, manifest, latest>>

CheckSource(r) ==
    /\ On(r, "check")
    /\ DOMAIN raw # {}
    /\ GoTo(r, "transform", 1)
    /\ UNCHANGED <<raw, attempt, process, report, published, manifest, latest>>

(* The transform lists its sources, and lists them again to download them.  *)
List(r) ==
    /\ On(r, "transform") /\ process.stage = "none"
    /\ DOMAIN raw # {}
    /\ attempt < LastAttempt
    /\ attempt' = attempt + 1
    /\ process' = [NoProcess EXCEPT !.stage = "download", !.listed = DOMAIN raw]
    /\ UNCHANGED <<raw, dag, report, published, manifest, latest>>

BugListAgain(r) ==
    /\ On(r, "transform") /\ process.stage = "download"
    /\ process.pending = {} /\ DOMAIN process.data = {}
    /\ \E S \in SUBSET DOMAIN raw :
          S # {} /\ process' = [process EXCEPT !.pending = S]
    /\ UNCHANGED <<raw, dag, attempt, report, published, manifest, latest>>

ListAgain(r) ==
    /\ On(r, "transform") /\ process.stage = "download"
    /\ process.pending = {} /\ DOMAIN process.data = {}
    /\ process' = [process EXCEPT !.pending = DOMAIN raw]
    /\ UNCHANGED <<raw, dag, attempt, report, published, manifest, latest>>

Download(r, f) ==
    /\ On(r, "transform") /\ process.stage = "download"
    /\ f \in process.pending
    /\ process' = [process EXCEPT
          !.pending = @ \ {f},
          !.data = [g \in DOMAIN process.data \union {f} |->
                        IF g = f THEN raw[f] ELSE process.data[g]]]
    /\ UNCHANGED <<raw, dag, attempt, report, published, manifest, latest>>

(* The quality report of the run is put whether or not the gate passes.     *)
Gate(r) ==
    /\ On(r, "transform") /\ process.stage = "download"
    /\ process.pending = {} /\ DOMAIN process.data # {}
    /\ report' = [report EXCEPT ![r] =
          [data |-> process.data, passed |-> Passed(process.data)]]
    /\ \/ Passed(process.data) /\ process' = [process EXCEPT !.stage = "passed"]
       \/ ~Passed(process.data) /\ process' = [process EXCEPT !.stage = "rejected"]
    /\ UNCHANGED <<raw, dag, attempt, published, manifest, latest>>

Upload(r, from, kind) ==
    /\ On(r, "transform") /\ process.stage = from
    /\ published' = published \union
          {[run |-> r, attempt |-> attempt, kind |-> kind, data |-> process.data]}
    /\ process' = [process EXCEPT !.stage = kind]
    /\ UNCHANGED <<raw, dag, attempt, report, manifest, latest>>

UploadCurated(r) == Upload(r, "passed", "curated")
UploadSummary(r) == Upload(r, "curated", "summary")

NewManifest(r) == [run |-> r, attempt |-> attempt, sources |-> process.listed]

BugPutManifest(r) ==
    /\ On(r, "transform") /\ process.stage = "curated"
    /\ manifest' = [manifest EXCEPT ![r] = NewManifest(r)]
    /\ process' = [process EXCEPT !.stage = "manifest"]
    /\ UNCHANGED <<raw, dag, attempt, report, published, latest>>

PutManifest(r) ==
    /\ On(r, "transform") /\ process.stage = "summary"
    /\ manifest' = [manifest EXCEPT ![r] = NewManifest(r)]
    /\ process' = [process EXCEPT !.stage = "manifest"]
    /\ UNCHANGED <<raw, dag, attempt, report, published, latest>>

PutLatest(r) ==
    /\ On(r, "transform") /\ process.stage = "manifest"
    /\ latest' = NewManifest(r)
    /\ process' = [process EXCEPT !.stage = "latest"]
    /\ UNCHANGED <<raw, dag, attempt, report, published, manifest>>

BugFinish(r) ==
    /\ On(r, "transform") /\ process.stage \in {"manifest", "latest"}
    /\ process' = NoProcess
    /\ GoTo(r, "verify", 1)
    /\ UNCHANGED <<raw, attempt, report, published, manifest, latest>>

Finish(r) ==
    /\ On(r, "transform") /\ process.stage = "latest"
    /\ process' = NoProcess
    /\ GoTo(r, "verify", 1)
    /\ UNCHANGED <<raw, attempt, report, published, manifest, latest>>

(* A manifest verifies if it names Parquet files of both kinds.             *)
Verifies(m) ==
    \A kind \in Kinds :
        \E o \in published :
            /\ o.run = m.run /\ o.attempt = m.attempt /\ o.kind = kind
            /\ HasParquet(o.data)

Verify(r) ==
    /\ On(r, "verify")
    /\ Verifies(manifest[r])
    /\ GoTo(r, "succeeded", 0)
    /\ UNCHANGED <<raw, attempt, process, report, published, manifest, latest>>

(* The task fails: it raises, it times out, or its process dies.            *)
BugTryFails(r) ==
    /\ dag[r].task \in Active
    /\ process' = NoProcess
    /\ \/ GoTo(r, dag[r].task, dag[r].try + 1)
       \/ dag[r].try = Tries /\ GoTo(r, "failed", 0)
    /\ UNCHANGED <<raw, attempt, report, published, manifest, latest>>

TryFails(r) ==
    /\ dag[r].task \in Active
    /\ process' = NoProcess
    /\ \/ dag[r].try < Tries /\ GoTo(r, dag[r].task, dag[r].try + 1)
       \/ dag[r].try = Tries /\ GoTo(r, "failed", 0)
    /\ UNCHANGED <<raw, attempt, report, published, manifest, latest>>

Next ==
    \/ \E f \in Files, c \in Contents : Seed(f, c)
    \/ \E r \in Runs :
          \/ Start(r) \/ CheckSource(r)
          \/ List(r) \/ ListAgain(r) \/ (\E f \in Files : Download(r, f))
          \/ Gate(r) \/ UploadCurated(r) \/ UploadSummary(r)
          \/ PutManifest(r) \/ PutLatest(r) \/ Finish(r)
          \/ Verify(r) \/ TryFails(r)

Spec == Init /\ [][Next]_vars

---------------------------------------------------------------------------
(* Tasks, tries and stored objects keep their types.                        *)
TypeOK ==
    /\ raw \in Data
    /\ dag \in [Runs -> [task : {"waiting", "succeeded", "failed"} \union Active,
                         try : 0 .. Tries]]
    /\ attempt \in Nat
    /\ process \in Process
    /\ report \in [Runs -> Report]
    /\ published \subseteq Object
    /\ manifest \in [Runs -> Manifest]
    /\ latest \in Manifest

Manifests == {manifest[r] : r \in Runs} \union {latest}

(* Whatever manifest a reader finds, at any time and after any crash, names *)
(* stored objects of both kinds, made in one attempt from the same data,    *)
(* and that data passed the quality gate.                                   *)
NamesPublished ==
    \A m \in Manifests : m.run # NoRun =>
        \E data \in {o.data : o \in published} :
            /\ Passed(data)
            /\ \A kind \in Kinds :
                  [run |-> m.run, attempt |-> m.attempt, kind |-> kind, data |-> data]
                      \in published

(* Every source that a manifest names was processed into its objects,       *)
(* although the sources are listed before they are listed for download.     *)
SourcesProcessed ==
    \A m \in Manifests : \A o \in published :
        o.run = m.run /\ o.attempt = m.attempt => m.sources \subseteq DOMAIN o.data

(* A run that has passed its transform has a manifest; latest.json is that   *)
(* manifest, or names a newer publication of another run; and the quality   *)
(* report beside it is of the data in its objects, whatever its earlier     *)
(* tries and executions left.                                               *)
SettledAgrees ==
    \A r \in Runs : dag[r].task \in {"verify", "succeeded"} =>
        /\ manifest[r].run = r
        /\ latest # manifest[r] =>
              latest.run \in Runs \ {r} /\ latest.attempt > manifest[r].attempt
        /\ report[r].passed
        /\ \A o \in published :
              o.run = r /\ o.attempt = manifest[r].attempt => o.data = report[r].data

(* What readers of the partition find obeys the catalog, whatever fails and *)
(* whatever is seeded between the steps of a transform.                     *)
Publication(o) == [run |-> o.run, attempt |-> o.attempt, data |-> o.data]

PublicationsIn(objects) ==
    {Publication(o) : o \in
        {p \in objects : \A kind \in Kinds : [p EXCEPT !.kind = kind] \in objects}}

PublicCatalog == INSTANCE Catalog WITH
    GoodData     <- {data \in Data : Passed(data)},
    publications <- PublicationsIn(published)

ImplementsCatalog == PublicCatalog!Spec

(* The objects that a manifest names are there before it, and none is added *)
(* to them or taken from them afterwards.                                   *)
ObjectsOf(m) == {o \in published : o.run = m.run /\ o.attempt = m.attempt}

NamedObjectsFrozen ==
    [][\A m \in Manifests : m.run # NoRun => ObjectsOf(m)' = ObjectsOf(m)]_vars

(* A success manifest never changes once it is published.                   *)
ManifestImmutable ==
    [][\A r \in Runs : manifest[r] # NoManifest => manifest'[r] = manifest[r]]_vars
=============================================================================
