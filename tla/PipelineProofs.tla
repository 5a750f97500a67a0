--------------------------- MODULE PipelineProofs ---------------------------
(***************************************************************************)
(* Proofs about Pipeline, for any number of runs, files, rows and tries.   *)
(***************************************************************************)
EXTENDS Pipeline, TLAPS

(* At most one run is active, and a process belongs to its transform.      *)
OneActive ==
    /\ \A r, s \in Runs : dag[r].task \in Active /\ dag[s].task \in Active => r = s
    /\ process.stage # "none" => \E r \in Runs : On(r, "transform")

(* Attempts are numbered in order, and until a process puts its manifest   *)
(* no manifest is of its attempt.                                          *)
AttemptsOrdered ==
    /\ \A o \in published : o.attempt <= attempt
    /\ \A m \in Manifests : m.attempt <= attempt
    /\ process.stage \in {"download", "passed", "rejected", "curated", "summary"} =>
          \A m \in Manifests : m.attempt < attempt

(* The second listing misses no file of the first, because nothing deletes *)
(* a raw object.                                                           *)
SourcesInHand ==
    /\ process.pending \subseteq DOMAIN raw
    /\ process.stage = "download" =>
          /\ process.listed \subseteq DOMAIN raw
          /\ \/ DOMAIN process.data = {} /\ process.pending = {}
             \/ process.listed \subseteq process.pending \union DOMAIN process.data
    /\ process.stage \notin {"none", "download"} =>
          process.listed \subseteq DOMAIN process.data

(* Objects of the current attempt hold the data of the process.            *)
ObjectsInHand ==
    process.stage # "none" =>
        \A o \in published : o.attempt = attempt =>
            /\ process.stage \in {"curated", "summary", "manifest", "latest"}
            /\ o.data = process.data

Stored(r, kind) ==
    [run |-> r, attempt |-> attempt, kind |-> kind, data |-> process.data] \in published

(* What a process has passed, reported and published in each stage.        *)
ProcessHas(r) ==
    LET stage == process.stage
    IN  /\ stage \in {"passed", "curated", "summary", "manifest", "latest"} =>
              /\ Passed(process.data)
              /\ report[r] = [data |-> process.data, passed |-> TRUE]
        /\ stage \in {"curated", "summary", "manifest", "latest"} => Stored(r, "curated")
        /\ stage \in {"summary", "manifest", "latest"} => Stored(r, "summary")
        /\ stage \in {"manifest", "latest"} => manifest[r] = NewManifest(r)
        /\ stage = "latest" => latest = NewManifest(r)
        /\ stage \in {"manifest", "latest"} =>
              \A m \in Manifests : m.run # r => m.attempt < attempt

ProcessRight == \A r \in Runs : On(r, "transform") => ProcessHas(r)

IInv ==
    /\ TypeOK /\ OneActive /\ AttemptsOrdered /\ SourcesInHand
    /\ ObjectsInHand /\ ProcessRight
    /\ NamesPublished /\ SourcesProcessed /\ SettledAgrees

---------------------------------------------------------------------------
(* Raw data: what it is, and how it is made.                               *)
LEMMA DataTyped ==
    ASSUME NEW data \in Data
    PROVE  DOMAIN data \subseteq Files /\ data \in [DOMAIN data -> Contents]
  BY DEF Data

LEMMA DataMade ==
    ASSUME NEW S \in SUBSET Files, NEW data \in [S -> Contents]
    PROVE  data \in Data
  BY DEF Data

LEMMA DataExtended ==
    ASSUME NEW data \in Data, NEW f \in Files, NEW c \in Contents,
           NEW more, more = [g \in DOMAIN data \union {f} |-> IF g = f THEN c ELSE data[g]]
    PROVE  more \in Data /\ DOMAIN more = DOMAIN data \union {f}
<1>1. DOMAIN data \union {f} \in SUBSET Files /\ data \in [DOMAIN data -> Contents]
  BY DataTyped
<1>2. more \in [DOMAIN data \union {f} -> Contents]
  BY <1>1
<1> QED
  BY <1>1, <1>2, DataMade

LEMMA NoData ==
    /\ [f \in {} |-> {}] \in Data
    /\ DOMAIN [f \in {} |-> {}] = {}
<1>1. [f \in {} |-> {}] \in [{} -> Contents]
  OBVIOUS
<1> QED
  BY <1>1, DataMade

LEMMA NoProcessTyped ==
    /\ NoProcess \in Process /\ NoProcess.stage = "none"
    /\ NoProcess.pending = {} /\ NoProcess.listed = {} /\ DOMAIN NoProcess.data = {}
  BY NoData DEF NoProcess, Process, Stages

(* Only the run in its transform can be there, and the process is its own. *)
LEMMA TransformAlone ==
    ASSUME OneActive, NEW r \in Runs, On(r, "transform"), NEW s \in Runs, On(s, "transform")
    PROVE  s = r
  BY DEF OneActive, On, Active

---------------------------------------------------------------------------
LEMMA InitHolds == Init => IInv
<1> SUFFICES ASSUME Init PROVE IInv
  OBVIOUS
<1>1. \A m \in Manifests : m = NoManifest
  BY DEF Init, Manifests
<1>2. NoManifest \in Manifest /\ NoManifest.run = NoRun /\ NoManifest.attempt = 0
  BY DEF NoManifest, Manifest
<1>3. NoReport \in Report
  BY NoData DEF NoReport, Report
<1>4. \A r \in Runs : dag[r] = [task |-> "waiting", try |-> 0]
  BY DEF Init
<1>5. TypeOK
  BY <1>2, <1>3, NoData, NoProcessTyped, TriesAssumption DEF Init, TypeOK
<1>6. OneActive /\ ProcessRight /\ SettledAgrees
  BY <1>4, NoProcessTyped DEF Init, OneActive, ProcessRight, SettledAgrees, On, Active
<1>7. AttemptsOrdered /\ NamesPublished /\ SourcesProcessed
  BY <1>1, <1>2, NoProcessTyped
     DEF Init, AttemptsOrdered, NamesPublished, SourcesProcessed
<1>8. SourcesInHand /\ ObjectsInHand
  BY NoProcessTyped DEF Init, SourcesInHand, ObjectsInHand
<1> QED
  BY <1>5, <1>6, <1>7, <1>8 DEF IInv

LEMMA TypeStep ==
    ASSUME TypeOK, SourcesInHand, [Next]_vars
    PROVE  TypeOK'
<1>1. ASSUME NEW f \in Files, NEW c \in Contents, Seed(f, c)
      PROVE  TypeOK'
  <2>1. raw \in Data
    BY DEF TypeOK
  <2>2. [g \in DOMAIN raw \union {f} |-> IF g = f THEN c ELSE raw[g]] \in Data
    BY <2>1, DataExtended
  <2> QED
    BY <1>1, <2>2 DEF Seed, TypeOK
<1>2. ASSUME NEW r \in Runs, NEW task \in {"waiting", "succeeded", "failed"} \union Active,
             NEW try \in 0 .. Tries, GoTo(r, task, try), process' \in Process,
             UNCHANGED <<raw, attempt, report, published, manifest, latest>>
      PROVE  TypeOK'
  BY <1>2 DEF GoTo, TypeOK
<1>3. ASSUME NEW r \in Runs, Start(r) \/ CheckSource(r) \/ Finish(r) \/ Verify(r)
      PROVE  TypeOK'
  <2>1. 0 \in 0 .. Tries /\ 1 \in 0 .. Tries
    BY TriesAssumption
  <2> QED
    BY <1>2, <1>3, <2>1, NoProcessTyped
       DEF Start, CheckSource, Finish, Verify, Active, TypeOK
<1>4. ASSUME NEW r \in Runs, TryFails(r)
      PROVE  TypeOK'
  <2>1. dag[r].try \in 0 .. Tries /\ dag[r].task \in Active
    BY <1>4 DEF TryFails, TypeOK
  <2>2. 0 \in 0 .. Tries /\ (dag[r].try < Tries => dag[r].try + 1 \in 0 .. Tries)
    BY <2>1, TriesAssumption
  <2> QED
    BY <1>2, <1>4, <2>1, <2>2, NoProcessTyped DEF TryFails
<1>5. ASSUME NEW r \in Runs, List(r)
      PROVE  TypeOK'
  <2>1. process' \in Process
    BY <1>5, NoProcessTyped, DataTyped DEF List, TypeOK, Process, Stages
  <2> QED
    BY <1>5, <2>1 DEF List, TypeOK
<1>6. ASSUME NEW r \in Runs, ListAgain(r)
      PROVE  TypeOK'
  <2>1. process' \in Process
    BY <1>6, DataTyped DEF ListAgain, TypeOK, Process
  <2> QED
    BY <1>6, <2>1 DEF ListAgain, TypeOK
<1>7. ASSUME NEW r \in Runs, NEW f \in Files, Download(r, f)
      PROVE  TypeOK'
  <2>1. raw[f] \in Contents
    BY <1>7, DataTyped DEF Download, SourcesInHand, TypeOK
  <2>2. process.data \in Data
    BY DEF TypeOK, Process
  <2>3. [g \in DOMAIN process.data \union {f} |->
            IF g = f THEN raw[f] ELSE process.data[g]] \in Data
    BY <2>1, <2>2, DataExtended
  <2>4. process' \in Process
    BY <1>7, <2>3 DEF Download, TypeOK, Process
  <2> QED
    BY <1>7, <2>4 DEF Download, TypeOK
<1>8. ASSUME NEW r \in Runs, Gate(r)
      PROVE  TypeOK'
  <2>1. [data |-> process.data, passed |-> Passed(process.data)] \in Report
    BY DEF TypeOK, Process, Report, Passed
  <2>2. process' \in Process
    BY <1>8 DEF Gate, TypeOK, Process, Stages
  <2> QED
    BY <1>8, <2>1, <2>2 DEF Gate, TypeOK
<1>9. ASSUME NEW r \in Runs, UploadCurated(r) \/ UploadSummary(r)
      PROVE  TypeOK'
  <2>1. PICK kind \in Kinds, from \in Stages : Upload(r, from, kind)
    BY <1>9 DEF UploadCurated, UploadSummary, Kinds, Stages
  <2>2. process' \in Process
    BY <2>1 DEF Upload, TypeOK, Process, Stages, Kinds
  <2>3. [run |-> r, attempt |-> attempt, kind |-> kind, data |-> process.data] \in Object
    BY DEF TypeOK, Process, Object
  <2> QED
    BY <2>1, <2>2, <2>3 DEF Upload, TypeOK
<1>10. ASSUME NEW r \in Runs, PutManifest(r) \/ PutLatest(r)
       PROVE  TypeOK'
  <2>1. NewManifest(r) \in Manifest
    BY DEF NewManifest, Manifest, TypeOK, Process
  <2>2. process' \in Process
    BY <1>10 DEF PutManifest, PutLatest, TypeOK, Process, Stages
  <2> QED
    BY <1>10, <2>1, <2>2 DEF PutManifest, PutLatest, TypeOK
<1>11. CASE UNCHANGED vars
  BY <1>11 DEF vars, TypeOK
<1> QED
  BY <1>1, <1>3, <1>4, <1>5, <1>6, <1>7, <1>8, <1>9, <1>10, <1>11 DEF Next

---------------------------------------------------------------------------
(* Steps that write no object but raw ones, and no report.                 *)
LEMMA StoreKept ==
    ASSUME IInv, UNCHANGED <<published, manifest, latest>>
    PROVE  /\ Manifests' = Manifests
           /\ NamesPublished' /\ SourcesProcessed'
  BY DEF IInv, Manifests, NamesPublished, SourcesProcessed

LEMMA SeedStep ==
    ASSUME IInv, TypeOK', NEW f \in Files, NEW c \in Contents, Seed(f, c)
    PROVE  IInv'
<1>1. UNCHANGED <<dag, attempt, process, report, published, manifest, latest>>
  BY DEF Seed
<1>2. DOMAIN raw' = DOMAIN raw \union {f}
  BY DEF Seed
<1>3. (OneActive /\ SettledAgrees /\ ObjectsInHand /\ AttemptsOrdered)'
  BY <1>1, StoreKept DEF IInv, OneActive, SettledAgrees, ObjectsInHand, AttemptsOrdered, On
<1>5. ProcessRight'
  <2>1. ASSUME NEW r \in Runs, On(r, "transform")
        PROVE  ProcessHas(r)'
    BY <1>1, <2>1, StoreKept DEF IInv, ProcessRight, ProcessHas, Stored, NewManifest
  <2> QED
    BY <1>1, <2>1 DEF ProcessRight, On
<1>4. SourcesInHand'
  BY <1>1, <1>2 DEF IInv, SourcesInHand
<1> QED
  BY <1>1, <1>3, <1>4, <1>5, StoreKept DEF IInv

(* A run enters a task that is not the transform while no process runs, or *)
(* stays in its task while its process ends.                               *)
LEMMA DagStep ==
    ASSUME IInv, TypeOK', NEW r \in Runs,
           NEW task \in {"waiting", "succeeded", "failed"} \union Active, NEW try,
           GoTo(r, task, try), process' = NoProcess,
           \A s \in Runs \ {r} : dag[s].task \notin Active,
           task = "succeeded" => On(r, "verify"),
           task = "verify" => On(r, "verify") \/ (On(r, "transform") /\ process.stage = "latest"),
           UNCHANGED <<raw, attempt, report, published, manifest, latest>>
    PROVE  IInv'
<1>1. dag'[r].task = task /\ \A s \in Runs \ {r} : dag'[s] = dag[s]
  BY DEF GoTo, IInv, TypeOK
<1>2. OneActive'
  BY <1>1, NoProcessTyped DEF OneActive
<1>3. (AttemptsOrdered /\ SourcesInHand /\ ObjectsInHand)'
  BY NoProcessTyped, StoreKept DEF IInv, AttemptsOrdered, SourcesInHand, ObjectsInHand
<1>4. ProcessRight'
  BY NoProcessTyped DEF ProcessRight, ProcessHas
<1>5. SettledAgrees'
  <2>1. ASSUME NEW s \in Runs \ {r}, dag'[s].task \in {"verify", "succeeded"}
        PROVE  dag[s].task \in {"verify", "succeeded"}
    BY <1>1, <2>1
  <2>2. CASE On(r, "verify") \/ task \notin {"verify", "succeeded"}
    BY <1>1, <2>1, <2>2 DEF IInv, SettledAgrees, On
  <2>3. CASE On(r, "transform") /\ process.stage = "latest"
    <3>1. ProcessHas(r)
      BY <2>3 DEF IInv, ProcessRight
    <3>2. /\ report[r] = [data |-> process.data, passed |-> TRUE]
          /\ manifest[r] = NewManifest(r) /\ latest = NewManifest(r)
      BY <2>3, <3>1 DEF ProcessHas
    <3>3. \A o \in published : o.attempt = attempt => o.data = process.data
      BY <2>3 DEF IInv, ObjectsInHand
    <3>4. NewManifest(r).run = r /\ NewManifest(r).attempt = attempt /\ r # NoRun
      BY RunsAssumption DEF NewManifest
    <3> QED
      BY <1>1, <2>1, <3>2, <3>3, <3>4 DEF IInv, SettledAgrees
  <2> QED
    BY <2>2, <2>3
<1> QED
  BY <1>2, <1>3, <1>4, <1>5, StoreKept DEF IInv

LEMMA StartStep ==
    ASSUME IInv, TypeOK', NEW r \in Runs, Start(r)
    PROVE  IInv'
<1>1. dag'[r].task = "check" /\ \A s \in Runs \ {r} : dag'[s] = dag[s]
  BY DEF Start, GoTo, IInv, TypeOK
<1>2. UNCHANGED <<raw, attempt, process, report, published, manifest, latest>>
  BY DEF Start
<1>3. \A s \in Runs : dag[s].task \notin Active
  BY DEF Start
<1>4. process.stage = "none"
  BY <1>3 DEF IInv, OneActive, On, Active
<1>5. (OneActive /\ SettledAgrees)'
  BY <1>1, <1>2, <1>3, <1>4 DEF IInv, OneActive, SettledAgrees, Active
<1>6. (AttemptsOrdered /\ SourcesInHand /\ ObjectsInHand /\ ProcessRight)'
  BY <1>2, <1>4, StoreKept
     DEF IInv, AttemptsOrdered, SourcesInHand, ObjectsInHand, ProcessRight, ProcessHas
<1> QED
  BY <1>2, <1>5, <1>6, StoreKept DEF IInv

LEMMA CheckSourceStep ==
    ASSUME IInv, TypeOK', NEW r \in Runs, CheckSource(r)
    PROVE  IInv'
<1>1. dag'[r].task = "transform" /\ \A s \in Runs \ {r} : dag'[s] = dag[s]
  BY DEF CheckSource, GoTo, IInv, TypeOK
<1>2. UNCHANGED <<raw, attempt, process, report, published, manifest, latest>>
  BY DEF CheckSource
<1>3. \A s \in Runs \ {r} : dag[s].task \notin Active
  BY DEF CheckSource, On, Active, IInv, OneActive
<1>4. process.stage = "none"
  BY <1>3 DEF CheckSource, IInv, OneActive, On, Active
<1>5. (OneActive /\ SettledAgrees)'
  BY <1>1, <1>2, <1>3, <1>4 DEF IInv, OneActive, SettledAgrees, Active
<1>6. (AttemptsOrdered /\ SourcesInHand /\ ObjectsInHand /\ ProcessRight)'
  BY <1>2, <1>4, StoreKept
     DEF IInv, AttemptsOrdered, SourcesInHand, ObjectsInHand, ProcessRight, ProcessHas
<1> QED
  BY <1>2, <1>5, <1>6, StoreKept DEF IInv

LEMMA TaskEnds ==
    ASSUME IInv, TypeOK', NEW r \in Runs, Finish(r) \/ TryFails(r)
    PROVE  IInv'
<1>1. dag[r].task \in Active
  BY DEF Finish, TryFails, On, Active
<1>2. \A s \in Runs \ {r} : dag[s].task \notin Active
  BY <1>1 DEF IInv, OneActive
<1>3. CASE Finish(r)
  BY <1>2, <1>3, DagStep DEF Finish, Active
<1>4. CASE TryFails(r)
  <2>1. PICK task, try : task \in {dag[r].task, "failed"} /\ GoTo(r, task, try)
    BY <1>4 DEF TryFails
  <2>2. /\ process' = NoProcess
        /\ UNCHANGED <<raw, attempt, report, published, manifest, latest>>
    BY <1>4 DEF TryFails
  <2>3. /\ task \in {"waiting", "succeeded", "failed"} \union Active /\ task # "succeeded"
        /\ task = "verify" => On(r, "verify")
    BY <1>1, <2>1 DEF On, Active
  <2> QED
    BY <1>2, <2>1, <2>2, <2>3, DagStep
<1> QED
  BY <1>3, <1>4

LEMMA VerifyStep ==
    ASSUME IInv, TypeOK', NEW r \in Runs, Verify(r)
    PROVE  IInv'
<1>1. dag'[r].task = "succeeded" /\ \A s \in Runs \ {r} : dag'[s] = dag[s]
  BY DEF Verify, GoTo, IInv, TypeOK
<1>2. /\ UNCHANGED <<raw, attempt, process, report, published, manifest, latest>>
      /\ dag[r].task = "verify"
  BY DEF Verify, On
<1>3. process.stage = "none"
  BY <1>2 DEF IInv, OneActive, On, Active
<1>4. (OneActive /\ SettledAgrees)'
  BY <1>1, <1>2, <1>3 DEF IInv, OneActive, SettledAgrees, Active
<1>5. (AttemptsOrdered /\ SourcesInHand /\ ObjectsInHand /\ ProcessRight)'
  BY <1>2, <1>3, StoreKept
     DEF IInv, AttemptsOrdered, SourcesInHand, ObjectsInHand, ProcessRight, ProcessHas
<1> QED
  BY <1>2, <1>4, <1>5, StoreKept DEF IInv

---------------------------------------------------------------------------
(* Steps of the process that only read.                                    *)
LEMMA Reading ==
    ASSUME IInv, TypeOK', SourcesInHand', NEW r \in Runs, On(r, "transform"),
           attempt' = attempt + 1 \/ (attempt' = attempt /\ process.stage = "download"),
           process'.stage = "download",
           UNCHANGED <<raw, dag, report, published, manifest, latest>>
    PROVE  IInv'
<1>1. attempt \in Nat
  BY DEF IInv, TypeOK
<1>2. OneActive'
  BY DEF IInv, OneActive, On
<1>3. \A m \in Manifests : m \in Manifest
  BY DEF IInv, TypeOK, Manifests
<1>4. \A o \in published : o.attempt \in Nat
  BY DEF IInv, TypeOK, Object
<1>5. AttemptsOrdered'
  BY <1>1, <1>3, <1>4, StoreKept DEF IInv, AttemptsOrdered, Manifest
<1>6. ObjectsInHand'
  BY <1>1, <1>4 DEF IInv, ObjectsInHand, AttemptsOrdered
<1>7. ProcessRight'
  BY DEF ProcessRight, ProcessHas
<1>8. SettledAgrees'
  BY DEF IInv, SettledAgrees
<1> QED
  BY <1>2, <1>5, <1>6, <1>7, <1>8, StoreKept DEF IInv

LEMMA ListStep ==
    ASSUME IInv, TypeOK', NEW r \in Runs, List(r)
    PROVE  IInv'
<1>1. /\ process'.stage = "download" /\ process'.listed = DOMAIN raw
      /\ process'.pending = {} /\ DOMAIN process'.data = {}
  BY NoProcessTyped DEF List, Process
<1>2. SourcesInHand'
  BY <1>1 DEF SourcesInHand, List
<1> QED
  BY <1>1, <1>2, Reading DEF List

LEMMA ListAgainStep ==
    ASSUME IInv, TypeOK', NEW r \in Runs, ListAgain(r)
    PROVE  IInv'
<1>1. /\ process'.stage = "download" /\ process'.listed = process.listed
      /\ process'.pending = DOMAIN raw /\ process'.data = process.data
      /\ process.stage = "download"
  BY DEF ListAgain, IInv, TypeOK, Process
<1>2. SourcesInHand'
  BY <1>1 DEF SourcesInHand, ListAgain, IInv
<1> QED
  BY <1>1, <1>2, Reading DEF ListAgain

LEMMA DownloadStep ==
    ASSUME IInv, TypeOK', NEW r \in Runs, NEW f \in Files, Download(r, f)
    PROVE  IInv'
<1>1. /\ process'.stage = "download" /\ process'.listed = process.listed
      /\ process'.pending = process.pending \ {f}
      /\ DOMAIN process'.data = DOMAIN process.data \union {f}
      /\ process.stage = "download" /\ f \in process.pending
  BY DEF Download, IInv, TypeOK, Process
<1>2. SourcesInHand'
  BY <1>1 DEF SourcesInHand, Download, IInv
<1> QED
  BY <1>1, <1>2, Reading DEF Download

(* Steps of the process that leave its data, its attempt and its sources.  *)
Proceeds(r) ==
    /\ On(r, "transform")
    /\ process'.data = process.data /\ process'.listed = process.listed
    /\ process'.pending = process.pending
    /\ UNCHANGED <<raw, dag, attempt>>

LEMMA GateStep ==
    ASSUME IInv, TypeOK', NEW r \in Runs, Gate(r)
    PROVE  IInv'
<1>1. /\ Proceeds(r) /\ UNCHANGED <<published, manifest, latest>>
      /\ process.stage = "download"
      /\ process'.stage \in {"passed", "rejected"}
      /\ process'.stage = "passed" => Passed(process.data)
  BY DEF Gate, Proceeds, IInv, TypeOK, Process
<1>2. /\ report'[r] = [data |-> process.data, passed |-> Passed(process.data)]
      /\ \A s \in Runs \ {r} : report'[s] = report[s]
  BY DEF Gate, IInv, TypeOK
<1>3. (OneActive /\ AttemptsOrdered /\ ObjectsInHand)'
  BY <1>1, StoreKept DEF IInv, Proceeds, OneActive, AttemptsOrdered, ObjectsInHand, On
<1>4. SourcesInHand'
  BY <1>1 DEF IInv, Proceeds, SourcesInHand, Gate
<1>5. ProcessRight'
  <2>1. ASSUME NEW s \in Runs, On(s, "transform")' PROVE s = r
    BY <1>1, <2>1, TransformAlone DEF IInv, Proceeds, On
  <2>2. ProcessHas(r)'
    BY <1>1, <1>2 DEF Proceeds, ProcessHas
  <2> QED
    BY <2>1, <2>2 DEF ProcessRight
<1>6. SettledAgrees'
  BY <1>1, <1>2 DEF IInv, Proceeds, SettledAgrees, On
<1> QED
  BY <1>1, <1>3, <1>4, <1>5, <1>6, StoreKept DEF IInv

LEMMA UploadStep ==
    ASSUME IInv, TypeOK', NEW r \in Runs, UploadCurated(r) \/ UploadSummary(r)
    PROVE  IInv'
<1>1. PICK from, kind :
          /\ Upload(r, from, kind)
          /\ \/ from = "passed" /\ kind = "curated"
             \/ from = "curated" /\ kind = "summary"
  BY DEF UploadCurated, UploadSummary
<1>2. PICK o : o = [run |-> r, attempt |-> attempt, kind |-> kind, data |-> process.data]
  OBVIOUS
<1>3. /\ Proceeds(r) /\ UNCHANGED <<report, manifest, latest>>
      /\ published' = published \union {o}
      /\ process.stage = from /\ process'.stage = kind
  BY <1>1, <1>2 DEF Upload, Proceeds, IInv, TypeOK, Process
<1>4. o.run = r /\ o.attempt = attempt /\ o.data = process.data
  BY <1>2
<1>5. Manifests' = Manifests
  BY <1>3 DEF Manifests
<1>6. \A m \in Manifests : m.attempt < attempt /\ m.attempt # attempt
  <2>1. attempt \in Nat /\ \A m \in Manifests : m.attempt \in Nat
    BY DEF IInv, TypeOK, Manifests, Manifest
  <2> QED
    BY <1>1, <1>3, <2>1 DEF IInv, AttemptsOrdered
<1>7. OneActive'
  BY <1>3 DEF IInv, Proceeds, OneActive, On
<1>8. AttemptsOrdered'
  BY <1>1, <1>3, <1>4, <1>5, <1>6 DEF IInv, Proceeds, AttemptsOrdered, TypeOK
<1>9. SourcesInHand'
  BY <1>1, <1>3 DEF IInv, Proceeds, SourcesInHand
<1>10. ObjectsInHand'
  BY <1>1, <1>3, <1>4 DEF IInv, Proceeds, ObjectsInHand
<1>11. ProcessRight'
  <2>1. ASSUME NEW s \in Runs, On(s, "transform")' PROVE s = r
    BY <1>3, <2>1, TransformAlone DEF IInv, Proceeds, On
  <2>2. ProcessHas(r)
    BY <1>3 DEF IInv, Proceeds, ProcessRight
  <2>3. ProcessHas(r)'
    BY <1>1, <1>2, <1>3, <2>2 DEF Proceeds, ProcessHas, Stored
  <2> QED
    BY <2>1, <2>3 DEF ProcessRight
<1>12. NamesPublished'
  BY <1>3, <1>5 DEF IInv, NamesPublished
<1>13. SourcesProcessed'
  BY <1>3, <1>4, <1>5, <1>6 DEF IInv, SourcesProcessed
<1>14. SettledAgrees'
  <2>1. ASSUME NEW s \in Runs, dag'[s].task \in {"verify", "succeeded"}
        PROVE  dag[s] = dag'[s] /\ s # r
    BY <1>3, <2>1 DEF Proceeds, On
  <2> QED
    BY <1>3, <1>4, <2>1 DEF IInv, SettledAgrees
<1> QED
  BY <1>7, <1>8, <1>9, <1>10, <1>11, <1>12, <1>13, <1>14 DEF IInv

(* A manifest that is put names what its process has published.            *)
LEMMA NewManifestRight ==
    ASSUME IInv, NEW r \in Runs, On(r, "transform"),
           process.stage \in {"summary", "manifest"}
    PROVE  /\ Passed(process.data)
           /\ \E data \in {o.data : o \in published} :
                 /\ Passed(data)
                 /\ \A kind \in Kinds :
                       [run |-> r, attempt |-> attempt, kind |-> kind, data |-> data]
                           \in published
           /\ \A o \in published :
                 o.attempt = attempt => process.listed \subseteq DOMAIN o.data
<1>1. ProcessHas(r)
  BY DEF IInv, ProcessRight
<1>2. Passed(process.data) /\ Stored(r, "curated") /\ Stored(r, "summary")
  BY <1>1 DEF ProcessHas
<1>3. process.data \in {o.data : o \in published}
  BY <1>2 DEF Stored
<1>4. \A kind \in Kinds :
         [run |-> r, attempt |-> attempt, kind |-> kind, data |-> process.data] \in published
  BY <1>2 DEF Stored, Kinds
<1>5. \A o \in published : o.attempt = attempt => process.listed \subseteq DOMAIN o.data
  BY DEF IInv, ObjectsInHand, SourcesInHand
<1> QED
  BY <1>2, <1>3, <1>4, <1>5

LEMMA PutStep ==
    ASSUME IInv, TypeOK', NEW r \in Runs, PutManifest(r) \/ PutLatest(r)
    PROVE  IInv'
<1>1. PICK m : m = NewManifest(r)
  OBVIOUS
<1>2. m.run = r /\ m.attempt = attempt /\ m.sources = process.listed
  BY <1>1 DEF NewManifest
<1>3. /\ Proceeds(r) /\ UNCHANGED <<report, published>>
      /\ \/ /\ process.stage = "summary" /\ process'.stage = "manifest"
            /\ manifest' = [manifest EXCEPT ![r] = m] /\ latest' = latest
         \/ /\ process.stage = "manifest" /\ process'.stage = "latest"
            /\ latest' = m /\ manifest' = manifest
  BY <1>1 DEF PutManifest, PutLatest, Proceeds, IInv, TypeOK, Process
<1>4. \A n \in Manifests' : n \in Manifests \/ n = m
  BY <1>3 DEF Manifests, IInv, TypeOK
<1>5. attempt \in Nat
  BY DEF IInv, TypeOK
<1>6. OneActive'
  BY <1>3 DEF IInv, Proceeds, OneActive, On
<1>7. AttemptsOrdered'
  BY <1>2, <1>3, <1>4, <1>5 DEF IInv, Proceeds, AttemptsOrdered
<1>8. SourcesInHand'
  BY <1>3 DEF IInv, Proceeds, SourcesInHand
<1>9. ObjectsInHand'
  BY <1>3 DEF IInv, Proceeds, ObjectsInHand
<1>10. manifest'[r] = m /\ (process'.stage = "latest" => latest' = m)
  BY <1>1, <1>3 DEF Proceeds, IInv, TypeOK, ProcessRight, ProcessHas
<1>11. ProcessRight'
  <2>1. ASSUME NEW s \in Runs, On(s, "transform")' PROVE s = r
    BY <1>3, <2>1, TransformAlone DEF IInv, Proceeds, On
  <2>2. ProcessHas(r)
    BY <1>3 DEF IInv, Proceeds, ProcessRight
  <2>3. NewManifest(r)' = m /\ \A kind : Stored(r, kind)' <=> Stored(r, kind)
    BY <1>1, <1>3 DEF Proceeds, NewManifest, Stored
  <2>5. \A n \in Manifests' : n.run # r => n.attempt < attempt
    BY <1>2, <1>3, <1>4, <2>2 DEF IInv, AttemptsOrdered, ProcessHas
  <2>4. ProcessHas(r)'
    BY <1>3, <1>10, <2>2, <2>3, <2>5 DEF Proceeds, ProcessHas
  <2> QED
    BY <2>1, <2>4 DEF ProcessRight
<1>12. NamesPublished'
  BY <1>2, <1>3, <1>4, NewManifestRight DEF IInv, Proceeds, NamesPublished
<1>13. SourcesProcessed'
  BY <1>2, <1>3, <1>4, NewManifestRight DEF IInv, Proceeds, SourcesProcessed
<1>14. SettledAgrees'
  <2>1. ASSUME NEW s \in Runs, dag'[s].task \in {"verify", "succeeded"}
        PROVE  /\ dag[s] = dag'[s] /\ s # r
               /\ manifest'[s] = manifest[s]
               /\ latest' = latest \/ (process.stage = "manifest" /\ latest' = m)
    BY <1>2, <1>3, <2>1 DEF Proceeds, On, IInv, TypeOK
  <2>2. ASSUME NEW s \in Runs, dag[s].task \in {"verify", "succeeded"}, s # r,
               process.stage = "manifest"
        PROVE  manifest[s].attempt < attempt
    <3>1. manifest[s] \in Manifests /\ manifest[s].run = s
      BY <2>2 DEF Manifests, IInv, SettledAgrees
    <3>2. ProcessHas(r)
      BY <1>3 DEF IInv, Proceeds, ProcessRight
    <3> QED
      BY <2>2, <3>1, <3>2 DEF ProcessHas
  <2>3. m.attempt = attempt /\ m.run \in Runs
    BY <1>2
  <2>4. ASSUME NEW s \in Runs, dag'[s].task \in {"verify", "succeeded"}
        PROVE  latest' # manifest'[s] =>
                  latest'.run \in Runs \ {s} /\ latest'.attempt > manifest'[s].attempt
    <3>1. dag[s].task \in {"verify", "succeeded"} /\ s # r /\ manifest'[s] = manifest[s]
      BY <2>1, <2>4
    <3>2. CASE latest' = latest
      BY <3>1, <3>2 DEF IInv, SettledAgrees
    <3>3. CASE process.stage = "manifest" /\ latest' = m
      <4>1. manifest[s].attempt < attempt /\ m.run = r
        BY <1>2, <2>2, <3>1, <3>3
      <4> QED
        BY <2>3, <3>1, <3>3, <4>1
    <3> QED
      BY <2>1, <2>4, <3>2, <3>3
  <2> QED
    BY <1>3, <2>1, <2>4 DEF IInv, SettledAgrees
<1> QED
  BY <1>3, <1>6, <1>7, <1>8, <1>9, <1>11, <1>12, <1>13, <1>14 DEF IInv

LEMMA StutterStep ==
    ASSUME IInv, UNCHANGED vars
    PROVE  IInv'
<1>1. UNCHANGED <<raw, dag, attempt, process, report, published, manifest, latest>>
  BY DEF vars
<1>2. (TypeOK /\ OneActive /\ SourcesInHand /\ ObjectsInHand /\ SettledAgrees)'
  BY <1>1 DEF IInv, TypeOK, OneActive, SourcesInHand, ObjectsInHand, SettledAgrees, On
<1>3. AttemptsOrdered'
  BY <1>1, StoreKept DEF IInv, AttemptsOrdered
<1>4. ProcessRight'
  <2>1. ASSUME NEW r \in Runs, On(r, "transform")
        PROVE  ProcessHas(r)'
    BY <1>1, <2>1, StoreKept DEF IInv, ProcessRight, ProcessHas, Stored, NewManifest
  <2> QED
    BY <1>1, <2>1 DEF ProcessRight, On
<1> QED
  BY <1>1, <1>2, <1>3, <1>4, StoreKept DEF IInv

LEMMA StepKeeps == IInv /\ [Next]_vars => IInv'
<1> SUFFICES ASSUME IInv, [Next]_vars PROVE IInv'
  OBVIOUS
<1>1. TypeOK'
  BY TypeStep DEF IInv
<1>2. ASSUME NEW f \in Files, NEW c \in Contents, Seed(f, c)
      PROVE  IInv'
  BY <1>1, <1>2, SeedStep
<1>3. ASSUME NEW r \in Runs,
             Start(r) \/ CheckSource(r) \/ Finish(r) \/ TryFails(r) \/ Verify(r)
      PROVE  IInv'
  BY <1>1, <1>3, StartStep, CheckSourceStep, TaskEnds, VerifyStep
<1>4. ASSUME NEW r \in Runs,
             List(r) \/ ListAgain(r) \/ (\E f \in Files : Download(r, f)) \/ Gate(r)
      PROVE  IInv'
  BY <1>1, <1>4, ListStep, ListAgainStep, DownloadStep, GateStep
<1>5. ASSUME NEW r \in Runs,
             UploadCurated(r) \/ UploadSummary(r) \/ PutManifest(r) \/ PutLatest(r)
      PROVE  IInv'
  BY <1>1, <1>5, UploadStep, PutStep
<1>6. CASE UNCHANGED vars
  BY <1>6, StutterStep
<1> QED
  BY <1>2, <1>3, <1>4, <1>5, <1>6 DEF Next

(* The inductive invariant holds in every reachable state.                 *)
THEOREM Invariance == Spec => []IInv
  BY InitHolds, StepKeeps, PTL DEF Spec

(* Tasks, tries, the process and everything stored keep their types.       *)
THEOREM TypeCorrect == Spec => []TypeOK
<1>1. IInv => TypeOK
  BY DEF IInv
<1> QED
  BY <1>1, Invariance, PTL

(* At any time, and after any crash or retry, every manifest and           *)
(* latest.json name stored objects of both kinds, of one attempt and of    *)
(* data that passed the gate.                                              *)
THEOREM ManifestsName == Spec => []NamesPublished
<1>1. IInv => NamesPublished
  BY DEF IInv
<1> QED
  BY <1>1, Invariance, PTL

(* Files seeded between the two listings of a transform, or over a file    *)
(* that it has listed, never make its manifest name a source that its      *)
(* objects leave out.                                                      *)
THEOREM SourcesKept == Spec => []SourcesProcessed
<1>1. IInv => SourcesProcessed
  BY DEF IInv
<1> QED
  BY <1>1, Invariance, PTL

(* A run that goes on to verify, or has succeeded, has a manifest and a    *)
(* quality report that agree, and latest.json names the same publication   *)
(* or a newer one, whatever failed tries and earlier executions have left. *)
THEOREM SettledRight == Spec => []SettledAgrees
<1>1. IInv => SettledAgrees
  BY DEF IInv
<1> QED
  BY <1>1, Invariance, PTL

---------------------------------------------------------------------------
(* The pipeline implements the catalog.                                    *)

(* Until a process uploads its summary its attempt has no publication, and *)
(* until it puts latest.json that is behind its attempt.                   *)
CatalogAhead ==
    /\ process.stage # "none" => attempt \in 1 .. LastAttempt
    /\ process.stage = "curated" =>
          \A o \in published : o.attempt = attempt => o.kind = "curated"
    /\ process.stage = "manifest" => latest.attempt < attempt

CInv == IInv /\ CatalogAhead

LEMMA AheadInit == Init => CatalogAhead /\ PublicCatalog!Init
<1> SUFFICES ASSUME Init PROVE CatalogAhead /\ PublicCatalog!Init
  OBVIOUS
<1>1. CatalogAhead
  BY NoProcessTyped DEF Init, CatalogAhead
<1>2. PublicationsIn(published) = {}
  BY DEF Init, PublicationsIn
<1>3. PublicCatalog!Init
  BY <1>2 DEF Init, PublicCatalog!Init, NoManifest, PublicCatalog!NoManifest
<1> QED
  BY <1>1, <1>3

LEMMA AheadStep == CInv /\ [Next]_vars => CatalogAhead'
<1> SUFFICES ASSUME CInv, [Next]_vars PROVE CatalogAhead'
  OBVIOUS
<1> USE DEF CInv
<1>0. /\ TypeOK /\ attempt \in Nat
      /\ \A m \in Manifests : m.attempt \in Nat
      /\ latest \in Manifests
  BY DEF IInv, TypeOK, Manifests, Manifest
<1>1. CASE process'.stage = "none"
  BY <1>1 DEF CatalogAhead
<1>2. ASSUME NEW r \in Runs, List(r) PROVE CatalogAhead'
  <2>1. process'.stage = "download" /\ attempt' \in 1 .. LastAttempt
    BY <1>0, <1>2, LastAttemptAssumption, NoProcessTyped DEF List, Process
  <2> QED
    BY <2>1 DEF CatalogAhead
<1>3. ASSUME NEW r \in Runs,
             ListAgain(r) \/ (\E f \in Files : Download(r, f)) \/ Gate(r)
      PROVE  CatalogAhead'
  <2>1. /\ process.stage = "download"
        /\ process'.stage \in {"download", "passed", "rejected"}
        /\ attempt' = attempt
    BY <1>0, <1>3 DEF ListAgain, Download, Gate, TypeOK, Process
  <2> QED
    BY <2>1 DEF CatalogAhead
<1>4. ASSUME NEW r \in Runs, UploadCurated(r) PROVE CatalogAhead'
  <2>1. /\ process.stage = "passed" /\ process'.stage = "curated"
        /\ attempt' = attempt /\ latest' = latest
        /\ \A o \in published' : o \in published \/ o.kind = "curated"
    BY <1>0, <1>4 DEF UploadCurated, Upload, TypeOK, Process
  <2>2. \A o \in published : o.attempt # attempt
    BY <2>1 DEF IInv, ObjectsInHand
  <2> QED
    BY <2>1, <2>2 DEF CatalogAhead
<1>5. ASSUME NEW r \in Runs, UploadSummary(r) PROVE CatalogAhead'
  <2>1. /\ process.stage = "curated" /\ process'.stage = "summary"
        /\ attempt' = attempt
    BY <1>0, <1>5 DEF UploadSummary, Upload, TypeOK, Process
  <2> QED
    BY <2>1 DEF CatalogAhead
<1>6. ASSUME NEW r \in Runs, PutManifest(r) PROVE CatalogAhead'
  <2>1. /\ process.stage = "summary" /\ process'.stage = "manifest"
        /\ attempt' = attempt /\ latest' = latest
    BY <1>0, <1>6 DEF PutManifest, TypeOK, Process
  <2>2. latest.attempt < attempt
    BY <1>0, <2>1 DEF IInv, AttemptsOrdered
  <2> QED
    BY <2>1, <2>2 DEF CatalogAhead
<1>7. ASSUME NEW r \in Runs, PutLatest(r) PROVE CatalogAhead'
  <2>1. process.stage = "manifest" /\ process'.stage = "latest" /\ attempt' = attempt
    BY <1>0, <1>7 DEF PutLatest, TypeOK, Process
  <2> QED
    BY <2>1 DEF CatalogAhead
<1>8. CASE UNCHANGED <<attempt, process, published, latest>>
  BY <1>8 DEF CatalogAhead
<1>9. ASSUME NEW r \in Runs, Finish(r) \/ TryFails(r) PROVE CatalogAhead'
  BY <1>1, <1>9, NoProcessTyped DEF Finish, TryFails
<1> QED
  BY <1>2, <1>3, <1>4, <1>5, <1>6, <1>7, <1>8, <1>9
     DEF Next, Seed, Start, CheckSource, Verify, vars

(* A publication is an attempt of a run with objects of both kinds.        *)
Complete(objects, r, n, data) ==
    \A kind \in Kinds :
        [run |-> r, attempt |-> n, kind |-> kind, data |-> data] \in objects

LEMMA WholeObject ==
    ASSUME NEW o \in Object, NEW objects
    PROVE  (\A kind \in Kinds : [o EXCEPT !.kind = kind] \in objects)
              <=> Complete(objects, o.run, o.attempt, o.data)
  BY DEF Complete, Object

LEMMA PublicationMembers ==
    ASSUME NEW objects \in SUBSET Object, NEW r, NEW n, NEW data
    PROVE  [run |-> r, attempt |-> n, data |-> data] \in PublicationsIn(objects)
              <=> Complete(objects, r, n, data)
<1>1. ASSUME Complete(objects, r, n, data)
      PROVE  [run |-> r, attempt |-> n, data |-> data] \in PublicationsIn(objects)
  <2> DEFINE o == [run |-> r, attempt |-> n, kind |-> "curated", data |-> data]
  <2>1. o \in objects /\ o.run = r /\ o.attempt = n /\ o.data = data
    BY <1>1 DEF Complete, Kinds
  <2> HIDE DEF o
  <2>2. o \in Object /\ Complete(objects, o.run, o.attempt, o.data)
    BY <1>1, <2>1
  <2> QED
    BY <2>1, <2>2, WholeObject DEF PublicationsIn, Publication
<1>2. ASSUME [run |-> r, attempt |-> n, data |-> data] \in PublicationsIn(objects)
      PROVE  Complete(objects, r, n, data)
  <2>1. PICK o \in objects :
           /\ \A kind \in Kinds : [o EXCEPT !.kind = kind] \in objects
           /\ Publication(o) = [run |-> r, attempt |-> n, data |-> data]
    BY <1>2 DEF PublicationsIn
  <2>2. o.run = r /\ o.attempt = n /\ o.data = data
    BY <2>1 DEF Publication
  <2> QED
    BY <2>1, <2>2, WholeObject
<1> QED
  BY <1>1, <1>2

LEMMA PublicationShape ==
    ASSUME NEW objects \in SUBSET Object, NEW p \in PublicationsIn(objects)
    PROVE  /\ p = [run |-> p.run, attempt |-> p.attempt, data |-> p.data]
           /\ Complete(objects, p.run, p.attempt, p.data)
<1>1. p = [run |-> p.run, attempt |-> p.attempt, data |-> p.data]
  BY DEF PublicationsIn, Publication
<1> QED
  BY <1>1, PublicationMembers

(* Sets of objects with the same complete attempts have the same           *)
(* publications.                                                           *)
LEMMA SamePublications ==
    ASSUME NEW A \in SUBSET Object, NEW B \in SUBSET Object,
           \A r, n, data : Complete(A, r, n, data) => Complete(B, r, n, data)
    PROVE  PublicationsIn(A) \subseteq PublicationsIn(B)
  BY PublicationShape, PublicationMembers

(* A process that has uploaded both objects of its attempt has the newest  *)
(* publication.                                                            *)
LEMMA NewestPublication ==
    ASSUME CInv, NEW r \in Runs, On(r, "transform"),
           process.stage \in {"summary", "manifest"}
    PROVE  /\ [run |-> r, attempt |-> attempt, data |-> process.data]
                 \in PublicationsIn(published)
           /\ \A q \in PublicationsIn(published) : q.attempt <= attempt
<1>1. published \subseteq Object
  BY DEF CInv, IInv, TypeOK
<1>2. Complete(published, r, attempt, process.data)
  <2>1. ProcessHas(r)
    BY DEF CInv, IInv, ProcessRight
  <2> QED
    BY <2>1 DEF ProcessHas, Stored, Complete, Kinds
<1>3. ASSUME NEW q \in PublicationsIn(published) PROVE q.attempt <= attempt
  <2>1. PICK o \in published : o.attempt = q.attempt
    BY <1>1, PublicationShape DEF Complete, Kinds
  <2> QED
    BY <2>1 DEF CInv, IInv, AttemptsOrdered
<1> QED
  BY <1>1, <1>2, <1>3, PublicationMembers

LEMMA CuratedUnseen ==
    ASSUME CInv, TypeOK', NEW r \in Runs, UploadCurated(r)
    PROVE  PublicationsIn(published') = PublicationsIn(published)
<1>1. published \subseteq Object /\ published' \subseteq Object
  BY DEF CInv, IInv, TypeOK
<1>2. process.stage = "passed"
      /\ published' = published \union
            {[run |-> r, attempt |-> attempt, kind |-> "curated", data |-> process.data]}
  BY DEF UploadCurated, Upload
<1>3. \A o \in published : o.attempt # attempt
  BY <1>2 DEF CInv, IInv, ObjectsInHand
<1>4. ASSUME NEW s, NEW n, NEW data, Complete(published', s, n, data)
      PROVE  Complete(published, s, n, data)
  <2>1. [run |-> s, attempt |-> n, kind |-> "summary", data |-> data] \in published
    BY <1>2, <1>4 DEF Complete, Kinds
  <2>2. n # attempt
    BY <1>3, <2>1
  <2>3. [run |-> s, attempt |-> n, kind |-> "curated", data |-> data] \in published
    BY <1>2, <1>4, <2>2 DEF Complete, Kinds
  <2> QED
    BY <2>1, <2>3 DEF Complete, Kinds
<1>5. \A s, n, data : Complete(published, s, n, data) => Complete(published', s, n, data)
  BY <1>2 DEF Complete
<1>6. PublicationsIn(published') \subseteq PublicationsIn(published)
  BY <1>1, <1>4, SamePublications
<1>7. PublicationsIn(published) \subseteq PublicationsIn(published')
  BY <1>1, <1>5, SamePublications
<1> QED
  BY <1>6, <1>7

(* The upload of the summary publishes, in one step and for all readers.   *)
LEMMA SummaryPublishes ==
    ASSUME CInv, TypeOK', NEW r \in Runs, UploadSummary(r)
    PROVE  PublicCatalog!Next
<1> DEFINE new == [run |-> r, attempt |-> attempt, data |-> process.data]
<1>1. published \subseteq Object /\ published' \subseteq Object
  BY DEF CInv, IInv, TypeOK
<1>2. /\ process.stage = "curated" /\ On(r, "transform")
      /\ published' = published \union
            {[run |-> r, attempt |-> attempt, kind |-> "summary", data |-> process.data]}
      /\ UNCHANGED <<manifest, latest>>
  BY DEF UploadSummary, Upload
<1>3. ProcessHas(r)
  BY <1>2 DEF CInv, IInv, ProcessRight
<1>4. Passed(process.data) /\ Stored(r, "curated")
  BY <1>2, <1>3 DEF ProcessHas
<1>5. Complete(published', r, attempt, process.data)
  BY <1>2, <1>4 DEF Complete, Kinds, Stored
<1>6. \A s, n, data : Complete(published, s, n, data) => Complete(published', s, n, data)
  BY <1>2 DEF Complete
<1>7. ASSUME NEW s, NEW n, NEW data, Complete(published', s, n, data),
             ~Complete(published, s, n, data)
      PROVE  s = r /\ n = attempt /\ data = process.data
  BY <1>2, <1>7 DEF Complete
<1>8. PublicationsIn(published') = PublicationsIn(published) \union {new}
  <2>1. PublicationsIn(published) \subseteq PublicationsIn(published')
    BY <1>1, <1>6, SamePublications
  <2>2. new \in PublicationsIn(published')
    BY <1>1, <1>5, PublicationMembers
  <2>3. ASSUME NEW p \in PublicationsIn(published')
        PROVE  p \in PublicationsIn(published) \union {new}
    <3>1. /\ p = [run |-> p.run, attempt |-> p.attempt, data |-> p.data]
          /\ Complete(published', p.run, p.attempt, p.data)
      BY <1>1, PublicationShape
    <3>2. CASE Complete(published, p.run, p.attempt, p.data)
      BY <1>1, <3>1, <3>2, PublicationMembers
    <3>3. CASE ~Complete(published, p.run, p.attempt, p.data)
      BY <1>7, <3>1, <3>3
    <3> QED
      BY <3>2, <3>3
  <2> QED
    BY <2>1, <2>2, <2>3
<1>9. \A p \in PublicationsIn(published) : p.attempt < attempt
  <2> SUFFICES ASSUME NEW p \in PublicationsIn(published) PROVE p.attempt < attempt
    OBVIOUS
  <2>1. Complete(published, p.run, p.attempt, p.data)
    BY <1>1, PublicationShape
  <2>2. PICK o \in published : o.attempt = p.attempt /\ o.kind = "summary"
    BY <2>1 DEF Complete, Kinds
  <2>3. o.attempt # attempt
    BY <1>2, <2>2 DEF CInv, CatalogAhead
  <2>4. o.attempt <= attempt /\ o.attempt \in Nat /\ attempt \in Nat
    BY <1>1 DEF CInv, IInv, AttemptsOrdered, TypeOK, Object
  <2> QED
    BY <2>2, <2>3, <2>4
<1>10. process.data \in {data \in Data : Passed(data)} /\ attempt \in 1 .. LastAttempt
  BY <1>2, <1>4 DEF CInv, CatalogAhead, IInv, TypeOK, Process
<1>11. PublicCatalog!Publish(r, attempt, process.data)
  BY <1>2, <1>8, <1>9 DEF PublicCatalog!Publish
<1> QED
  BY <1>10, <1>11 DEF PublicCatalog!Next

LEMMA ManifestNames ==
    ASSUME CInv, NEW r \in Runs, PutManifest(r)
    PROVE  PublicCatalog!Next
<1> DEFINE p == [run |-> r, attempt |-> attempt, data |-> process.data]
<1>1. /\ process.stage = "summary" /\ On(r, "transform")
      /\ manifest' = [manifest EXCEPT
            ![r] = [run |-> r, attempt |-> attempt, sources |-> process.listed]]
      /\ UNCHANGED <<published, latest>>
  BY DEF PutManifest, NewManifest
<1>2. /\ p \in PublicationsIn(published)
      /\ \A q \in PublicationsIn(published) : q.attempt <= attempt
  BY <1>1, NewestPublication
<1>3. process.listed \subseteq DOMAIN process.data
  BY <1>1 DEF CInv, IInv, SourcesInHand
<1>4. manifest[r].attempt < attempt
  BY <1>1 DEF CInv, IInv, AttemptsOrdered, Manifests
<1>5. PublicCatalog!Name(r, p, process.listed)
  BY <1>1, <1>2, <1>3, <1>4 DEF PublicCatalog!Name, PublicCatalog!Newest
<1>6. process.listed \in SUBSET DOMAIN p.data
  BY <1>3
<1> HIDE DEF p
<1> QED
  BY <1>2, <1>5, <1>6 DEF PublicCatalog!Next, PublicCatalog!Name

LEMMA LatestPoints ==
    ASSUME CInv, NEW r \in Runs, PutLatest(r)
    PROVE  PublicCatalog!Next
<1>1. /\ process.stage = "manifest" /\ On(r, "transform")
      /\ latest' = NewManifest(r)
      /\ UNCHANGED <<published, manifest>>
  BY DEF PutLatest
<1>2. ProcessHas(r)
  BY <1>1 DEF CInv, IInv, ProcessRight
<1>3. manifest[r] = NewManifest(r)
  BY <1>1, <1>2 DEF ProcessHas
<1>4. manifest[r].run = r /\ latest.attempt < manifest[r].attempt
  BY <1>1, <1>3 DEF NewManifest, CInv, CatalogAhead
<1>5. PublicCatalog!Point(r)
  BY <1>1, <1>3, <1>4 DEF PublicCatalog!Point
<1> QED
  BY <1>5 DEF PublicCatalog!Next

LEMMA CatalogStep ==
    CInv /\ [Next]_vars => CInv' /\ [PublicCatalog!Next]_(PublicCatalog!vars)
<1> SUFFICES ASSUME CInv, [Next]_vars
             PROVE  CInv' /\ [PublicCatalog!Next]_(PublicCatalog!vars)
  OBVIOUS
<1>1. CInv'
  BY StepKeeps, AheadStep DEF CInv
<1>2. TypeOK'
  BY <1>1 DEF CInv, IInv
<1>3. CASE UNCHANGED <<published, manifest, latest>>
  BY <1>1, <1>3 DEF PublicCatalog!vars
<1>4. ASSUME NEW r \in Runs, UploadCurated(r)
      PROVE  UNCHANGED PublicCatalog!vars
  BY <1>2, <1>4, CuratedUnseen DEF PublicCatalog!vars, UploadCurated, Upload
<1>5. ASSUME NEW r \in Runs, UploadSummary(r) \/ PutManifest(r) \/ PutLatest(r)
      PROVE  PublicCatalog!Next
  BY <1>2, <1>5, SummaryPublishes, ManifestNames, LatestPoints
<1> QED
  BY <1>1, <1>3, <1>4, <1>5
     DEF Next, Seed, Start, CheckSource, List, ListAgain, Download, Gate, Finish, Verify,
         TryFails, vars

(* Whatever fails and is tried again, the readers of the partition see     *)
(* publications come in order, each whole and of gated data, and manifests *)
(* that only move to newer ones.                                           *)
THEOREM CatalogRefinement == Spec => ImplementsCatalog
<1>1. Init => CInv /\ PublicCatalog!Init
  BY InitHolds, AheadInit DEF CInv
<1> QED
  BY <1>1, CatalogStep, PTL DEF Spec, ImplementsCatalog, PublicCatalog!Spec

(* The objects a manifest names are complete when it is put and frozen     *)
(* from then on: no retry and no later run adds to them.                   *)
THEOREM NamedObjectsStay == Spec => NamedObjectsFrozen
<1>1. IInv /\ [Next]_vars =>
         \A m \in Manifests : m.run # NoRun => ObjectsOf(m)' = ObjectsOf(m)
  <2> SUFFICES ASSUME IInv, [Next]_vars, NEW m \in Manifests
               PROVE  ObjectsOf(m)' = ObjectsOf(m)
    OBVIOUS
  <2>1. CASE UNCHANGED published
    BY <2>1 DEF ObjectsOf
  <2>2. ASSUME NEW r \in Runs, NEW from \in {"passed", "curated"}, NEW kind,
               Upload(r, from, kind)
        PROVE  ObjectsOf(m)' = ObjectsOf(m)
    <3>1. m.attempt < attempt /\ m.attempt \in Nat /\ attempt \in Nat
      BY <2>2 DEF Upload, IInv, AttemptsOrdered, TypeOK, Manifests, Manifest
    <3>2. \A o \in published' : o \in published \/ o.attempt = attempt
      BY <2>2 DEF Upload
    <3>3. published \subseteq published'
      BY <2>2 DEF Upload
    <3> QED
      BY <3>1, <3>2, <3>3 DEF ObjectsOf
  <2> QED
    BY <2>1, <2>2
       DEF Next, Seed, Start, CheckSource, List, ListAgain, Download, Gate, UploadCurated,
           UploadSummary, PutManifest, PutLatest, Finish, Verify, TryFails, vars
<1> QED
  BY <1>1, Invariance, PTL DEF Spec, NamedObjectsFrozen
=============================================================================
