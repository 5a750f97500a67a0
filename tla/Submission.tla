----------------------------- MODULE Submission -----------------------------
(***************************************************************************)
(* Submission and replay of imports: idempotency keys, the payload in the   *)
(* object store, and the job row that names it (submit_inventory_import and *)
(* replay_failed_import in application/integration_services.py).            *)
(*                                                                         *)
(* The routes that submit are coroutines whose last await, for the body,    *)
(* precedes the lookup of the key: an API process runs one of them at a     *)
(* time, on its event loop.  Replays are ordinary functions: each runs in a *)
(* thread, between the steps of the others.                                 *)
(*                                                                         *)
(* One supplier and source type: keys of different ones never meet.  A      *)
(* payload is its checksum, and an object's name is the checksum and the    *)
(* day it was stored.  Of a job's status, what matters here is whether it   *)
(* failed: "queued" also stands for processing and waiting to be retried,   *)
(* "completed" also for completed with errors.                              *)
(***************************************************************************)
EXTENDS Naturals

CONSTANTS
    Jobs,         \* identifiers of import jobs
    NoJob,        \* no job
    Keys,         \* values of the Idempotency-Key header
    Contents,     \* payloads
    Loops,        \* event loops: handlers of submissions
    Threads,      \* threads: handlers of replays
    LastDay,      \* days the clock may reach (bound for model checking)
    Stalls        \* TRUE if workers may outlive their lease

ASSUME JobsAssumption == NoJob \notin Jobs
ASSUME DaysAssumption == LastDay \in Nat
ASSUME StallsAssumption == Stalls \in BOOLEAN

VARIABLES
    job,       \* table import_jobs
    stored,    \* objects in the object store
    handler,   \* a call of one of the routes
    day        \* today

vars == <<job, stored, handler, day>>

Handlers == Loops \union Threads
Objects  == [content : Contents, day : 0 .. LastDay]
Terminal == {"failed", "completed"}

JobRow ==
    [status : {"absent"}]
    \union
    [status    : {"queued"} \union Terminal,
     key       : Keys,
     content   : Contents,               \* content_sha256
     object    : Objects,                \* payload_object_key
     replayOf  : Jobs \union {NoJob}]

Request == [key : Keys, content : Contents, from : Jobs \union {NoJob}]

HandlerState ==
    [stage : {"idle"}]
    \union [stage : {"lookup", "put"}, request : Request]
    \union [stage : {"commit"}, request : Request, object : Objects]
    \union [stage : {"answered"}, request : Request, job : Jobs]

Idle == [stage |-> "idle"]

Init ==
    /\ job = [j \in Jobs |-> [status |-> "absent"]]
    /\ stored = {}
    /\ handler = [h \in Handlers |-> Idle]
    /\ day = 0

---------------------------------------------------------------------------
Exists(j) == job[j].status # "absent"

(* A handler takes another request once it has answered the last one.       *)
Ready(h) == handler[h].stage \in {"idle", "answered"}

Move(h, state) == handler' = [handler EXCEPT ![h] = state]

Lookup(h, r) == Move(h, [stage |-> "lookup", request |-> r])

Answer(h, r, j) == Move(h, [stage |-> "answered", request |-> r, job |-> j])

(* POST /integrations/...: the request body and its key.                    *)
Submit(h, k, c) ==
    /\ Ready(h)
    /\ Lookup(h, [key |-> k, content |-> c, from |-> NoJob])
    /\ UNCHANGED <<job, stored, day>>

(* POST /imports/{id}/retries: only a failed job whose payload is still in  *)
(* the object store; its payload is submitted again under the new key.      *)
BugMayReplayAny(o) == Exists(o)
MayReplay(o) == job[o].status = "failed"

BugPayloadIsObject(o) == job[o].object
Payload(o) == job[o].object.content

Replay(h, o, k) ==
    /\ Ready(h)
    /\ MayReplay(o)
    /\ job[o].object \in stored
    /\ Lookup(h, [key |-> k, content |-> Payload(o), from |-> o])
    /\ UNCHANGED <<job, stored, day>>

(* The job that already has the key answers a request with the same         *)
(* content; a request with another content is refused.                      *)
BugSameRequest(j, r) == job[j].key = r.key
SameRequest(j, r) == job[j].key = r.key /\ job[j].content = r.content

Free(k) == \A j \in Jobs : Exists(j) => job[j].key # k

BugRelink(h) ==
    LET r == handler[h].request
    IN  /\ handler[h].stage = "lookup"
        /\ \E j \in Jobs :
              /\ Exists(j) /\ SameRequest(j, r)
              /\ Answer(h, r, j)
              /\ job' = [job EXCEPT ![j].replayOf = r.from]
        /\ UNCHANGED <<stored, day>>

FindExisting(h) ==
    LET r == handler[h].request
    IN  /\ handler[h].stage = "lookup"
        /\ \E j \in Jobs : Exists(j) /\ SameRequest(j, r) /\ Answer(h, r, j)
        /\ UNCHANGED <<job, stored, day>>

FindNone(h) ==
    LET r == handler[h].request
    IN  /\ handler[h].stage = "lookup"
        /\ Free(r.key)
        /\ Move(h, [stage |-> "put", request |-> r])
        /\ UNCHANGED <<job, stored, day>>

(* The object is stored before the job commits.  The name holds the day of  *)
(* the put, so the same payload may be stored under several names.          *)
Put(h) ==
    LET o == [content |-> handler[h].request.content, day |-> day]
    IN  /\ handler[h].stage = "put"
        /\ stored' = stored \union {o}
        /\ Move(h, [stage |-> "commit", request |-> handler[h].request, object |-> o])
        /\ UNCHANGED <<job, day>>

(* The put or the check of its length fails: the object may be there or not *)
BugPutGoesOn(h) ==
    LET o == [content |-> handler[h].request.content, day |-> day]
    IN  /\ handler[h].stage = "put"
        /\ Move(h, [stage |-> "commit", request |-> handler[h].request, object |-> o])
        /\ UNCHANGED <<job, stored, day>>

PutFails(h) ==
    /\ handler[h].stage = "put"
    /\ stored' \in {stored,
                    stored \union {[content |-> handler[h].request.content, day |-> day]}}
    /\ Move(h, Idle)
    /\ UNCHANGED <<job, day>>

(* The unique key (supplier, source type, idempotency key) decides.         *)
Commit(h) ==
    LET q == handler[h]
    IN  /\ q.stage = "commit"
        /\ Free(q.request.key)
        /\ \E j \in Jobs :
              /\ ~Exists(j)
              /\ job' = [job EXCEPT ![j] =
                    [status |-> "queued", key |-> q.request.key,
                     content |-> q.request.content, object |-> q.object,
                     replayOf |-> q.request.from]]
              /\ Answer(h, q.request, j)
        /\ UNCHANGED <<stored, day>>

(* A refusal (other content, the loser of a race for the key, a failure) or *)
(* the death of the process: nothing is written after the object.           *)
Refuse(h) ==
    /\ ~Ready(h)
    /\ Move(h, Idle)
    /\ UNCHANGED <<job, stored, day>>

---------------------------------------------------------------------------
(* Workers settle a job (ImportJobs); a stalled one may settle it again.    *)
Settle(j, status) ==
    /\ Exists(j)
    /\ status # job[j].status
    /\ job[j].status = "queued" \/ Stalls
    /\ job' = [job EXCEPT ![j].status = status]
    /\ UNCHANGED <<stored, handler, day>>

NextDay ==
    /\ day < LastDay
    /\ day' = day + 1
    /\ UNCHANGED <<job, stored, handler>>

Next ==
    \/ \E h \in Loops, k \in Keys, c \in Contents : Submit(h, k, c)
    \/ \E h \in Threads, o \in Jobs, k \in Keys : Replay(h, o, k)
    \/ \E h \in Handlers :
          \/ FindExisting(h) \/ FindNone(h)
          \/ Put(h) \/ PutFails(h) \/ Commit(h) \/ Refuse(h)
    \/ \E j \in Jobs : \E status \in {"queued"} \union Terminal : Settle(j, status)
    \/ NextDay

Spec == Init /\ [][Next]_vars

---------------------------------------------------------------------------
(* The rows, handlers and objects keep their types.                         *)
TypeOK ==
    /\ job \in [Jobs -> JobRow]
    /\ stored \subseteq Objects
    /\ handler \in [Handlers -> HandlerState]
    /\ day \in 0 .. LastDay

(* An Idempotency-Key names one job and one content: whoever is answered,   *)
(* by a submission, a repetition or a replay, is answered with the same     *)
(* job, and that job carries the content that was sent.                     *)
Idempotent ==
    \A g, h \in Handlers :
        handler[g].stage = "answered" /\ handler[h].stage = "answered" =>
            LET r == handler[g].request
            IN  /\ job[handler[g].job].content = r.content
                /\ r.key = handler[h].request.key => handler[g].job = handler[h].job

(* A job never names an object that is not stored, or that has another      *)
(* content: the job commits only after the put has succeeded.               *)
StoredBeforeNamed ==
    \A j \in Jobs : Exists(j) =>
        job[j].object \in stored /\ job[j].object.content = job[j].content

(* A replay carries the content of the job it replays, and replays form     *)
(* chains that end in a submission: no job is, at any remove, its own       *)
(* replay, so no set of jobs consists of replays of its members only.       *)
ReplayChains ==
    /\ \A j \in Jobs : Exists(j) =>
          LET o == job[j].replayOf
          IN  o # NoJob => Exists(o) /\ job[o].content = job[j].content
    /\ \A S \in (SUBSET Jobs) \ {{}} :
          \E j \in S : Exists(j) => job[j].replayOf \notin S

(* Workers that keep to their leases never settle a replayed job again, so  *)
(* what was replayed, or is about to be, has failed for good and the same   *)
(* payload is not processed twice with success.                             *)
ReplayedStaysFailed ==
    /\ \A j \in Jobs : Exists(j) /\ job[j].replayOf # NoJob =>
          job[job[j].replayOf].status = "failed"
    /\ \A h \in Handlers : handler[h].stage # "idle" =>
          LET o == handler[h].request.from
          IN  o # NoJob => job[o].status = "failed"

(* What the senders of keys see of the jobs, the object store and their     *)
(* requests.  NoAnswer is a record that answers nothing.                    *)
NoAnswer == [job |-> NoJob]
Registration(j) ==
    [key |-> job[j].key, job |-> j, object |-> job[j].object, origin |-> job[j].replayOf]
AnswerOf(h) ==
    IF handler[h].stage = "answered"
    THEN [key     |-> handler[h].request.key,
          content |-> handler[h].request.content,
          job     |-> handler[h].job]
    ELSE NoAnswer

Registry == INSTANCE KeyRegistry WITH
    registrations <- {Registration(j) : j \in {i \in Jobs : Exists(i)}},
    objects       <- stored,
    answer        <- [h \in Handlers |-> AnswerOf(h)]

(* Through races, failing puts, refusals, deaths and replays, a key stays   *)
(* registered for the one job and the one stored payload it was given, and  *)
(* all answers to it name that job and have that payload.                   *)
ImplementsRegistry == Registry!Spec
=============================================================================
