-------------------------- MODULE SubmissionProofs --------------------------
(***************************************************************************)
(* Proofs about Submission, for any number of jobs, keys, payloads and     *)
(* handlers.  All but the last theorem hold whatever workers do.           *)
(***************************************************************************)
EXTENDS Submission, TLAPS

(* Job identifiers and keys determine each other, which is what the unique *)
(* constraint of the table is for.                                         *)
KeysUnique ==
    \A i, j \in Jobs : Exists(i) /\ Exists(j) /\ job[i].key = job[j].key => i = j

(* Who is answered has the key and the content of the job in the answer.   *)
AnsweredRight ==
    \A h \in Handlers : handler[h].stage = "answered" =>
        LET j == handler[h].job
        IN  Exists(j) /\ SameRequest(j, handler[h].request)

(* A handler about to commit holds an object that is stored.               *)
ObjectInHand ==
    \A h \in Handlers : handler[h].stage = "commit" =>
        /\ handler[h].object \in stored
        /\ handler[h].object.content = handler[h].request.content

(* A replay in progress has an origin with the content it carries.         *)
OriginKnown ==
    \A h \in Handlers : handler[h].stage # "idle" =>
        LET r == handler[h].request
        IN  r.from # NoJob => Exists(r.from) /\ job[r.from].content = r.content

HandlersRight == AnsweredRight /\ ObjectInHand /\ OriginKnown

IInv == TypeOK /\ KeysUnique /\ HandlersRight /\ StoredBeforeNamed /\ ReplayChains

---------------------------------------------------------------------------
(* What a handler in each stage holds.                                     *)
LEMMA Typed ==
    ASSUME TypeOK, NEW h \in Handlers
    PROVE  /\ handler[h].stage # "idle" => handler[h].request \in Request
           /\ handler[h].stage = "commit" => handler[h].object \in Objects
           /\ handler[h].stage = "answered" => handler[h].job \in Jobs
           /\ handler[h].stage \in {"idle", "lookup", "put", "commit", "answered"}
  BY DEF TypeOK, HandlerState

LEMMA RowTyped ==
    ASSUME TypeOK, NEW j \in Jobs, Exists(j)
    PROVE  job[j] \in [status : {"queued"} \union Terminal, key : Keys, content : Contents,
                       object : Objects, replayOf : Jobs \union {NoJob}]
  BY DEF TypeOK, JobRow, Exists

(* What a handler may hold next, given tables that stay as they are.       *)
Right(q) ==
    /\ q.stage = "answered" => Exists(q.job) /\ SameRequest(q.job, q.request)
    /\ q.stage = "commit" => q.object \in stored /\ q.object.content = q.request.content
    /\ q.stage # "idle" =>
          (q.request.from # NoJob =>
              Exists(q.request.from) /\ job[q.request.from].content = q.request.content)

LEMMA RightHandlers ==
    HandlersRight <=> \A h \in Handlers : Right(handler[h])
  BY DEF HandlersRight, AnsweredRight, ObjectInHand, OriginKnown, Right

(* A step of one handler that leaves the tables alone.                     *)
LEMMA HandlerStep ==
    ASSUME IInv, NEW h \in Handlers, NEW q \in HandlerState, Move(h, q), Right(q),
           UNCHANGED <<job, stored, day>>
    PROVE  IInv'
<1>1. TypeOK'
  BY DEF IInv, TypeOK, Move
<1>2. \A g \in Handlers : handler'[g] = IF g = h THEN q ELSE handler[g]
  BY DEF IInv, TypeOK, Move
<1>3. HandlersRight'
  BY <1>2, RightHandlers
     DEF IInv, HandlersRight, AnsweredRight, ObjectInHand, OriginKnown, Right, Exists, SameRequest
<1>4. (KeysUnique /\ StoredBeforeNamed /\ ReplayChains)'
  BY DEF IInv, KeysUnique, StoredBeforeNamed, ReplayChains, Exists
<1> QED
  BY <1>1, <1>3, <1>4 DEF IInv

(* Storing an object disturbs nothing.                                     *)
LEMMA Storing ==
    ASSUME IInv, NEW h \in Handlers, NEW q \in HandlerState, Move(h, q), Right(q)',
           UNCHANGED <<job, day>>, stored \subseteq stored', stored' \subseteq Objects
    PROVE  IInv'
<1>1. TypeOK'
  BY DEF IInv, TypeOK, Move
<1>2. \A g \in Handlers : handler'[g] = IF g = h THEN q ELSE handler[g]
  BY DEF IInv, TypeOK, Move
<1>3. HandlersRight'
  BY <1>2, RightHandlers
     DEF IInv, HandlersRight, AnsweredRight, ObjectInHand, OriginKnown, Right, Exists, SameRequest
<1>4. (KeysUnique /\ StoredBeforeNamed /\ ReplayChains)'
  BY DEF IInv, KeysUnique, StoredBeforeNamed, ReplayChains, Exists
<1> QED
  BY <1>1, <1>3, <1>4 DEF IInv

---------------------------------------------------------------------------
LEMMA InitHolds == Init => IInv
<1> SUFFICES ASSUME Init PROVE IInv
  OBVIOUS
<1>1. TypeOK
  BY DaysAssumption DEF Init, TypeOK, JobRow, HandlerState, Idle
<1>2. HandlersRight
  BY DEF Init, HandlersRight, AnsweredRight, ObjectInHand, OriginKnown, Idle
<1>3. \A j \in Jobs : ~Exists(j)
  BY DEF Init, Exists
<1>4. KeysUnique /\ StoredBeforeNamed
  BY <1>3 DEF KeysUnique, StoredBeforeNamed
<1>5. ReplayChains
  <2>1. ASSUME NEW S \in (SUBSET Jobs) \ {{}}
        PROVE  \E j \in S : ~Exists(j)
    BY <1>3
  <2> QED
    BY <1>3, <2>1 DEF ReplayChains
<1> QED
  BY <1>1, <1>2, <1>4, <1>5 DEF IInv

LEMMA SubmitStep ==
    ASSUME IInv, NEW h \in Handlers, NEW k \in Keys, NEW c \in Contents, Submit(h, k, c)
    PROVE  IInv'
<1> DEFINE r == [key |-> k, content |-> c, from |-> NoJob]
           q == [stage |-> "lookup", request |-> r]
<1>1. q \in HandlerState
  BY DEF HandlerState, Request
<1>2. Right(q)
  BY DEF Right
<1>3. Move(h, q) /\ UNCHANGED <<job, stored, day>>
  BY DEF Submit, Lookup
<1> HIDE DEF q, r
<1> QED
  BY <1>1, <1>2, <1>3, HandlerStep

LEMMA ReplayStep ==
    ASSUME IInv, NEW h \in Handlers, NEW o \in Jobs, NEW k \in Keys, Replay(h, o, k)
    PROVE  IInv'
<1> DEFINE r == [key |-> k, content |-> Payload(o), from |-> o]
           q == [stage |-> "lookup", request |-> r]
<1>1. Exists(o)
  BY DEF Replay, MayReplay, Exists
<1>2. Payload(o) = job[o].content /\ Payload(o) \in Contents
  BY <1>1, RowTyped DEF IInv, StoredBeforeNamed, Payload
<1>3. q \in HandlerState
  BY <1>2 DEF HandlerState, Request
<1>4. Right(q)
  BY <1>1, <1>2 DEF Right
<1>5. Move(h, q) /\ UNCHANGED <<job, stored, day>>
  BY DEF Replay, Lookup
<1> HIDE DEF q, r
<1> QED
  BY <1>3, <1>4, <1>5, HandlerStep

LEMMA FindExistingStep ==
    ASSUME IInv, NEW h \in Handlers, FindExisting(h)
    PROVE  IInv'
<1>1. PICK j \in Jobs : /\ Exists(j) /\ SameRequest(j, handler[h].request)
                        /\ Answer(h, handler[h].request, j)
  BY DEF FindExisting
<1> DEFINE q == [stage |-> "answered", request |-> handler[h].request, job |-> j]
<1>2. handler[h].stage = "lookup" /\ handler[h].request \in Request
  BY Typed DEF FindExisting, IInv
<1>3. q \in HandlerState
  BY <1>2 DEF HandlerState
<1>4. Right(q)
  BY <1>1, <1>2, RightHandlers DEF Right, IInv
<1>5. Move(h, q) /\ UNCHANGED <<job, stored, day>>
  BY <1>1 DEF FindExisting, Answer
<1> HIDE DEF q
<1> QED
  BY <1>3, <1>4, <1>5, HandlerStep

LEMMA FindNoneStep ==
    ASSUME IInv, NEW h \in Handlers, FindNone(h)
    PROVE  IInv'
<1> DEFINE q == [stage |-> "put", request |-> handler[h].request]
<1>2. handler[h].stage = "lookup" /\ handler[h].request \in Request
  BY Typed DEF FindNone, IInv
<1>3. q \in HandlerState
  BY <1>2 DEF HandlerState
<1>4. Right(q)
  BY <1>2, RightHandlers DEF Right, IInv
<1>5. Move(h, q) /\ UNCHANGED <<job, stored, day>>
  BY DEF FindNone
<1> HIDE DEF q
<1> QED
  BY <1>3, <1>4, <1>5, HandlerStep

LEMMA PutStep ==
    ASSUME IInv, NEW h \in Handlers, Put(h)
    PROVE  IInv'
<1>1. PICK r \in Request : r = handler[h].request
  BY Typed DEF Put, IInv
<1>2. PICK o \in Objects : o = [content |-> r.content, day |-> day]
  BY <1>1 DEF IInv, TypeOK, Objects, Request
<1>3. PICK q : q = [stage |-> "commit", request |-> r, object |-> o]
  OBVIOUS
<1>4. /\ q \in HandlerState
      /\ q.stage = "commit" /\ q.request = r /\ q.object = o /\ o.content = r.content
  BY <1>2, <1>3 DEF HandlerState
<1>5. /\ stored' = stored \union {o} /\ UNCHANGED <<job, day>>
      /\ Move(h, q) /\ handler[h].stage = "put"
  BY <1>1, <1>2, <1>3 DEF Put
<1>6. Right(handler[h])
  BY RightHandlers DEF IInv
<1>7. Right(q)'
  BY <1>1, <1>4, <1>5, <1>6 DEF Right, Exists
<1>8. stored \subseteq stored' /\ stored' \subseteq Objects
  BY <1>5 DEF IInv, TypeOK
<1> QED
  BY <1>4, <1>5, <1>7, <1>8, Storing

LEMMA DropStep ==
    ASSUME IInv, NEW h \in Handlers, PutFails(h) \/ Refuse(h)
    PROVE  IInv'
<1> DEFINE o == [content |-> handler[h].request.content, day |-> day]
<1>1. Idle \in HandlerState /\ Right(Idle)' /\ Idle.stage = "idle"
  BY DEF HandlerState, Idle, Right
<1>2. Move(h, Idle) /\ UNCHANGED <<job, day>>
  BY DEF PutFails, Refuse
<1>3. stored' = stored \/ (handler[h].stage = "put" /\ stored' = stored \union {o})
  BY DEF PutFails, Refuse
<1>4. handler[h].stage = "put" => o \in Objects
  BY Typed DEF IInv, TypeOK, Objects, Request
<1>5. stored \subseteq stored' /\ stored' \subseteq Objects
  BY <1>3, <1>4 DEF IInv, TypeOK
<1> QED
  BY <1>1, <1>2, <1>5, Storing

---------------------------------------------------------------------------
(* A committed job has a key of its own, a stored object, and an origin    *)
(* that exists; in a chain it comes after all jobs that existed before.    *)
LEMMA CommitStep ==
    ASSUME IInv, NEW h \in Handlers, Commit(h)
    PROVE  IInv'
<1>1. PICK r \in Request : r = handler[h].request
  BY Typed DEF Commit, IInv
<1>2. PICK o \in Objects : o = handler[h].object
  BY Typed DEF Commit, IInv
<1>3. PICK j \in Jobs :
          /\ ~Exists(j)
          /\ job' = [job EXCEPT ![j] =
                [status |-> "queued", key |-> r.key, content |-> r.content,
                 object |-> o, replayOf |-> r.from]]
          /\ Answer(h, r, j)
  BY <1>1, <1>2 DEF Commit
<1>4. PICK row : row = [status |-> "queued", key |-> r.key, content |-> r.content,
                        object |-> o, replayOf |-> r.from]
  OBVIOUS
<1>5. PICK q : q = [stage |-> "answered", request |-> r, job |-> j]
  OBVIOUS
<1>6. /\ handler[h].stage = "commit" /\ Free(r.key)
      /\ UNCHANGED <<stored, day>>
      /\ o \in stored /\ o.content = r.content
      /\ r.from # NoJob => Exists(r.from) /\ job[r.from].content = r.content
  BY <1>1, <1>2 DEF Commit, IInv, HandlersRight, ObjectInHand, OriginKnown
<1>7. /\ row \in JobRow
      /\ row.status = "queued" /\ row.key = r.key /\ row.content = r.content
      /\ row.object = o /\ row.replayOf = r.from
  BY <1>4 DEF JobRow, Request
<1>8. /\ q \in HandlerState
      /\ q.stage = "answered" /\ q.request = r /\ q.job = j
  BY <1>5 DEF HandlerState
<1>9. /\ job'[j] = row /\ \A i \in Jobs \ {j} : job'[i] = job[i]
      /\ handler'[h] = q /\ \A g \in Handlers \ {h} : handler'[g] = handler[g]
  BY <1>3, <1>4, <1>5 DEF IInv, TypeOK, Answer, Move
<1>10. /\ Exists(j)'
       /\ \A i \in Jobs : Exists(i) => i # j /\ Exists(i)' /\ job'[i] = job[i]
       /\ \A i \in Jobs \ {j} : Exists(i)' => Exists(i) /\ job'[i] = job[i]
  BY <1>3, <1>7, <1>9 DEF Exists
<1>11. TypeOK'
  BY <1>3, <1>4, <1>5, <1>6, <1>7, <1>8 DEF IInv, TypeOK, Answer, Move
<1>12. KeysUnique'
  <2>1. \A i \in Jobs : Exists(i) => job[i].key # r.key
    BY <1>6 DEF Free
  <2> QED
    BY <1>7, <1>9, <1>10, <2>1 DEF IInv, KeysUnique
<1>13. HandlersRight'
  <2>1. Right(q)'
    BY <1>3, <1>6, <1>7, <1>8, <1>9, <1>10, JobsAssumption DEF Right, SameRequest, Request
  <2>2. ASSUME NEW g \in Handlers \ {h}
        PROVE  Right(handler[g])'
    <3>1. Right(handler[g]) /\ handler'[g] = handler[g]
      BY <1>9, RightHandlers DEF IInv
    <3>2. /\ handler[g].stage = "answered" => handler[g].job \in Jobs
          /\ handler[g].stage # "idle" => handler[g].request \in Request
      BY Typed DEF IInv
    <3> QED
      BY <1>6, <1>10, <3>1, <3>2 DEF Right, SameRequest, Request
  <2> QED
    BY <1>9, <2>1, <2>2
       DEF HandlersRight, AnsweredRight, ObjectInHand, OriginKnown, Right
<1>14. StoredBeforeNamed'
  BY <1>6, <1>7, <1>9, <1>10 DEF IInv, StoredBeforeNamed
<1>15. ReplayChains'
  <2>1. ASSUME NEW i \in Jobs, Exists(i)'
        PROVE  job'[i].replayOf # NoJob =>
                  /\ job'[i].replayOf \in Jobs /\ Exists(job'[i].replayOf)
                  /\ job[job'[i].replayOf].content = job'[i].content
    <3>1. CASE i = j
      BY <1>6, <1>7, <1>9, <3>1 DEF Request
    <3>2. CASE i # j
      <4>1. Exists(i) /\ job'[i] = job[i]
        BY <1>10, <2>1, <3>2
      <4> QED
        BY <4>1, RowTyped DEF IInv, ReplayChains
    <3> QED
      BY <3>1, <3>2
  <2>2. ASSUME NEW i \in Jobs, Exists(i)', NEW origin \in Jobs \union {NoJob},
               origin = job'[i].replayOf, origin # NoJob
        PROVE  Exists(origin)' /\ job'[origin].content = job'[i].content
    <3>1. origin \in Jobs /\ Exists(origin) /\ job[origin].content = job'[i].content
      BY <2>1, <2>2
    <3> QED
      BY <1>10, <3>1
  <2>3. ASSUME NEW S \in (SUBSET Jobs) \ {{}}
        PROVE  \E i \in S : Exists(i)' => job'[i].replayOf \notin S
    <3>1. CASE S = {j}
      BY <1>3, <2>1, <3>1, JobsAssumption
    <3>2. CASE S # {j}
      <4>1. PICK i \in S \ {j} : Exists(i) => job[i].replayOf \notin S \ {j}
        <5>1. S \ {j} \in (SUBSET Jobs) \ {{}}
          BY <2>3, <3>2
        <5> QED
          BY <5>1 DEF IInv, ReplayChains
      <4>2. ASSUME Exists(i)' PROVE job'[i].replayOf \notin S
        <5>1. Exists(i) /\ job'[i] = job[i]
          BY <1>10, <2>3, <4>1, <4>2
        <5>2. job'[i].replayOf # j
          BY <1>3, <2>1, <2>3, <4>1, <4>2, JobsAssumption
        <5> QED
          BY <4>1, <5>1, <5>2
      <4> QED
        BY <4>1, <4>2
    <3> QED
      BY <3>1, <3>2
  <2>4. \A i \in Jobs : Exists(i)' => job'[i].replayOf \in Jobs \union {NoJob}
    BY <2>1
  <2> QED
    BY <2>2, <2>3, <2>4 DEF ReplayChains, Exists
<1> QED
  BY <1>11, <1>12, <1>13, <1>14, <1>15 DEF IInv

LEMMA SettleStep ==
    ASSUME IInv, NEW j \in Jobs, NEW status \in {"queued"} \union Terminal, Settle(j, status)
    PROVE  IInv'
<1>1. /\ Exists(j) /\ UNCHANGED <<stored, handler, day>>
      /\ job' = [job EXCEPT ![j].status = status]
  BY DEF Settle
<1>2. PICK row : row = [job[j] EXCEPT !.status = status]
  OBVIOUS
<1>3. /\ row \in JobRow /\ row.status = status
      /\ row.key = job[j].key /\ row.content = job[j].content
      /\ row.object = job[j].object /\ row.replayOf = job[j].replayOf
  BY <1>1, <1>2, RowTyped DEF IInv, JobRow
<1>4. job'[j] = row /\ \A i \in Jobs \ {j} : job'[i] = job[i]
  BY <1>1, <1>2 DEF IInv, TypeOK
<1>5. \A i \in Jobs : /\ Exists(i)' <=> Exists(i)
                      /\ job'[i].key = job[i].key /\ job'[i].content = job[i].content
                      /\ job'[i].object = job[i].object
                      /\ job'[i].replayOf = job[i].replayOf
  BY <1>1, <1>3, <1>4 DEF Exists, Terminal
<1>6. TypeOK'
  BY <1>1, <1>2, <1>3 DEF IInv, TypeOK
<1>7. (KeysUnique /\ StoredBeforeNamed)'
  BY <1>1, <1>5 DEF IInv, KeysUnique, StoredBeforeNamed
<1>8. HandlersRight'
  <2>1. ASSUME NEW g \in Handlers PROVE Right(handler[g])'
    <3>1. Right(handler[g])
      BY RightHandlers DEF IInv
    <3>2. /\ handler[g].stage = "answered" => handler[g].job \in Jobs
          /\ handler[g].stage # "idle" => handler[g].request \in Request
      BY Typed DEF IInv
    <3> QED
      BY <1>1, <1>5, <3>1, <3>2 DEF Right, SameRequest, Request
  <2> QED
    BY <2>1 DEF HandlersRight, AnsweredRight, ObjectInHand, OriginKnown, Right
<1>9. ReplayChains'
  <2>1. \A i \in Jobs : Exists(i) =>
           job[i].replayOf \in Jobs \union {NoJob}
    BY RowTyped DEF IInv
  <2> QED
    BY <1>5, <2>1 DEF IInv, ReplayChains
<1> QED
  BY <1>6, <1>7, <1>8, <1>9 DEF IInv

LEMMA DayStep ==
    ASSUME IInv, NextDay
    PROVE  IInv'
<1>1. TypeOK'
  BY DaysAssumption DEF IInv, TypeOK, NextDay
<1>2. UNCHANGED <<job, stored, handler>>
  BY DEF NextDay
<1>3. (KeysUnique /\ HandlersRight /\ StoredBeforeNamed /\ ReplayChains)'
  BY <1>2 DEF IInv, KeysUnique, HandlersRight, AnsweredRight, ObjectInHand, OriginKnown,
              StoredBeforeNamed, ReplayChains, Exists, SameRequest
<1> QED
  BY <1>1, <1>3 DEF IInv

LEMMA StutterStep ==
    ASSUME IInv, UNCHANGED vars
    PROVE  IInv'
  BY DEF vars, IInv, TypeOK, KeysUnique, HandlersRight, AnsweredRight, ObjectInHand,
         OriginKnown, StoredBeforeNamed, ReplayChains, Exists, SameRequest

LEMMA StepKeeps ==
    ASSUME IInv, [Next]_vars
    PROVE  IInv'
<1>1. ASSUME NEW h \in Loops, NEW k \in Keys, NEW c \in Contents, Submit(h, k, c)
      PROVE  IInv'
  BY <1>1, SubmitStep DEF Handlers
<1>2. ASSUME NEW h \in Threads, NEW o \in Jobs, NEW k \in Keys, Replay(h, o, k)
      PROVE  IInv'
  BY <1>2, ReplayStep DEF Handlers
<1>3. ASSUME NEW h \in Handlers,
             \/ FindExisting(h) \/ FindNone(h)
             \/ Put(h) \/ PutFails(h) \/ Commit(h) \/ Refuse(h)
      PROVE  IInv'
  BY <1>3, FindExistingStep, FindNoneStep, PutStep, DropStep, CommitStep
<1>4. ASSUME NEW j \in Jobs, NEW status \in {"queued"} \union Terminal, Settle(j, status)
      PROVE  IInv'
  BY <1>4, SettleStep
<1>5. CASE NextDay
  BY <1>5, DayStep
<1>6. CASE UNCHANGED vars
  BY <1>6, StutterStep
<1> QED
  BY <1>1, <1>2, <1>3, <1>4, <1>5, <1>6 DEF Next

(* The invariant holds in every reachable state.                           *)
THEOREM Invariance == Spec => []IInv
<1>1. Init => IInv
  BY InitHolds
<1>2. IInv /\ [Next]_vars => IInv'
  BY StepKeeps
<1> QED
  BY <1>1, <1>2, PTL DEF Spec

(* Rows, handlers and objects keep their types.                            *)
THEOREM TypeCorrect == Spec => []TypeOK
<1>1. IInv => TypeOK
  BY DEF IInv
<1> QED
  BY <1>1, Invariance, PTL

(* Whoever is answered for a key is answered with the same job, and that   *)
(* job has the content of the request.                                     *)
THEOREM KeysNameOneJob == Spec => []Idempotent
<1>1. IInv => Idempotent
  <2> SUFFICES ASSUME IInv PROVE Idempotent
    OBVIOUS
  <2>1. ASSUME NEW h \in Handlers, handler[h].stage = "answered"
        PROVE  handler[h].job \in Jobs
    BY <2>1, Typed DEF IInv
  <2> QED
    BY <2>1 DEF IInv, HandlersRight, AnsweredRight, KeysUnique, SameRequest, Idempotent
<1> QED
  BY <1>1, Invariance, PTL

(* A job names a stored object with its content.                           *)
THEOREM NamedIsStored == Spec => []StoredBeforeNamed
<1>1. IInv => StoredBeforeNamed
  BY DEF IInv
<1> QED
  BY <1>1, Invariance, PTL

(* Replays carry the content of their origins and form no cycle.           *)
THEOREM ChainsEnd == Spec => []ReplayChains
<1>1. IInv => ReplayChains
  BY DEF IInv
<1> QED
  BY <1>1, Invariance, PTL

---------------------------------------------------------------------------
(* A failed job stays failed as long as workers keep to their leases.      *)
LEMMA FailedStays ==
    ASSUME IInv, Stalls = FALSE, [Next]_vars, NEW j \in Jobs, job[j].status = "failed"
    PROVE  job'[j].status = "failed"
<1>1. ASSUME NEW h \in Handlers, Commit(h) PROVE job'[j].status = "failed"
  BY <1>1 DEF Commit, Exists, IInv, TypeOK
<1>2. ASSUME NEW i \in Jobs, NEW status \in {"queued"} \union Terminal, Settle(i, status)
      PROVE  job'[j].status = "failed"
  BY <1>2 DEF Settle, IInv, TypeOK
<1>3. CASE UNCHANGED job
  BY <1>3
<1> QED
  BY <1>1, <1>2, <1>3
     DEF Next, vars, Submit, Replay, FindExisting, FindNone, Put, PutFails, Refuse, NextDay

(* A handler keeps its request, or takes one whose origin has failed.      *)
LEMMA RequestsKept ==
    ASSUME IInv, [Next]_vars, NEW h \in Handlers, handler'[h].stage # "idle"
    PROVE  \/ handler[h].stage # "idle" /\ handler'[h].request = handler[h].request
           \/ handler'[h].request.from = NoJob
           \/ \E o \in Jobs : handler'[h].request.from = o /\ job[o].status = "failed"
<1> DEFINE Goal == \/ handler[h].stage # "idle" /\ handler'[h].request = handler[h].request
                   \/ handler'[h].request.from = NoJob
                   \/ \E o \in Jobs :
                         handler'[h].request.from = o /\ job[o].status = "failed"
<1>1. ASSUME NEW g \in Loops, NEW k \in Keys, NEW c \in Contents, Submit(g, k, c)
      PROVE  Goal
  BY <1>1 DEF Submit, Lookup, Move, IInv, TypeOK
<1>2. ASSUME NEW g \in Threads, NEW o \in Jobs, NEW k \in Keys, Replay(g, o, k)
      PROVE  Goal
  BY <1>2 DEF Replay, MayReplay, Lookup, Move, IInv, TypeOK
<1>3. ASSUME NEW g \in Handlers,
             FindExisting(g) \/ FindNone(g) \/ Put(g) \/ PutFails(g) \/ Commit(g) \/ Refuse(g)
      PROVE  Goal
  BY <1>3 DEF FindExisting, FindNone, Put, PutFails, Commit, Refuse, Answer, Move, Idle,
              IInv, TypeOK
<1>4. CASE UNCHANGED handler
  BY <1>4
<1> QED
  BY <1>1, <1>2, <1>3, <1>4 DEF Next, Settle, NextDay, vars

(* A row keeps its origin, or takes the one of the handler that commits it *)
LEMMA OriginsKept ==
    ASSUME IInv, [Next]_vars, NEW j \in Jobs, Exists(j)'
    PROVE  \/ Exists(j) /\ job'[j].replayOf = job[j].replayOf
           \/ \E h \in Handlers : /\ handler[h].stage # "idle"
                                  /\ job'[j].replayOf = handler[h].request.from
<1> DEFINE Goal == \/ Exists(j) /\ job'[j].replayOf = job[j].replayOf
                   \/ \E h \in Handlers : /\ handler[h].stage # "idle"
                                          /\ job'[j].replayOf = handler[h].request.from
<1>1. ASSUME NEW h \in Handlers, Commit(h) PROVE Goal
  BY <1>1 DEF Commit, Exists, IInv, TypeOK
<1>2. ASSUME NEW i \in Jobs, NEW status \in {"queued"} \union Terminal, Settle(i, status)
      PROVE  Goal
  BY <1>2 DEF Settle, Exists, IInv, TypeOK
<1>3. CASE UNCHANGED job
  BY <1>3 DEF Exists
<1> QED
  BY <1>1, <1>2, <1>3
     DEF Next, vars, Submit, Replay, FindExisting, FindNone, Put, PutFails, Refuse, NextDay

LEMMA ReplayedStep ==
    ASSUME IInv, IInv', Stalls = FALSE, ReplayedStaysFailed, [Next]_vars
    PROVE  ReplayedStaysFailed'
<1>1. \A j \in Jobs : Exists(j) => job[j].replayOf \in Jobs \union {NoJob}
  BY RowTyped DEF IInv
<1>2. \A h \in Handlers : handler[h].stage # "idle" =>
         handler[h].request.from \in Jobs \union {NoJob}
  BY Typed DEF IInv, Request
<1>3. ASSUME NEW h \in Handlers, handler'[h].stage # "idle",
             handler'[h].request.from # NoJob
      PROVE  job'[handler'[h].request.from].status = "failed"
  BY <1>2, <1>3, RequestsKept, FailedStays DEF ReplayedStaysFailed
<1>4. ASSUME NEW j \in Jobs, Exists(j)', job'[j].replayOf # NoJob
      PROVE  job'[job'[j].replayOf].status = "failed"
  BY <1>1, <1>2, <1>4, OriginsKept, FailedStays DEF ReplayedStaysFailed
<1> QED
  BY <1>3, <1>4 DEF ReplayedStaysFailed

(* With workers that keep to their leases, a job that was replayed stays   *)
(* failed: it can never complete beside its replay.                        *)
THEOREM OriginsStayFailed ==
  ASSUME Stalls = FALSE
  PROVE  Spec => []ReplayedStaysFailed
<1>1. Init => ReplayedStaysFailed
  BY DEF Init, ReplayedStaysFailed, Exists, Idle
<1>2. IInv /\ IInv' /\ ReplayedStaysFailed /\ [Next]_vars => ReplayedStaysFailed'
  BY ReplayedStep
<1>3. Spec => []IInv
  BY Invariance
<1> QED
  BY <1>1, <1>2, <1>3, PTL DEF Spec

---------------------------------------------------------------------------
(* The registry of keys: what each step is for those who send keys.        *)
Registrations == {Registration(j) : j \in {i \in Jobs : Exists(i)}}
Answers == [h \in Handlers |-> AnswerOf(h)]

(* Rows that keep all but their status leave the registrations alone.      *)
LEMMA SameRegistrations ==
    ASSUME \A i \in Jobs : /\ Exists(i)' <=> Exists(i)
                           /\ Exists(i) => Registration(i)' = Registration(i)
    PROVE  Registrations' = Registrations
  BY DEF Registrations

(* A handler that moves changes its own answer only.                       *)
LEMMA OneAnswer ==
    ASSUME IInv, NEW h \in Handlers, NEW q, Move(h, q)
    PROVE  /\ Answers' = [Answers EXCEPT ![h] = AnswerOf(h)']
           /\ AnswerOf(h)' = IF q.stage = "answered"
                             THEN [key     |-> q.request.key,
                                   content |-> q.request.content,
                                   job     |-> q.job]
                             ELSE NoAnswer
<1>1. handler'[h] = q /\ \A g \in Handlers \ {h} : handler'[g] = handler[g]
  BY DEF IInv, TypeOK, Move
<1>2. \A g \in Handlers \ {h} : AnswerOf(g)' = AnswerOf(g)
  BY <1>1 DEF AnswerOf, NoAnswer
<1> QED
  BY <1>1, <1>2 DEF Answers, AnswerOf, NoAnswer

(* A handler that holds no answer after a step has forgotten the one it    *)
(* had.                                                                    *)
LEMMA Forgets ==
    ASSUME IInv, NEW h \in Handlers, NEW q, Move(h, q), q.stage # "answered",
           UNCHANGED <<job, stored>>
    PROVE  Registry!Forget(h)
<1>1. Answers' = [Answers EXCEPT ![h] = NoAnswer]
  BY OneAnswer
<1>2. Registrations' = Registrations
  BY SameRegistrations DEF Exists, Registration
<1> QED
  BY <1>1, <1>2 DEF Registry!Forget, Answers, Registrations

(* A handler that had none stores a payload and nothing else changes.      *)
LEMMA Stores ==
    ASSUME IInv, NEW h \in Handlers, NEW q, Move(h, q), q.stage # "answered",
           handler[h].stage # "answered", UNCHANGED job,
           NEW o, stored' = stored \union {o}
    PROVE  Registry!Store(o)
<1>1. Answers' = Answers
  <2>1. AnswerOf(h)' = AnswerOf(h)
    BY OneAnswer DEF AnswerOf
  <2> QED
    BY <2>1, OneAnswer DEF Answers
<1>2. Registrations' = Registrations
  BY SameRegistrations DEF Exists, Registration
<1> QED
  BY <1>1, <1>2 DEF Registry!Store, Answers, Registrations

(* The answer to a repetition is the registration of the job it found: by  *)
(* StoredBeforeNamed the content of that is the content of the request.    *)
LEMMA Repeats ==
    ASSUME IInv, NEW h \in Handlers, FindExisting(h)
    PROVE  \E r \in Registrations : Registry!Repeat(h, r)
<1>1. PICK j \in Jobs : /\ Exists(j) /\ SameRequest(j, handler[h].request)
                        /\ Answer(h, handler[h].request, j)
  BY DEF FindExisting
<1>2. PICK q : q = [stage |-> "answered", request |-> handler[h].request, job |-> j]
  OBVIOUS
<1>3. /\ Move(h, q) /\ UNCHANGED <<job, stored>>
      /\ q.stage = "answered" /\ q.request = handler[h].request /\ q.job = j
  BY <1>1, <1>2 DEF Answer, FindExisting
<1>4. PICK r : r = Registration(j)
  OBVIOUS
<1>5. /\ r \in Registrations
      /\ r.key = q.request.key /\ r.object.content = q.request.content /\ r.job = j
  BY <1>1, <1>3, <1>4
     DEF Registrations, Registration, SameRequest, IInv, StoredBeforeNamed
<1>6. Answers' = [Answers EXCEPT
          ![h] = [key |-> r.key, content |-> r.object.content, job |-> r.job]]
  BY <1>3, <1>5, OneAnswer
<1>7. Registrations' = Registrations
  BY <1>3, SameRegistrations DEF Exists, Registration
<1>8. Registry!Repeat(h, r)
  BY <1>3, <1>6, <1>7 DEF Registry!Repeat, Registry!Tell, Answers, Registrations
<1> QED
  BY <1>5, <1>8

(* The commit of a job registers its key, which no job had.                *)
LEMMA Registers ==
    ASSUME IInv, NEW h \in Handlers, Commit(h)
    PROVE  \E k \in Keys, j \in Jobs, o \in Objects, origin \in Jobs \union {NoJob} :
              Registry!Register(h, k, j, o, origin)
<1>1. PICK r \in Request : r = handler[h].request
  BY Typed DEF Commit, IInv
<1>2. PICK o \in Objects : o = handler[h].object
  BY Typed DEF Commit, IInv
<1>3. PICK j \in Jobs :
          /\ ~Exists(j)
          /\ job' = [job EXCEPT ![j] =
                [status |-> "queued", key |-> r.key, content |-> r.content,
                 object |-> o, replayOf |-> r.from]]
          /\ Answer(h, r, j)
  BY <1>1, <1>2 DEF Commit
<1>4. PICK q : q = [stage |-> "answered", request |-> r, job |-> j]
  OBVIOUS
<1>5. PICK new : new = [key |-> r.key, job |-> j, object |-> o, origin |-> r.from]
  OBVIOUS
<1>6. /\ Free(r.key) /\ UNCHANGED stored /\ Move(h, q)
      /\ q.stage = "answered" /\ q.request = r /\ q.job = j
      /\ o \in stored /\ o.content = r.content
      /\ r.from # NoJob => Exists(r.from) /\ job[r.from].content = r.content
  BY <1>1, <1>2, <1>3, <1>4 DEF Commit, Answer, IInv, HandlersRight, ObjectInHand, OriginKnown
<1>7. /\ new.key = r.key /\ new.job = j /\ new.object = o /\ new.origin = r.from
      /\ r.key \in Keys /\ r.from \in Jobs \union {NoJob}
  BY <1>1, <1>5 DEF Request
<1>8. Registrations' = Registrations \union {new}
  <2>1. Exists(j)' /\ Registration(j)' = new
    BY <1>3, <1>5 DEF Exists, Registration, IInv, TypeOK
  <2>2. ASSUME NEW i \in Jobs \ {j}
        PROVE  (Exists(i)' <=> Exists(i)) /\ Registration(i)' = Registration(i)
    BY <1>3 DEF Exists, Registration, IInv, TypeOK
  <2>3. ~Exists(j)
    BY <1>3
  <2> QED
    BY <2>1, <2>2, <2>3 DEF Registrations
<1>9. \A s \in Registrations : s.key # r.key /\ s.job # j
  BY <1>3, <1>6 DEF Registrations, Registration, Free
<1>10. r.from = NoJob
          \/ \E s \in Registrations : s.job = r.from /\ s.object.content = o.content
  <2>1. ASSUME r.from # NoJob
        PROVE  \E s \in Registrations : s.job = r.from /\ s.object.content = o.content
    <3>1. r.from \in Jobs /\ Exists(r.from)
      BY <1>6, <1>7, <2>1
    <3>2. Registration(r.from) \in Registrations
      BY <3>1 DEF Registrations
    <3>3. job[r.from].object.content = o.content
      BY <1>6, <2>1, <3>1 DEF IInv, StoredBeforeNamed
    <3> QED
      BY <3>2, <3>3 DEF Registration
  <2> QED
    BY <2>1
<1>11. Answers' = [Answers EXCEPT
          ![h] = [key |-> new.key, content |-> new.object.content, job |-> new.job]]
  BY <1>6, <1>7, OneAnswer
<1>12. Registry!Register(h, r.key, j, o, r.from)
  BY <1>5, <1>6, <1>8, <1>9, <1>10, <1>11
     DEF Registry!Register, Registry!Fresh, Registry!KnownOrigin, Registry!Tell,
         Answers, Registrations
<1> QED
  BY <1>7, <1>12

LEMMA PutStores ==
    ASSUME IInv, NEW h \in Handlers, Put(h)
    PROVE  \E o \in Objects : Registry!Store(o)
<1>1. PICK r \in Request : r = handler[h].request
  BY Typed DEF Put, IInv
<1>2. PICK o \in Objects : o = [content |-> r.content, day |-> day]
  BY DEF IInv, TypeOK, Objects, Request
<1>3. PICK q : q = [stage |-> "commit", request |-> r, object |-> o]
  OBVIOUS
<1>4. /\ stored' = stored \union {o} /\ UNCHANGED job
      /\ Move(h, q) /\ handler[h].stage = "put" /\ q.stage = "commit"
  BY <1>1, <1>2, <1>3 DEF Put
<1> QED
  BY <1>2, <1>4, Stores

LEMMA PutFailsStores ==
    ASSUME IInv, NEW h \in Handlers, PutFails(h)
    PROVE  Registry!Forget(h) \/ \E o \in Objects : Registry!Store(o)
<1>1. PICK r \in Request : r = handler[h].request
  BY Typed DEF PutFails, IInv
<1>2. PICK o \in Objects : o = [content |-> r.content, day |-> day]
  BY DEF IInv, TypeOK, Objects, Request
<1>3. /\ stored' = stored \/ stored' = stored \union {o}
      /\ Move(h, Idle) /\ UNCHANGED job /\ handler[h].stage = "put"
      /\ Idle.stage = "idle"
  BY <1>1, <1>2 DEF PutFails, Idle
<1>4. CASE stored' = stored
  BY <1>3, <1>4, Forgets
<1>5. CASE stored' = stored \union {o}
  <2>1. Registry!Store(o)
    BY <1>3, <1>5, Stores
  <2> QED
    BY <1>2, <2>1
<1> QED
  BY <1>3, <1>4, <1>5

(* A handler that takes a request, finds its key free, or ends.            *)
LEMMA Lets ==
    ASSUME IInv, NEW h \in Handlers,
           \/ \E k \in Keys, c \in Contents : Submit(h, k, c)
           \/ \E o \in Jobs, k \in Keys : Replay(h, o, k)
           \/ FindNone(h) \/ Refuse(h)
    PROVE  Registry!Forget(h)
<1>1. ASSUME NEW k \in Keys, NEW c \in Contents, Submit(h, k, c)
      PROVE  Registry!Forget(h)
  <2>1. PICK q : q = [stage   |-> "lookup",
                      request |-> [key |-> k, content |-> c, from |-> NoJob]]
    OBVIOUS
  <2>2. q.stage = "lookup"
    BY <2>1
  <2> QED
    BY <1>1, <2>1, <2>2, Forgets DEF Submit, Lookup
<1>2. ASSUME NEW o \in Jobs, NEW k \in Keys, Replay(h, o, k)
      PROVE  Registry!Forget(h)
  <2>1. PICK q : q = [stage   |-> "lookup",
                      request |-> [key |-> k, content |-> Payload(o), from |-> o]]
    OBVIOUS
  <2>2. q.stage = "lookup"
    BY <2>1
  <2> QED
    BY <1>2, <2>1, <2>2, Forgets DEF Replay, Lookup
<1>3. CASE FindNone(h)
  <2>1. PICK q : q = [stage |-> "put", request |-> handler[h].request]
    OBVIOUS
  <2>2. q.stage = "put"
    BY <2>1
  <2> QED
    BY <1>3, <2>1, <2>2, Forgets DEF FindNone
<1>4. CASE Refuse(h)
  BY <1>4, Forgets DEF Refuse, Idle
<1> QED
  BY <1>1, <1>2, <1>3, <1>4

(* A settled job keeps its registration, and the day is in none.           *)
LEMMA Unseen ==
    ASSUME IInv,
           \/ \E j \in Jobs : \E status \in {"queued"} \union Terminal : Settle(j, status)
           \/ NextDay
           \/ UNCHANGED vars
    PROVE  UNCHANGED Registry!vars
<1>1. ASSUME NEW j \in Jobs, NEW status \in {"queued"} \union Terminal, Settle(j, status)
      PROVE  Registrations' = Registrations /\ UNCHANGED <<stored, handler>>
  <2>1. \A i \in Jobs : /\ Exists(i)' <=> Exists(i)
                        /\ Exists(i) => Registration(i)' = Registration(i)
    <3>1. ASSUME NEW i \in Jobs \ {j} PROVE job'[i] = job[i]
      BY <1>1 DEF Settle, IInv, TypeOK
    <3>2. PICK row : row = [job[j] EXCEPT !.status = status]
      OBVIOUS
    <3>3. Exists(j) /\ job'[j] = row
      BY <1>1, <3>2 DEF Settle, IInv, TypeOK
    <3>4. /\ row.status = status /\ row.key = job[j].key
          /\ row.object = job[j].object /\ row.replayOf = job[j].replayOf
      BY <3>2, <3>3, RowTyped DEF IInv
    <3> QED
      BY <3>1, <3>3, <3>4 DEF Exists, Registration, Terminal
  <2> QED
    BY <1>1, <2>1, SameRegistrations DEF Settle
<1>2. Registrations' = Registrations /\ UNCHANGED <<stored, handler>>
  BY <1>1, SameRegistrations DEF Exists, Registration, NextDay, vars
<1>3. Answers' = Answers
  BY <1>2 DEF Answers, AnswerOf
<1> QED
  BY <1>2, <1>3 DEF Registry!vars, Registrations, Answers

LEMMA RegistryStep ==
    ASSUME IInv, [Next]_vars
    PROVE  Registry!Next \/ UNCHANGED Registry!vars
<1>1. ASSUME NEW h \in Loops, NEW k \in Keys, NEW c \in Contents, Submit(h, k, c)
      PROVE  \E g \in Handlers : Registry!Forget(g)
  <2>1. h \in Handlers
    BY DEF Handlers
  <2> QED
    BY <1>1, <2>1, Lets
<1>2. ASSUME NEW h \in Threads, NEW o \in Jobs, NEW k \in Keys, Replay(h, o, k)
      PROVE  \E g \in Handlers : Registry!Forget(g)
  <2>1. h \in Handlers
    BY DEF Handlers
  <2> QED
    BY <1>2, <2>1, Lets
<1>3. ASSUME NEW h \in Handlers, FindNone(h) \/ Refuse(h)
      PROVE  \E g \in Handlers : Registry!Forget(g)
  BY <1>3, Lets
<1>4. ASSUME NEW h \in Handlers, Put(h) \/ PutFails(h)
      PROVE  Registry!Next
  BY <1>4, PutStores, PutFailsStores DEF Registry!Next
<1>5. ASSUME NEW h \in Handlers, FindExisting(h)
      PROVE  Registry!Next
  BY <1>5, Repeats DEF Registry!Next, Registrations
<1>6. ASSUME NEW h \in Handlers, Commit(h)
      PROVE  Registry!Next
  BY <1>6, Registers DEF Registry!Next
<1>7. (\E g \in Handlers : Registry!Forget(g)) => Registry!Next
  BY DEF Registry!Next
<1> QED
  BY <1>1, <1>2, <1>3, <1>4, <1>5, <1>6, <1>7, Unseen DEF Next

LEMMA RegistryInit ==
    ASSUME Init
    PROVE  Registry!Init
<1>1. Registrations = {}
  BY DEF Init, Registrations, Exists
<1>2. Answers = [h \in Handlers |-> NoAnswer]
  BY DEF Init, Answers, AnswerOf, Idle
<1> QED
  BY <1>1, <1>2 DEF Registry!Init, Init, Registrations, Answers

(* Through races, failing puts, refusals, deaths and replays, a key stays  *)
(* registered for one job and one stored payload, and all answers to it    *)
(* are that registration: Submission implements KeyRegistry.               *)
THEOREM RegistryRefinement == Spec => ImplementsRegistry
<1>1. Init => Registry!Init
  BY RegistryInit
<1>2. IInv /\ [Next]_vars => [Registry!Next]_(Registry!vars)
  BY RegistryStep
<1> QED
  BY <1>1, <1>2, Invariance, PTL DEF Spec, ImplementsRegistry, Registry!Spec
=============================================================================
