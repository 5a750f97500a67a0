----------------------------- MODULE KeyRegistry -----------------------------
(***************************************************************************)
(* What an Idempotency-Key promises whoever sends it: a key is registered   *)
(* once, for one job and one payload that is stored by then; nothing of a   *)
(* registration ever changes; and every answer, the first and those to      *)
(* repetitions, is a registration that has the key and the payload of the   *)
(* request.  No lookup, put, race or refusal is visible here.               *)
(***************************************************************************)
CONSTANTS
    Jobs, NoJob, Keys,
    Objects,        \* names of stored payloads, each of a content
    Handlers,       \* whom answers are given to
    NoAnswer

VARIABLES
    registrations,  \* each with a key, a job, an object and an origin
    objects,        \* payloads that are stored
    answer          \* the registration that answered each request in progress

vars == <<registrations, objects, answer>>

Init ==
    /\ registrations = {}
    /\ objects = {}
    /\ answer = [h \in Handlers |-> NoAnswer]

(* An answer tells the job, and is for a key and a content.                 *)
Tell(h, r) ==
    answer' = [answer EXCEPT
        ![h] = [key |-> r.key, content |-> r.object.content, job |-> r.job]]

Fresh(k, j) == \A r \in registrations : r.key # k /\ r.job # j

(* What a replay repeats is registered, with the same content.              *)
KnownOrigin(origin, o) ==
    origin = NoJob
        \/ \E r \in registrations : r.job = origin /\ r.object.content = o.content

Store(o) ==
    /\ objects' = objects \union {o}
    /\ UNCHANGED <<registrations, answer>>

Register(h, k, j, o, origin) ==
    LET r == [key |-> k, job |-> j, object |-> o, origin |-> origin]
    IN  /\ o \in objects
        /\ Fresh(k, j)
        /\ KnownOrigin(origin, o)
        /\ registrations' = registrations \union {r}
        /\ Tell(h, r)
        /\ UNCHANGED objects

Repeat(h, r) ==
    /\ Tell(h, r)
    /\ UNCHANGED <<registrations, objects>>

(* The client is gone, or sends its next request.                           *)
Forget(h) ==
    /\ answer' = [answer EXCEPT ![h] = NoAnswer]
    /\ UNCHANGED <<registrations, objects>>

Next ==
    \/ \E o \in Objects : Store(o)
    \/ \E h \in Handlers :
          \/ \E k \in Keys, j \in Jobs, o \in Objects, origin \in Jobs \union {NoJob} :
                Register(h, k, j, o, origin)
          \/ \E r \in registrations : Repeat(h, r)
          \/ Forget(h)

Spec == Init /\ [][Next]_vars
=============================================================================
