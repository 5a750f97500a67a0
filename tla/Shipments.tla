----------------------------- MODULE Shipments -----------------------------
(***************************************************************************)
(* Shipments and their lifecycle events (application/services.py,          *)
(* domain/shipments.py and process_carrier_event).  A request handler      *)
(* reads the shipment, looks for a duplicate of the event, decides the     *)
(* next status from the row it read, and commits the row and the event     *)
(* together.  No row is locked and no version is compared, so a commit is  *)
(* decided on a row that other handlers may have changed since.            *)
(*                                                                         *)
(* Instants are only compared for equality: the time an event happened is  *)
(* named by the event itself.                                              *)
(***************************************************************************)
CONSTANTS
    Shipments,    \* shipments that may be booked
    SupplierOf,   \* [Shipments -> suppliers]
    ReferenceOf,  \* [Shipments -> tracking references]
    Events,       \* events that may be sent
    CarrierEvents,  \* those that the carrier sends; the others come by the API
    IdOf,         \* [Events -> external event identifiers]
    TypeOf,       \* [Events -> EventTypes]
    Handlers,     \* request handlers that run at the same time
    NoTime,       \* SQL NULL
    Booked        \* a shipped_at given when the shipment was created

EventTypes == {"picked_up", "in_transit", "delayed", "delivered", "cancelled"}

ASSUME EventsAssumption == TypeOf \in [Events -> EventTypes]
ASSUME CarrierAssumption == CarrierEvents \subseteq Events
ASSUME TimesAssumption == NoTime \notin Events \union {Booked} /\ Booked \notin Events

VARIABLES
    shipment,   \* table shipments
    recorded,   \* table shipment_events: the events of each shipment
    handler     \* a call of add_shipment_event, one per handler

vars == <<shipment, recorded, handler>>

Status == {"planned"} \union EventTypes

ShipmentRow ==
    [status      : {"absent"} \union Status,
     shippedAt   : Events \union {NoTime, Booked},
     deliveredAt : Events \union {NoTime}]

BookedRow == {row \in ShipmentRow : row.status # "absent"}

\* "read" holds the row as first read, "ready" has also decided the next status
HandlerState ==
    {[stage |-> "idle"]}
    \union [stage : {"read", "ready"}, s : Shipments, e : Events, row : BookedRow]

Init ==
    /\ shipment = [s \in Shipments |->
          [status |-> "absent", shippedAt |-> NoTime, deliveredAt |-> NoTime]]
    /\ recorded = [s \in Shipments |-> {}]
    /\ handler = [h \in Handlers |-> [stage |-> "idle"]]

---------------------------------------------------------------------------
(* The lifecycle.  An event that is valid leads to the status of its name.  *)

BugValidWhenClosed ==
    [planned    |-> {"picked_up", "delayed", "cancelled"},
     picked_up  |-> {"in_transit", "delayed", "delivered", "cancelled"},
     in_transit |-> {"delayed", "delivered", "cancelled"},
     delayed    |-> {"in_transit", "delivered", "cancelled"},
     delivered  |-> {"cancelled"},
     cancelled  |-> {}]

ValidEvents ==
    [planned    |-> {"picked_up", "delayed", "cancelled"},
     picked_up  |-> {"in_transit", "delayed", "delivered", "cancelled"},
     in_transit |-> {"delayed", "delivered", "cancelled"},
     delayed    |-> {"in_transit", "delivered", "cancelled"},
     delivered  |-> {},
     cancelled  |-> {}]

BugExists(s) == TRUE
Exists(s) == shipment[s].status # "absent"

BugNeverDuplicate(s, e) == FALSE
Duplicate(s, e) == \E d \in recorded[s] : IdOf[d] = IdOf[e]

(* The row an event leaves behind, computed from the row that was read.     *)
BugAlwaysShipped(row, e) ==
    [status      |-> TypeOf[e],
     shippedAt   |-> IF TypeOf[e] = "picked_up" THEN e ELSE row.shippedAt,
     deliveredAt |-> IF TypeOf[e] = "delivered" THEN e ELSE row.deliveredAt]

Apply(row, e) ==
    [status      |-> TypeOf[e],
     shippedAt   |-> IF TypeOf[e] = "picked_up" /\ row.shippedAt = NoTime
                     THEN e ELSE row.shippedAt,
     deliveredAt |-> IF TypeOf[e] = "delivered" THEN e ELSE row.deliveredAt]

(* UPDATE names the columns the handler changed; the others keep what the   *)
(* table holds now.                                                         *)
Update(current, old, new) ==
    [f \in DOMAIN current |-> IF new[f] # old[f] THEN new[f] ELSE current[f]]

---------------------------------------------------------------------------
(* A tracking reference is unique per supplier.                             *)
Create(s) ==
    /\ ~Exists(s)
    /\ \A t \in Shipments \ {s} :
          SupplierOf[t] = SupplierOf[s] /\ ReferenceOf[t] = ReferenceOf[s] => ~Exists(t)
    /\ \E at \in {NoTime, Booked} :
          shipment' = [shipment EXCEPT ![s] =
              [status |-> "planned", shippedAt |-> at, deliveredAt |-> NoTime]]
    /\ UNCHANGED <<recorded, handler>>

Read(h, s, e) ==
    /\ handler[h].stage = "idle"
    /\ Exists(s)
    /\ handler' = [handler EXCEPT ![h] =
          [stage |-> "read", s |-> s, e |-> e, row |-> shipment[s]]]
    /\ UNCHANGED <<shipment, recorded>>

(* POST /shipments/{id}/events.                                             *)
AddEvent(h, s, e) == e \notin CarrierEvents /\ Read(h, s, e)

(* The Carrier C webhook names a tracking reference; it is refused when no  *)
(* shipment, or shipments of several suppliers, have it.                    *)
BugCarrierEvent(h, s, e) ==
    /\ e \in CarrierEvents
    /\ \A t \in Shipments \ {s} :
          ReferenceOf[t] = ReferenceOf[s] /\ Exists(t) => recorded[s] # {}
    /\ Read(h, s, e)

CarrierEvent(h, s, e) ==
    /\ e \in CarrierEvents
    /\ \A t \in Shipments \ {s} : ReferenceOf[t] = ReferenceOf[s] => ~Exists(t)
    /\ Read(h, s, e)

(* The duplicate is looked for in a statement of its own, after the row was *)
(* read; the row itself is not read again.                                  *)
Accept(h) ==
    LET q == handler[h]
    IN  /\ q.stage = "read"
        /\ ~Duplicate(q.s, q.e)
        /\ TypeOf[q.e] \in ValidEvents[q.row.status]
        /\ handler' = [handler EXCEPT ![h].stage = "ready"]
        /\ UNCHANGED <<shipment, recorded>>

Refuse(h) ==
    LET q == handler[h]
    IN  /\ q.stage = "read"
        /\ Duplicate(q.s, q.e) \/ TypeOf[q.e] \notin ValidEvents[q.row.status]
        /\ handler' = [handler EXCEPT ![h] = [stage |-> "idle"]]
        /\ UNCHANGED <<shipment, recorded>>

BugCommitRowAlone(h) ==
    LET q == handler[h]
    IN  /\ q.stage = "ready"
        /\ shipment' = [shipment EXCEPT ![q.s] = Update(@, q.row, Apply(q.row, q.e))]
        /\ recorded' = [recorded EXCEPT ![q.s] =
              IF Duplicate(q.s, q.e) THEN @ ELSE @ \union {q.e}]
        /\ handler' = [handler EXCEPT ![h] = [stage |-> "idle"]]

(* The row and the event are written in one transaction.                    *)
Commit(h) ==
    LET q == handler[h]
    IN  /\ q.stage = "ready"
        /\ ~Duplicate(q.s, q.e)
        /\ shipment' = [shipment EXCEPT ![q.s] = Update(@, q.row, Apply(q.row, q.e))]
        /\ recorded' = [recorded EXCEPT ![q.s] = @ \union {q.e}]
        /\ handler' = [handler EXCEPT ![h] = [stage |-> "idle"]]

(* The unique key refuses the event and the row is rolled back with it; or  *)
(* the database fails; or the process dies.                                 *)
Rollback(h) ==
    /\ handler[h].stage # "idle"
    /\ handler' = [handler EXCEPT ![h] = [stage |-> "idle"]]
    /\ UNCHANGED <<shipment, recorded>>

Next ==
    \/ \E s \in Shipments : Create(s)
    \/ \E h \in Handlers :
          \/ \E s \in Shipments, e \in Events : AddEvent(h, s, e) \/ CarrierEvent(h, s, e)
          \/ Accept(h) \/ Refuse(h) \/ Commit(h) \/ Rollback(h)

Spec == Init /\ [][Next]_vars

---------------------------------------------------------------------------
(* Properties of concurrent handlers.                                       *)

(* Rows and handlers keep their types; a handler holds a booked shipment.   *)
TypeOK ==
    /\ shipment \in [Shipments -> ShipmentRow]
    /\ recorded \in [Shipments -> SUBSET Events]
    /\ handler \in [Handlers -> HandlerState]

(* A delivery that a partner repeats, at once or later, with the same or    *)
(* another content, is recorded once ("duplicate-safe webhooks").           *)
RecordedOnce ==
    \A s \in Shipments : \A d, e \in recorded[s] : IdOf[d] = IdOf[e] => d = e

(* The event history explains the shipment: the status is that of a         *)
(* recorded event, and delivered_at and shipped_at are the times of events  *)
(* that are recorded.  No handler leaves a status whose event was rolled    *)
(* back, or an event whose effect was lost from these columns.              *)
HistoryExplains ==
    \A s \in Shipments :
        LET row == shipment[s]
            of(type) == {e \in recorded[s] : TypeOf[e] = type}
        IN  /\ IF recorded[s] = {} THEN row.status \in {"absent", "planned"}
                                   ELSE row.status # "absent" /\ of(row.status) # {}
            /\ IF of("delivered") = {} THEN row.deliveredAt = NoTime
                                       ELSE row.deliveredAt \in of("delivered")
            /\ row.shippedAt \in of("picked_up") \union {NoTime, Booked}
            /\ of("picked_up") # {} => row.shippedAt # NoTime

(* The carrier's events that are recorded for a shipment, or that a handler  *)
(* has looked up for it and may yet record.                                 *)
Reaching(s) ==
    {e \in CarrierEvents :
        \/ e \in recorded[s]
        \/ \E h \in Handlers :
              handler[h].stage # "idle" /\ handler[h].s = s /\ handler[h].e = e}

Alone(s) ==
    /\ Exists(s)
    /\ \A t \in Shipments \ {s} : ReferenceOf[t] = ReferenceOf[s] => ~Exists(t)

(* A step that lets something new reach a shipment finds it alone.          *)
BeginsAlone ==
    \A s \in Shipments : Reaching(s)' \subseteq Reaching(s) \/ Alone(s)

(* What the carrier sends for a tracking reference begins to reach a shipment *)
(* only while no other has the reference.  So it reaches the one that was   *)
(* booked first and never another; and once a second supplier has booked    *)
(* the reference, new and repeated events are refused for both, but for     *)
(* those that a handler had looked up before.                               *)
CarrierFindsOne == [][BeginsAlone]_vars

Lifecycle == INSTANCE ShipmentLifecycle WITH
    status <- [s \in Shipments |-> shipment[s].status],
    history <- recorded

statuses == [s \in Shipments |-> shipment[s].status]

(* A commit whose status was decided on one the shipment no longer has.     *)
CommitDecidedLate(h) ==
    /\ handler[h].stage = "ready"
    /\ shipment[handler[h].s].status # handler[h].row.status
    /\ Commit(h)

(* A commit of a handler that holds an outdated row.                        *)
CommitOutdated(h) ==
    /\ handler[h].stage = "ready"
    /\ shipment[handler[h].s] # handler[h].row
    /\ Commit(h)

(* The instants that are known stay: shipped_at always, delivered_at while   *)
(* the shipment is delivered.                                               *)
InstantsKept ==
    \A s \in Shipments :
        /\ shipment[s].shippedAt # NoTime => shipment'[s].shippedAt = shipment[s].shippedAt
        /\ shipment[s].deliveredAt # NoTime /\ shipment[s].status = "delivered" =>
              shipment'[s].deliveredAt = shipment[s].deliveredAt

(* Nothing else ever departs from the lifecycle: however many handlers run,  *)
(* on however many shipments, every other step books a shipment, applies a  *)
(* valid event to it once, or changes neither status nor history.  And only *)
(* the commit of a handler whose row is outdated overwrites when a shipment *)
(* was shipped, or when it was delivered before it is reopened.             *)
OnlyLateDecisionsDepart ==
    [][/\ \/ Lifecycle!Next
          \/ UNCHANGED <<statuses, recorded>>
          \/ \E h \in Handlers : CommitDecidedLate(h)
       /\ InstantsKept \/ \E h \in Handlers : CommitOutdated(h)]_vars

(* A shipment changes only by an event that is valid in its current status. *)
OnlyValidChanges ==
    [][\A s \in Shipments :
          shipment[s].status \in Status /\ shipment'[s].status # shipment[s].status
            => shipment'[s].status \in ValidEvents[shipment[s].status]]_vars

---------------------------------------------------------------------------
(* Properties of handlers that run one at a time.                           *)

(* The instants a shipment was shipped and delivered are written once.      *)
TimesStable ==
    [][\A s \in Shipments :
          /\ shipment[s].shippedAt # NoTime => shipment'[s].shippedAt = shipment[s].shippedAt
          /\ shipment[s].deliveredAt # NoTime =>
                shipment'[s].deliveredAt = shipment[s].deliveredAt]_vars

(* One handler at a time implements the lifecycle of domain/shipments.py.   *)
ImplementsLifecycle == Lifecycle!Spec
=============================================================================
