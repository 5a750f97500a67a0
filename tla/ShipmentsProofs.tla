-------------------------- MODULE ShipmentsProofs --------------------------
(***************************************************************************)
(* Proofs about Shipments, for any number of shipments, events and         *)
(* handlers.  The first part holds of concurrent handlers; the second      *)
(* assumes that they run one at a time.                                    *)
(***************************************************************************)
EXTENDS Shipments, TLAPS

(* What the concurrent properties need besides themselves: the row a        *)
(* handler read is of a booked shipment, its instants are no newer than     *)
(* the table's, and a ready handler changes the status.                     *)
RowIsOlder ==
    \A h \in Handlers :
        LET q == handler[h]
        IN  q.stage # "idle" =>
              /\ shipment[q.s].status # "absent"
              /\ q.row.shippedAt # NoTime => shipment[q.s].shippedAt # NoTime
              /\ q.row.deliveredAt # NoTime => shipment[q.s].deliveredAt # NoTime
              /\ q.stage = "ready" => TypeOf[q.e] \in ValidEvents[q.row.status]

(* A shipment that is not booked has no shipped_at.                         *)
UnbookedIsBlank ==
    \A s \in Shipments : shipment[s].status = "absent" => shipment[s].shippedAt = NoTime

IInv == TypeOK /\ RecordedOnce /\ HistoryExplains /\ RowIsOlder /\ UnbookedIsBlank

---------------------------------------------------------------------------
(* An event that is valid changes the status.                               *)
LEMMA ValidChanges ==
    ASSUME NEW now \in Status, NEW type \in ValidEvents[now]
    PROVE  type # now /\ type \in EventTypes
  BY DEF Status, EventTypes, ValidEvents

LEMMA InitHolds == Init => IInv
<1> SUFFICES ASSUME Init PROVE IInv
  OBVIOUS
<1>1. TypeOK
  BY DEF Init, TypeOK, ShipmentRow, HandlerState
<1>2. RecordedOnce /\ HistoryExplains
  BY TimesAssumption DEF Init, RecordedOnce, HistoryExplains
<1>3. RowIsOlder /\ UnbookedIsBlank
  BY DEF Init, RowIsOlder, UnbookedIsBlank
<1> QED
  BY <1>1, <1>2, <1>3 DEF IInv

Busy(q) == q \in [stage : {"read", "ready"}, s : Shipments, e : Events, row : BookedRow]

LEMMA BusyTyped ==
    ASSUME TypeOK, NEW h \in Handlers, handler[h].stage # "idle"
    PROVE  Busy(handler[h])
  BY DEF TypeOK, HandlerState, Busy

(* A step that leaves the tables alone and moves one handler.               *)
LEMMA HandlerStep ==
    ASSUME IInv, NEW h \in Handlers, NEW q \in HandlerState,
           UNCHANGED <<shipment, recorded>>,
           handler' = [handler EXCEPT ![h] = q],
           q.stage # "idle" =>
              /\ shipment[q.s].status # "absent"
              /\ q.row.shippedAt # NoTime => shipment[q.s].shippedAt # NoTime
              /\ q.row.deliveredAt # NoTime => shipment[q.s].deliveredAt # NoTime
              /\ q.stage = "ready" => TypeOf[q.e] \in ValidEvents[q.row.status]
    PROVE  IInv'
<1>1. TypeOK'
  BY DEF IInv, TypeOK
<1>2. RecordedOnce' /\ HistoryExplains' /\ UnbookedIsBlank'
  BY DEF IInv, RecordedOnce, HistoryExplains, UnbookedIsBlank
<1>3. RowIsOlder'
  BY DEF IInv, TypeOK, RowIsOlder
<1> QED
  BY <1>1, <1>2, <1>3 DEF IInv

LEMMA ReadStep ==
    ASSUME IInv, NEW h \in Handlers, NEW s \in Shipments, NEW e \in Events, Read(h, s, e)
    PROVE  IInv'
<1> DEFINE q == [stage |-> "read", s |-> s, e |-> e, row |-> shipment[s]]
<1>1. shipment[s] \in BookedRow
  BY DEF IInv, TypeOK, Read, Exists, BookedRow
<1>2. q \in HandlerState
  BY <1>1 DEF HandlerState
<1>3. /\ UNCHANGED <<shipment, recorded>>
      /\ handler' = [handler EXCEPT ![h] = q]
      /\ shipment[q.s].status # "absent"
  BY DEF Read, Exists
<1>4. q.s = s /\ q.row = shipment[s] /\ q.stage = "read"
  OBVIOUS
<1> HIDE DEF q
<1> QED
  BY <1>2, <1>3, <1>4, HandlerStep

LEMMA AcceptStep ==
    ASSUME IInv, NEW h \in Handlers, Accept(h)
    PROVE  IInv'
<1> DEFINE q == [handler[h] EXCEPT !.stage = "ready"]
<1>1. Busy(handler[h]) /\ handler[h].stage = "read"
  BY BusyTyped DEF IInv, Accept
<1>2. /\ q \in HandlerState
      /\ q.s = handler[h].s /\ q.e = handler[h].e /\ q.row = handler[h].row
  BY <1>1 DEF Busy, HandlerState
<1>3. /\ UNCHANGED <<shipment, recorded>>
      /\ handler' = [handler EXCEPT ![h] = q]
      /\ TypeOf[q.e] \in ValidEvents[q.row.status]
  BY <1>2 DEF Accept
<1>4. /\ shipment[q.s].status # "absent"
      /\ q.row.shippedAt # NoTime => shipment[q.s].shippedAt # NoTime
      /\ q.row.deliveredAt # NoTime => shipment[q.s].deliveredAt # NoTime
  BY <1>1, <1>2 DEF IInv, RowIsOlder
<1> HIDE DEF q
<1> QED
  BY <1>2, <1>3, <1>4, HandlerStep

LEMMA DropStep ==
    ASSUME IInv, NEW h \in Handlers, Refuse(h) \/ Rollback(h)
    PROVE  IInv'
<1>1. /\ UNCHANGED <<shipment, recorded>>
      /\ handler' = [handler EXCEPT ![h] = [stage |-> "idle"]]
  BY DEF Refuse, Rollback
<1>2. [stage |-> "idle"] \in HandlerState
  BY DEF HandlerState
<1> QED
  BY <1>1, <1>2, HandlerStep

LEMMA CreateStep ==
    ASSUME IInv, NEW s \in Shipments, Create(s)
    PROVE  IInv'
<1>1. PICK at \in {NoTime, Booked} :
          shipment' = [shipment EXCEPT ![s] =
              [status |-> "planned", shippedAt |-> at, deliveredAt |-> NoTime]]
  BY DEF Create
<1>2. shipment[s].status = "absent" /\ UNCHANGED <<recorded, handler>>
  BY DEF Create, Exists
<1>3. TypeOK'
  BY <1>1, <1>2 DEF IInv, TypeOK, ShipmentRow, Status
<1>4. RecordedOnce'
  BY <1>2 DEF IInv, RecordedOnce
<1>5. HistoryExplains'
  <2>1. recorded[s] = {}
    BY <1>2 DEF IInv, HistoryExplains
  <2>2. /\ shipment'[s] = [status |-> "planned", shippedAt |-> at, deliveredAt |-> NoTime]
        /\ \A t \in Shipments \ {s} : shipment'[t] = shipment[t]
    BY <1>1 DEF IInv, TypeOK
  <2> QED
    BY <1>2, <2>1, <2>2 DEF IInv, HistoryExplains
<1>6. RowIsOlder'
  <2> SUFFICES ASSUME NEW h \in Handlers, handler[h].stage # "idle"
               PROVE  /\ shipment'[handler[h].s] = shipment[handler[h].s]
    BY <1>2 DEF IInv, RowIsOlder
  <2>1. handler[h].s # s /\ handler[h].s \in Shipments
    BY <1>2, BusyTyped DEF IInv, RowIsOlder, Busy
  <2> QED
    BY <1>1, <2>1 DEF IInv, TypeOK
<1>7. UnbookedIsBlank'
  BY <1>1 DEF IInv, TypeOK, UnbookedIsBlank
<1> QED
  BY <1>3, <1>4, <1>5, <1>6, <1>7 DEF IInv

(* What Update makes of the columns, given the row that was read.           *)
LEMMA Updated ==
    ASSUME NEW current \in ShipmentRow, NEW row \in BookedRow, NEW e \in Events,
           TypeOf[e] \in ValidEvents[row.status]
    PROVE  LET new == Update(current, row, Apply(row, e))
           IN  /\ new \in ShipmentRow
               /\ new.status = TypeOf[e]
               /\ new.shippedAt = IF TypeOf[e] = "picked_up" /\ row.shippedAt = NoTime
                                  THEN e ELSE current.shippedAt
               /\ new.deliveredAt = IF TypeOf[e] = "delivered" /\ row.deliveredAt # e
                                    THEN e ELSE current.deliveredAt
<1> DEFINE new == Update(current, row, Apply(row, e))
<1>1. /\ row \in ShipmentRow /\ row.status \in Status
      /\ TypeOf[e] # row.status /\ TypeOf[e] \in EventTypes /\ e # NoTime
  BY ValidChanges, TimesAssumption DEF BookedRow, ShipmentRow
<1>2. DOMAIN current = {"status", "shippedAt", "deliveredAt"}
  BY DEF ShipmentRow
<1>3. new = [f \in {"status", "shippedAt", "deliveredAt"} |->
                IF Apply(row, e)[f] # row[f] THEN Apply(row, e)[f] ELSE current[f]]
  BY <1>2 DEF Update
<1>4. new.status = TypeOf[e]
  BY <1>1, <1>3 DEF Apply
<1>5. new.shippedAt = IF TypeOf[e] = "picked_up" /\ row.shippedAt = NoTime
                      THEN e ELSE current.shippedAt
  BY <1>1, <1>3 DEF Apply
<1>6. new.deliveredAt = IF TypeOf[e] = "delivered" /\ row.deliveredAt # e
                        THEN e ELSE current.deliveredAt
  BY <1>1, <1>3 DEF Apply
<1>7. new = [status |-> new.status, shippedAt |-> new.shippedAt,
             deliveredAt |-> new.deliveredAt]
  BY <1>3
<1>8. /\ new.status \in {"absent"} \union Status
      /\ new.shippedAt \in Events \union {NoTime, Booked}
      /\ new.deliveredAt \in Events \union {NoTime}
  BY <1>1, <1>4, <1>5, <1>6 DEF ShipmentRow, Status
<1>9. new \in ShipmentRow
  BY <1>7, <1>8 DEF ShipmentRow
<1> QED
  BY <1>4, <1>5, <1>6, <1>9

LEMMA CommitStep ==
    ASSUME IInv, NEW h \in Handlers, Commit(h)
    PROVE  IInv'
<1> DEFINE s == handler[h].s
           e == handler[h].e
           row == handler[h].row
           new == Update(shipment[s], row, Apply(row, e))
<1>1. /\ handler[h].stage = "ready" /\ ~Duplicate(s, e)
      /\ shipment' = [shipment EXCEPT ![s] = new]
      /\ recorded' = [recorded EXCEPT ![s] = @ \union {e}]
      /\ handler' = [handler EXCEPT ![h] = [stage |-> "idle"]]
  BY DEF Commit
<1>2. s \in Shipments /\ e \in Events /\ row \in BookedRow
  BY <1>1, BusyTyped DEF IInv, Busy
<1>3. /\ TypeOf[e] \in ValidEvents[row.status]
      /\ shipment[s].status # "absent"
      /\ row.shippedAt # NoTime => shipment[s].shippedAt # NoTime
      /\ row.deliveredAt # NoTime => shipment[s].deliveredAt # NoTime
  BY <1>1 DEF IInv, RowIsOlder
<1>4. /\ new \in ShipmentRow
      /\ new.status = TypeOf[e]
      /\ new.shippedAt = IF TypeOf[e] = "picked_up" /\ row.shippedAt = NoTime
                         THEN e ELSE shipment[s].shippedAt
      /\ new.deliveredAt = IF TypeOf[e] = "delivered" /\ row.deliveredAt # e
                           THEN e ELSE shipment[s].deliveredAt
  BY <1>2, <1>3, Updated DEF IInv, TypeOK
<1>5. TypeOf[e] \in EventTypes /\ e # NoTime /\ e # Booked
  BY <1>2, EventsAssumption, TimesAssumption
<1> HIDE DEF new
<1>6. /\ shipment'[s] = new /\ recorded'[s] = recorded[s] \union {e}
      /\ \A t \in Shipments \ {s} : shipment'[t] = shipment[t] /\ recorded'[t] = recorded[t]
  BY <1>1, <1>2 DEF IInv, TypeOK
<1>7. TypeOK'
  <2>1. shipment' \in [Shipments -> ShipmentRow]
    BY <1>1, <1>2, <1>4 DEF IInv, TypeOK
  <2>2. recorded' \in [Shipments -> SUBSET Events]
    BY <1>1, <1>2 DEF IInv, TypeOK
  <2>3. handler' \in [Handlers -> HandlerState]
    BY <1>1 DEF IInv, TypeOK, HandlerState
  <2> QED
    BY <2>1, <2>2, <2>3 DEF TypeOK
<1>8. RecordedOnce'
  BY <1>1, <1>2, <1>6 DEF IInv, RecordedOnce, Duplicate
<1>9. HistoryExplains'
  <2> DEFINE of(t, type) == {d \in recorded[t] : TypeOf[d] = type}
             ofn(t, type) == {d \in recorded'[t] : TypeOf[d] = type}
  <2>1. \A type : ofn(s, type) = IF type = TypeOf[e] THEN of(s, type) \union {e}
                                                    ELSE of(s, type)
    BY <1>6
  <2>2. recorded'[s] # {} /\ new.status # "absent" /\ ofn(s, new.status) # {}
    BY <1>4, <1>5, <1>6 DEF EventTypes
  <2>3. /\ (of(s, "delivered") = {}) => shipment[s].deliveredAt = NoTime
        /\ (of(s, "delivered") # {}) => shipment[s].deliveredAt \in of(s, "delivered")
        /\ shipment[s].shippedAt \in of(s, "picked_up") \union {NoTime, Booked}
        /\ (of(s, "picked_up") # {}) => shipment[s].shippedAt # NoTime
    BY <1>2 DEF IInv, HistoryExplains
  <2>4. IF ofn(s, "delivered") = {} THEN new.deliveredAt = NoTime
                                    ELSE new.deliveredAt \in ofn(s, "delivered")
    <3>1. CASE TypeOf[e] = "delivered"
      BY <3>1, <1>3, <1>4, <1>5, <2>1, <2>3
    <3>2. CASE TypeOf[e] # "delivered"
      BY <3>2, <1>4, <2>1, <2>3
    <3> QED
      BY <3>1, <3>2
  <2>5. /\ new.shippedAt \in ofn(s, "picked_up") \union {NoTime, Booked}
        /\ ofn(s, "picked_up") # {} => new.shippedAt # NoTime
    <3>1. CASE TypeOf[e] = "picked_up"
      BY <3>1, <1>3, <1>4, <1>5, <2>1, <2>3
    <3>2. CASE TypeOf[e] # "picked_up"
      BY <3>2, <1>4, <2>1, <2>3
    <3> QED
      BY <3>1, <3>2
  <2> QED
    BY <1>6, <2>2, <2>4, <2>5 DEF IInv, HistoryExplains
<1>10. RowIsOlder'
  <2> SUFFICES ASSUME NEW g \in Handlers, g # h, handler[g].stage # "idle"
               PROVE  LET t == handler[g].s
                      IN  /\ shipment[t].status # "absent" => shipment'[t].status # "absent"
                          /\ shipment[t].shippedAt # NoTime => shipment'[t].shippedAt # NoTime
                          /\ shipment[t].deliveredAt # NoTime =>
                                shipment'[t].deliveredAt # NoTime
    BY <1>1 DEF IInv, TypeOK, RowIsOlder
  <2>1. handler[g].s \in Shipments
    BY BusyTyped DEF IInv, Busy
  <2>2. CASE handler[g].s = s
    BY <2>2, <1>4, <1>5, <1>6 DEF EventTypes
  <2>3. CASE handler[g].s # s
    BY <2>1, <2>3, <1>6
  <2> QED
    BY <2>2, <2>3
<1>11. UnbookedIsBlank'
  BY <1>4, <1>5, <1>6 DEF IInv, UnbookedIsBlank, EventTypes
<1> QED
  BY <1>7, <1>8, <1>9, <1>10, <1>11 DEF IInv

LEMMA StepHolds == IInv /\ [Next]_vars => IInv'
<1> SUFFICES ASSUME IInv, [Next]_vars PROVE IInv'
  OBVIOUS
<1>1. CASE \E s \in Shipments : Create(s)
  BY <1>1, CreateStep
<1>2. ASSUME NEW h \in Handlers, NEW s \in Shipments, NEW e \in Events,
             AddEvent(h, s, e) \/ CarrierEvent(h, s, e)
      PROVE  IInv'
  BY <1>2, ReadStep DEF AddEvent, CarrierEvent
<1>3. ASSUME NEW h \in Handlers, Accept(h) \/ Refuse(h) \/ Commit(h) \/ Rollback(h)
      PROVE  IInv'
  BY <1>3, AcceptStep, CommitStep, DropStep
<1>4. CASE UNCHANGED vars
  BY <1>4 DEF vars, IInv, TypeOK, RecordedOnce, HistoryExplains, RowIsOlder, UnbookedIsBlank
<1> QED
  BY <1>1, <1>2, <1>3, <1>4 DEF Next

THEOREM Invariance == Spec => []IInv
<1> QED
  BY InitHolds, StepHolds, PTL DEF Spec

(* Rows and handlers keep their types.                                      *)
THEOREM TypeCorrect == Spec => []TypeOK
<1> QED
  BY Invariance, PTL DEF IInv

(* However many handlers race, a repeated delivery is recorded once.        *)
THEOREM NoDuplicates == Spec => []RecordedOnce
<1> QED
  BY Invariance, PTL DEF IInv

(* However many handlers race, the recorded events explain the shipment.    *)
THEOREM Explained == Spec => []HistoryExplains
<1> QED
  BY Invariance, PTL DEF IInv

---------------------------------------------------------------------------
(* What the carrier sends begins to reach a shipment that is alone.         *)

(* Nothing begins to reach a shipment in a step that gives no handler an    *)
(* event, and records what a handler held.                                  *)
LEMMA NothingReached ==
    ASSUME \A g \in Handlers : handler'[g].stage # "idle" =>
              /\ handler[g].stage # "idle"
              /\ handler'[g].s = handler[g].s
              /\ handler'[g].e = handler[g].e,
           \A t \in Shipments : \A d \in recorded'[t] \ recorded[t] : d \in Reaching(t) \/ d \notin CarrierEvents
    PROVE  \A t \in Shipments : Reaching(t)' \subseteq Reaching(t)
  BY DEF Reaching

(* A look-up gives its event to the shipment it found.                      *)
LEMMA ReadReaches ==
    ASSUME IInv, NEW h \in Handlers, NEW s \in Shipments, NEW e \in Events, Read(h, s, e)
    PROVE  \A t \in Shipments :
              Reaching(t)' \subseteq Reaching(t)
                  \union IF t = s THEN {e} \cap CarrierEvents ELSE {}
<1>1. /\ handler'[h].s = s /\ handler'[h].e = e
      /\ \A g \in Handlers \ {h} : handler'[g] = handler[g]
      /\ recorded' = recorded
  BY DEF IInv, TypeOK, Read
<1> QED
  BY <1>1 DEF Reaching

LEMMA CommitReaches ==
    ASSUME IInv, NEW h \in Handlers, Commit(h)
    PROVE  \A t \in Shipments : Reaching(t)' \subseteq Reaching(t)
<1>1. /\ handler' = [handler EXCEPT ![h] = [stage |-> "idle"]]
      /\ recorded' = [recorded EXCEPT ![handler[h].s] = @ \union {handler[h].e}]
      /\ handler[h].stage # "idle"
  BY DEF Commit
<1>2. \A t \in Shipments : \A d \in recorded'[t] \ recorded[t] :
          d \in Reaching(t) \/ d \notin CarrierEvents
  BY <1>1 DEF IInv, TypeOK, Reaching
<1>3. \A g \in Handlers : handler'[g].stage # "idle" => handler'[g] = handler[g]
  BY <1>1 DEF IInv, TypeOK
<1> QED
  BY <1>2, <1>3, NothingReached

(* Whoever books a reference meanwhile, what the carrier sends for it       *)
(* begins to reach a shipment only while no other has the reference; once   *)
(* the reference is shared, nothing new is accepted for it.                 *)
THEOREM CarrierReachesOne == Spec => CarrierFindsOne
<1>1. IInv /\ [Next]_vars => BeginsAlone
  <2> SUFFICES ASSUME IInv, [Next]_vars PROVE BeginsAlone
    OBVIOUS
  <2>1. ASSUME NEW s \in Shipments, Create(s) PROVE BeginsAlone
    BY <2>1, NothingReached DEF Create, BeginsAlone
  <2>2. ASSUME NEW h \in Handlers, NEW s \in Shipments, NEW e \in Events, AddEvent(h, s, e)
        PROVE  BeginsAlone
    BY <2>2, ReadReaches DEF AddEvent, BeginsAlone
  <2>3. ASSUME NEW h \in Handlers, NEW s \in Shipments, NEW e \in Events, CarrierEvent(h, s, e)
        PROVE  BeginsAlone
    <3>1. Read(h, s, e) /\ Alone(s)
      BY <2>3 DEF CarrierEvent, Alone, Read
    <3> QED
      BY <3>1, ReadReaches DEF BeginsAlone
  <2>4. ASSUME NEW h \in Handlers, Accept(h) PROVE BeginsAlone
    <3>1. /\ handler' = [handler EXCEPT ![h].stage = "ready"]
          /\ recorded' = recorded /\ handler[h].stage = "read"
      BY <2>4 DEF Accept
    <3>2. Busy(handler[h])
      BY <3>1, BusyTyped DEF IInv
    <3>3. \A g \in Handlers : handler'[g].stage # "idle" =>
              handler[g].stage # "idle" /\ handler'[g].s = handler[g].s /\ handler'[g].e = handler[g].e
      BY <3>1, <3>2 DEF IInv, TypeOK, Busy
    <3> QED
      BY <3>1, <3>3, NothingReached DEF BeginsAlone
  <2>5. ASSUME NEW h \in Handlers, Refuse(h) \/ Rollback(h) PROVE BeginsAlone
    <3>1. /\ handler' = [handler EXCEPT ![h] = [stage |-> "idle"]]
          /\ recorded' = recorded
      BY <2>5 DEF Refuse, Rollback
    <3>2. \A g \in Handlers : handler'[g].stage # "idle" => handler'[g] = handler[g]
      BY <3>1 DEF IInv, TypeOK
    <3> QED
      BY <3>1, <3>2, NothingReached DEF BeginsAlone
  <2>6. ASSUME NEW h \in Handlers, Commit(h) PROVE BeginsAlone
    BY <2>6, CommitReaches DEF BeginsAlone
  <2>7. CASE UNCHANGED vars
    BY <2>7, NothingReached DEF vars, BeginsAlone
  <2> QED
    BY <2>1, <2>2, <2>3, <2>4, <2>5, <2>6, <2>7 DEF Next
<1> QED
  BY <1>1, Invariance, PTL DEF Spec, CarrierFindsOne

---------------------------------------------------------------------------
(* Handlers that race depart from the lifecycle by late decisions only.     *)

LEMMA CreateBooks ==
    ASSUME IInv, NEW s \in Shipments, Create(s)
    PROVE  Lifecycle!Book(s)
<1> DEFINE is == [t \in Shipments |-> shipment'[t].status]
<1>1. PICK at \in {NoTime, Booked} :
          shipment' = [shipment EXCEPT ![s] =
              [status |-> "planned", shippedAt |-> at, deliveredAt |-> NoTime]]
  BY DEF Create
<1>2. shipment[s].status = "absent" /\ UNCHANGED recorded
  BY DEF Create, Exists
<1>3. /\ shipment'[s].status = "planned"
      /\ \A t \in Shipments \ {s} : shipment'[t] = shipment[t]
  BY <1>1 DEF IInv, TypeOK
<1>4. is = [statuses EXCEPT ![s] = "planned"]
  BY <1>3 DEF statuses
<1> QED
  BY <1>2, <1>4 DEF Lifecycle!Book, statuses

(* A commit applies its event if the status it was decided on still holds,  *)
(* whatever else of the row has changed.                                    *)
LEMMA TimelyCommitApplies ==
    ASSUME IInv, NEW h \in Handlers, Commit(h),
           shipment[handler[h].s].status = handler[h].row.status
    PROVE  \E s \in Shipments, e \in Events : Lifecycle!Apply(s, e)
<1> DEFINE s == handler[h].s
           e == handler[h].e
           row == handler[h].row
           new == Update(shipment[s], row, Apply(row, e))
           is  == [t \in Shipments |-> shipment'[t].status]
<1>1. /\ handler[h].stage = "ready" /\ ~Duplicate(s, e)
      /\ shipment' = [shipment EXCEPT ![s] = new]
      /\ recorded' = [recorded EXCEPT ![s] = @ \union {e}]
  BY DEF Commit
<1>2. s \in Shipments /\ e \in Events /\ row \in BookedRow
  BY <1>1, BusyTyped DEF IInv, Busy
<1>3. TypeOf[e] \in ValidEvents[row.status]
  BY <1>1 DEF IInv, RowIsOlder
<1>4. new.status = TypeOf[e]
  BY <1>2, <1>3, Updated DEF IInv, TypeOK
<1> HIDE DEF new
<1>5. /\ shipment'[s] = new
      /\ \A t \in Shipments \ {s} : shipment'[t] = shipment[t]
  BY <1>1, <1>2 DEF IInv, TypeOK
<1>6. is = [statuses EXCEPT ![s] = TypeOf[e]]
  BY <1>2, <1>4, <1>5 DEF statuses
<1>7. statuses[s] = row.status
  BY <1>2 DEF statuses
<1>8. row.status \in Status /\ row.status # "absent"
  BY <1>2 DEF BookedRow, ShipmentRow
<1>9. Lifecycle!MayFollow(row.status, TypeOf[e])
  BY <1>3, <1>8 DEF Lifecycle!MayFollow, Lifecycle!Closed, ValidEvents, Status, EventTypes
<1>10. \A d \in recorded[s] : IdOf[d] # IdOf[e]
  BY <1>1 DEF Duplicate
<1> HIDE DEF s, e, row
<1>11. Lifecycle!Apply(s, e)
  BY <1>1, <1>6, <1>7, <1>8, <1>9, <1>10 DEF Lifecycle!Apply, statuses
<1> QED
  BY <1>2, <1>11 DEF Lifecycle!Apply

(* A commit of a handler whose row is current keeps the instants.           *)
LEMMA CurrentCommitKeeps ==
    ASSUME IInv, NEW h \in Handlers, Commit(h), shipment[handler[h].s] = handler[h].row
    PROVE  InstantsKept
<1> DEFINE s == handler[h].s
           e == handler[h].e
           row == shipment[s]
           new == Update(row, row, Apply(row, e))
<1>1. /\ handler[h].stage = "ready"
      /\ shipment' = [shipment EXCEPT ![s] = new]
  BY DEF Commit
<1>2. s \in Shipments /\ e \in Events /\ row \in BookedRow /\ row \in ShipmentRow
  BY <1>1, BusyTyped DEF IInv, Busy, BookedRow
<1>3. TypeOf[e] \in ValidEvents[row.status]
  BY <1>1 DEF IInv, RowIsOlder
<1>4. new.shippedAt = IF TypeOf[e] = "picked_up" /\ row.shippedAt = NoTime
                      THEN e ELSE row.shippedAt
  BY <1>2, <1>3, Updated
<1>5. row.status # "delivered"
  BY <1>3 DEF ValidEvents
<1> HIDE DEF new
<1>6. /\ shipment'[s] = new
      /\ \A t \in Shipments \ {s} : shipment'[t] = shipment[t]
  BY <1>1, <1>2 DEF IInv, TypeOK
<1> QED
  BY <1>4, <1>5, <1>6 DEF InstantsKept

LEMMA CreateKeeps ==
    ASSUME IInv, NEW s \in Shipments, Create(s)
    PROVE  InstantsKept
<1>1. shipment[s].status = "absent"
  BY DEF Create, Exists
<1>2. shipment[s].shippedAt = NoTime
  BY <1>1 DEF IInv, UnbookedIsBlank
<1>3. \A t \in Shipments \ {s} : shipment'[t] = shipment[t]
  BY DEF Create, IInv, TypeOK
<1> QED
  BY <1>1, <1>2, <1>3 DEF InstantsKept

(* However many handlers race, only a commit that was decided on a status    *)
(* which has changed since departs from the lifecycle, and only the commit  *)
(* of an outdated row overwrites an instant that is known.                  *)
THEOREM LateDecisionsOnly == Spec => OnlyLateDecisionsDepart
<1> DEFINE Kept == /\ \/ Lifecycle!Next
                      \/ UNCHANGED <<statuses, recorded>>
                      \/ \E h \in Handlers : CommitDecidedLate(h)
                   /\ InstantsKept \/ \E h \in Handlers : CommitOutdated(h)
<1>1. IInv /\ [Next]_vars => Kept
  <2> SUFFICES ASSUME IInv, [Next]_vars PROVE Kept
    OBVIOUS
  <2>1. ASSUME NEW s \in Shipments, Create(s) PROVE Kept
    BY <2>1, CreateBooks, CreateKeeps DEF Lifecycle!Next
  <2>2. ASSUME NEW h \in Handlers, Commit(h) PROVE Kept
    <3>1. handler[h].stage = "ready"
      BY <2>2 DEF Commit
    <3>2. \/ Lifecycle!Next
          \/ \E g \in Handlers : CommitDecidedLate(g)
      BY <2>2, <3>1, TimelyCommitApplies DEF Lifecycle!Next, CommitDecidedLate
    <3>3. InstantsKept \/ \E g \in Handlers : CommitOutdated(g)
      BY <2>2, <3>1, CurrentCommitKeeps DEF CommitOutdated
    <3> QED
      BY <3>2, <3>3
  <2>3. ASSUME NEW h \in Handlers,
               \/ \E s \in Shipments, e \in Events : AddEvent(h, s, e) \/ CarrierEvent(h, s, e)
               \/ Accept(h) \/ Refuse(h) \/ Rollback(h)
        PROVE  Kept
    BY <2>3 DEF AddEvent, CarrierEvent, Read, Accept, Refuse, Rollback, statuses, InstantsKept
  <2>4. CASE UNCHANGED vars
    BY <2>4 DEF vars, statuses, InstantsKept
  <2> QED
    BY <2>1, <2>2, <2>3, <2>4 DEF Next
<1> QED
  BY <1>1, Invariance, PTL DEF Spec, OnlyLateDecisionsDepart

---------------------------------------------------------------------------
(* Handlers that run one at a time.                                         *)
OneHandler == \A g, h \in Handlers : g = h

(* The row a handler read is still the row of the table, and a delivered    *)
(* shipment stays delivered.                                                *)
RowIsCurrent ==
    \A h \in Handlers :
        handler[h].stage # "idle" => handler[h].row = shipment[handler[h].s]

DeliveredIsClosed ==
    \A s \in Shipments :
        shipment[s].deliveredAt # NoTime => shipment[s].status = "delivered"

SInv == IInv /\ RowIsCurrent /\ DeliveredIsClosed

SeenVars == <<[s \in Shipments |-> shipment[s].status], recorded>>

TimesStep ==
    \A s \in Shipments :
        /\ shipment[s].shippedAt # NoTime => shipment'[s].shippedAt = shipment[s].shippedAt
        /\ shipment[s].deliveredAt # NoTime =>
              shipment'[s].deliveredAt = shipment[s].deliveredAt

Good == SInv' /\ [Lifecycle!Next]_SeenVars /\ TimesStep

LEMMA SerialInit == Init => SInv /\ Lifecycle!Init
<1> SUFFICES ASSUME Init PROVE SInv /\ Lifecycle!Init
  OBVIOUS
<1>1. RowIsCurrent /\ DeliveredIsClosed
  BY DEF Init, RowIsCurrent, DeliveredIsClosed
<1>2. Lifecycle!Init
  BY DEF Init, Lifecycle!Init
<1> QED
  BY <1>1, <1>2, InitHolds DEF SInv

LEMMA SerialQuiet ==
    ASSUME SInv, IInv', UNCHANGED <<shipment, recorded>>,
           \A h \in Handlers :
              handler'[h].stage # "idle" => handler'[h].row = shipment[handler'[h].s]
    PROVE  Good
  BY DEF Good, SInv, RowIsCurrent, DeliveredIsClosed, SeenVars, TimesStep

LEMMA SerialHandler ==
    ASSUME SInv, IInv', NEW h \in Handlers,
           \/ \E s \in Shipments, e \in Events : Read(h, s, e)
           \/ Accept(h) \/ Refuse(h) \/ Rollback(h)
    PROVE  Good
<1>1. UNCHANGED <<shipment, recorded>>
  BY DEF Read, Accept, Refuse, Rollback
<1>2. \A g \in Handlers \ {h} : handler'[g] = handler[g]
  BY DEF SInv, IInv, TypeOK, Read, Accept, Refuse, Rollback
<1>3. handler'[h].stage # "idle" => handler'[h].row = shipment[handler'[h].s]
  <2>1. CASE \E s \in Shipments, e \in Events : Read(h, s, e)
    BY <2>1 DEF SInv, IInv, TypeOK, Read
  <2>2. CASE Accept(h)
    <3>1. Busy(handler[h])
      BY <2>2, BusyTyped DEF SInv, IInv, Accept
    <3> QED
      BY <2>2, <3>1 DEF SInv, IInv, TypeOK, RowIsCurrent, Accept, Busy
  <2>3. CASE Refuse(h) \/ Rollback(h)
    BY <2>3 DEF SInv, IInv, TypeOK, Refuse, Rollback
  <2> QED
    BY <2>1, <2>2, <2>3
<1> QED
  BY <1>1, <1>2, <1>3, SerialQuiet DEF SInv, RowIsCurrent

LEMMA SerialCreate ==
    ASSUME SInv, IInv', NEW s \in Shipments, Create(s)
    PROVE  Good
<1>1. PICK at \in {NoTime, Booked} :
          shipment' = [shipment EXCEPT ![s] =
              [status |-> "planned", shippedAt |-> at, deliveredAt |-> NoTime]]
  BY DEF Create
<1>2. shipment[s].status = "absent" /\ UNCHANGED <<recorded, handler>>
  BY DEF Create, Exists
<1>3. /\ shipment'[s] = [status |-> "planned", shippedAt |-> at, deliveredAt |-> NoTime]
      /\ \A t \in Shipments \ {s} : shipment'[t] = shipment[t]
  BY <1>1 DEF SInv, IInv, TypeOK
<1>4. recorded[s] = {} /\ shipment[s].deliveredAt = NoTime /\ shipment[s].shippedAt = NoTime
  BY <1>2 DEF SInv, IInv, HistoryExplains, UnbookedIsBlank
<1>5. RowIsCurrent'
  <2> SUFFICES ASSUME NEW h \in Handlers, handler[h].stage # "idle"
               PROVE  shipment'[handler[h].s] = shipment[handler[h].s]
    BY <1>2 DEF SInv, RowIsCurrent
  <2>1. handler[h].s # s /\ handler[h].s \in Shipments
    BY <1>2, BusyTyped DEF SInv, IInv, RowIsOlder, Busy
  <2> QED
    BY <1>3, <2>1
<1>6. DeliveredIsClosed'
  BY <1>3 DEF SInv, DeliveredIsClosed
<1>7. Lifecycle!Book(s)
  BY CreateBooks DEF SInv
<1>8. TimesStep
  BY <1>3, <1>4 DEF TimesStep
<1> QED
  BY <1>5, <1>6, <1>7, <1>8 DEF Good, SInv, Lifecycle!Next

LEMMA SerialCommit ==
    ASSUME OneHandler, SInv, IInv', NEW h \in Handlers, Commit(h)
    PROVE  Good
<1> DEFINE s == handler[h].s
           e == handler[h].e
           row == shipment[s]
           new == Update(row, row, Apply(row, e))
<1>1. handler[h].row = row
  BY DEF SInv, RowIsCurrent, Commit
<1>2. /\ handler[h].stage = "ready" /\ ~Duplicate(s, e)
      /\ shipment' = [shipment EXCEPT ![s] = new]
      /\ recorded' = [recorded EXCEPT ![s] = @ \union {e}]
      /\ handler' = [handler EXCEPT ![h] = [stage |-> "idle"]]
  BY <1>1 DEF Commit
<1>3. s \in Shipments /\ e \in Events /\ row \in BookedRow /\ row \in ShipmentRow
  BY <1>1, <1>2, BusyTyped DEF SInv, IInv, Busy, BookedRow
<1>4. TypeOf[e] \in ValidEvents[row.status]
  BY <1>1, <1>2 DEF SInv, IInv, RowIsOlder
<1>5. /\ new.status = TypeOf[e]
      /\ new.shippedAt = IF TypeOf[e] = "picked_up" /\ row.shippedAt = NoTime
                         THEN e ELSE row.shippedAt
      /\ new.deliveredAt = IF TypeOf[e] = "delivered" /\ row.deliveredAt # e
                           THEN e ELSE row.deliveredAt
  BY <1>3, <1>4, Updated
<1>6. row.status \in Status /\ row.status # "delivered" /\ row.deliveredAt = NoTime
  BY <1>3, <1>4 DEF SInv, DeliveredIsClosed, BookedRow, ShipmentRow, ValidEvents
<1> HIDE DEF new
<1>7. /\ shipment'[s] = new /\ recorded' = [recorded EXCEPT ![s] = @ \union {e}]
      /\ \A t \in Shipments \ {s} : shipment'[t] = shipment[t]
  BY <1>2, <1>3 DEF SInv, IInv, TypeOK
<1>8. RowIsCurrent'
  BY <1>2 DEF OneHandler, SInv, IInv, TypeOK, RowIsCurrent
<1>9. DeliveredIsClosed'
  <2>1. TypeOf[e] \in EventTypes /\ e # NoTime
    BY <1>3, EventsAssumption, TimesAssumption
  <2> QED
    BY <1>5, <1>6, <1>7, <2>1 DEF SInv, DeliveredIsClosed, EventTypes
<1>10. Lifecycle!Next
  BY <1>1, TimelyCommitApplies DEF SInv, Lifecycle!Next
<1>11. TimesStep
  BY <1>5, <1>6, <1>7 DEF TimesStep
<1> QED
  BY <1>8, <1>9, <1>10, <1>11 DEF Good, SInv

LEMMA SerialStep ==
    ASSUME OneHandler
    PROVE  SInv /\ [Next]_vars => Good
<1> SUFFICES ASSUME SInv, [Next]_vars PROVE Good
  OBVIOUS
<1>0. IInv'
  BY StepHolds DEF SInv
<1>1. CASE \E s \in Shipments : Create(s)
  BY <1>0, <1>1, SerialCreate
<1>2. ASSUME NEW h \in Handlers, NEW s \in Shipments, NEW e \in Events,
             AddEvent(h, s, e) \/ CarrierEvent(h, s, e)
      PROVE  Good
  BY <1>0, <1>2, SerialHandler DEF AddEvent, CarrierEvent
<1>3. ASSUME NEW h \in Handlers, Accept(h) \/ Refuse(h) \/ Commit(h) \/ Rollback(h)
      PROVE  Good
  BY <1>0, <1>3, SerialHandler, SerialCommit
<1>4. CASE UNCHANGED vars
  BY <1>0, <1>4, SerialQuiet DEF vars, SInv, RowIsCurrent
<1> QED
  BY <1>1, <1>2, <1>3, <1>4 DEF Next

(* Handlers that run one at a time implement the lifecycle.                 *)
THEOREM SerialRefinement ==
    ASSUME OneHandler
    PROVE  Spec => ImplementsLifecycle
<1>1. Init => SInv /\ Lifecycle!Init
  BY SerialInit
<1>2. SInv /\ [Next]_vars => SInv' /\ [Lifecycle!Next]_SeenVars
  BY SerialStep DEF Good
<1> QED
  BY <1>1, <1>2, PTL DEF Spec, ImplementsLifecycle, Lifecycle!Spec, SeenVars

(* Handlers that run one at a time write shipped_at and delivered_at once.  *)
THEOREM SerialTimes ==
    ASSUME OneHandler
    PROVE  Spec => TimesStable
<1>1. Init => SInv
  BY SerialInit
<1>2. SInv /\ [Next]_vars => SInv' /\ TimesStep
  BY SerialStep DEF Good
<1> QED
  BY <1>1, <1>2, PTL DEF Spec, TimesStable, TimesStep
=============================================================================
