------------------------- MODULE ShipmentLifecycle -------------------------
(***************************************************************************)
(* What a shipment promises: each event is applied once, to the status the *)
(* shipment has at that moment, and nothing follows delivery or            *)
(* cancellation.                                                           *)
(***************************************************************************)
CONSTANTS Shipments, Events, IdOf, TypeOf

VARIABLES
    status,   \* the status of each shipment
    history   \* the events that have been applied to it

Init ==
    /\ status = [s \in Shipments |-> "absent"]
    /\ history = [s \in Shipments |-> {}]

Book(s) ==
    /\ status[s] = "absent"
    /\ status' = [status EXCEPT ![s] = "planned"]
    /\ UNCHANGED history

Closed == {"delivered", "cancelled"}

(* A shipment moves from planned to picked up, on into transit, and may be  *)
(* delayed on the way; it cannot be delivered before it has left.           *)
MayFollow(now, type) ==
    /\ now \notin Closed
    /\ type = "picked_up"  => now = "planned"
    /\ type = "in_transit" => now \in {"picked_up", "delayed"}
    /\ type = "delayed"    => now # "delayed"
    /\ type = "delivered"  => now # "planned"

Apply(s, e) ==
    /\ status[s] # "absent"
    /\ MayFollow(status[s], TypeOf[e])
    /\ \A d \in history[s] : IdOf[d] # IdOf[e]
    /\ status' = [status EXCEPT ![s] = TypeOf[e]]
    /\ history' = [history EXCEPT ![s] = @ \union {e}]

Next == \E s \in Shipments : Book(s) \/ \E e \in Events : Apply(s, e)

Spec == Init /\ [][Next]_<<status, history>>
=============================================================================
