---------------------------- MODULE MCShipments ----------------------------
(* Small instances of Shipments.  Two suppliers use the same tracking       *)
(* reference.  There is an event of every type, two deliveries with         *)
(* different identifiers, and one identifier sent with two contents; some    *)
(* come from the carrier.                                                   *)
EXTENDS Shipments

Sent == {"pick", "transit", "delay", "deliver", "deliverAgain", "cancel", "pickAgain"}

SentIdOf ==
    [e \in Sent |-> IF e = "cancel" THEN "delay" ELSE e]

SentTypeOf ==
    [pick |-> "picked_up", pickAgain |-> "picked_up", transit |-> "in_transit",
     delay |-> "delayed", deliver |-> "delivered", deliverAgain |-> "delivered",
     cancel |-> "cancelled"]

FromCarrier == {"deliverAgain", "pickAgain"}

TwoSuppliers == [s \in Shipments |-> s]
OneReference == [s \in Shipments |-> "reference"]
=============================================================================
