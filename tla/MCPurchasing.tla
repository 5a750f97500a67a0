--------------------------- MODULE MCPurchasing ---------------------------
(* A small instance of Purchasing.  A supplier is posted under the code the *)
(* demo looks for.  Two orders have one reference, two shipments of two     *)
(* suppliers one tracking reference, and a third names the order of another *)
(* supplier.                                                                *)
EXTENDS Purchasing, TLC

AllSuppliers == {"supplierA", "supplierB", "demoSupplier"}
AllProducts == {"product", "demoProduct"}
AllWarehouses == {"demoWarehouse"}

Codes ==
    [x \in AllSuppliers \union AllProducts \union AllWarehouses |->
        IF x \in {"supplierB", "product"} THEN 0 ELSE 1]

AllOrders == {"orderA", "orderB", "again"}
AllBuyers == [o \in AllOrders |-> IF o = "orderA" THEN "supplierA" ELSE "supplierB"]
OneOrderReference == [o \in AllOrders |-> "reference"]
AllOrderedProducts ==
    [o \in AllOrders |-> IF o = "orderB" THEN <<"product", "demoProduct">> ELSE <<"product">>]

AllShipments == {"shipmentA", "shipmentB", "mismatch"}
AllShipmentSuppliers ==
    [s \in AllShipments |-> IF s = "shipmentB" THEN "supplierB" ELSE "supplierA"]
AllShipmentOrders == [s \in AllShipments |-> IF s = "shipmentA" THEN "orderA" ELSE "orderB"]
OneTracking == [s \in AllShipments |-> "tracking"]

Sent == {"pick", "deliver", "cancel"}
SentIdOf == [e \in Sent |-> e]
SentTypeOf == [pick |-> "picked_up", deliver |-> "delivered", cancel |-> "cancelled"]
FromCarrier == {"pick", "deliver"}

SuppliersListed == {AllSuppliers}

Symmetric == Permutations(Clerks)

OneDemo ==
    [d \in {"demo"} |-> [supplier |-> "demoSupplier", product |-> "demoProduct",
                         warehouse |-> "demoWarehouse"]]
=============================================================================
