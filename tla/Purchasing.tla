---------------------------- MODULE Purchasing ----------------------------
(***************************************************************************)
(* Master data and purchase orders, which shipments are booked against     *)
(* (application/services.py), the learning demo, which creates the master  *)
(* data of one import and submits it in a single transaction               *)
(* (run_import_demo in api/routes/learning.py), and clients that walk a    *)
(* listing page by page.  The step that books a shipment is Create of      *)
(* Shipments, whose handlers run beside all this.                          *)
(*                                                                         *)
(* Nothing is ever updated or deleted here.  A request reads its           *)
(* references in statements of their own and commits later; rows that a    *)
(* transaction has flushed block inserts of the same unique key until it   *)
(* ends.  Whatever refuses a request, a missing reference, a conflict, the *)
(* object store or a crash, rolls all of it back.                          *)
(***************************************************************************)
EXTENDS Shipments, Naturals, FiniteSets, Sequences

CONSTANTS
    Suppliers, Products, Warehouses,   \* rows that may be created
    CodeOf,           \* codes and SKUs of these rows, in their order
    Orders,           \* purchase orders that may be placed
    BuyerFrom,        \* [Orders -> Suppliers]
    OrderReference,   \* [Orders -> external references]
    OrderedProducts,  \* [Orders -> sequences of products], a line each
    OrderOf,          \* [Shipments -> Orders]
    Demos,            \* calls of the demo
    DemoRows,         \* [Demos -> the rows a call creates]
    DemoCode,         \* the supplier code SUPPLIER_A
    Clerks,           \* requests in progress
    Readers,          \* clients that walk a listing
    Listed,           \* tables that they list
    PageLimit         \* rows of a page

MasterRows == Suppliers \union Products \union Warehouses
Tables == {Suppliers, Products, Warehouses}

ASSUME TablesAssumption ==
    /\ Suppliers \cap Products = {}
    /\ (Suppliers \union Products) \cap Warehouses = {}
    /\ IsFiniteSet(MasterRows)
    /\ CodeOf \in [MasterRows -> Nat]
    /\ PageLimit \in Nat \ {0}
ASSUME ListedAssumption == Listed \subseteq Tables
ASSUME OrdersAssumption ==
    /\ BuyerFrom \in [Orders -> Suppliers]
    /\ OrderedProducts \in [Orders -> Seq(Products)]
    /\ SupplierOf \in [Shipments -> Suppliers]
    /\ OrderOf \in [Shipments -> Orders]
ASSUME DemosAssumption ==
    /\ DemoRows \in [Demos -> [supplier : Suppliers, product : Products, warehouse : Warehouses]]
    /\ \A d \in Demos : CodeOf[DemoRows[d].supplier] = DemoCode
    /\ \A d, e \in Demos : d # e =>
          \A table \in {"supplier", "product", "warehouse"} : DemoRows[d][table] # DemoRows[e][table]

VARIABLES
    records,    \* tables suppliers, products and warehouses
    lines,      \* table purchase_order_lines, of each order; none before it is placed
    mapped,     \* the mapping tables: which supplier has a name for which row
    imported,   \* demos whose import job is queued
    clerk,      \* the request of each clerk
    reader      \* the walk of each reader

purchasingVars == <<records, lines, mapped, imported, clerk, reader>>
allVars == <<vars, purchasingVars>>

Line == [number : Nat \ {0}, product : Products]

Idle == [stage |-> "idle", held |-> {}]

ClerkState ==
    {Idle}
    \union [stage : {"order.supplier", "order.products"}, order : Orders, held : {{}}]
    \union [stage : {"shipment.supplier", "shipment.order"}, shipment : Shipments, held : {{}}]
    \union [stage : {"demo.unsupplied", "demo.supplied", "demo.prepared"}, demo : Demos,
            supplier : Suppliers, held : SUBSET MasterRows]

ReaderState ==
    [stage : {"idle", "walking", "done"}, table : Tables, offset : Nat,
     unseen : SUBSET MasterRows]   \* auxiliary: what it has not seen of the rows
                                   \* there were when the walk began

NoWalk == [stage |-> "idle", table |-> Suppliers, offset |-> 0, unseen |-> {}]

PurchasingInit ==
    /\ Init
    /\ records = {} /\ mapped = {} /\ imported = {}
    /\ lines = [o \in Orders |-> {}]
    /\ clerk = [c \in Clerks |-> Idle]
    /\ reader = [r \in Readers |-> NoWalk]

---------------------------------------------------------------------------
Placed(o) == lines[o] # {}

(* Each table has a unique code.                                            *)
Clash(x, y) == CodeOf[x] = CodeOf[y] /\ \E T \in Tables : x \in T /\ y \in T

(* An insert fails on a committed row with its code, and waits for a        *)
(* transaction that has flushed one.                                        *)
Insertable(c, rows) ==
    \A x \in rows :
        /\ \A y \in records : ~Clash(x, y)
        /\ \A b \in Clerks \ {c} : \A y \in clerk[b].held : ~Clash(x, y)

Go(c, state) == clerk' = [clerk EXCEPT ![c] = state]

Waiting(c, stage) == clerk[c].stage = stage

(* POST of a supplier, a product or a warehouse: one insert and its commit. *)
RowsOfDemos ==
    UNION {{DemoRows[d].supplier, DemoRows[d].product, DemoRows[d].warehouse} : d \in Demos}

PostRow(c, x) ==
    /\ Waiting(c, "idle")
    /\ x \in MasterRows \ (records \union RowsOfDemos)
    /\ Insertable(c, {x})
    /\ records' = records \union {x}
    /\ UNCHANGED <<vars, lines, mapped, imported, clerk, reader>>

---------------------------------------------------------------------------
(* create_purchase_order.                                                   *)

StartOrder(c, o) ==
    /\ Waiting(c, "idle")
    /\ BuyerFrom[o] \in records
    /\ Go(c, [stage |-> "order.supplier", order |-> o, held |-> {}])
    /\ UNCHANGED <<vars, records, lines, mapped, imported, reader>>

CheckProducts(c) ==
    LET o == clerk[c].order
        asked == OrderedProducts[o]
    IN  /\ Waiting(c, "order.supplier")
        /\ \A i, k \in DOMAIN asked : asked[i] = asked[k] => i = k
        /\ \A i \in DOMAIN asked : asked[i] \in records
        /\ Go(c, [clerk[c] EXCEPT !.stage = "order.products"])
        /\ UNCHANGED <<vars, records, lines, mapped, imported, reader>>

BugLines(o) ==
    {[number |-> i - 1, product |-> OrderedProducts[o][i]] : i \in DOMAIN OrderedProducts[o]}
Lines(o) ==
    {[number |-> i, product |-> OrderedProducts[o][i]] : i \in DOMAIN OrderedProducts[o]}

(* The external reference is unique among the orders of a supplier, this    *)
(* very order included when a client repeats it.                            *)
CommitOrder(c) ==
    LET o == clerk[c].order
    IN  /\ Waiting(c, "order.products")
        /\ \A p \in Orders :
              BuyerFrom[p] = BuyerFrom[o] /\ OrderReference[p] = OrderReference[o] => ~Placed(p)
        /\ lines' = [lines EXCEPT ![o] = Lines(o)]
        /\ Go(c, Idle)
        /\ UNCHANGED <<vars, records, mapped, imported, reader>>

---------------------------------------------------------------------------
(* create_shipment.                                                         *)

StartShipment(c, s) ==
    /\ Waiting(c, "idle")
    /\ SupplierOf[s] \in records
    /\ Go(c, [stage |-> "shipment.supplier", shipment |-> s, held |-> {}])
    /\ UNCHANGED <<vars, records, lines, mapped, imported, reader>>

(* The supplier of a shipment is stored beside its order, whose supplier it *)
(* must be; no constraint of the database says so.                          *)
BugSupplierMatches(s) == Placed(OrderOf[s])
SupplierMatches(s) == Placed(OrderOf[s]) /\ BuyerFrom[OrderOf[s]] = SupplierOf[s]

CheckOrder(c) ==
    /\ Waiting(c, "shipment.supplier")
    /\ SupplierMatches(clerk[c].shipment)
    /\ Go(c, [clerk[c] EXCEPT !.stage = "shipment.order"])
    /\ UNCHANGED <<vars, records, lines, mapped, imported, reader>>

CommitShipment(c) ==
    /\ Waiting(c, "shipment.order")
    /\ Create(clerk[c].shipment)
    /\ Go(c, Idle)
    /\ UNCHANGED <<records, lines, mapped, imported, reader>>

---------------------------------------------------------------------------
(* run_import_demo.                                                         *)

DemoSuppliers == {x \in records \cap Suppliers : CodeOf[x] = DemoCode}

StartDemo(c, d) ==
    /\ Waiting(c, "idle")
    /\ d \notin imported
    /\ \A b \in Clerks : clerk[b].stage \in {"demo.unsupplied", "demo.supplied", "demo.prepared"}
                            => clerk[b].demo # d
    /\ \/ \E x \in DemoSuppliers :
             Go(c, [stage |-> "demo.supplied", demo |-> d, supplier |-> x, held |-> {}])
       \/ /\ DemoSuppliers = {}
          /\ Go(c, [stage |-> "demo.unsupplied", demo |-> d,
                    supplier |-> DemoRows[d].supplier, held |-> {}])
    /\ UNCHANGED <<vars, records, lines, mapped, imported, reader>>

Prepare(c, stage, held) ==
    Go(c, [stage |-> stage, demo |-> clerk[c].demo, supplier |-> clerk[c].supplier,
           held |-> held])

FlushSupplier(c) ==
    LET x == clerk[c].supplier
    IN  /\ Waiting(c, "demo.unsupplied")
        /\ Insertable(c, {x})
        /\ Prepare(c, "demo.supplied", {x})
        /\ UNCHANGED <<vars, records, lines, mapped, imported, reader>>

Made(d) == {DemoRows[d].product, DemoRows[d].warehouse}

BugFlushRows(c) ==
    LET rows == Made(clerk[c].demo)
    IN  /\ Waiting(c, "demo.supplied")
        /\ Insertable(c, rows)
        /\ records' = records \union clerk[c].held \union rows
        /\ Prepare(c, "demo.prepared", {})
        /\ UNCHANGED <<vars, lines, mapped, imported, reader>>

FlushRows(c) ==
    LET rows == Made(clerk[c].demo)
    IN  /\ Waiting(c, "demo.supplied")
        /\ Insertable(c, rows)
        /\ Prepare(c, "demo.prepared", clerk[c].held \union rows)
        /\ UNCHANGED <<vars, records, lines, mapped, imported, reader>>

(* The payload is stored, then the commit of submit_inventory_import takes  *)
(* all that its session holds.                                              *)
SubmitDemo(c) ==
    LET d == clerk[c].demo
    IN  /\ Waiting(c, "demo.prepared")
        /\ records' = records \union clerk[c].held
        /\ mapped' = mapped \union
              ({clerk[c].supplier} \X Made(d))
        /\ imported' = imported \union {d}
        /\ Go(c, Idle)
        /\ UNCHANGED <<vars, lines, reader>>

(* A request of a clerk is refused, fails or dies.                          *)
GiveUp(c) ==
    /\ ~Waiting(c, "idle")
    /\ Go(c, Idle)
    /\ UNCHANGED <<vars, records, lines, mapped, imported, reader>>

---------------------------------------------------------------------------
(* list_suppliers, list_products, list_warehouses: ORDER BY code OFFSET ..  *)
(* LIMIT ..  The client asks for the next page until one is short.          *)

BugPage(T, offset) ==
    {x \in records \cap T :
        Cardinality({y \in records \cap T : CodeOf[y] < CodeOf[x]}) \in offset .. (PageLimit - 1)}

Page(T, offset) ==
    {x \in records \cap T :
        Cardinality({y \in records \cap T : CodeOf[y] < CodeOf[x]})
            \in offset .. (offset + PageLimit - 1)}

StartWalk(r, T) ==
    /\ reader[r].stage = "idle"
    /\ reader' = [reader EXCEPT ![r] =
          [stage |-> "walking", table |-> T, offset |-> 0, unseen |-> records \cap T]]
    /\ UNCHANGED <<vars, records, lines, mapped, imported, clerk>>

NextPage(r) ==
    LET walk == reader[r]
        page == Page(walk.table, walk.offset)
        last == Cardinality(page) < PageLimit
    IN  /\ walk.stage = "walking"
        /\ reader' = [reader EXCEPT ![r] =
              [stage  |-> IF last THEN "done" ELSE "walking",
               table  |-> walk.table,
               offset |-> IF last THEN 0 ELSE walk.offset + PageLimit,
               unseen |-> walk.unseen \ page]]
        /\ UNCHANGED <<vars, records, lines, mapped, imported, clerk>>

EndWalk(r) ==
    /\ reader[r].stage # "idle"
    /\ reader' = [reader EXCEPT ![r] = NoWalk]
    /\ UNCHANGED <<vars, records, lines, mapped, imported, clerk>>

---------------------------------------------------------------------------
ClerkNext(c) ==
    \/ \E x \in MasterRows : PostRow(c, x)
    \/ \E o \in Orders : StartOrder(c, o)
    \/ \E s \in Shipments : StartShipment(c, s)
    \/ \E d \in Demos : StartDemo(c, d)
    \/ CheckProducts(c) \/ CommitOrder(c)
    \/ CheckOrder(c) \/ CommitShipment(c)
    \/ FlushSupplier(c) \/ FlushRows(c) \/ SubmitDemo(c)
    \/ GiveUp(c)

ReaderNext(r) == NextPage(r) \/ EndWalk(r) \/ \E T \in Listed : StartWalk(r, T)

(* The handlers of Shipments.                                               *)
HandlerNext(h) ==
    /\ \/ \E s \in Shipments, e \in Events : AddEvent(h, s, e) \/ CarrierEvent(h, s, e)
       \/ Accept(h) \/ Refuse(h) \/ Commit(h) \/ Rollback(h)
    /\ UNCHANGED purchasingVars

PurchasingNext ==
    \/ \E c \in Clerks : ClerkNext(c)
    \/ \E r \in Readers : ReaderNext(r)
    \/ \E h \in Handlers : HandlerNext(h)

PurchasingSpec == PurchasingInit /\ [][PurchasingNext]_allVars

---------------------------------------------------------------------------
(* Properties.                                                              *)

(* Rows, requests and walks keep their types; lines are numbered from one.  *)
PurchasingTypeOK ==
    /\ records \subseteq MasterRows
    /\ lines \in [Orders -> SUBSET Line]
    /\ mapped \subseteq Suppliers \X MasterRows
    /\ imported \subseteq Demos
    /\ clerk \in [Clerks -> ClerkState]
    /\ reader \in [Readers -> ReaderState]

(* Purchases hang together although each request checks its references      *)
(* before it commits: an order is of a supplier and of products that exist, *)
(* has a line for each product it asked for and no product twice, a         *)
(* supplier's reference names one order however often it was sent, and a    *)
(* shipment is of an order of its own supplier.                             *)
PurchasesAgree ==
    /\ \A o \in Orders : Placed(o) =>
          /\ BuyerFrom[o] \in records
          /\ {l.product : l \in lines[o]} \subseteq records
          /\ {l.number : l \in lines[o]} = 1 .. Cardinality({l.product : l \in lines[o]})
          /\ \A p \in Orders : Placed(p) /\ BuyerFrom[p] = BuyerFrom[o]
                /\ OrderReference[p] = OrderReference[o] => p = o
    /\ \A s \in Shipments : Exists(s) =>
          Placed(OrderOf[s]) /\ SupplierOf[s] = BuyerFrom[OrderOf[s]]

(* The demo leaves all of its rows or none, although it meets other demos   *)
(* and requests that create the same supplier: when its job is queued its   *)
(* product and its warehouse exist and are mapped for the one supplier with *)
(* the demo's code, so that a worker can translate its row; and a demo that *)
(* was given up leaves nothing that the next one would meet.                *)
DemoWhole ==
    /\ \A x, y \in records : Clash(x, y) => x = y
    /\ \A d \in Demos :
          IF d \in imported
          THEN /\ Made(d) \subseteq records
               /\ \E x \in DemoSuppliers : {x} \X Made(d) \subseteq mapped
          ELSE /\ (Made(d) \union {DemoRows[d].supplier}) \cap records = {}
               /\ mapped \cap (Suppliers \X Made(d)) = {}

(* A client that walks a listing sees every row there was when it began,    *)
(* although rows that others insert move the pages under it.                *)
WalkComplete ==
    \A r \in Readers : reader[r].stage = "done" => reader[r].unseen = {}
=============================================================================
