------------------------- MODULE PurchasingProofs -------------------------
(***************************************************************************)
(* Proofs about Purchasing, for any number of rows, orders, demos, clerks  *)
(* and readers.                                                            *)
(***************************************************************************)
EXTENDS Purchasing, ShipmentsProofs, FiniteSetTheorems, WellFoundedInduction

---------------------------------------------------------------------------
(* Ranks.  A listing is ordered by code; the rank of a row is the number of *)
(* rows before it.                                                          *)

Below(S, x) == {y \in S : CodeOf[y] < CodeOf[x]}
Rank(S, x) == Cardinality(Below(S, x))

Distinct(S) == \A x, y \in S : CodeOf[x] = CodeOf[y] => x = y

LEMMA NatMin ==
    ASSUME NEW T \in SUBSET Nat, T # {}
    PROVE  \E m \in T : \A k \in T : m <= k
<1> DEFINE R == {ss \in Nat \X Nat : ss[1] < ss[2]}
<1>1. IsWellFoundedOn(R, Nat)
  BY NatLessThanWellFounded DEF OpToRel
<1>2. PICK m \in T : \A k \in T : ~(<<k, m>> \in R)
  <2> HIDE DEF R
  <2> QED
    BY <1>1, WFMin
<1>3. \A k \in T : ~(k < m)
  BY <1>2
<1> QED
  BY <1>3

LEMMA RankType ==
    ASSUME NEW S \in SUBSET MasterRows, NEW x \in MasterRows
    PROVE  /\ IsFiniteSet(Below(S, x)) /\ Rank(S, x) \in Nat
           /\ \A y \in MasterRows : CodeOf[y] \in Nat
<1>1. Below(S, x) \in SUBSET MasterRows
  BY DEF Below
<1>2. IsFiniteSet(Below(S, x))
  BY <1>1, TablesAssumption, FS_Subset
<1> QED
  BY <1>2, FS_CardinalityType, TablesAssumption DEF Rank

(* An insert moves no row towards the front.                                *)
LEMMA RankGrows ==
    ASSUME NEW S \in SUBSET MasterRows, NEW U \in SUBSET MasterRows, S \subseteq U,
           NEW x \in MasterRows
    PROVE  Rank(S, x) <= Rank(U, x)
<1>1. Below(S, x) \in SUBSET Below(U, x)
  BY DEF Below
<1> QED
  BY <1>1, RankType, FS_Subset DEF Rank

(* The row just before a row that is not the first.                         *)
LEMMA RankPrevious ==
    ASSUME NEW S \in SUBSET MasterRows, Distinct(S), NEW x \in S, Rank(S, x) > 0
    PROVE  \E z \in S : Rank(S, z) = Rank(S, x) - 1
<1> DEFINE B == Below(S, x)
           T == {CodeOf[x] - CodeOf[y] : y \in B}
<1>1. IsFiniteSet(B) /\ B # {} /\ B \subseteq S
  BY RankType, FS_EmptySet DEF Rank, Below
<1>2. T \in SUBSET Nat /\ T # {}
  BY <1>1, RankType DEF Below
<1>3. PICK m \in T : \A k \in T : m <= k
  <2> HIDE DEF T
  <2> QED
    BY <1>2, NatMin
<1>4. PICK z \in B : m = CodeOf[x] - CodeOf[z]
  OBVIOUS
<1>5. ASSUME NEW y \in B PROVE CodeOf[y] <= CodeOf[z]
  <2>1. CodeOf[x] - CodeOf[z] <= CodeOf[x] - CodeOf[y]
    BY <1>3, <1>4
  <2>2. CodeOf[x] \in Nat /\ CodeOf[y] \in Nat /\ CodeOf[z] \in Nat
    BY <1>1, RankType
  <2> HIDE DEF B, T
  <2> QED
    BY <2>1, <2>2
<1>6. \A y \in B : y # z => CodeOf[y] < CodeOf[z]
  BY <1>1, <1>5, RankType DEF Distinct
<1>7. CodeOf[z] < CodeOf[x]
  BY <1>4 DEF Below
<1>8. Below(S, z) = B \ {z}
  BY <1>1, <1>6, <1>7, RankType DEF Below
<1> QED
  BY <1>1, <1>8, FS_RemoveElement DEF Rank

(* No rank is left out.                                                     *)
LEMMA RankDown ==
    ASSUME NEW S \in SUBSET MasterRows, Distinct(S), NEW x \in S, NEW k \in 0 .. Rank(S, x)
    PROVE  \E z \in S : Rank(S, z) = k
<1> DEFINE T == {n \in Nat : n >= k /\ \E z \in S : Rank(S, z) = n}
<1>0. Rank(S, x) \in Nat
  BY RankType
<1>1. T \in SUBSET Nat /\ T # {}
  BY <1>0
<1>2. PICK m \in T : \A n \in T : m <= n
  <2> HIDE DEF T
  <2> QED
    BY <1>1, NatMin
<1>3. PICK z \in S : Rank(S, z) = m
  OBVIOUS
<1>4. CASE m = k
  BY <1>3, <1>4
<1>5. CASE m > k
  <2>1. PICK y \in S : Rank(S, y) = m - 1
    BY <1>0, <1>3, <1>5, RankPrevious
  <2>2. m - 1 \in T
    BY <1>0, <1>5, <2>1
  <2> QED
    BY <1>2, <2>2
<1> QED
  BY <1>0, <1>4, <1>5

(* A page that has a row behind it is full.                                 *)
LEMMA PageFull ==
    ASSUME NEW S \in SUBSET MasterRows, Distinct(S), NEW x \in S, NEW o \in Nat,
           Rank(S, x) >= o + PageLimit
    PROVE  Cardinality({z \in S : Rank(S, z) \in o .. (o + PageLimit - 1)}) >= PageLimit
<1> DEFINE P == {z \in S : Rank(S, z) \in o .. (o + PageLimit - 1)}
           I == o .. (o + PageLimit - 1)
           f == [z \in P |-> Rank(S, z)]
<1>0. PageLimit \in Nat \ {0} /\ Rank(S, x) \in Nat
  BY TablesAssumption, RankType
<1>1. IsFiniteSet(P)
  BY TablesAssumption, FS_Subset
<1>2. f \in Surjection(P, I)
  <2>1. \A k \in I : \E z \in P : Rank(S, z) = k
    BY <1>0, RankDown
  <2> QED
    BY <2>1 DEF Surjection
<1>3. Cardinality(I) <= Cardinality(P)
  <2> HIDE DEF P, I, f
  <2> QED
    BY <1>1, <1>2, FS_Surjection
<1>4. Cardinality(I) = PageLimit
  BY <1>0, FS_Interval
<1>5. Cardinality(P) \in Nat
  <2> HIDE DEF P
  <2> QED
    BY <1>1, FS_CardinalityType
<1> QED
  BY <1>0, <1>3, <1>4, <1>5

---------------------------------------------------------------------------
(* The invariant.                                                           *)

OrderStages == {"order.supplier", "order.products"}
ShipmentStages == {"shipment.supplier", "shipment.order"}
DemoStages == {"demo.unsupplied", "demo.supplied", "demo.prepared"}

OrderState == [stage : OrderStages, order : Orders, held : {{}}]
ShipmentState == [stage : ShipmentStages, shipment : Shipments, held : {{}}]
DemoState ==
    [stage : DemoStages, demo : Demos, supplier : Suppliers, held : SUBSET MasterRows]

OfDemo(d) == Made(d) \union {DemoRows[d].supplier}

(* What an order asks for may be ordered.                                   *)
Orderable(o) ==
    LET asked == OrderedProducts[o]
    IN  /\ \A i, k \in DOMAIN asked : asked[i] = asked[k] => i = k
        /\ \A i \in DOMAIN asked : asked[i] \in records

(* What a request has read still holds.                                     *)
GoodRequest(q) ==
    /\ q.stage \in OrderStages => BuyerFrom[q.order] \in records
    /\ q.stage = "order.products" => Orderable(q.order)
    /\ q.stage = "shipment.order" => SupplierMatches(q.shipment)
    /\ q.stage \in DemoStages =>
          /\ q.demo \notin imported
          /\ q.held \subseteq OfDemo(q.demo)
          /\ CodeOf[q.supplier] = DemoCode
          /\ IF q.stage = "demo.unsupplied" THEN q.supplier = DemoRows[q.demo].supplier
                                            ELSE q.supplier \in records \union q.held
          /\ q.stage = "demo.prepared" => Made(q.demo) \subseteq q.held

Requests == \A c \in Clerks : GoodRequest(clerk[c])

(* What clerks hold clashes with nothing.                                   *)
HeldApart ==
    \A c \in Clerks :
        /\ Insertable(c, clerk[c].held)
        /\ \A b \in Clerks \ {c} :
              clerk[b].stage \in DemoStages /\ clerk[c].stage \in DemoStages
                => clerk[b].demo # clerk[c].demo

Agree ==
    /\ \A o \in Orders : Placed(o) =>
          /\ BuyerFrom[o] \in records /\ Orderable(o) /\ lines[o] = Lines(o)
          /\ \A p \in Orders : Placed(p) /\ BuyerFrom[p] = BuyerFrom[o]
                /\ OrderReference[p] = OrderReference[o] => p = o
    /\ \A s \in Shipments : Exists(s) => SupplierMatches(s)

WalksAhead ==
    \A r \in Readers :
        LET q == reader[r]
        IN  /\ q.unseen \subseteq records \cap q.table
            /\ q.stage = "walking" =>
                  \A x \in q.unseen : Rank(records \cap q.table, x) >= q.offset
            /\ q.stage = "done" => q.unseen = {}

PInv ==
    IInv /\ PurchasingTypeOK /\ Requests /\ HeldApart /\ Agree /\ DemoWhole /\ WalksAhead

LEMMA Typed ==
    ASSUME PurchasingTypeOK, NEW c \in Clerks
    PROVE  /\ clerk[c] \in ClerkState
           /\ clerk[c].stage \in OrderStages => clerk[c] \in OrderState
           /\ clerk[c].stage \in ShipmentStages => clerk[c] \in ShipmentState
           /\ clerk[c].stage \in DemoStages => clerk[c] \in DemoState
           /\ clerk[c].held \subseteq MasterRows
  BY DEF PurchasingTypeOK, ClerkState, Idle, OrderStages, ShipmentStages, DemoStages,
         OrderState, ShipmentState, DemoState

LEMMA DemoRowsTyped ==
    ASSUME NEW d \in Demos
    PROVE  /\ DemoRows[d].supplier \in Suppliers
           /\ DemoRows[d].product \in Products
           /\ DemoRows[d].warehouse \in Warehouses
           /\ OfDemo(d) \subseteq MasterRows /\ OfDemo(d) \subseteq RowsOfDemos
           /\ \A e \in Demos \ {d} : OfDemo(d) \cap OfDemo(e) = {}
           /\ \A x, y \in OfDemo(d) : Clash(x, y) => x = y
<1>1. DemoRows[d] \in [supplier : Suppliers, product : Products, warehouse : Warehouses]
  BY DemosAssumption
<1>2. \A e \in Demos : /\ DemoRows[e].supplier \in Suppliers
                       /\ DemoRows[e].product \in Products
                       /\ DemoRows[e].warehouse \in Warehouses
  BY DemosAssumption
<1>3. OfDemo(d) \subseteq MasterRows /\ OfDemo(d) \subseteq RowsOfDemos
  BY <1>1 DEF OfDemo, Made, MasterRows, RowsOfDemos
<1>4. \A e \in Demos \ {d} :
         /\ DemoRows[e].supplier # DemoRows[d].supplier
         /\ DemoRows[e].product # DemoRows[d].product
         /\ DemoRows[e].warehouse # DemoRows[d].warehouse
  BY DemosAssumption
<1>5. \A e \in Demos \ {d} : OfDemo(d) \cap OfDemo(e) = {}
  BY <1>2, <1>4, TablesAssumption DEF OfDemo, Made
<1>6. \A x, y \in OfDemo(d) : Clash(x, y) => x = y
  BY <1>2, TablesAssumption DEF OfDemo, Made, Clash, Tables
<1> QED
  BY <1>2, <1>3, <1>5, <1>6

LEMMA PInit == PurchasingInit => PInv
<1> SUFFICES ASSUME PurchasingInit PROVE PInv
  OBVIOUS
<1>1. IInv
  BY InitHolds DEF PurchasingInit
<1>2. PurchasingTypeOK
  BY DEF PurchasingInit, PurchasingTypeOK, ClerkState, ReaderState, NoWalk, Tables
<1>3. Requests /\ HeldApart
  BY DEF PurchasingInit, Requests, GoodRequest, HeldApart, Insertable, Idle,
         OrderStages, DemoStages
<1>4. Agree /\ DemoWhole
  BY DEF PurchasingInit, Init, Agree, DemoWhole, Placed, Exists
<1>5. WalksAhead
  BY DEF PurchasingInit, WalksAhead, NoWalk
<1> QED
  BY <1>1, <1>2, <1>3, <1>4, <1>5 DEF PInv

(* A request that moves on and writes nothing.                              *)
LEMMA ClerkMoves ==
    ASSUME PInv, NEW c \in Clerks, NEW q \in ClerkState, clerk' = [clerk EXCEPT ![c] = q],
           UNCHANGED <<vars, records, lines, mapped, imported, reader>>,
           GoodRequest(q), Insertable(c, q.held),
           q.stage \in DemoStages => \A b \in Clerks \ {c} :
              clerk[b].stage \in DemoStages => clerk[b].demo # q.demo
    PROVE  PInv'
<1>1. clerk'[c] = q /\ \A b \in Clerks \ {c} : clerk'[b] = clerk[b]
  BY DEF PInv, PurchasingTypeOK
<1>2. IInv'
  BY StepHolds DEF PInv
<1>3. PurchasingTypeOK'
  BY DEF PInv, PurchasingTypeOK
<1>4. Requests'
  <2>1. \A b \in Clerks : GoodRequest(clerk'[b])
    BY <1>1 DEF PInv, Requests
  <2>2. \A b \in Clerks : GoodRequest(clerk[b])' <=> GoodRequest(clerk'[b])
    BY DEF GoodRequest, Orderable, SupplierMatches, Placed
  <2> QED
    BY <2>1, <2>2 DEF Requests
<1>5. HeldApart'
  <2>1. \A x, y : Clash(x, y) <=> Clash(y, x)
    BY DEF Clash
  <2> SUFFICES ASSUME NEW b \in Clerks
               PROVE  /\ Insertable(b, clerk[b].held)'
                      /\ \A a \in Clerks \ {b} :
                            clerk'[a].stage \in DemoStages /\ clerk'[b].stage \in DemoStages
                              => clerk'[a].demo # clerk'[b].demo
    BY DEF HeldApart
  <2>2. Insertable(b, clerk[b].held)'
    <3>1. CASE b = c
      BY <3>1, <1>1 DEF Insertable
    <3>2. CASE b # c
      BY <3>2, <1>1, <2>1 DEF Insertable, PInv, HeldApart
    <3> QED
      BY <3>1, <3>2
  <2>3. \A a \in Clerks \ {b} :
            clerk'[a].stage \in DemoStages /\ clerk'[b].stage \in DemoStages
              => clerk'[a].demo # clerk'[b].demo
    BY <1>1 DEF PInv, HeldApart
  <2> QED
    BY <2>2, <2>3
<1>6. Agree' /\ DemoWhole'
  BY DEF PInv, Agree, DemoWhole, Placed, Exists, vars, Orderable, SupplierMatches, DemoSuppliers
<1>7. WalksAhead'
  BY DEF PInv, WalksAhead
<1> QED
  BY <1>2, <1>3, <1>4, <1>5, <1>6, <1>7 DEF PInv

(* What a longer table leaves of requests, orders and walks.                *)
LEMMA TablesGrow ==
    ASSUME PInv, records \subseteq records', records' \subseteq MasterRows,
           UNCHANGED <<lines, reader>>, UNCHANGED vars
    PROVE  /\ \A q : GoodRequest(q) /\ (q.stage \in DemoStages => q.demo \notin imported')
                        => GoodRequest(q)'
           /\ Agree' /\ WalksAhead' /\ IInv'
<1>1. IInv'
  BY StepHolds DEF PInv
<1>2. Agree'
  BY DEF PInv, Agree, Placed, Exists, vars, Orderable, SupplierMatches
<1>3. WalksAhead'
  <2> SUFFICES ASSUME NEW r \in Readers
               PROVE  LET q == reader[r]
                      IN  /\ q.unseen \subseteq records' \cap q.table
                          /\ q.stage = "walking" =>
                                \A x \in q.unseen : Rank(records' \cap q.table, x) >= q.offset
                          /\ q.stage = "done" => q.unseen = {}
    BY DEF WalksAhead
  <2> DEFINE q == reader[r]
             S == records \cap q.table
             U == records' \cap q.table
  <2>1. q \in ReaderState
    BY DEF PInv, PurchasingTypeOK
  <2>2. q.unseen \subseteq S /\ S \subseteq U /\ S \in SUBSET MasterRows /\ U \in SUBSET MasterRows
    BY DEF PInv, WalksAhead, PurchasingTypeOK
  <2>3. ASSUME q.stage = "walking", NEW x \in q.unseen
        PROVE  Rank(U, x) >= q.offset
    <3>1. Rank(S, x) >= q.offset
      BY <2>3 DEF PInv, WalksAhead
    <3>2. x \in MasterRows /\ q.offset \in Nat
      BY <2>1, <2>2 DEF ReaderState
    <3> HIDE DEF S, U, q
    <3> QED
      BY <2>2, <3>1, <3>2, RankGrows, RankType
  <2>4. q.stage = "done" => q.unseen = {}
    BY DEF PInv, WalksAhead
  <2> QED
    BY <2>2, <2>3, <2>4
<1>4. ASSUME NEW q, GoodRequest(q), q.stage \in DemoStages => q.demo \notin imported'
      PROVE  GoodRequest(q)'
  BY <1>4 DEF GoodRequest, Orderable, SupplierMatches, Placed
<1> QED
  BY <1>1, <1>2, <1>3, <1>4

---------------------------------------------------------------------------
(* The steps of a clerk.                                                    *)

LEMMA GiveUpStep ==
    ASSUME PInv, NEW c \in Clerks, GiveUp(c)
    PROVE  PInv'
<1>1. Idle \in ClerkState /\ GoodRequest(Idle) /\ Insertable(c, Idle.held)
      /\ Idle.stage \notin DemoStages
  BY DEF ClerkState, Idle, GoodRequest, OrderStages, DemoStages, Insertable
<1>2. clerk' = [clerk EXCEPT ![c] = Idle]
      /\ UNCHANGED <<vars, records, lines, mapped, imported, reader>>
  BY DEF GiveUp, Go
<1> QED
  BY <1>1, <1>2, ClerkMoves

LEMMA OrderMoves ==
    ASSUME PInv, NEW c \in Clerks, NEW o \in Orders, StartOrder(c, o) \/ CheckProducts(c)
    PROVE  PInv'
<1>1. CASE StartOrder(c, o)
  <2> DEFINE q == [stage |-> "order.supplier", order |-> o, held |-> {}]
  <2>1. q \in ClerkState
    BY DEF ClerkState
  <2>2. clerk' = [clerk EXCEPT ![c] = q]
        /\ UNCHANGED <<vars, records, lines, mapped, imported, reader>>
        /\ BuyerFrom[o] \in records
    BY <1>1 DEF StartOrder, Go
  <2>3. GoodRequest(q) /\ Insertable(c, q.held) /\ q.stage \notin DemoStages
    BY <2>2 DEF GoodRequest, OrderStages, DemoStages, Insertable
  <2> HIDE DEF q
  <2> QED
    BY <2>1, <2>2, <2>3, ClerkMoves
<1>2. CASE CheckProducts(c)
  <2> DEFINE q == [clerk[c] EXCEPT !.stage = "order.products"]
  <2>1. clerk[c].stage = "order.supplier" /\ clerk[c] \in OrderState
    BY <1>2, Typed DEF CheckProducts, Waiting, OrderStages, PInv
  <2>2. /\ q = [stage |-> "order.products", order |-> clerk[c].order, held |-> {}]
        /\ clerk[c].order \in Orders
    BY <2>1 DEF OrderState
  <2>3. q \in ClerkState
    BY <2>2 DEF ClerkState
  <2>4. clerk' = [clerk EXCEPT ![c] = q]
        /\ UNCHANGED <<vars, records, lines, mapped, imported, reader>>
        /\ Orderable(clerk[c].order)
    BY <1>2 DEF CheckProducts, Go, Orderable
  <2>5. BuyerFrom[clerk[c].order] \in records
    BY <2>1 DEF PInv, Requests, GoodRequest, OrderStages
  <2>6. GoodRequest(q) /\ Insertable(c, q.held) /\ q.stage \notin DemoStages
    BY <2>2, <2>4, <2>5 DEF GoodRequest, OrderStages, DemoStages, Insertable
  <2> HIDE DEF q
  <2> QED
    BY <2>3, <2>4, <2>6, ClerkMoves
<1> QED
  BY <1>1, <1>2

LEMMA ShipmentMoves ==
    ASSUME PInv, NEW c \in Clerks, NEW s \in Shipments, StartShipment(c, s) \/ CheckOrder(c)
    PROVE  PInv'
<1>1. CASE StartShipment(c, s)
  <2> DEFINE q == [stage |-> "shipment.supplier", shipment |-> s, held |-> {}]
  <2>1. q \in ClerkState
    BY DEF ClerkState
  <2>2. clerk' = [clerk EXCEPT ![c] = q]
        /\ UNCHANGED <<vars, records, lines, mapped, imported, reader>>
    BY <1>1 DEF StartShipment, Go
  <2>3. GoodRequest(q) /\ Insertable(c, q.held) /\ q.stage \notin DemoStages
    BY DEF GoodRequest, OrderStages, DemoStages, Insertable
  <2> HIDE DEF q
  <2> QED
    BY <2>1, <2>2, <2>3, ClerkMoves
<1>2. CASE CheckOrder(c)
  <2> DEFINE q == [clerk[c] EXCEPT !.stage = "shipment.order"]
  <2>1. clerk[c].stage = "shipment.supplier" /\ clerk[c] \in ShipmentState
    BY <1>2, Typed DEF CheckOrder, Waiting, ShipmentStages, PInv
  <2>2. /\ q = [stage |-> "shipment.order", shipment |-> clerk[c].shipment, held |-> {}]
        /\ clerk[c].shipment \in Shipments
    BY <2>1 DEF ShipmentState
  <2>3. q \in ClerkState
    BY <2>2 DEF ClerkState
  <2>4. clerk' = [clerk EXCEPT ![c] = q]
        /\ UNCHANGED <<vars, records, lines, mapped, imported, reader>>
        /\ SupplierMatches(clerk[c].shipment)
    BY <1>2 DEF CheckOrder, Go
  <2>5. GoodRequest(q) /\ Insertable(c, q.held) /\ q.stage \notin DemoStages
    BY <2>2, <2>4 DEF GoodRequest, OrderStages, DemoStages, Insertable
  <2> HIDE DEF q
  <2> QED
    BY <2>3, <2>4, <2>5, ClerkMoves
<1> QED
  BY <1>1, <1>2

LEMMA StartDemoStep ==
    ASSUME PInv, NEW c \in Clerks, NEW d \in Demos, StartDemo(c, d)
    PROVE  PInv'
<1>1. PICK q \in ClerkState :
         /\ clerk' = [clerk EXCEPT ![c] = q]
         /\ q.stage \in {"demo.supplied", "demo.unsupplied"} /\ q.demo = d /\ q.held = {}
         /\ CodeOf[q.supplier] = DemoCode
         /\ IF q.stage = "demo.unsupplied" THEN q.supplier = DemoRows[d].supplier
                                           ELSE q.supplier \in records
  <2>1. CASE \E x \in DemoSuppliers :
               Go(c, [stage |-> "demo.supplied", demo |-> d, supplier |-> x, held |-> {}])
    <3>1. PICK x \in DemoSuppliers :
               clerk' = [clerk EXCEPT ![c] =
                  [stage |-> "demo.supplied", demo |-> d, supplier |-> x, held |-> {}]]
      BY <2>1 DEF Go
    <3>2. x \in Suppliers /\ CodeOf[x] = DemoCode /\ x \in records
      BY DEF DemoSuppliers
    <3>3. [stage |-> "demo.supplied", demo |-> d, supplier |-> x, held |-> {}] \in ClerkState
      BY <3>2 DEF ClerkState
    <3> QED
      BY <3>1, <3>2, <3>3
  <2>2. CASE Go(c, [stage |-> "demo.unsupplied", demo |-> d,
                    supplier |-> DemoRows[d].supplier, held |-> {}])
    <3>1. [stage |-> "demo.unsupplied", demo |-> d,
           supplier |-> DemoRows[d].supplier, held |-> {}] \in ClerkState
      BY DemoRowsTyped DEF ClerkState
    <3> QED
      BY <2>2, <3>1, DemosAssumption DEF Go
  <2> QED
    BY <2>1, <2>2 DEF StartDemo
<1>2. GoodRequest(q) /\ Insertable(c, q.held)
  BY <1>1 DEF GoodRequest, OrderStages, Insertable, StartDemo
<1>3. \A b \in Clerks \ {c} : clerk[b].stage \in DemoStages => clerk[b].demo # q.demo
  BY <1>1 DEF StartDemo, DemoStages
<1>4. UNCHANGED <<vars, records, lines, mapped, imported, reader>>
  BY DEF StartDemo
<1> QED
  BY <1>1, <1>2, <1>3, <1>4, ClerkMoves

LEMMA FlushStep ==
    ASSUME PInv, NEW c \in Clerks, FlushSupplier(c) \/ FlushRows(c)
    PROVE  PInv'
<1> DEFINE d == clerk[c].demo
           x == clerk[c].supplier
<1>1. clerk[c].stage \in DemoStages /\ clerk[c] \in DemoState
  BY Typed DEF FlushSupplier, FlushRows, Waiting, DemoStages, PInv
<1>2. d \in Demos /\ x \in Suppliers /\ clerk[c].held \subseteq MasterRows
      /\ d \notin imported /\ clerk[c].held \subseteq OfDemo(d) /\ CodeOf[x] = DemoCode
  BY <1>1 DEF DemoState, PInv, Requests, GoodRequest
<1>3. \A b \in Clerks \ {c} : clerk[b].stage \in DemoStages => clerk[b].demo # d
  BY <1>1 DEF PInv, HeldApart
<1>4. CASE FlushSupplier(c)
  <2> DEFINE q == [stage |-> "demo.supplied", demo |-> d, supplier |-> x, held |-> {x}]
  <2>1. q.stage = "demo.supplied" /\ q.demo = d /\ q.supplier = x /\ q.held = {x}
    OBVIOUS
  <2>2. q \in ClerkState
    BY <1>2, <2>1 DEF ClerkState, MasterRows
  <2>3. /\ clerk' = [clerk EXCEPT ![c] = q] /\ Insertable(c, {x})
        /\ clerk[c].stage = "demo.unsupplied"
        /\ UNCHANGED <<vars, records, lines, mapped, imported, reader>>
    BY <1>4 DEF FlushSupplier, Prepare, Go, Waiting
  <2>4. x = DemoRows[d].supplier
    BY <2>3 DEF PInv, Requests, GoodRequest, DemoStages
  <2>5. GoodRequest(q)
    BY <1>2, <2>1, <2>4 DEF GoodRequest, OfDemo, OrderStages
  <2> HIDE DEF q
  <2> QED
    BY <1>3, <2>1, <2>2, <2>3, <2>5, ClerkMoves
<1>5. CASE FlushRows(c)
  <2> DEFINE held == clerk[c].held \union Made(d)
             q == [stage |-> "demo.prepared", demo |-> d, supplier |-> x, held |-> held]
  <2>1. q.stage = "demo.prepared" /\ q.demo = d /\ q.supplier = x /\ q.held = held
    OBVIOUS
  <2>2. held \subseteq OfDemo(d) /\ held \subseteq MasterRows
    BY <1>2, DemoRowsTyped DEF OfDemo
  <2>3. q \in ClerkState
    BY <1>2, <2>1, <2>2 DEF ClerkState
  <2>4. /\ clerk' = [clerk EXCEPT ![c] = q] /\ Insertable(c, Made(d))
        /\ clerk[c].stage = "demo.supplied"
        /\ UNCHANGED <<vars, records, lines, mapped, imported, reader>>
    BY <1>5 DEF FlushRows, Prepare, Go, Waiting
  <2>5. x \in records \union clerk[c].held
    BY <2>4 DEF PInv, Requests, GoodRequest, DemoStages
  <2>6. GoodRequest(q)
    BY <1>2, <2>1, <2>2, <2>5 DEF GoodRequest, OrderStages
  <2>7. Insertable(c, held)
    BY <2>4 DEF PInv, HeldApart, Insertable
  <2> HIDE DEF q, held
  <2> QED
    BY <1>3, <2>1, <2>3, <2>4, <2>6, <2>7, ClerkMoves
<1> QED
  BY <1>4, <1>5

LEMMA PostRowStep ==
    ASSUME PInv, NEW c \in Clerks, NEW x \in MasterRows, PostRow(c, x)
    PROVE  PInv'
<1>1. /\ clerk[c].stage = "idle" /\ x \notin records /\ x \notin RowsOfDemos
      /\ Insertable(c, {x}) /\ records' = records \union {x}
      /\ UNCHANGED <<vars, lines, mapped, imported, clerk, reader>>
  BY DEF PostRow, Waiting
<1>2. records' \subseteq MasterRows /\ PurchasingTypeOK'
  BY <1>1 DEF PInv, PurchasingTypeOK
<1>3. Agree' /\ WalksAhead' /\ IInv'
  BY <1>1, <1>2, TablesGrow
<1>4. Requests'
  <2> SUFFICES ASSUME NEW b \in Clerks PROVE GoodRequest(clerk[b])'
    BY DEF Requests
  <2>1. PICK p : p = clerk[b]
    OBVIOUS
  <2>2. GoodRequest(p) /\ (p.stage \in DemoStages => p.demo \notin imported')
    BY <1>1, <2>1 DEF PInv, Requests, GoodRequest
  <2>3. GoodRequest(p)'
    BY <1>1, <1>2, <2>2, TablesGrow
  <2> QED
    BY <1>1, <2>1, <2>3
<1>5. HeldApart'
  <2>1. clerk[c] = Idle
    BY <1>1, Typed DEF PInv, ClerkState, Idle
  <2>2. \A b \in Clerks : \A y \in clerk[b].held : ~Clash(y, x)
    BY <1>1, <2>1 DEF Insertable, Clash, Idle
  <2> QED
    BY <1>1, <2>2 DEF PInv, HeldApart, Insertable
<1>6. DemoWhole'
  <2>1. \A y \in records : ~Clash(x, y) /\ ~Clash(y, x)
    BY <1>1 DEF Insertable, Clash
  <2>2. \A y, z \in records' : Clash(y, z) => y = z
    BY <1>1, <2>1 DEF PInv, DemoWhole
  <2>3. \A d \in Demos : x \notin OfDemo(d)
    BY <1>1, DemoRowsTyped
  <2> QED
    BY <1>1, <2>2, <2>3 DEF PInv, DemoWhole, OfDemo, Made, DemoSuppliers
<1> QED
  BY <1>2, <1>3, <1>4, <1>5, <1>6 DEF PInv


(* The commit of the demo: all that its session holds appears at once.      *)
LEMMA SubmitDemoStep ==
    ASSUME PInv, NEW c \in Clerks, SubmitDemo(c)
    PROVE  PInv'
<1> DEFINE d == clerk[c].demo
           x == clerk[c].supplier
           held == clerk[c].held
<1>1. clerk[c].stage = "demo.prepared" /\ clerk[c] \in DemoState
  BY Typed DEF SubmitDemo, Waiting, DemoStages, PInv
<1>2. /\ d \in Demos /\ x \in Suppliers /\ held \subseteq MasterRows
      /\ d \notin imported /\ held \subseteq OfDemo(d) /\ CodeOf[x] = DemoCode
      /\ x \in records \union held /\ Made(d) \subseteq held
  BY <1>1 DEF DemoState, PInv, Requests, GoodRequest, DemoStages
<1>3. /\ records' = records \union held
      /\ mapped' = mapped \union ({x} \X Made(d))
      /\ imported' = imported \union {d}
      /\ clerk' = [clerk EXCEPT ![c] = Idle]
      /\ UNCHANGED <<vars, lines, reader>>
  BY DEF SubmitDemo, Go, Made
<1> HIDE DEF d, x, held
<1>4. clerk'[c] = Idle /\ \A b \in Clerks \ {c} : clerk'[b] = clerk[b]
  BY <1>3 DEF PInv, PurchasingTypeOK
<1>5. \A b \in Clerks \ {c} : clerk[b].stage \in DemoStages => clerk[b].demo # d
  BY <1>1 DEF PInv, HeldApart, DemoStages, d
<1>6. PurchasingTypeOK'
  BY <1>2, <1>3, DemoRowsTyped DEF PInv, PurchasingTypeOK, ClerkState, Made, MasterRows
<1>7. Agree' /\ WalksAhead' /\ IInv'
  BY <1>3, <1>6, TablesGrow DEF PurchasingTypeOK
<1>8. Requests'
  <2> SUFFICES ASSUME NEW b \in Clerks PROVE GoodRequest(clerk[b])'
    BY DEF Requests
  <2>1. CASE b = c
    BY <2>1, <1>4 DEF GoodRequest, Idle, OrderStages, DemoStages
  <2>2. CASE b # c
    <3>1. PICK p : p = clerk[b]
      OBVIOUS
    <3>2. GoodRequest(p) /\ (p.stage \in DemoStages => p.demo \notin imported')
      BY <1>3, <1>5, <2>2, <3>1 DEF PInv, Requests, GoodRequest
    <3>3. records \subseteq records' /\ records' \subseteq MasterRows
      BY <1>3, <1>6 DEF PurchasingTypeOK
    <3>4. GoodRequest(p)'
      BY <1>3, <3>2, <3>3, TablesGrow
    <3> QED
      BY <1>4, <2>2, <3>1, <3>4
  <2> QED
    BY <2>1, <2>2
<1>9. HeldApart'
  <2>0. \A y, z : Clash(y, z) <=> Clash(z, y)
    BY DEF Clash
  <2> SUFFICES ASSUME NEW b \in Clerks
               PROVE  /\ Insertable(b, clerk[b].held)'
                      /\ \A a \in Clerks \ {b} :
                            clerk'[a].stage \in DemoStages /\ clerk'[b].stage \in DemoStages
                              => clerk'[a].demo # clerk'[b].demo
    BY DEF HeldApart
  <2>1. CASE b = c
    BY <2>1, <1>4 DEF Insertable, Idle, DemoStages
  <2>2. CASE b # c
    <3>1. Insertable(b, clerk[b].held)
      BY DEF PInv, HeldApart
    <3>2. \A y \in clerk[b].held, z \in held : ~Clash(y, z)
      BY <2>2, <3>1 DEF Insertable, held
    <3>3. Insertable(b, clerk[b].held)'
      BY <1>3, <1>4, <2>2, <3>1, <3>2 DEF Insertable, Idle
    <3> QED
      BY <1>4, <2>2, <3>3 DEF PInv, HeldApart, Idle, DemoStages
  <2> QED
    BY <2>1, <2>2
<1>10. DemoWhole'
  <2>1. \A y, z \in records' : Clash(y, z) => y = z
    <3>1. \A y \in held, z \in records : ~Clash(y, z) /\ ~Clash(z, y)
      BY DEF PInv, HeldApart, Insertable, Clash, held
    <3>2. \A y, z \in held : Clash(y, z) => y = z
      BY <1>2, DemoRowsTyped
    <3> QED
      BY <1>3, <3>1, <3>2 DEF PInv, DemoWhole
  <2>2. x \in DemoSuppliers'
    BY <1>2, <1>3 DEF DemoSuppliers
  <2>3. Made(d) \subseteq records' /\ {x} \X Made(d) \subseteq mapped'
    BY <1>2, <1>3
  <2>4. ASSUME NEW e \in Demos, e \in imported
        PROVE  Made(e) \subseteq records' /\ \E y \in DemoSuppliers' : {y} \X Made(e) \subseteq mapped'
    BY <1>3, <2>4 DEF PInv, DemoWhole, DemoSuppliers, Made
  <2>5. ASSUME NEW e \in Demos, e \notin imported'
        PROVE  OfDemo(e) \cap records' = {} /\ mapped' \cap (Suppliers \X Made(e)) = {}
    <3>1. OfDemo(e) \cap records = {} /\ mapped \cap (Suppliers \X Made(e)) = {}
      BY <1>3, <2>5 DEF PInv, DemoWhole, OfDemo, Made
    <3>2. OfDemo(e) \cap OfDemo(d) = {} /\ Made(d) \subseteq OfDemo(d)
          /\ Made(e) \subseteq OfDemo(e)
      BY <1>2, <1>3, <2>5, DemoRowsTyped DEF OfDemo
    <3>3. ({x} \X Made(d)) \cap (Suppliers \X Made(e)) = {}
      BY <3>2
    <3> QED
      BY <1>2, <1>3, <3>1, <3>2, <3>3
  <2> QED
    BY <1>3, <2>1, <2>2, <2>3, <2>4, <2>5 DEF DemoWhole, Made, OfDemo
<1> QED
  BY <1>6, <1>7, <1>8, <1>9, <1>10 DEF PInv


(* A clerk becomes idle: what is left of requests and of what they hold.    *)
LEMMA Leaves ==
    ASSUME PInv, NEW c \in Clerks, clerk' = [clerk EXCEPT ![c] = Idle],
           UNCHANGED <<records, imported>>,
           \A s \in Shipments : SupplierMatches(s) => SupplierMatches(s)'
    PROVE  Requests' /\ HeldApart' /\ clerk' \in [Clerks -> ClerkState]
<1>1. clerk'[c] = Idle /\ \A b \in Clerks \ {c} : clerk'[b] = clerk[b]
  BY DEF PInv, PurchasingTypeOK
<1>2. clerk' \in [Clerks -> ClerkState]
  BY DEF PInv, PurchasingTypeOK, ClerkState
<1>3. Requests'
  <2> SUFFICES ASSUME NEW b \in Clerks PROVE GoodRequest(clerk[b])'
    BY DEF Requests
  <2>1. CASE b = c
    BY <2>1, <1>1 DEF GoodRequest, Idle, OrderStages, DemoStages
  <2>2. CASE b # c
    <3>1. clerk[b].stage = "shipment.order" => clerk[b].shipment \in Shipments
      BY Typed DEF PInv, ShipmentStages, ShipmentState
    <3> QED
      BY <1>1, <2>2, <3>1 DEF PInv, Requests, GoodRequest, Orderable
  <2> QED
    BY <2>1, <2>2
<1>4. HeldApart'
  BY <1>1 DEF PInv, HeldApart, Insertable, Idle, DemoStages
<1> QED
  BY <1>2, <1>3, <1>4

LEMMA CommitOrderStep ==
    ASSUME PInv, NEW c \in Clerks, CommitOrder(c)
    PROVE  PInv'
<1> DEFINE o == clerk[c].order
<1>1. clerk[c].stage = "order.products" /\ clerk[c] \in OrderState
  BY Typed DEF CommitOrder, Waiting, OrderStages, PInv
<1>2. o \in Orders /\ BuyerFrom[o] \in records /\ Orderable(o)
  BY <1>1 DEF OrderState, PInv, Requests, GoodRequest, OrderStages
<1>3. /\ \A p \in Orders :
            BuyerFrom[p] = BuyerFrom[o] /\ OrderReference[p] = OrderReference[o] => ~Placed(p)
      /\ lines' = [lines EXCEPT ![o] = Lines(o)]
      /\ clerk' = [clerk EXCEPT ![c] = Idle]
      /\ UNCHANGED <<vars, records, mapped, imported, reader>>
  BY DEF CommitOrder, Go
<1> HIDE DEF o
<1>4. lines'[o] = Lines(o) /\ \A p \in Orders \ {o} : lines'[p] = lines[p]
  BY <1>2, <1>3 DEF PInv, PurchasingTypeOK
<1>5. ~Placed(o)
  BY <1>2, <1>3
<1>6. \A s \in Shipments : SupplierMatches(s) => SupplierMatches(s)'
  BY <1>4, <1>5, OrdersAssumption DEF SupplierMatches, Placed
<1>7. Requests' /\ HeldApart' /\ clerk' \in [Clerks -> ClerkState]
  BY <1>3, <1>6, Leaves
<1>8. Lines(o) \in SUBSET Line
  BY <1>2, OrdersAssumption DEF Lines, Line
<1>9. PurchasingTypeOK'
  BY <1>2, <1>3, <1>7, <1>8 DEF PInv, PurchasingTypeOK
<1>10. IInv'
  BY <1>3, StepHolds DEF PInv
<1>11. Agree'
  <2>1. \A p \in Orders : Placed(p)' => Placed(p) \/ p = o
    BY <1>4 DEF Placed
  <2>2. \A p \in Orders : Orderable(p)' <=> Orderable(p)
    BY <1>3 DEF Orderable
  <2>3. ASSUME NEW p \in Orders, Placed(p)'
        PROVE  BuyerFrom[p] \in records' /\ Orderable(p)' /\ lines'[p] = Lines(p)
    BY <1>2, <1>3, <1>4, <2>1, <2>2, <2>3 DEF PInv, Agree
  <2>4. ASSUME NEW p \in Orders, NEW r \in Orders, Placed(p)', Placed(r)',
               BuyerFrom[p] = BuyerFrom[r], OrderReference[p] = OrderReference[r]
        PROVE  p = r
    BY <1>3, <2>1, <2>4 DEF PInv, Agree
  <2>5. \A s \in Shipments : Exists(s)' => SupplierMatches(s)'
    BY <1>3, <1>6 DEF PInv, Agree, Exists, vars
  <2> QED
    BY <2>3, <2>4, <2>5 DEF Agree
<1>12. DemoWhole' /\ WalksAhead'
  BY <1>3 DEF PInv, DemoWhole, DemoSuppliers, WalksAhead
<1> QED
  BY <1>7, <1>9, <1>10, <1>11, <1>12 DEF PInv

LEMMA CommitShipmentStep ==
    ASSUME PInv, NEW c \in Clerks, CommitShipment(c)
    PROVE  PInv' /\ [Next]_vars
<1> DEFINE s == clerk[c].shipment
<1>1. clerk[c].stage = "shipment.order" /\ clerk[c] \in ShipmentState
  BY Typed DEF CommitShipment, Waiting, ShipmentStages, PInv
<1>2. s \in Shipments /\ SupplierMatches(s)
  BY <1>1 DEF ShipmentState, PInv, Requests, GoodRequest
<1>3. /\ Create(s) /\ clerk' = [clerk EXCEPT ![c] = Idle]
      /\ UNCHANGED <<records, lines, mapped, imported, reader>>
  BY DEF CommitShipment, Go
<1> HIDE DEF s
<1>4. Next
  BY <1>2, <1>3 DEF Next
<1>5. IInv'
  BY <1>4, StepHolds DEF PInv
<1>6. \A t \in Shipments : SupplierMatches(t)' <=> SupplierMatches(t)
  BY <1>3 DEF SupplierMatches, Placed
<1>7. Requests' /\ HeldApart' /\ clerk' \in [Clerks -> ClerkState]
  BY <1>3, <1>6, Leaves
<1>8. PurchasingTypeOK'
  BY <1>3, <1>7 DEF PInv, PurchasingTypeOK
<1>9. Agree'
  <2>1. \A t \in Shipments : Exists(t)' => Exists(t) \/ t = s
    BY <1>2, <1>3 DEF Create, Exists, PInv, IInv, TypeOK
  <2> QED
    BY <1>2, <1>3, <1>6, <2>1 DEF PInv, Agree, Placed, Orderable
<1>10. DemoWhole' /\ WalksAhead'
  BY <1>3 DEF PInv, DemoWhole, DemoSuppliers, WalksAhead
<1> QED
  BY <1>4, <1>5, <1>7, <1>8, <1>9, <1>10 DEF PInv

---------------------------------------------------------------------------
(* Handlers and readers.                                                    *)

LEMMA HandlersStep ==
    ASSUME PInv, NEW h \in Handlers, HandlerNext(h)
    PROVE  PInv' /\ [Next]_vars
<1>1. Next
  BY DEF HandlerNext, Next
<1>2. IInv'
  BY <1>1, StepHolds DEF PInv
<1>3. UNCHANGED <<records, lines, mapped, imported, clerk, reader>>
  BY DEF HandlerNext, purchasingVars
<1>4. PurchasingTypeOK' /\ DemoWhole' /\ WalksAhead'
  BY <1>3 DEF PInv, PurchasingTypeOK, DemoWhole, DemoSuppliers, WalksAhead
<1>5. Requests' /\ HeldApart'
  BY <1>3 DEF PInv, Requests, GoodRequest, Orderable, SupplierMatches, Placed, HeldApart, Insertable
<1>6. \A s \in Shipments : Exists(s)' => Exists(s)
  <2>1. CASE shipment' = shipment
    BY <2>1 DEF Exists
  <2>2. CASE Commit(h)
    <3>1. handler[h].stage # "idle"
      BY <2>2 DEF Commit
    <3>2. handler[h].s \in Shipments /\ Exists(handler[h].s)
      BY <3>1, BusyTyped DEF PInv, IInv, RowIsOlder, Exists, Busy
    <3>3. \A s \in Shipments \ {handler[h].s} : shipment'[s] = shipment[s]
      BY <2>2 DEF Commit, PInv, IInv, TypeOK
    <3> QED
      BY <3>2, <3>3 DEF Exists
  <2> QED
    BY <2>1, <2>2 DEF HandlerNext, AddEvent, CarrierEvent, Read, Accept, Refuse, Rollback
<1>7. Agree'
  BY <1>3, <1>6 DEF PInv, Agree, Placed, Orderable, SupplierMatches
<1> QED
  BY <1>1, <1>2, <1>4, <1>5, <1>7 DEF PInv

(* A reader that moves on, with nothing behind it unseen.                   *)
LEMMA ReaderMoves ==
    ASSUME PInv, NEW r \in Readers, NEW q \in ReaderState, reader' = [reader EXCEPT ![r] = q],
           UNCHANGED <<vars, records, lines, mapped, imported, clerk>>,
           /\ q.unseen \subseteq records \cap q.table
           /\ q.stage = "walking" =>
                 \A x \in q.unseen : Rank(records \cap q.table, x) >= q.offset
           /\ q.stage = "done" => q.unseen = {}
    PROVE  PInv'
<1>1. IInv'
  BY StepHolds DEF PInv
<1>2. PurchasingTypeOK'
  BY DEF PInv, PurchasingTypeOK
<1>3. Requests' /\ HeldApart'
  BY DEF PInv, Requests, GoodRequest, Orderable, SupplierMatches, Placed, HeldApart, Insertable
<1>4. Agree' /\ DemoWhole'
  BY DEF PInv, Agree, Placed, Exists, Orderable, SupplierMatches, vars, DemoWhole, DemoSuppliers
<1>5. reader'[r] = q /\ \A t \in Readers \ {r} : reader'[t] = reader[t]
  BY DEF PInv, PurchasingTypeOK
<1>6. WalksAhead'
  BY <1>5 DEF PInv, WalksAhead
<1> QED
  BY <1>1, <1>2, <1>3, <1>4, <1>6 DEF PInv

LEMMA WalkEnds ==
    ASSUME PInv, NEW r \in Readers, (\E T \in Listed : StartWalk(r, T)) \/ EndWalk(r)
    PROVE  PInv'
<1>1. ASSUME NEW T \in Listed, StartWalk(r, T) PROVE PInv'
  <2> DEFINE q == [stage |-> "walking", table |-> T, offset |-> 0, unseen |-> records \cap T]
  <2>2. records \cap T \subseteq MasterRows /\ T \in Tables
    BY ListedAssumption DEF PInv, PurchasingTypeOK
  <2>3. q \in ReaderState
    BY <2>2 DEF ReaderState
  <2>4. reader' = [reader EXCEPT ![r] = q]
        /\ UNCHANGED <<vars, records, lines, mapped, imported, clerk>>
    BY <1>1 DEF StartWalk
  <2>5. /\ q.unseen = records \cap T /\ q.table = T /\ q.offset = 0 /\ q.stage = "walking"
    OBVIOUS
  <2>6. \A x \in records \cap T : Rank(records \cap T, x) \in Nat
    BY <2>2, RankType
  <2>7. \A x \in records \cap T : Rank(records \cap T, x) >= 0
    BY <2>6
  <2> HIDE DEF q
  <2> QED
    BY <2>3, <2>4, <2>5, <2>7, ReaderMoves
<1>2. CASE EndWalk(r)
  <2>1. NoWalk \in ReaderState /\ NoWalk.unseen = {} /\ NoWalk.stage = "idle"
    BY DEF NoWalk, ReaderState, Tables
  <2>2. reader' = [reader EXCEPT ![r] = NoWalk]
        /\ UNCHANGED <<vars, records, lines, mapped, imported, clerk>>
    BY <1>2 DEF EndWalk
  <2> QED
    BY <2>1, <2>2, ReaderMoves
<1> QED
  BY <1>1, <1>2

(* A short page is the last: a row behind it would have filled it.          *)
LEMMA NextPageStep ==
    ASSUME PInv, NEW r \in Readers, NextPage(r)
    PROVE  PInv'
<1> DEFINE walk == reader[r]
           S == records \cap walk.table
           page == Page(walk.table, walk.offset)
           last == Cardinality(page) < PageLimit
           q == [stage  |-> IF last THEN "done" ELSE "walking",
                 table  |-> walk.table,
                 offset |-> IF last THEN 0 ELSE walk.offset + PageLimit,
                 unseen |-> walk.unseen \ page]
<1>1. /\ walk.stage = "walking" /\ reader' = [reader EXCEPT ![r] = q]
      /\ UNCHANGED <<vars, records, lines, mapped, imported, clerk>>
  BY DEF NextPage
<1>2. /\ walk.table \in Tables /\ walk.offset \in Nat /\ walk.unseen \subseteq MasterRows
  BY DEF PInv, PurchasingTypeOK, ReaderState
<1>3. /\ walk.unseen \subseteq S
      /\ \A x \in walk.unseen : Rank(S, x) >= walk.offset
  BY <1>1 DEF PInv, WalksAhead
<1>4. S \in SUBSET MasterRows
  BY DEF PInv, PurchasingTypeOK
<1>5. Distinct(S)
  BY <1>2 DEF PInv, DemoWhole, Clash, Distinct
<1>6. page = {z \in S : Rank(S, z) \in walk.offset .. (walk.offset + PageLimit - 1)}
  BY DEF Page, Rank, Below
<1>7. PageLimit \in Nat \ {0}
  BY TablesAssumption
<1>8. page \in SUBSET MasterRows /\ IsFiniteSet(page)
  BY <1>4, <1>6, TablesAssumption, FS_Subset
<1>9. Cardinality(page) \in Nat
  BY <1>8, FS_CardinalityType
<1>10. ASSUME NEW x \in walk.unseen \ page
       PROVE  Rank(S, x) >= walk.offset + PageLimit /\ ~last
  <2>1. x \in S /\ x \in MasterRows /\ Rank(S, x) >= walk.offset
    BY <1>3, <1>4
  <2>2. Rank(S, x) \in Nat
    BY <1>4, <2>1, RankType
  <2>3. Rank(S, x) \notin walk.offset .. (walk.offset + PageLimit - 1)
    BY <1>6, <1>10, <2>1
  <2>4. Rank(S, x) >= walk.offset + PageLimit
    BY <1>2, <1>7, <2>1, <2>2, <2>3
  <2>5. PICK o \in Nat : o = walk.offset
    BY <1>2
  <2>6. PICK A \in SUBSET MasterRows : A = S
    BY <1>4
  <2>7. Distinct(A) /\ x \in A /\ Rank(A, x) >= o + PageLimit
    BY <1>5, <2>1, <2>4, <2>5, <2>6
  <2>8. Cardinality({z \in A : Rank(A, z) \in o .. (o + PageLimit - 1)}) >= PageLimit
    BY <2>7, PageFull
  <2>9. page = {z \in A : Rank(A, z) \in o .. (o + PageLimit - 1)}
    BY <1>6, <2>5, <2>6
  <2>10. Cardinality(page) >= PageLimit
    BY <2>8, <2>9
  <2> HIDE DEF page
  <2> QED
    BY <1>7, <1>9, <2>4, <2>10
<1>11. /\ q.stage = IF last THEN "done" ELSE "walking"
       /\ q.table = walk.table
       /\ q.offset = IF last THEN 0 ELSE walk.offset + PageLimit
       /\ q.unseen = walk.unseen \ page
  OBVIOUS
<1>12. q \in ReaderState
  BY <1>2, <1>7 DEF ReaderState
<1>13. q.unseen \subseteq records \cap q.table
  BY <1>3, <1>11
<1>14. q.stage = "walking" => \A x \in q.unseen : Rank(records \cap q.table, x) >= q.offset
  <2> HIDE DEF q, page
  <2> QED
    BY <1>10, <1>11
<1>15. q.stage = "done" => q.unseen = {}
  <2> HIDE DEF q, page
  <2> QED
    BY <1>10, <1>11
<1> HIDE DEF q
<1> QED
  BY <1>1, <1>12, <1>13, <1>14, <1>15, ReaderMoves

---------------------------------------------------------------------------
(* The steps together.  Every step is one of Shipments or leaves its        *)
(* variables alone.                                                         *)

LEMMA PStep == PInv /\ [PurchasingNext]_allVars => PInv' /\ [Next]_vars
<1> SUFFICES ASSUME PInv, [PurchasingNext]_allVars PROVE PInv' /\ [Next]_vars
  OBVIOUS
<1>1. ASSUME NEW c \in Clerks, ClerkNext(c) PROVE PInv' /\ [Next]_vars
  <2>1. ASSUME NEW x \in MasterRows, PostRow(c, x) PROVE PInv' /\ [Next]_vars
    BY <2>1, PostRowStep DEF PostRow
  <2>2. ASSUME NEW o \in Orders, StartOrder(c, o) PROVE PInv' /\ [Next]_vars
    BY <2>2, OrderMoves DEF StartOrder
  <2>3. ASSUME NEW s \in Shipments, StartShipment(c, s) PROVE PInv' /\ [Next]_vars
    BY <2>3, ShipmentMoves DEF StartShipment
  <2>4. ASSUME NEW d \in Demos, StartDemo(c, d) PROVE PInv' /\ [Next]_vars
    BY <2>4, StartDemoStep DEF StartDemo
  <2>5. CASE CheckProducts(c)
    <3>1. PICK o \in Orders : o = clerk[c].order
      BY <2>5, Typed DEF CheckProducts, Waiting, PInv, OrderStages, OrderState
    <3> QED
      BY <2>5, OrderMoves DEF CheckProducts
  <2>6. CASE CheckOrder(c)
    <3>1. PICK s \in Shipments : s = clerk[c].shipment
      BY <2>6, Typed DEF CheckOrder, Waiting, PInv, ShipmentStages, ShipmentState
    <3> QED
      BY <2>6, ShipmentMoves DEF CheckOrder
  <2>7. CASE CommitOrder(c)
    BY <2>7, CommitOrderStep DEF CommitOrder
  <2>8. CASE CommitShipment(c)
    BY <2>8, CommitShipmentStep
  <2>9. CASE FlushSupplier(c) \/ FlushRows(c)
    BY <2>9, FlushStep DEF FlushSupplier, FlushRows
  <2>10. CASE SubmitDemo(c)
    BY <2>10, SubmitDemoStep DEF SubmitDemo
  <2>11. CASE GiveUp(c)
    BY <2>11, GiveUpStep DEF GiveUp
  <2> QED
    BY <1>1, <2>1, <2>2, <2>3, <2>4, <2>5, <2>6, <2>7, <2>8, <2>9, <2>10, <2>11 DEF ClerkNext
<1>2. ASSUME NEW r \in Readers, ReaderNext(r) PROVE PInv' /\ [Next]_vars
  <2>1. CASE NextPage(r)
    BY <2>1, NextPageStep DEF NextPage
  <2>2. CASE EndWalk(r)
    BY <2>2, WalkEnds DEF EndWalk
  <2>3. CASE \E T \in Listed : StartWalk(r, T)
    BY <2>3, WalkEnds DEF StartWalk
  <2> QED
    BY <1>2, <2>1, <2>2, <2>3 DEF ReaderNext
<1>3. ASSUME NEW h \in Handlers, HandlerNext(h) PROVE PInv' /\ [Next]_vars
  BY <1>3, HandlersStep
<1>4. CASE UNCHANGED allVars
  <2>1. UNCHANGED <<vars, records, lines, mapped, imported, clerk, reader>>
    BY <1>4 DEF allVars, purchasingVars
  <2>2. IInv'
    BY <2>1, StepHolds DEF PInv
  <2>3. PurchasingTypeOK' /\ DemoWhole' /\ WalksAhead'
    BY <2>1 DEF PInv, PurchasingTypeOK, DemoWhole, DemoSuppliers, WalksAhead
  <2>4. Requests' /\ HeldApart'
    BY <2>1 DEF PInv, Requests, GoodRequest, Orderable, SupplierMatches, Placed, HeldApart, Insertable
  <2>5. Agree'
    BY <2>1 DEF PInv, Agree, Placed, Exists, Orderable, SupplierMatches, vars
  <2> QED
    BY <2>1, <2>2, <2>3, <2>4, <2>5 DEF PInv
<1> QED
  BY <1>1, <1>2, <1>3, <1>4 DEF PurchasingNext

THEOREM PurchasingInvariance == PurchasingSpec => []PInv
<1> QED
  BY PInit, PStep, PTL DEF PurchasingSpec

(* Beside the rest of the service, shipments behave as Shipments says, so   *)
(* what is proved of Spec holds of PurchasingSpec.                          *)
THEOREM PurchasingComposes == PurchasingSpec => Spec
<1>1. PurchasingInit => Init
  BY DEF PurchasingInit
<1> QED
  BY <1>1, PurchasingInvariance, PStep, PTL DEF PurchasingSpec, Spec

(* Rows, requests and walks keep their types.                               *)
THEOREM PurchasingTyped == PurchasingSpec => []PurchasingTypeOK
<1> QED
  BY PurchasingInvariance, PTL DEF PInv

(* The lines of an order are numbered from one without a gap: the numbers   *)
(* and the products of a sequence without repetition are equally many.      *)
LEMMA LinesNumbered ==
    ASSUME NEW o \in Orders, Orderable(o)
    PROVE  /\ {l.product : l \in Lines(o)} \subseteq records
           /\ {l.number : l \in Lines(o)} = 1 .. Cardinality({l.product : l \in Lines(o)})
<1> DEFINE asked == OrderedProducts[o]
           n == Len(asked)
           P == {l.product : l \in Lines(o)}
           f == [i \in 1 .. n |-> asked[i]]
<1>1. asked \in Seq(Products)
  BY OrdersAssumption
<1>2. n \in Nat /\ DOMAIN asked = 1 .. n
  BY <1>1
<1>3. P = {asked[i] : i \in 1 .. n} /\ {l.number : l \in Lines(o)} = 1 .. n
  <2>1. Lines(o) = {[number |-> i, product |-> asked[i]] : i \in 1 .. n}
    BY <1>2 DEF Lines
  <2> HIDE DEF asked, n
  <2>2. \A i \in 1 .. n : [number |-> i, product |-> asked[i]] \in Lines(o)
    BY <2>1
  <2>3. \A l \in Lines(o) : l.number \in 1 .. n /\ l.product = asked[l.number]
    BY <2>1
  <2>4. \A i \in 1 .. n : \E l \in Lines(o) : l.number = i /\ l.product = asked[i]
    BY <2>2
  <2>5. {l.number : l \in Lines(o)} = 1 .. n
    BY <2>3, <2>4
  <2>6. P = {asked[i] : i \in 1 .. n}
    BY <2>3, <2>4
  <2> QED
    BY <2>5, <2>6
<1>4. f \in Bijection(1 .. n, P)
  <2>1. \A i, k \in 1 .. n : asked[i] = asked[k] => i = k
    BY <1>2 DEF Orderable
  <2>2. f \in Surjection(1 .. n, P)
    <3> HIDE DEF asked, n
    <3> QED
      BY <1>3 DEF Surjection
  <2>3. f \in Injection(1 .. n, P)
    <3>1. f \in [1 .. n -> P]
      BY <2>2 DEF Surjection
    <3>2. \A i, k \in 1 .. n : f[i] = f[k] => i = k
      BY <2>1
    <3> HIDE DEF asked, n, P, f
    <3> QED
      BY <3>1, <3>2 DEF Injection, IsInjective
  <2> QED
    BY <2>2, <2>3 DEF Bijection
<1>5. IsFiniteSet(1 .. n) /\ Cardinality(1 .. n) = n
  BY <1>2, FS_Interval
<1>6. Cardinality(P) = n
  <2> HIDE DEF f, P, n
  <2> QED
    BY <1>4, <1>5, FS_Bijection DEF ExistsBijection
<1>7. P \subseteq records
  BY <1>2, <1>3 DEF Orderable
<1> QED
  BY <1>3, <1>6, <1>7

(* Purchases hang together although each request checks its references      *)
(* before it commits.                                                       *)
THEOREM PurchasesHold == PurchasingSpec => []PurchasesAgree
<1>1. PInv => PurchasesAgree
  <2> SUFFICES ASSUME PInv PROVE PurchasesAgree
    OBVIOUS
  <2>1. Agree
    BY DEF PInv
  <2>2. ASSUME NEW o \in Orders, Placed(o)
        PROVE  /\ {l.product : l \in lines[o]} \subseteq records
               /\ {l.number : l \in lines[o]} = 1 .. Cardinality({l.product : l \in lines[o]})
    <3>1. Orderable(o) /\ lines[o] = Lines(o)
      BY <2>1, <2>2 DEF Agree
    <3> QED
      BY <3>1, LinesNumbered
  <2>3. \A s \in Shipments : Exists(s) =>
            Placed(OrderOf[s]) /\ SupplierOf[s] = BuyerFrom[OrderOf[s]]
    BY <2>1 DEF Agree, SupplierMatches
  <2> QED
    BY <2>1, <2>2, <2>3 DEF Agree, PurchasesAgree
<1> QED
  BY <1>1, PurchasingInvariance, PTL

(* A demo leaves all of its rows or none, whatever runs beside it.          *)
THEOREM DemosWhole == PurchasingSpec => []DemoWhole
<1> QED
  BY PurchasingInvariance, PTL DEF PInv

(* A walk to the last page misses no row there was when it began.           *)
THEOREM WalksComplete == PurchasingSpec => []WalkComplete
<1>1. PInv => WalkComplete
  BY DEF PInv, WalksAhead, WalkComplete
<1> QED
  BY <1>1, PurchasingInvariance, PTL

---------------------------------------------------------------------------
(* What shipments promise, they promise beside the rest of the service.     *)

(* Whoever creates master data, orders and shipments meanwhile, an event is *)
(* recorded once, the history explains the shipment, a carrier's event       *)
(* begins to reach a shipment only while it is alone with its reference,    *)
(* and only late decisions depart from the lifecycle.                       *)
THEOREM BookedShipmentsHold ==
    PurchasingSpec => /\ [](RecordedOnce /\ HistoryExplains)
                      /\ CarrierFindsOne
                      /\ OnlyLateDecisionsDepart
<1> QED
  BY PurchasingComposes, NoDuplicates, Explained, CarrierReachesOne, LateDecisionsOnly, PTL

(* With events handled one at a time, booked shipments implement the         *)
(* lifecycle and their instants are written once.                           *)
THEOREM BookedShipmentsSerial ==
    ASSUME OneHandler
    PROVE  PurchasingSpec => ImplementsLifecycle /\ TimesStable
<1> QED
  BY PurchasingComposes, SerialRefinement, SerialTimes, PTL
=============================================================================
