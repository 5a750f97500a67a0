\* Two clerks, one of whom may run the demo, a reader of the listings and a handler of events.
SPECIFICATION PurchasingSpec
CONSTANTS
  NoTime = NoTime
  Booked = Booked
  Shipments <- AllShipments
  SupplierOf <- AllShipmentSuppliers
  ReferenceOf <- OneTracking
  Events <- Sent
  CarrierEvents <- FromCarrier
  IdOf <- SentIdOf
  TypeOf <- SentTypeOf
  Handlers = {h1}
  Suppliers <- AllSuppliers
  Products <- AllProducts
  Warehouses <- AllWarehouses
  CodeOf <- Codes
  Orders <- AllOrders
  BuyerFrom <- AllBuyers
  OrderReference <- OneOrderReference
  OrderedProducts <- AllOrderedProducts
  OrderOf <- AllShipmentOrders
  Demos = {"demo"}
  DemoRows <- OneDemo
  DemoCode = 1
  Clerks = {c1, c2}
  Readers = {r1}
  Listed <- SuppliersListed
  PageLimit = 1
SYMMETRY Symmetric
INVARIANTS
  PurchasingTypeOK
  PurchasesAgree
  DemoWhole
  WalkComplete
PROPERTIES
  CarrierFindsOne
  TimesStable
  ImplementsLifecycle
