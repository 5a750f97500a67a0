\* Two requests at a time, on one shipment.
SPECIFICATION Spec
CONSTANTS
  NoTime = NoTime
  Booked = Booked
  Shipments = {s1}
  SupplierOf <- TwoSuppliers
  ReferenceOf <- OneReference
  Events <- Sent
  CarrierEvents <- FromCarrier
  IdOf <- SentIdOf
  TypeOf <- SentTypeOf
  Handlers = {h1, h2}
PROPERTIES
  OnlyValidChanges
