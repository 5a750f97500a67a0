\* One product mapping, one warehouse mapping, one position, two requests, one import of up to two records.
SPECIFICATION Spec
CONSTANTS
  s1 = s1
  l1 = l1
  n1 = n1
  n2 = n2
  p1 = p1
  w1 = w1
  Skus = {s1}
  Locations = {l1}
  Products = {p1}
  Warehouses = {w1}
  Units = {1, 2}
  References = {n1, n2}
  Records <- SomeRecords
  ProductSettings <- SomeProductSettings
  WarehouseSettings <- SomeWarehouseSettings
  Quantities <- SomeQuantities
  Handlers = {h1, h2}
  Workers = {i1}
  LastVersion = 2
SYMMETRY Symmetric
INVARIANTS
  TypeOK
  SnapshotProvenance
PROPERTIES
  ImplementsBook
  OnlyOvertakenWritesMix
