\* One event loop, two replay threads, three jobs, two keys, two payloads, two days.
SPECIFICATION Spec
CONSTANTS
  NoJob = NoJob
  Jobs = {j1, j2, j3}
  Keys = {k1, k2}
  Contents = {c1, c2}
  Loops = {l1}
  Threads = {t1, t2}
  LastDay = 1
  Stalls = FALSE
SYMMETRY Symmetric
INVARIANTS
  TypeOK
  StoredBeforeNamed
  ReplayChains
  ReplayedStaysFailed
PROPERTIES
  ImplementsRegistry
