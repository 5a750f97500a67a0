\* Two jobs that carry the same row, no fault beyond crashes and lost or repeated messages.
SPECIFICATION Spec
CONSTANTS
  NoJob = NoJob
  Jobs = {j1, j2}
  Workers = {w1, w2}
  Publishers = {p1}
  Keys = {k1}
  RowsOf <- AllRows
  MaxAttempts = 2
  Faults = {}
SYMMETRY Symmetric
\* Once every job has settled and the queue is empty the system rests.
CHECK_DEADLOCK FALSE
INVARIANTS
  ExclusiveWorker
  CountsAgree
PROPERTIES
  TerminalStable
  ImplementsLifecycle
