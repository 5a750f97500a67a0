\* One job, two workers, one of which may outlive its lease.
SPECIFICATION Spec
CONSTANTS
  NoJob = NoJob
  Jobs = {j1}
  Workers = {w1, w2}
  Publishers = {p1}
  Keys = {k1}
  RowsOf <- AllRows
  MaxAttempts = 2
  Faults = {"stall"}
SYMMETRY Symmetric
\* Once every job has settled and the queue is empty the system rests.
CHECK_DEADLOCK FALSE
PROPERTIES
  TerminalStable
