\* One job, three workers, every fault.
SPECIFICATION Spec
CONSTANTS
  NoJob = NoJob
  Jobs = {j1}
  Workers = {w1, w2, w3}
  Publishers = {p1}
  Keys = {k1}
  RowsOf <- AllRows
  MaxAttempts = 3
  Faults = {"stall", "preclaim", "lostAck"}
SYMMETRY Symmetric
\* Once every job has settled and the queue is empty the system rests.
CHECK_DEADLOCK FALSE
INVARIANTS
  TypeOK
  AttemptLedger
  ProcessingIsRecoverable
  RowsAccounted
PROPERTIES
  ImportedOnce
  ImplementsLedger
