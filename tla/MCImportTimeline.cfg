\* One job with two rows, two workers, one console that follows it, no fault beyond crashes and lost or repeated messages.
SPECIFICATION TimelineSpec
CONSTANTS
  NoJob = NoJob
  Jobs = {j1}
  Workers = {w1, w2}
  Publishers = {p1}
  Keys = {k1, k2}
  RowsOf <- AllRows
  MaxAttempts = 2
  Faults = {}
  Consoles = {c1}
  MaxPolls = 2
  MaxReceipts = 1
  LastInstant = 9
SYMMETRY Symmetric
\* Once every job has settled the pipeline rests.
CHECK_DEADLOCK FALSE
INVARIANTS
  TimelineTypeOK
  TimelineExplains
  TimelineOrdered
  StreamHasNoGap
  OutcomeShown
