\* One job, two workers that may stall, two publishers.
SPECIFICATION FairSpec
CONSTANTS
  NoJob = NoJob
  Jobs = {j1}
  Workers = {w1, w2}
  Publishers = {p1, p2}
  Keys = {k1}
  RowsOf <- AllRows
  MaxAttempts = 2
  Faults = {"stall", "lostAck"}
\* Once every job has settled and the queue is empty the system rests.
CHECK_DEADLOCK FALSE
PROPERTIES
  Settles
