\* Three rival requests, two workers, every fault but a lost reply of River's
\* Insert.
SPECIFICATION Spec
CONSTANTS
  c1 = c1
  c2 = c2
  c3 = c3
  refresh = refresh
  revoke = revoke
  Calls = {c1, c2, c3}
  Works = {refresh}
  WorkOf <- ThreeRivals
  MaxAttempts = 2
  MaxWorkers = 2
  Faults = {"request_ctx", "job_ctx", "db_error", "insert_error", "lost_reply", "crash"}
CHECK_DEADLOCK FALSE
INVARIANTS TypeOK WorkExclusive RefusedNeverRuns
PROPERTY ImplementsLock
