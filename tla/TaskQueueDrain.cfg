\* Two rival requests and one worker slot, with every fault there is.
SPECIFICATION FairSpec
CONSTANTS
  c1 = c1
  c2 = c2
  c3 = c3
  refresh = refresh
  revoke = revoke
  Calls = {c1, c2}
  Works = {refresh}
  WorkOf <- OneWork
  MaxAttempts = 2
  MaxWorkers = 1
  Faults = {"request_ctx", "job_ctx", "db_error", "insert_error", "lost_reply", "lost_insert", "crash"}
CHECK_DEADLOCK FALSE
PROPERTY JobsDrain
