\* The only fault: the request's context is cancelled.
SPECIFICATION Spec
CONSTANTS
  c1 = c1
  c2 = c2
  c3 = c3
  refresh = refresh
  revoke = revoke
  Calls = {c1, c2}
  Works = {refresh}
  WorkOf <- OneWork
  MaxAttempts = 2
  MaxWorkers = 2
  Faults = {"request_ctx"}
CHECK_DEADLOCK FALSE
INVARIANT QueueFailureIsSettled
