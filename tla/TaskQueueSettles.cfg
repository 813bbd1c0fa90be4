\* Two rival requests and one for other work; River may refuse jobs, and
\* operations fail, but the database and the processes stay up.
SPECIFICATION FairSpec
CONSTANTS
  c1 = c1
  c2 = c2
  c3 = c3
  refresh = refresh
  revoke = revoke
  Calls = {c1, c2, c3}
  Works = {refresh, revoke}
  WorkOf <- TwoWorks
  MaxAttempts = 2
  MaxWorkers = 1
  Faults = {"insert_error"}
CHECK_DEADLOCK FALSE
INVARIANTS AnswerIsSameWork ActiveIsDriven
PROPERTIES SuccessIsFinal EventuallySettled
