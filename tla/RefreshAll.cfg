\* The daily pass, one row at a time, against two requests of two users who
\* default to the same name; nobody has connected an account, and none is
\* renamed, which would change nothing that the pass reads.
SPECIFICATION FairPassSpec
CONSTANTS
  ann = ann
  bob = bob
  merlin = merlin
  merlin2 = merlin2
  Users = {ann, bob}
  Accounts = {}
  Names = {merlin, merlin2}
  Claims = {}
  Ids = {1, 2, 3}
  Variants <- NoLogins
  Fallback <- SameNames
  Requests = {r1, r2}
  MaxArrivals = 3
  MaxMishaps = 1
  BatchSize = 1
INVARIANTS PassTypeOK PassIsStable
PROPERTY PassEnds
CHECK_DEADLOCK FALSE
