\* Two users who default to the same names and claim them, in at most two
\* requests at a time; nobody has connected an account.
SPECIFICATION Spec
CONSTANTS
  ann = ann
  bob = bob
  github = github
  gitlab = gitlab
  own1 = own1
  own2 = own2
  Users = {ann, bob}
  Accounts = {}
  Names = {own1, own2}
  Claims = {own1, own2}
  Ids = {1, 2, 3, 4}
  Variants <- NoAccounts
  Fallback <- SameNames
  Requests = {r1, r2}
  MaxArrivals = 4
  MaxMishaps = 1
CHECK_DEADLOCK FALSE
INVARIANT OneHolderPerName
PROPERTY ProfileKeepsItsId
