\* Two users with two accounts between them and one request at a time; accounts
\* are switched, and handlers fail, at most twice.
SPECIFICATION FairSpec
CONSTANTS
  ann = ann
  bob = bob
  github = github
  gitlab = gitlab
  own1 = own1
  own2 = own2
  Users = {ann, bob}
  Accounts = {github, gitlab}
  Names = {own1, own2}
  Claims = {}
  Ids = {1, 2}
  Variants <- UnusableLogins
  Fallback <- OwnNames
  Requests = {r1}
  MaxArrivals = 2
  MaxMishaps = 2
CHECK_DEADLOCK FALSE
INVARIANT OwnershipIsProven
PROPERTIES ImplementsRegistry EventuallyOwned
