\* An account is disconnected once.
SPECIFICATION FairSpec
CONSTANTS
  ann = ann
  bob = bob
  github = github
  gitlab = gitlab
  own1 = own1
  own2 = own2
  Users = {ann, bob}
  Accounts = {github, gitlab}
  Names = {own1, own2}
  Claims = {}
  Ids = {1, 2}
  Variants <- UnusableLogins
  Fallback <- OwnNames
  Requests = {r1}
  MaxArrivals = 2
  MaxMishaps = 1
CHECK_DEADLOCK FALSE
PROPERTY DisconnectingReleases
