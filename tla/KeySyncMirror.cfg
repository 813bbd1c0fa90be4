\* The crawler and a refresh of the same account, one revocation.
SPECIFICATION FairSpec
CONSTANTS
  crawler = crawler
  refresh = refresh
  revocation = revocation
  N = 2
  MaxVersion = 2
  PageSize = 2
  HidesKeys = FALSE
  Syncs = {crawler, refresh}
  Revokes = {revocation}
  MaxChanges = 1
  MaxMishaps = 1
CHECK_DEADLOCK FALSE
INVARIANTS TypeOK AlreadyGoneIsGone
PROPERTIES SteadyKeyKeepsItsRow FreshSyncsMirror EventuallyMirrors
