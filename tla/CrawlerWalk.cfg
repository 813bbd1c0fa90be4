\* Two or three users in batches of two; a refresh worker draws on the same quota.
SPECIFICATION FairSpec
CONSTANTS
  crawler = crawler
  worker1 = worker1
  worker2 = worker2
  scrape = scrape
  serve = serve
  Callers = {crawler, worker1}
  Processes = {scrape, serve}
  ProcessOf <- OneWorker
  Quota = 1
  MaxMishaps = 1
  MaxUser = 3
  FirstUsers = {{1, 3}, {1, 2, 3}}
  BatchSize = 2
  MaxChurn = 1
  MaxJobs = 1
INVARIANTS TypeOK NoNeedlessSleep
PROPERTIES QuietUntilReset NobodyIsPassedBy EveryoneIsVisited StopsWhenCancelled
