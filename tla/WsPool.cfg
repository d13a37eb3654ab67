\* One bucket: the clock runs past max_age and every dial may fail while a
\* client comes back again and again, two of its refills and warmup overlap.
SPECIFICATION FairSpec
CONSTANTS
  Dcs = {dc2}
  Media = {FALSE}
  Clients = {c1}
  Tasks = {t1, t2}
  PoolSize = 2
  MaxAge = 1
  MaxTime = 2
  DialFails = TRUE
INVARIANTS TypeOK FdBudget GuardExact
PROPERTIES HandsOutFreshest RefillKeepsSize RefillReleases
