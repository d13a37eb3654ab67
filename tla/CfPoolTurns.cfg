\* Consecutive connections under balancing.
SPECIFICATION Spec
CONSTANTS
  Dcs = {dc2}
  Clients = {c1}
  Tasks = {t1}
  Workers <- TwoWorkers
  Zones <- NoDomains
  PoolSize = 1
  CfBalance = TRUE
PROPERTIES TurnsAlternate
