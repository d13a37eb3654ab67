\* Two clients on both tiers, spares kept, no balancing.
SPECIFICATION Spec
CONSTANTS
  Dcs = {dc2}
  Clients = {c1, c2}
  Tasks = {t1, t2}
  Workers <- TwoWorkers
  Zones <- OneZone
  PoolSize = 2
  CfBalance = FALSE
SYMMETRY Symmetry
INVARIANTS TypeOK CfBudget SparesKnown
