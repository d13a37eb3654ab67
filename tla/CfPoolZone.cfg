\* Balancing over two zones.
SPECIFICATION Spec
CONSTANTS
  Dcs = {dc2}
  Clients = {c1}
  Tasks = {t1}
  Workers <- NoDomains
  Zones <- TwoZones
  PoolSize = 1
  CfBalance = TRUE
INVARIANTS RecordExpanded
