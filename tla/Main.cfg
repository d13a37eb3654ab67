SPECIFICATION MainSpec
CONSTANTS
  c1 = c1
  c2 = c2
  c3 = c3
  NotGiven = NotGiven
  None = None
  Responses <- MCResponses
  Builtin <- MCBuiltin
  Letters = 3
  MaxHeader = 3
  MaxBody = 5
  MaxRead = 3
  CfDomains <- MCCfDomains
  Workers <- MCWorkers
  Upstreams <- MCUpstreams
  Clients <- MCClients
  Requests <- MCRequests
  FdLimit = 8
  PoolFds = 1
  CfFds = 1
  RuntimeReserved = 2
  RuntimeFds = 1
  MinMaxConnections = 1
  MaxDials = 1
INVARIANTS TypeOK WholeListOrBuiltin AcceptableUsed BufferBounded VerdictHonest BudgetSuffices PermitsKept
PROPERTIES StartupEnds WaitsOnlyForCapacity
