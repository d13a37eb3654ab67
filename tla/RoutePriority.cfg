\* --cf-priority with a Worker and domain fronting.
SPECIFICATION Spec
CONSTANTS
  dc2 = dc2
  dc4 = dc4
  dc5 = dc5
  ip = ip
  NoIp = NoIp
  Conns = {c1, c2}
  Dcs = {dc2}
  Media = {FALSE}
  Ips = {ip}
  TargetIp <- SharedIp
  BuiltIn = {dc2}
  CfTiers = {"worker"}
  Upstreams = 1
  FakeTls = {}
  CfPriority = TRUE
  Fronting = TRUE
  WsFailCooldown = 1
  WsRedirectCooldown = 2
  IpFailCooldown = 1
  UpstreamFailCooldown = 1
  FrontingFailCooldown = 1
  FrontingCooldown = 1
  MaxTime = 1
SYMMETRY Symmetry
INVARIANTS TypeOK
PROPERTIES ImplementsLadder
