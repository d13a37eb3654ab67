\* The same promise with a FakeTLS upstream, which may never answer.
SPECIFICATION FairSpec
CONSTANTS
  dc2 = dc2
  dc4 = dc4
  dc5 = dc5
  ip = ip
  NoIp = NoIp
  Conns = {c1}
  Dcs = {dc2}
  Media = {FALSE}
  Ips = {ip}
  TargetIp <- SharedIp
  BuiltIn = {dc2}
  CfTiers = {}
  Upstreams = 1
  FakeTls = {1}
  CfPriority = FALSE
  Fronting = FALSE
  WsFailCooldown = 1
  WsRedirectCooldown = 2
  IpFailCooldown = 2
  UpstreamFailCooldown = 1
  FrontingFailCooldown = 1
  FrontingCooldown = 2
  MaxTime = 0
PROPERTIES EventuallyRouted
