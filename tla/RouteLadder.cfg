\* The default ladder: one DC with a --dc-ip entry, one without.
SPECIFICATION FairSpec
CONSTANTS
  dc2 = dc2
  dc4 = dc4
  dc5 = dc5
  ip = ip
  NoIp = NoIp
  Conns = {c1, c2}
  Dcs = {dc2, dc5}
  Media = {FALSE}
  Ips = {ip}
  TargetIp <- SharedIp
  BuiltIn = {dc2, dc5}
  CfTiers = {"worker", "proxy"}
  Upstreams = 1
  FakeTls = {1}
  CfPriority = FALSE
  Fronting = FALSE
  WsFailCooldown = 1
  WsRedirectCooldown = 2
  IpFailCooldown = 2
  UpstreamFailCooldown = 1
  FrontingFailCooldown = 1
  FrontingCooldown = 2
  MaxTime = 1
PROPERTIES HeldOnlyByHello ImplementsLadder
