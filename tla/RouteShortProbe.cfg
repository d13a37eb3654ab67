\* Two connections of one DC that both time out.
SPECIFICATION Spec
CONSTANTS
  dc2 = dc2
  dc4 = dc4
  dc5 = dc5
  ip = ip
  NoIp = NoIp
  Conns = {c1, c2}
  Dcs = {dc2}
  Media = {FALSE}
  Ips = {ip}
  TargetIp <- SharedIp
  BuiltIn = {dc2}
  CfTiers = {}
  Upstreams = 0
  FakeTls = {}
  CfPriority = FALSE
  Fronting = FALSE
  WsFailCooldown = 1
  WsRedirectCooldown = 2
  IpFailCooldown = 2
  UpstreamFailCooldown = 1
  FrontingFailCooldown = 1
  FrontingCooldown = 2
  MaxTime = 1
PROPERTIES IpCooledAtFullTimeout
