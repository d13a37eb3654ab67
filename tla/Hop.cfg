SPECIFICATION Spec
CONSTANTS
  SkipLen = 1
  PrekeyLen = 2
  IvLen = 1
  MaxPayload = 7
  Headroom = 1
  MaxHandshakeRecords = 3
  Secrets = {"s1", "s2"}
  Host = "host"
  Links <- MCLinks
  UpWrites = {1, 8}
  DownWrites = {1, 9}
  Frames = {0, 3, 5, 8, 9}
  MaxOdd = 1
  Probes <- MCProbes
  MaxProbes = 2
INVARIANTS TypeOK KeystreamOnce DcKept StrangersGetNothing
PROPERTIES ImplementsUpPipe ImplementsDownPipe OwnStreamArrives
