\* Every kind of bridge, peers that may close or stop reading at any moment.
SPECIFICATION FairSpec
CONSTANTS
  Kinds = {"packets", "tunnel", "relay", "tcp"}
  Streams <- AllStreams
  ReadBuf = 7
  Messages <- TwoMessages
  MayStall = TRUE
INVARIANTS TypeOK RemoteSeesStream TotalsHonest
PROPERTIES OnePacketPerMessage ClosedSideEndsSession
CHECK_DEADLOCK FALSE
