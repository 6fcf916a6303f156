SPECIFICATION FairSpec
CONSTANTS
  p1 = p1
  p2 = p2
  a1 = a1
  a2 = a2
  a3 = a3
  Peer <- Peers
  Self = Self
  Addr <- Addresses
  OwnAddr = OwnAddr
  MaxVer = 1
  MaxNet = 2
PROPERTY HeartbeatRecorded
