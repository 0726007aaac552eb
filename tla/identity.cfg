SPECIFICATION FairSpec
CONSTANTS
  Node = {1, 2, 3}
  Peers <- MCPeers
  MaxCrashes = 1
  MaxRemoved = 1
INVARIANTS
  TypeOK
  CopiedKeysAreKept
PROPERTIES
  PeersTalk
CHECK_DEADLOCK FALSE
