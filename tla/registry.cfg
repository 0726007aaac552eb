SPECIFICATION FairSpec
CONSTANTS
  Bits = 1
  Stealth = {sga, sgb, scb}
  ga = ga
  gb = gb
  cb = cb
  sga = sga
  sgb = sgb
  scb = scb
  Node <- MCNode
  Client <- MCClient
  LocalStealth <- MCLocalStealth
  PeersById <- MCPeersById
  PeersByStealth <- MCPeersByStealth
  Table <- MCTable
  HomeGateway <- MCHomeGateway
  PublicId = {"client-b"}
  PublicIdOf <- MCPublicIdOf
  Published <- MCPublished
  Packet = {}
  Multicast = {}
  Tun = {}
  LocalTraffic <- NoTraffic
  Thread = {t1, t2}
  At <- MCAt
  Command <- TheCatalog
  Ttl = 1
  Faults = {}
  MaxDups = 0
  MaxRestarts = 1
  KeepaliveRounds <- NoKeepalives
  RegisterRounds <- TwoRounds
PROPERTIES
  ListingsAreCurrent
  Reregistered
CHECK_DEADLOCK FALSE
