SPECIFICATION FairSpec
CONSTANTS
  Bits = 3
  Stealth = {sga, sgb, sgc, sgd, sx}
  ga = ga
  gb = gb
  gc = gc
  gd = gd
  sga = sga
  sgb = sgb
  sgc = sgc
  sgd = sgd
  sx = sx
  Node <- MCNode
  Client = {}
  LocalStealth <- MCLocalStealth
  PeersById <- MCPeersById
  PeersByStealth <- MCPeersByStealth
  Table <- MCTable
  HomeGateway <- Nowhere
  PublicId = {}
  PublicIdOf <- Nowhere
  Published <- MCPublished
  Packet <- MCPacket
  Multicast = {}
  Tun = {ga, gb}
  LocalTraffic <- AllAtA
  Thread = {t1}
  At <- MCAt
  Command <- PingTheGone
  Ttl = 3
  Faults = {"loss", "tun"}
  MaxDups = 1
  MaxRestarts = 0
  KeepaliveRounds <- NoKeepalives
  RegisterRounds <- NoRegistrations
INVARIANTS
  TypeOK
  FramesFollowRoutes
  PacketsLandWhereRouted
PROPERTIES
  NoAmplification
  NetworkDrains
CHECK_DEADLOCK FALSE
