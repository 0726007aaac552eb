SPECIFICATION Spec
CONSTANTS
  Bits = 2
  Stealth = {sa, sb, web_a, web_b}
  web_a = web_a
  web_b = web_b
  gw_a = gw_a
  gw_b = gw_b
  sa = sa
  sb = sb
  Node <- MCNode
  Client <- MCClient
  LocalStealth <- MCLocalStealth
  PeersById <- MCPeersById
  PeersByStealth <- MCPeersByStealth
  Table <- MCTable
  HomeGateway <- MCHomeGateway
  PublicId = {"web-a", "web-b"}
  PublicIdOf <- MCPublicIdOf
  Published <- MCPublished
  Tun = {}
  Packet = {}
  Multicast = {}
  LocalTraffic <- MCLocalTraffic
  Thread = {t1, t2}
  At <- MCAt
  Command <- Requests
  Ttl = 2
  Faults = {"loss", "send"}
  MaxDups = 1
  MaxRestarts = 1
  KeepaliveRounds <- NoKeepalives
  RegisterRounds <- NoRegistrations
INVARIANTS
  TypeOK
  NoLeakedRequests
  WaiterHasSender
  AtMostOneAnswer
  UniqueIds
CHECK_DEADLOCK FALSE
