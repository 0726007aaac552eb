SPECIFICATION Spec
CONSTANTS
  Bits = 2
  Stealth = {sca, sga, sgb, scb}
  ca = ca
  ga = ga
  gb = gb
  cb = cb
  sca = sca
  sga = sga
  sgb = sgb
  scb = scb
  Node <- MCNode
  Client <- MCClient
  LocalStealth <- MCLocalStealth
  PeersById <- MCPeersById
  PeersByStealth <- MCPeersByStealth
  Table <- MCTable
  HomeGateway <- MCHomeGateway
  PublicId = {"client-a", "client-b"}
  PublicIdOf <- MCPublicIdOf
  Published <- MCPublished
  Packet <- MCPacket
  Multicast <- MCMulticast
  Tun = {}
  LocalTraffic <- NoTraffic
  Thread = {t1, t2}
  At <- AtGatewayA
  Command <- Neighbours
  Ttl = 2
  Faults = {"loss"}
  MaxDups = 0
  MaxRestarts = 1
  KeepaliveRounds <- NoKeepalives
  RegisterRounds <- NoRegistrations
INVARIANT AnswersMatchRequests
CHECK_DEADLOCK FALSE
