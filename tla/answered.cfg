SPECIFICATION FairSpec
CONSTANTS
  Bits = 2
  Stealth = {sca, sga, sgb, scb}
  ca = ca
  ga = ga
  gb = gb
  cb = cb
  sca = sca
  sga = sga
  sgb = sgb
  scb = scb
  Node <- MCNode
  Client <- MCClient
  LocalStealth <- MCLocalStealth
  PeersById <- MCPeersById
  PeersByStealth <- MCPeersByStealth
  Table <- MCTable
  HomeGateway <- MCHomeGateway
  PublicId = {"client-a", "client-b"}
  PublicIdOf <- MCPublicIdOf
  Published <- MCPublished
  Packet <- MCPacket
  Multicast <- MCMulticast
  Tun = {}
  LocalTraffic <- NoTraffic
  Thread = {t1, t2}
  At <- AtGatewayA
  Command <- SeveralTargets
  Ttl = 2
  Faults = {"loss", "send"}
  MaxDups = 1
  MaxRestarts = 0
  KeepaliveRounds <- NoKeepalives
  RegisterRounds <- NoRegistrations
INVARIANTS
  AnswersMatchRequests
PROPERTIES
  RequestsAnswered
  ImplementsAdminCall
CHECK_DEADLOCK FALSE
