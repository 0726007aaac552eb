SPECIFICATION FairSpec
CONSTANTS
  Bits = 2
  Stealth = {sca, sga, sgb, scb}
  ca = ca
  ga = ga
  gb = gb
  cb = cb
  sca = sca
  sga = sga
  sgb = sgb
  scb = scb
  Node <- MCNode
  Client <- MCClient
  LocalStealth <- MCLocalStealth
  PeersById <- MCPeersById
  PeersByStealth <- MCPeersByStealth
  Table <- MCTable
  HomeGateway <- MCHomeGateway
  PublicId = {"client-a", "client-b"}
  PublicIdOf <- MCPublicIdOf
  Published <- MCPublished
  Packet <- MCPacket
  Multicast <- MCMulticast
  Tun = {ca, cb}
  LocalTraffic <- BothWays
  Thread = {t1}
  At <- AtClientA
  Command <- EndToEnd
  Ttl = 3
  Faults = {}
  MaxDups = 0
  MaxRestarts = 0
  KeepaliveRounds <- FromGatewayA
  RegisterRounds <- NoRegistrations
PROPERTIES
  PingsComeBack
  PacketsArrive
CHECK_DEADLOCK FALSE
