SPECIFICATION Spec
CONSTANTS
  Bits = 3
  Stealth = {sga, sgb, sgc, sgd, sx}
  ga = ga
  gb = gb
  gc = gc
  gd = gd
  sga = sga
  sgb = sgb
  sgc = sgc
  sgd = sgd
  sx = sx
  Node <- MCNode
  Client = {}
  LocalStealth <- MCLocalStealth
  PeersById <- MCPeersById
  PeersByStealth <- MCPeersByStealth
  Table <- MCTable
  HomeGateway <- Nowhere
  PublicId = {}
  PublicIdOf <- Nowhere
  Published <- MCPublished
  Packet <- PacketForC
  Multicast = {}
  Tun = {ga, gb}
  LocalTraffic <- ForCAtA
  Thread = {}
  At <- MCAt
  Command = {}
  Ttl = 3
  Faults = {"loss", "tun"}
  MaxDups = 1
  MaxRestarts = 0
  KeepaliveRounds <- NoKeepalives
  RegisterRounds <- NoRegistrations
INVARIANT ConfiguredHopIsUsed
CHECK_DEADLOCK FALSE
