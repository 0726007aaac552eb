SPECIFICATION FairSpec
CONSTANTS
  Bits = 1
  ga = ga
  gx = gx
  ka = ka
  kx = kx
  old = old
  sga = sga
  sgx = sgx
  sca = sca
  scb = scb
  Stealth = {sga, sgx, sca, scb}
  Sender <- MCSender
  PublicKey <- MCPublicKey
  LocalStealth <- MCLocalStealth
  Gateway = {ga}
  Keys = {ka, kx, old}
  File <- MCFile
  KeepalivePeriod = 3
  Faults = {"loss", "send"}
  MaxAttempts = 2
  MaxDups = 1
  MaxTraffic = 1
INVARIANTS
  TypeOK
PROPERTIES
  RunsAsRequested
  OwnsItsAddress
  BootstrapEnds
CHECK_DEADLOCK FALSE
