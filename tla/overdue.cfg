SPECIFICATION Spec
CONSTANTS
  Bits = 1
  ga = ga
  gx = gx
  ka = ka
  kx = kx
  old = old
  sga = sga
  sgx = sgx
  sca = sca
  scb = scb
  Stealth = {sga, sgx, sca, scb}
  Sender <- MCSender
  PublicKey <- MCPublicKey
  LocalStealth <- MCLocalStealth
  Gateway = {ga}
  Keys = {ka, kx, old}
  File <- MCFile
  KeepalivePeriod = 3
  Faults = {"loss"}
  MaxAttempts = 1
  MaxDups = 0
  MaxTraffic = 0
INVARIANTS
  WithinTimeout
CHECK_DEADLOCK FALSE
