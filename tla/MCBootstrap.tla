----------------------------- MODULE MCBootstrap -----------------------------
(***************************************************************************)
(* Bootstrap for a client with its home gateway ga and another node gx     *)
(* that is among its peers, with a key that is out of date, only in some   *)
(* versions of the file.                                                   *)
(***************************************************************************)
EXTENDS Bootstrap

CONSTANTS ga, gx, ka, kx, old, sga, sgx, sca, scb

MCSender == {ga, gx}
MCPublicKey == (ga :> ka) @@ (gx :> kx)
MCLocalStealth == (ga :> sga) @@ (gx :> sgx)

Peer(stealth, key) == [stealth |-> stealth, public_key |-> key]
Host(addr) == [addr |-> addr, len |-> Bits]
\* examples/client-a.v2.docker.toml: both are requested, the rest is open.
AsExample ==
  [stealth |-> sca, home_gateway_id |-> ga, peers |-> (ga :> Peer(sga, ka)),
   tun |-> TRUE, tun_address |-> {}, owned_prefixes |-> {}, timeout |-> 1,
   requested_stealth |-> {sca}, requested_overlay_ip |-> {Host(0)}]
\* Nothing is requested: the name and the TUN address of the file are.
Unrequested ==
  [AsExample EXCEPT !.peers = @ @@ (gx :> Peer(sgx, old)), !.tun_address = {Host(1)},
                    !.requested_stealth = {}, !.requested_overlay_ip = {}]
\* Another name, and no TUN device.
Renamed == [AsExample EXCEPT !.tun = FALSE, !.requested_stealth = {scb}]
\* Files with which the client cannot come up.
Unknown == [AsExample EXCEPT !.home_gateway_id = gx]
NoWait  == [AsExample EXCEPT !.timeout = 0]
MCFile == {AsExample, Unrequested, Renamed, Unknown, NoWait}
=============================================================================
