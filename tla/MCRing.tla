------------------------------- MODULE MCRing -------------------------------
(***************************************************************************)
(* Daemon and its properties on three gateways whose overlay routes are    *)
(* wrong in the ways a static configuration can be: the routes to sx, a    *)
(* node that is gone, lead round and round the ring; ga names gb as the    *)
(* hop to gc although gc is its peer too; gd has no peer entry for ga.     *)
(***************************************************************************)
EXTENDS DaemonProperties, NodeConfig

CONSTANTS ga, gb, gc, gd, sga, sgb, sgc, sgd, sx

Peer(i, s) == [id |-> i, stealth |-> s]
Static(a, s) == [prefix |-> [addr |-> a, len |-> Bits], stealth |-> s]
Overlay(s, i) == [destination |-> s, via |-> i]

MCNode         == {ga, gb, gc, gd}
MCLocalStealth == (ga :> sga) @@ (gb :> sgb) @@ (gc :> sgc) @@ (gd :> sgd)
Peers ==
  (ga :> <<Peer(gb, sgb), Peer(gc, sgc), Peer(gd, sgd)>>) @@
  (gb :> <<Peer(ga, sga), Peer(gc, sgc)>>) @@
  (gc :> <<Peer(ga, sga), Peer(gb, sgb)>>) @@ (gd :> <<>>)
OverlayRoutes ==
  (ga :> <<Overlay(sx, gb), Overlay(sgc, gb)>>) @@ (gb :> <<Overlay(sx, gc)>>) @@
  (gc :> <<Overlay(sx, ga)>>) @@ (gd :> <<>>)

ById      == [n \in MCNode |-> LoadPeersById(Peers[n])]
ByStealth == [n \in MCNode |-> LoadPeersByStealth(Peers[n])]
\* Address 0 is behind the node that is gone, 1 is gd's, 2 gb's and 3 gc's.
\* Address 4 has moved to gb, which owns it, while the routes still name sx.
Tables == [n \in MCNode |->
             FromConfig(<<Static(0, sx), Static(1, sgd), Static(2, sgb),
                          Static(3, sgc), Static(4, sx)>>, OverlayRoutes[n],
                        IF n = gb THEN {[addr |-> 4, len |-> Bits]} ELSE {})]
\* TLC evaluates the three once, and what a .cfg substitutes at every use.
MCTable          == Tables
MCPeersById      == ById
MCPeersByStealth == ByStealth
Nowhere     == <<>>
MCPublished == [n \in MCNode |-> [enabled |-> FALSE, entries |-> {}]]

Ip(bytes, dst) == [version |-> 4, bytes |-> bytes, dst |-> dst]
MCPacket    == {Ip(40, 0), Ip(40, 1), Ip(40, 2), Ip(40, 4)}
AllAtA      == [n \in MCNode |-> IF n = ga THEN MCPacket ELSE {}]
PacketForC  == {Ip(40, 3)}
ForCAtA     == [n \in MCNode |-> IF n = ga THEN PacketForC ELSE {}]
MCAt        == [t \in Thread |-> ga]
Ping(target, count) == [op |-> "ping", target |-> target, count |-> count]
PingTheGone == {Ping(sx, 1), Ping(sgc, 1)}
NoKeepalives == [n \in MCNode |-> 0]
NoRegistrations == <<>>
=============================================================================
