------------------------------- MODULE MCDemo -------------------------------
(***************************************************************************)
(* Daemon and its properties on the network of compose.v2.yaml: a line     *)
(* ca -- ga -- gb -- cb of two clients, each homed at its gateway, with    *)
(* the peers, routes and overlay routes of examples/*.v2.docker.toml.      *)
(***************************************************************************)
EXTENDS DaemonProperties, NodeConfig

CONSTANTS ca, ga, gb, cb, sca, sga, sgb, scb

\* The files, as far as the daemon reads them.  Address 1 is ca's, 2 is cb's.
Peer(i, s) == [id |-> i, stealth |-> s]
Static(a, s) == [prefix |-> [addr |-> a, len |-> Bits], stealth |-> s]
Overlay(s, i) == [destination |-> s, via |-> i]

MCNode         == {ca, ga, gb, cb}
MCClient       == {ca, cb}
Peers ==
  (ca :> <<Peer(ga, sga)>>) @@ (ga :> <<Peer(gb, sgb), Peer(ca, sca)>>) @@
  (gb :> <<Peer(ga, sga), Peer(cb, scb)>>) @@ (cb :> <<Peer(gb, sgb)>>)
Routes ==
  (ca :> <<Static(2, scb)>>) @@ (ga :> <<Static(1, sca), Static(2, scb)>>) @@
  (gb :> <<Static(1, sca), Static(2, scb)>>) @@ (cb :> <<Static(1, sca)>>)
OverlayRoutes ==
  (ca :> <<Overlay(scb, ga), Overlay(sgb, ga)>>) @@
  (ga :> <<Overlay(scb, gb), Overlay(sgb, gb)>>) @@
  (gb :> <<Overlay(sca, ga), Overlay(sga, ga)>>) @@
  (cb :> <<Overlay(sca, gb), Overlay(sga, gb)>>)
\* The clients have come up as they request, by their bootstrap.
Requested(s, a) ==
  [stealth |-> s, tun |-> TRUE, tun_address |-> {}, owned_prefixes |-> {},
   requested_stealth |-> {s}, requested_overlay_ip |-> {[addr |-> a, len |-> Bits]}]
Booted(f) == Assigned(f, CHOOSE s \in RequestedStealth(f) : TRUE, RequestedIp(f))
ClientOf == (ca :> Booted(Requested(sca, 1))) @@ (cb :> Booted(Requested(scb, 2)))
Owned == [n \in MCNode |-> IF n \in MCClient THEN ClientOf[n].owned_prefixes ELSE {}]

Names     == [n \in MCNode |-> CASE n \in MCClient -> ClientOf[n].stealth
                                  [] n = ga -> sga [] n = gb -> sgb]
ById      == [n \in MCNode |-> LoadPeersById(Peers[n])]
ByStealth == [n \in MCNode |-> LoadPeersByStealth(Peers[n])]
Tables    == [n \in MCNode |-> FromConfig(Routes[n], OverlayRoutes[n], Owned[n])]
\* TLC evaluates the four once, and what a .cfg substitutes at every use.
MCLocalStealth   == Names
MCPeersById      == ById
MCPeersByStealth == ByStealth
MCTable          == Tables
MCHomeGateway == (ca :> ga) @@ (cb :> gb)
MCPublicIdOf  == (ca :> "client-a") @@ (cb :> "client-b")
MCPublished   == [n \in MCNode |-> [enabled |-> n \notin MCClient, entries |-> {}]]

\* What the kernels route into the TUN devices: a packet each way, one too
\* short to carry a destination, one with no route, and a multicast.
Ip(bytes, dst) == [version |-> 4, bytes |-> bytes, dst |-> dst]
MCPacket == {Ip(40, 1), Ip(40, 2), Ip(19, 2), Ip(40, 0), Ip(40, 3)}
MCMulticast == {3}
BothWays == [n \in MCNode |-> IF n = ca THEN {Ip(40, 2), Ip(40, 3)}
                              ELSE IF n = cb THEN {Ip(40, 1)} ELSE {}]
NoTraffic == [n \in MCNode |-> {}]

AtClientA  == [t \in Thread |-> ca]
AtGatewayA == [t \in Thread |-> ga]
Ping(target, count) == [op |-> "ping", target |-> target, count |-> count]
Clients(target)     == [op |-> "clients", target |-> target, count |-> 0]

\* From one end of the line to the other, by name and by address.
EndToEnd   == {Ping(2, 1), Clients(scb)}
\* Two threads may ask different nodes at once, and one of them ga itself, to
\* which ga has no route: sending fails each time, and the loop goes on.
SeveralTargets == {Ping(scb, 1), Ping(sgb, 1), Clients(sgb), Ping(sga, 2)}
\* Both neighbours of ga.
Neighbours == {Ping(sgb, 1), Ping(sca, 1)}
\* One round of ga's timer.
FromGatewayA == [n \in MCNode |-> IF n = ga THEN 1 ELSE 0]
NoKeepalives == [n \in MCNode |-> 0]
NoRegistrations == [c \in MCClient |-> 0]
=============================================================================
