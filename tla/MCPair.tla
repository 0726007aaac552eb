------------------------------- MODULE MCPair -------------------------------
(***************************************************************************)
(* Daemon and its properties on the two gateways of compose.yaml: gw_a     *)
(* with the network 0-1 behind it, gw_b with 2-3, each the other's peer.   *)
(* Their admin sockets serve the threads in Thread, all at gw_a.           *)
(***************************************************************************)
EXTENDS DaemonProperties, NodeConfig

CONSTANTS gw_a, gw_b, sa, sb, web_a, web_b

\* examples/gw-a.docker.toml and gw-b.docker.toml: peers, and the route to the
\* network behind the other gateway.  There are no overlay routes.
PeerOf == [n \in {gw_a, gw_b} |->
             IF n = gw_a THEN [id |-> gw_b, stealth |-> sb]
                         ELSE [id |-> gw_a, stealth |-> sa]]
Net(n) == [addr |-> IF n = gw_a THEN 0 ELSE 2, len |-> 1]

MCNode           == {gw_a, gw_b}
MCClient         == {}
MCLocalStealth   == [n \in MCNode |-> IF n = gw_a THEN sa ELSE sb]
ById      == [n \in MCNode |-> LoadPeersById(<<PeerOf[n]>>)]
ByStealth == [n \in MCNode |-> LoadPeersByStealth(<<PeerOf[n]>>)]
Tables ==
  [n \in MCNode |->
     LET peer == PeerOf[n]
     IN  FromConfig(<<[prefix |-> Net(peer.id), stealth |-> peer.stealth]>>,
                    <<>>, {Net(n)})]
\* TLC evaluates the three once, and what a .cfg substitutes at every use.
MCPeersById      == ById
MCPeersByStealth == ByStealth
MCTable          == Tables
MCHomeGateway == <<>>
MCPublicIdOf  == <<>>
MCPublished   ==
  [n \in MCNode |->
     [enabled |-> TRUE,
      entries |-> {IF n = gw_a THEN [public_id |-> "web-a", client_stealth |-> web_a]
                               ELSE [public_id |-> "web-b", client_stealth |-> web_b]}]]
MCLocalTraffic == [n \in MCNode |-> {}]
MCAt == [t \in Thread |-> gw_a]

Ping(target, count) == [op |-> "ping", target |-> target, count |-> count]
Clients(target)     == [op |-> "clients", target |-> target, count |-> 0]

\* Every way an iteration can begin and end: an address with a route and one
\* without, a peer, and a name that is no peer's.
Requests == {Ping(2, 2), Ping(0, 1), Clients(sb), Clients(sa)}
NoKeepalives == [n \in MCNode |-> 0]
NoRegistrations == <<>>
=============================================================================
