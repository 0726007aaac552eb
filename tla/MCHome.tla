------------------------------- MODULE MCHome -------------------------------
(***************************************************************************)
(* Daemon and its properties on the part of compose.v2.yaml in which a     *)
(* client is listed: the line ga -- gb -- cb of a client, its home gateway *)
(* gb and the gateway where two stealthctl ask for gb's clients, while the *)
(* registration timer of cb runs.                                          *)
(***************************************************************************)
EXTENDS DaemonProperties, NodeConfig

CONSTANTS ga, gb, cb, sga, sgb, scb

\* examples/gw-a, gw-b and client-b.v2.docker.toml, as far as they name each
\* other.  cb has come up as it asks (module Bootstrap).
Peer(i, s) == [id |-> i, stealth |-> s]
Peers == (ga :> <<Peer(gb, sgb)>>) @@
         (gb :> <<Peer(ga, sga), Peer(cb, scb)>>) @@
         (cb :> <<Peer(gb, sgb)>>)
MCNode           == {ga, gb, cb}
MCClient         == {cb}
MCLocalStealth   == (ga :> sga) @@ (gb :> sgb) @@ (cb :> scb)
\* Nothing here goes by an IP or an overlay route.
Tables    == [n \in MCNode |-> FromConfig(<<>>, <<>>, {})]
ById      == [n \in MCNode |-> LoadPeersById(Peers[n])]
ByStealth == [n \in MCNode |-> LoadPeersByStealth(Peers[n])]
\* TLC evaluates the three once, and what a .cfg substitutes at every use.
MCTable          == Tables
MCPeersById      == ById
MCPeersByStealth == ByStealth
MCHomeGateway    == cb :> gb
MCPublicIdOf     == cb :> "client-b"
MCPublished      == [n \in MCNode |-> [enabled |-> n # cb, entries |-> {}]]
NoTraffic        == [n \in MCNode |-> {}]
MCAt             == [t \in Thread |-> ga]
TheCatalog       == {[op |-> "clients", target |-> sgb, count |-> 0]}
NoKeepalives     == [n \in MCNode |-> 0]
TwoRounds        == [c \in MCClient |-> 2]
=============================================================================
