-------------------------- MODULE DaemonProperties --------------------------
(***************************************************************************)
(* What makes the daemons of module Daemon correct.                        *)
(***************************************************************************)
EXTENDS Daemon

Busy == [busy : {TRUE}, thread : Thread, id : Nat,
         result : [ok : {TRUE}, responder : Stealth, clients : SUBSET Listing]]

Result == {Failure} \cup
          [ok : {TRUE}, responder : Stealth, clients : SUBSET Listing]

\* Every variable of the daemons and every datagram they emit has its type;
\* in particular the TTL of no message underflows its u8 and a DATA datagram
\* never travels with TTL 0.
TypeOK ==
  /\ net \subseteq Frame
  /\ dups \in Nat /\ restarts \in Nat
  /\ next_request_id \in [Node -> Nat \ {0}]
  /\ pending \in [Node -> SUBSET [op : Operation, id : Nat, thread : Thread]]
  /\ registered_clients \in [Node -> SUBSET Entry]
  /\ udp \in [Node -> {Idle} \cup Busy]
  /\ tun_in \in [Node -> SUBSET Packet]
  /\ tun_writers \in [Node -> SUBSET Packet]
  /\ tun_out \in [Node -> SUBSET Packet]
  /\ keepalive_left \in [Node -> Nat]
  /\ register_left \in [Client -> Nat]
  /\ pc \in [Thread -> {"new", "loop", "insert", "send", "cancel", "wait",
                        "expired", "closed"}]
  /\ cmd \in [Thread -> Command \cup {NoCommand}]
  /\ left \in [Thread -> Nat]
  /\ target_stealth \in [Thread -> Stealth]
  /\ request_id \in [Thread -> Nat]
  /\ rx \in [Thread -> Seq(Result)]
  /\ results \in [Thread -> Seq(Result)]

\* The threads inside an iteration, which always has a result to collect.
Active(t) == pc[t] \in {"insert", "send", "cancel", "wait", "expired"}
LoopsCount == \A t \in Thread : Active(t) => left[t] > 0
-----------------------------------------------------------------------------
(***************************************************************************)
(* The pending tables, shared by the admin threads and the UDP thread.     *)
(***************************************************************************)
\* The threads whose sender is, or has been, in the table.
Inserted(t) == pc[t] \in {"send", "cancel", "wait", "expired"}

\* pending_pings and pending_clients do not leak: an entry is always that of
\* the running iteration of an open connection of this node, so every way
\* out of an iteration (answer, failed send, timeout, crash) clears it.
NoLeakedRequests ==
  \A n \in Node : \A e \in pending[n] :
    /\ At[e.thread] = n /\ Inserted(e.thread)
    /\ request_id[e.thread] = e.id /\ cmd[e.thread].op = e.op

\* The UDP thread holds the answer to the running iteration of t; the table
\* has a sender of t.
Held(t) ==
  LET held == udp[At[t]]
  IN  held # Idle /\ held.thread = t /\ held.id = request_id[t]
Pending(t) == \E e \in pending[At[t]] : e.thread = t

\* A response is matched by its id alone, so iterations that overlap at a
\* node must not share one, however their threads interleave at the counter;
\* and no id that the counter has still to give out is waited for, not even
\* by an answer the UDP thread holds for an iteration that is over.
UniqueIds ==
  /\ \A t \in Thread : Active(t) => request_id[t] < next_request_id[At[t]]
  /\ \A n \in Node : udp[n] # Idle => /\ At[udp[n].thread] = n
                                      /\ udp[n].id < next_request_id[n]
  /\ \A t, u \in Thread :
       /\ Active(t) /\ Active(u) /\ At[t] = At[u]
       /\ request_id[t] = request_id[u]
       => t = u

\* No answer is lost inside the node: as long as a thread waits and has
\* nothing queued, its sender is in the table or in the UDP thread's hand.
\* Neither another connection nor a stray response can have taken it, and
\* recv_timeout never sees a disconnected channel.
WaiterHasSender ==
  \A t \in Thread :
    pc[t] \in {"send", "wait"} /\ rx[t] = <<>> => Pending(t) \/ Held(t)

\* The sender of an iteration is in one place: in the table, in the UDP
\* thread's hand, or used.  So a channel carries one answer at most, however
\* often the network delivers a response, and none of an earlier iteration.
AtMostOneAnswer ==
  \A t \in Thread :
    /\ rx[t] # <<>> => Len(rx[t]) = 1 /\ Inserted(t) /\ ~Pending(t) /\ ~Held(t)
    /\ Active(t) /\ Held(t) => Inserted(t) /\ ~Pending(t)

\* A positive result of PING or CLIENTS is the answer of the node that was
\* asked: of the stealth identifier the target resolves to.
AnswersMatchRequests ==
  \A t \in Thread : \A i \in DOMAIN results[t] :
    results[t][i].ok =>
      results[t][i].responder \in ResolveTarget(At[t], cmd[t].target)

\* Each admin request is answered in the end, whatever the network loses:
\* a thread that has accepted a request closes the connection.
RequestsAnswered ==
  \A t \in Thread : pc[t] = "loop" ~> pc[t] = "closed"

\* The admin threads with their tables, timeouts and UDP thread implement
\* the promise of AdminCall.  An answer is known by the node that gave it.
IterationsOf(c) == IF c.op = "ping" THEN c.count ELSE 1
Rightful(t, c) == {Failure} \cup ResolveTarget(At[t], c.target)
Answers(t) == [i \in DOMAIN results[t] |->
                 IF results[t][i].ok THEN results[t][i].responder ELSE Failure]
Call == INSTANCE AdminCall WITH
          call    <- [t \in Thread |-> IF pc[t] \in {"new", "closed"}
                                       THEN pc[t] ELSE "open"],
          request <- cmd, answers <- [t \in Thread |-> Answers(t)],
          Iterations <- IterationsOf
ImplementsAdminCall == Call!Spec
-----------------------------------------------------------------------------
(***************************************************************************)
(* Relaying.                                                               *)
(***************************************************************************)
Relayed == Routed \cup {"Data"}

\* The node m is where a message is consumed.
ConsumedAt(m, msg) ==
  IF msg.kind = "Data" THEN DataIsLocal(m, msg)
  ELSE msg.dst_stealth = LocalStealth[m]

\* A registration is sent to the home gateway by its id.
FirstHop(n, msg) == IF msg.kind = "ClientRegister" THEN {HomeGateway[n]}
                    ELSE NextHop(n, msg.dst_stealth)

\* The nodes p[1], p[2], ... are those f has passed, by the tables' next
\* hops, from the node whose identifier it carries to the one it is sent to.
OnRoute(p, k, f) ==
  /\ LocalStealth[p[1]] = f.msg.src_stealth
  /\ p[2] \in FirstHop(p[1], f.msg)
  /\ p[k-1] = f.from /\ p[k] = f.to
  /\ \A i \in 2 .. k-1 : /\ p[i+1] \in NextHop(p[i], f.msg.dst_stealth)
                         /\ ~ConsumedAt(p[i], f.msg)

\* TTL arithmetic: a message that is in flight with a TTL of ttl has been
\* sent exactly Ttl - ttl + 1 times along the configured next hops, and no
\* node it has passed was its destination.  So whatever the tables say, loops
\* included, a message is sent Ttl + 1 times at most, and one that runs out
\* of TTL has no destination among the first Ttl nodes of its route.
FramesFollowRoutes ==
  \A f \in net : f.msg.kind \in Relayed =>
    LET k == Ttl - f.msg.ttl + 2
    IN  \E p \in [1 .. k -> Node] : OnRoute(p, k, f)

\* "If an intermediate hop is set for the destination node, the packet goes
\* through it" (README.md:40): a node with an overlay route for the destination
\* of a DATA message sends it to the hop that the route names.
ConfiguredHopIsUsed ==
  \A f \in net :
    /\ f.msg.kind = "Data"
    /\ f.msg.dst_stealth \in DOMAIN Table[f.from].overlay_routes
    => f.to = Table[f.from].overlay_routes[f.msg.dst_stealth]

\* Within[k, b]: the nodes with a route of at most k hops to b.
Within[k \in 0 .. Ttl, b \in Node] ==
  IF k = 0 THEN {b}
  ELSE {b} \cup {n \in Node : NextHop(n, LocalStealth[b]) \cap Within[k-1, b] # {}}

\* The nodes b that a reaches, and that reach a, with the TTL of a message.
Reached == [a \in Node |-> {b \in Node : a \in Within[Ttl, b]}]
Partners == [a \in Node |-> {b \in Reached[a] : b # a /\ a \in Reached[b]}]

\* Handling a datagram puts at most one on the network, however the message
\* came: the number in flight grows only when an admin thread, the TUN reader
\* or a timer sends, or the network duplicates.
NoAmplification ==
  [][ Cardinality(net') > Cardinality(net) =>
        \/ pc' # pc \/ tun_in' # tun_in
        \/ keepalive_left' # keepalive_left \/ register_left' # register_left
        \/ dups' # dups /\ Cardinality(net') = Cardinality(net) + 1 ]_vars

\* When nothing new is sent the network falls silent: no message circulates
\* for ever in a routing loop, and no exchange of replies keeps itself alive.
NetworkDrains == <>[](net = {})

InFlight(kind, src, dst) ==
  \E f \in net : /\ f.msg.kind = kind /\ f.msg.src_stealth = LocalStealth[src]
                 /\ f.msg.dst_stealth = LocalStealth[dst]

\* With no loss a PING to a node at most Ttl hops away, and Ttl hops back,
\* brings a PONG from it to the node that asked.
PingsComeBack ==
  \A a \in {At[t] : t \in Thread} : \A b \in Partners[a] :
    InFlight("PingReq", a, b) ~>
      \E f \in net : /\ f.to = a /\ f.msg.kind = "PingResp" /\ f.msg.ttl > 0
                     /\ f.msg.src_stealth = LocalStealth[b]
-----------------------------------------------------------------------------
(***************************************************************************)
(* IP packets.                                                             *)
(***************************************************************************)
\* Node m is where the table of node a sends packet p.
RoutesTo(a, p, m) ==
  LET found == Lookup(Table[a], p.dst)
  IN  found.found /\ found.route.stealth = LocalStealth[m]

\* A packet is injected only into the network it was routed to: a node writes
\* to its TUN device what some sender's table maps to this node, or what is
\* addressed to a prefix it owns.
PacketsLandWhereRouted ==
  \A m \in Node : \A p \in tun_writers[m] \cup tun_out[m] :
    /\ m \in Tun
    /\ \/ OwnsIp(Table[m], p.dst)
       \/ \E a \in Node : p \in LocalTraffic[a] /\ RoutesTo(a, p, m)

\* The packets that the TUN reader of a node accepts for one at most Ttl hops
\* away.
Deliveries ==
  {d \in [src : Tun, packet : Packet, dst : Tun] :
     LET p == d.packet
     IN  /\ p \in LocalTraffic[d.src] /\ HasDestination(p) /\ p.dst \notin Multicast
         /\ RoutesTo(d.src, p, d.dst) /\ d.dst \in Reached[d.src]}

\* With no loss such a packet is written to the TUN device there, or by a
\* node on the way that owns its address.
PacketsArrive ==
  \A d \in Deliveries :
    <>(\E m \in Tun : /\ d.packet \in tun_out[m]
                      /\ m = d.dst \/ OwnsIp(Table[m], d.packet.dst))
-----------------------------------------------------------------------------
(***************************************************************************)
(* Registration.                                                           *)
(***************************************************************************)
EntryOf(c) == [public_id |-> PublicIdOf[c], client_stealth |-> LocalStealth[c]]

\* The gateway a client means: its home by the stealth of the peer entry.
Homes(c) == {n \in Node : LocalStealth[n] = PeersById[c][HomeGateway[c]]}

\* A gateway that lost its table in a crash learns its clients again: once
\* it crashes no more, another round of the timer lists the client.
Reregistered ==
  \A c \in Client :
    register_left[c] > 0 /\ restarts = MaxRestarts
      ~> \E n \in Homes(c) : EntryOf(c) \in registered_clients[n]

\* What CLIENTS shows is no older than its question: a client that a gateway
\* lists before a connection is made is in the answer of that gateway, though
\* answers to earlier requests, from before it was listed, may still arrive.
\* Until a process crashes: a gateway then forgets its clients, and its own
\* request ids begin anew.
Shows(t, n, c) ==
  \A i \in DOMAIN results[t] :
    /\ cmd[t].op = "clients" /\ results[t][i].ok
    /\ results[t][i].responder = LocalStealth[n]
    => [origin |-> "registered", entry |-> EntryOf(c)] \in results[t][i].clients
ListingsAreCurrent ==
  \A c \in Client : \A n \in Homes(c) : \A t \in Thread :
    [](pc[t] = "new" /\ EntryOf(c) \in registered_clients[n]
         => [](restarts = 0 => Shows(t, n, c)))
=============================================================================
