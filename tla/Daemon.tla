------------------------------- MODULE Daemon -------------------------------
(***************************************************************************)
(* The running StealthNet daemons (src/src/daemon.rs): a network of nodes, *)
(* each with one UDP thread that handles datagrams one at a time, a TUN    *)
(* reader, a writer thread per delivered packet, timers for keepalives and *)
(* client registration, and one thread per admin connection.               *)
(*                                                                         *)
(* A node here is past its start: GatewayDaemon::new has built the tables  *)
(* and a client has finished its bootstrap (module Bootstrap).  The tables *)
(* never change while the process lives, so they are constants.            *)
(***************************************************************************)
EXTENDS Routing

CONSTANTS
  Node,            \* node ids
  Client,          \* the nodes whose role is "client"
  LocalStealth,    \* Shared.local_stealth of each node
  PeersById,       \* Shared.peers_by_id: id |-> stealth of the peer entry
  PeersByStealth,  \* Shared.peers_by_stealth: stealth |-> id
  Table,           \* Shared.routing
  HomeGateway,     \* client.home_gateway_id of each client
  PublicId,        \* names under which clients are published
  PublicIdOf,      \* the name each client registers under
  Published,       \* public_clients of each node: enabled, entries
  Tun,             \* the nodes that have a TUN device
  Packet,          \* IP packets: version, bytes (length), dst
  Multicast,       \* the multicast addresses
  LocalTraffic,    \* the packets the kernel routes into each node's TUN
  Thread,          \* admin connections, each served by a thread of its own
  At,              \* the node whose admin socket a connection is made to
  Command,         \* the requests stealthctl may send
  Ttl              \* the TTL of every message when it is first sent (16)

CONSTANTS          \* what the environment may do in an instance
  Faults,          \* of "loss" (datagrams), "send" (send_to fails), "tun"
  MaxDups,         \* bound on datagrams the network delivers twice
  MaxRestarts,     \* bound on crashes of node processes
  KeepaliveRounds, \* bound on the rounds of each node's keepalive timer
  RegisterRounds   \* bound on the rounds of each client's registration timer

Entry     == [public_id : PublicId, client_stealth : Stealth]
Listing   == [origin : {"configured", "registered"}, entry : Entry]
Operation == {"ping", "clients"}

\* What GatewayDaemon::new has built at each node.
ASSUME NodeAssumption ==
  /\ Client \subseteq Node /\ Tun \subseteq Node
  /\ LocalStealth \in [Node -> Stealth]
  /\ PeersById \in [Node -> UNION {[ids -> Stealth] : ids \in SUBSET Node}]
  /\ PeersByStealth \in [Node -> UNION {[keys -> Node] : keys \in SUBSET Stealth}]
  /\ Table \in [Node -> RoutingTable(Node)]

\* A configuration file lists finitely many peers.
ASSUME PeersAssumption == \A n \in Node : IsFiniteSet(DOMAIN PeersById[n])

ASSUME ClientAssumption ==
  /\ HomeGateway \in [Client -> Node]
  /\ PublicIdOf \in [Client -> PublicId]
  /\ Published \in [Node -> [enabled : BOOLEAN, entries : SUBSET Entry]]

ASSUME PacketAssumption ==
  /\ Packet \subseteq [version : 0 .. 15, bytes : Nat, dst : Address]
  /\ LocalTraffic \in [Node -> SUBSET Packet]

ASSUME CommandAssumption ==
  /\ At \in [Thread -> Node]
  /\ \A c \in Command :
       /\ c = [op |-> c.op, target |-> c.target, count |-> c.count]
       /\ c.op \in Operation /\ c.count \in Nat
       /\ c.target \in Stealth \/ c.target \in Address

ASSUME BoundAssumption ==
  /\ Ttl \in Nat \ {0}
  /\ MaxDups \in Nat /\ MaxRestarts \in Nat
  /\ KeepaliveRounds \in [Node -> Nat] /\ RegisterRounds \in [Client -> Nat]

\* A node's stealth identifier names it alone (README.md:40).
ASSUME StealthAssumption ==
  \A m, n \in Node : LocalStealth[m] = LocalStealth[n] => m = n

VARIABLES
  net,               \* datagrams in flight or in a socket buffer
  dups, restarts,    \* how often MaxDups and MaxRestarts were used
  next_request_id,   \* Shared.next_request_id of each node
  pending,           \* Shared.pending_pings and .pending_clients of each node
  registered_clients,\* Shared.registered_clients of each node
  udp,               \* the answer each UDP thread took from pending, not yet sent
  tun_in,            \* packets the TUN reader has not read yet
  tun_writers,       \* packets held by spawned writer threads
  tun_out,           \* packets written to the TUN device
  keepalive_left, register_left,  \* rounds left to the two timers
  pc,                \* where each admin thread is
  cmd,               \* the request it serves
  left,              \* iterations left in its loop
  target_stealth,    \* the resolved target of the current iteration
  request_id,        \* and its request id
  rx,                \* the receiving end of the iteration's channel
  results            \* what it has collected for the response

netVars   == <<net, dups>>
adminVars == <<pc, cmd, left, target_stealth, request_id, rx, results>>
tunVars   == <<tun_in, tun_writers, tun_out>>
timerVars == <<keepalive_left, register_left>>
vars == <<netVars, restarts, next_request_id, pending, registered_clients,
          udp, tunVars, timerVars, adminVars>>
-----------------------------------------------------------------------------
\* Messages (src/src/frame.rs).  dst_stealth stands for target_stealth and
\* target_gateway_stealth too.  Timestamps and texts are left out.
Pings == [kind : {"PingReq"}, request_id : Nat, src_stealth : Stealth,
          dst_stealth : Stealth, ttl : 0 .. Ttl]
Pongs == [kind : {"PingResp"}, request_id : Nat, src_stealth : Stealth,
          dst_stealth : Stealth, ttl : 0 .. Ttl]
ClientsReqs == [kind : {"PublicClientsReq"}, request_id : Nat,
                src_stealth : Stealth, dst_stealth : Stealth, ttl : 0 .. Ttl]
ClientsResps == [kind : {"PublicClientsResp"}, request_id : Nat,
                 src_stealth : Stealth, dst_stealth : Stealth, ttl : 0 .. Ttl,
                 clients : SUBSET Listing]
Registers == [kind : {"ClientRegister"}, request_id : Nat, src_stealth : Stealth,
              dst_stealth : Stealth, ttl : 0 .. Ttl, client : Entry]
Acks == [kind : {"ClientRegisterAck"}, request_id : Nat, src_stealth : Stealth,
         dst_stealth : Stealth, ttl : {Ttl}]
Datas == [kind : {"Data"}, src_stealth : Stealth, dst_stealth : Stealth,
          ttl : 1 .. Ttl, inner_packet : Packet]
Keepalives == [kind : {"Keepalive"}]

Message == Pings \cup Pongs \cup ClientsReqs \cup ClientsResps \cup Registers
             \cup Acks \cup Datas \cup Keepalives

\* OuterFrame: the sender's id, the node its address leads to, the plaintext.
Frame == [from : Node, to : Node, msg : Message]

Request(kind, id, src, dst) ==
  [kind |-> kind, request_id |-> id, src_stealth |-> src,
   dst_stealth |-> dst, ttl |-> Ttl]

\* forward_by_stealth: the peer it sends to, a direct peer before an overlay
\* route; {} where it returns an error.
NextHop(n, stealth) ==
  LET direct == PeersByStealth[n]
      via    == Table[n].overlay_routes
  IN  DOMAIN PeersById[n] \cap
        (IF stealth \in DOMAIN direct THEN {direct[stealth]}
         ELSE IF stealth \in DOMAIN via THEN {via[stealth]} ELSE {})

\* send_direct: the datagrams for a set of peers.
SendTo(n, peers, msg) == {[from |-> n, to |-> p, msg |-> msg] : p \in peers}

Forward(n, stealth, msg) == SendTo(n, NextHop(n, stealth), msg)

\* udp.send_to may fail; what a thread then does depends on the caller.
Outcomes(out) == IF "send" \in Faults THEN SUBSET out ELSE {out}

Originate(out) == /\ \E sent \in Outcomes(out) : net' = net \cup sent
                  /\ UNCHANGED dups
-----------------------------------------------------------------------------
(***************************************************************************)
(* handle_datagram: the UDP thread of f.to handles the datagram f.         *)
(***************************************************************************)
Idle == [busy |-> FALSE]

\* The thread is at recv_from and the frame decrypts: its sender is a peer.
Opened(f) == /\ f \in net
             /\ udp[f.to] = Idle
             /\ f.from \in DOMAIN PeersById[f.to]

\* The network delivers f and drops its copy, or keeps one to deliver again.
\* A failed send in a handler is only logged: it is a datagram lost.
Received(f, out) ==
  \/ net' = (net \ {f}) \cup out /\ UNCHANGED dups
  \/ dups < MaxDups /\ dups' = dups + 1 /\ net' = net \cup out

Routed == {"PingReq", "PingResp", "PublicClientsReq", "PublicClientsResp",
           "ClientRegister"}

\* Mutants: the TTL is checked against 1, or not at all.
Exhausted_AtOne(msg) == msg.ttl <= 1
Exhausted_Never(msg) == FALSE

\* What a handler of a routed message checks first, even at the destination.
Exhausted(msg) == msg.ttl = 0

ForMe(f) == f.msg.dst_stealth = LocalStealth[f.to]
RoutedToMe(f, kind) ==
  Opened(f) /\ f.msg.kind = kind /\ ~Exhausted(f.msg) /\ ForMe(f)

DropUnknownSender(f) ==
  /\ f \in net /\ udp[f.to] = Idle
  /\ f.from \notin DOMAIN PeersById[f.to]
  /\ Received(f, {})
  /\ UNCHANGED <<pending, registered_clients, udp, tun_writers>>

\* Keepalives are read and forgotten, and so is a registration ack, wherever
\* it arrives: it is never relayed.
Ignore(f) ==
  /\ Opened(f) /\ f.msg.kind \in {"Keepalive", "ClientRegisterAck"}
  /\ Received(f, {})
  /\ UNCHANGED <<pending, registered_clients, udp, tun_writers>>

DropExhausted(f) ==
  /\ Opened(f) /\ f.msg.kind \in Routed /\ Exhausted(f.msg)
  /\ Received(f, {})
  /\ UNCHANGED <<pending, registered_clients, udp, tun_writers>>

RoutedOn(f) == /\ Opened(f) /\ f.msg.kind \in Routed
               /\ ~Exhausted(f.msg) /\ ~ForMe(f)

\* Mutants: the TTL stays; every other peer gets the message.
Relay_KeepsTtl(f) ==
  /\ RoutedOn(f)
  /\ Received(f, Forward(f.to, f.msg.dst_stealth, f.msg))
  /\ UNCHANGED <<pending, registered_clients, udp, tun_writers>>
Relay_Floods(f) ==
  /\ RoutedOn(f)
  /\ Received(f, SendTo(f.to, DOMAIN PeersById[f.to] \ {f.from},
                        [f.msg EXCEPT !.ttl = @ - 1]))
  /\ UNCHANGED <<pending, registered_clients, udp, tun_writers>>

Relay(f) ==
  /\ RoutedOn(f)
  /\ Received(f, Forward(f.to, f.msg.dst_stealth, [f.msg EXCEPT !.ttl = @ - 1]))
  /\ UNCHANGED <<pending, registered_clients, udp, tun_writers>>

AnswerPing(f) ==
  LET n == f.to
  IN  /\ RoutedToMe(f, "PingReq")
      /\ Received(f, Forward(n, f.msg.src_stealth,
                       Request("PingResp", f.msg.request_id,
                               LocalStealth[n], f.msg.src_stealth)))
      /\ UNCHANGED <<pending, registered_clients, udp, tun_writers>>

\* The response lists the configured entries, when publishing is enabled, and
\* every registered client.
AnswerClients(f) ==
  LET n == f.to
      configured == IF Published[n].enabled THEN Published[n].entries ELSE {}
      listing == {[origin |-> "configured", entry |-> e] : e \in configured}
                   \cup {[origin |-> "registered", entry |-> e] :
                           e \in registered_clients[n]}
      reply == [kind |-> "PublicClientsResp", request_id |-> f.msg.request_id,
                src_stealth |-> LocalStealth[n], dst_stealth |-> f.msg.src_stealth,
                ttl |-> Ttl, clients |-> listing]
  IN  /\ RoutedToMe(f, "PublicClientsReq")
      /\ Received(f, Forward(n, f.msg.src_stealth, reply))
      /\ UNCHANGED <<pending, registered_clients, udp, tun_writers>>

\* registered_clients is keyed by client_stealth: a second entry replaces it.
RegisterClient(f) ==
  LET n == f.to
      others == {e \in registered_clients[n] :
                   e.client_stealth # f.msg.client.client_stealth}
      ack == Request("ClientRegisterAck", f.msg.request_id, LocalStealth[n],
                     f.msg.src_stealth)
  IN  /\ RoutedToMe(f, "ClientRegister")
      /\ registered_clients' =
           [registered_clients EXCEPT ![n] = others \cup {f.msg.client}]
      /\ Received(f, Forward(n, f.msg.src_stealth, ack))
      /\ UNCHANGED <<pending, udp, tun_writers>>

\* guard.remove(&request_id): the table without the entry of that id.
Without(table, op, id) == {e \in table : ~(e.op = op /\ e.id = id)}

\* The UDP thread holds an answer for the thread of a pending entry, if any.
Take(n, found, result) ==
  \/ found = {} /\ UNCHANGED udp
  \/ \E e \in found :
       udp' = [udp EXCEPT ![n] = [busy |-> TRUE, thread |-> e.thread,
                                  id |-> e.id, result |-> result]]

\* Mutants: get where the code has remove; an entry of any id is taken.
TakeSender_Keeps(f, op, result) ==
  /\ Take(f.to, {e \in pending[f.to] : e.op = op /\ e.id = f.msg.request_id},
          result)
  /\ Received(f, {})
  /\ UNCHANGED <<pending, registered_clients, tun_writers>>
TakeSender_AnyId(f, op, result) ==
  LET found == {e \in pending[f.to] : e.op = op}
  IN  /\ Take(f.to, found, result)
      /\ pending' = [pending EXCEPT ![f.to] = @ \ found]
      /\ Received(f, {})
      /\ UNCHANGED <<registered_clients, tun_writers>>

\* A response for this node: its sender is taken out of the table under the
\* lock and used after the unlock (HandOver); with no entry it is dropped.
TakeSender(f, op, result) ==
  LET n == f.to
      found == {e \in pending[n] : e.op = op /\ e.id = f.msg.request_id}
  IN  /\ pending' = [pending EXCEPT ![n] = Without(@, op, f.msg.request_id)]
      /\ Take(n, found, result)
      /\ Received(f, {})
      /\ UNCHANGED <<registered_clients, tun_writers>>

\* Mutant: the answer is attributed to the wrong end of the exchange.
AcceptPong_Swapped(f) ==
  /\ RoutedToMe(f, "PingResp")
  /\ TakeSender(f, "ping", [ok |-> TRUE, responder |-> f.msg.dst_stealth,
                            clients |-> {}])

AcceptPong(f) ==
  /\ RoutedToMe(f, "PingResp")
  /\ TakeSender(f, "ping", [ok |-> TRUE, responder |-> f.msg.src_stealth,
                            clients |-> {}])

AcceptClients(f) ==
  /\ RoutedToMe(f, "PublicClientsResp")
  /\ TakeSender(f, "clients", [ok |-> TRUE, responder |-> f.msg.src_stealth,
                               clients |-> f.msg.clients])

\* Mutant: every DATA that arrives is taken for local.
DataIsLocal_Always(n, msg) == TRUE

\* DATA is local by its stealth destination or by the inner address.
DataIsLocal(n, msg) == \/ msg.dst_stealth = LocalStealth[n]
                       \/ OwnsIp(Table[n], msg.inner_packet.dst)

\* Mutant: one hop too few.
Spent_Early(msg) == msg.ttl <= 2

\* DATA checks its TTL only where it would be relayed, and against 1.
Spent(msg) == msg.ttl <= 1

OpenedData(f) == Opened(f) /\ f.msg.kind = "Data"
Parses(f) == HasDestination(f.msg.inner_packet)

\* Local DATA: a thread is spawned to write it, if there is a TUN device.
DeliverData(f) ==
  LET n == f.to
  IN  /\ OpenedData(f) /\ Parses(f) /\ DataIsLocal(n, f.msg)
      /\ tun_writers' = IF n \in Tun
                        THEN [tun_writers EXCEPT ![n] = @ \cup {f.msg.inner_packet}]
                        ELSE tun_writers
      /\ Received(f, {})
      /\ UNCHANGED <<pending, registered_clients, udp>>

\* Mutant: the TTL stays.
RelayData_KeepsTtl(f) ==
  /\ OpenedData(f) /\ Parses(f) /\ ~DataIsLocal(f.to, f.msg) /\ ~Spent(f.msg)
  /\ Received(f, Forward(f.to, f.msg.dst_stealth, f.msg))
  /\ UNCHANGED <<pending, registered_clients, udp, tun_writers>>

RelayData(f) ==
  /\ OpenedData(f) /\ Parses(f) /\ ~DataIsLocal(f.to, f.msg) /\ ~Spent(f.msg)
  /\ Received(f, Forward(f.to, f.msg.dst_stealth, [f.msg EXCEPT !.ttl = @ - 1]))
  /\ UNCHANGED <<pending, registered_clients, udp, tun_writers>>

DropData(f) ==
  /\ OpenedData(f)
  /\ ~(Parses(f) /\ (DataIsLocal(f.to, f.msg) \/ ~Spent(f.msg)))
  /\ Received(f, {})
  /\ UNCHANGED <<pending, registered_clients, udp, tun_writers>>

HandleDatagram(f) ==
  /\ \/ DropUnknownSender(f) \/ Ignore(f) \/ DropExhausted(f) \/ Relay(f)
     \/ AnswerPing(f) \/ AnswerClients(f) \/ RegisterClient(f)
     \/ AcceptPong(f) \/ AcceptClients(f)
     \/ DeliverData(f) \/ RelayData(f) \/ DropData(f)
  /\ UNCHANGED <<restarts, next_request_id, tun_in, tun_out, timerVars, adminVars>>

\* The admin thread still holds the receiving end of the channel of id.
Listening(t, id) ==
  /\ pc[t] \in {"insert", "send", "cancel", "wait", "expired"}
  /\ request_id[t] = id

\* sender.send: the result is queued, or dropped with the receiver gone.
HandOver(n) ==
  LET held == udp[n]
  IN  /\ held # Idle
      /\ udp' = [udp EXCEPT ![n] = Idle]
      /\ rx' = IF Listening(held.thread, held.id)
               THEN [rx EXCEPT ![held.thread] = Append(@, held.result)] ELSE rx
      /\ UNCHANGED <<netVars, restarts, next_request_id, pending, tunVars,
                     registered_clients, timerVars, pc, cmd, left,
                     target_stealth, request_id, results>>
-----------------------------------------------------------------------------
(***************************************************************************)
(* The TUN reader, the writer threads and the two timers.                  *)
(***************************************************************************)
\* handle_local_packet: what a packet read from the TUN puts on the network.
Encapsulated(n, p) ==
  LET found == Lookup(Table[n], p.dst)
  IN  IF HasDestination(p) /\ p.dst \notin Multicast /\ found.found
      THEN Forward(n, found.route.stealth,
             [kind |-> "Data", src_stealth |-> LocalStealth[n],
              dst_stealth |-> found.route.stealth, ttl |-> Ttl,
              inner_packet |-> p])
      ELSE {}

ReadTun(n, p) ==
  /\ n \in Tun /\ p \in tun_in[n]
  /\ tun_in' = [tun_in EXCEPT ![n] = @ \ {p}]
  /\ Originate(Encapsulated(n, p))
  /\ UNCHANGED <<restarts, next_request_id, pending, registered_clients, udp,
                 tun_writers, tun_out, timerVars, adminVars>>

\* Writer threads run in any order; a failed write is logged and dropped.
WriteTun(n, p) ==
  /\ p \in tun_writers[n]
  /\ tun_writers' = [tun_writers EXCEPT ![n] = @ \ {p}]
  /\ \/ tun_out' = [tun_out EXCEPT ![n] = @ \cup {p}]
     \/ "tun" \in Faults /\ UNCHANGED tun_out
  /\ UNCHANGED <<netVars, restarts, next_request_id, pending, udp,
                 registered_clients, tun_in, timerVars, adminVars>>

\* One round of the keepalive loop; a peer that fails does not stop the rest.
KeepaliveRound(n) ==
  /\ keepalive_left[n] > 0
  /\ keepalive_left' = [keepalive_left EXCEPT ![n] = @ - 1]
  /\ Originate(SendTo(n, DOMAIN PeersById[n], [kind |-> "Keepalive"]))
  /\ UNCHANGED <<restarts, next_request_id, pending, registered_clients, udp,
                 tunVars, register_left, adminVars>>

\* send_client_register, sent to the home gateway by its id.
SendRegister(c) ==
  LET home == HomeGateway[c]
      msg  == [kind |-> "ClientRegister", request_id |-> next_request_id[c],
               src_stealth |-> LocalStealth[c],
               dst_stealth |-> PeersById[c][home], ttl |-> Ttl,
               client |-> [public_id |-> PublicIdOf[c],
                           client_stealth |-> LocalStealth[c]]]
  IN  /\ home \in DOMAIN PeersById[c]
      /\ next_request_id' = [next_request_id EXCEPT ![c] = @ + 1]
      /\ Originate(SendTo(c, {home}, msg))
      /\ register_left' = [register_left EXCEPT ![c] = @ - 1]
      /\ UNCHANGED <<restarts, pending, registered_clients, udp, tunVars,
                     keepalive_left, adminVars>>

\* Mutant: a client registers when it starts and never again.
RegisterRound_Once(c) == register_left[c] = RegisterRounds[c] /\ SendRegister(c)

\* One round of the registration loop.
RegisterRound(c) == register_left[c] > 0 /\ SendRegister(c)
-----------------------------------------------------------------------------
(***************************************************************************)
(* handle_admin_request: PING and CLIENTS in the thread of a connection.   *)
(* CLIENTS is a single iteration of the same steps on its own table.       *)
(***************************************************************************)
Failure == [ok |-> FALSE]

GoTo(t, from, to) == pc[t] = from /\ pc' = [pc EXCEPT ![t] = to]

\* resolve_target: an address through the routing table, a name as it is;
\* {} where it returns an error.
ResolveTarget(n, target) ==
  IF target \in Stealth THEN {target}
  ELSE LET found == Lookup(Table[n], target)
       IN  IF found.found THEN {found.route.stealth} ELSE {}

\* The end of an iteration: the result is pushed and rx goes out of scope.
Push(t, result) ==
  /\ results' = [results EXCEPT ![t] = Append(@, result)]
  /\ left' = [left EXCEPT ![t] = @ - 1]
  /\ rx' = [rx EXCEPT ![t] = <<>>]
  /\ UNCHANGED <<cmd, target_stealth, request_id>>

AcceptRequest(t, c) ==
  /\ GoTo(t, "new", "loop")
  /\ cmd' = [cmd EXCEPT ![t] = c]
  /\ left' = [left EXCEPT ![t] = IF c.op = "ping" THEN c.count ELSE 1]
  /\ UNCHANGED <<netVars, next_request_id, pending, target_stealth, request_id,
                 rx, results>>

\* A new channel and id for the iteration, and the target resolved.
NewChannel(t, id) ==
  /\ \E s \in ResolveTarget(At[t], cmd[t].target) :
       target_stealth' = [target_stealth EXCEPT ![t] = s]
  /\ request_id' = [request_id EXCEPT ![t] = id]
  /\ rx' = [rx EXCEPT ![t] = <<>>]
  /\ UNCHANGED <<netVars, pending, cmd, left, results>>

\* Mutants: the loop runs once too often; the counter is read, not advanced.
NextRequest_OneMore(t) ==
  /\ GoTo(t, "loop", "insert")
  /\ next_request_id' = [next_request_id EXCEPT ![At[t]] = @ + 1]
  /\ NewChannel(t, next_request_id[At[t]])
NextRequest_Load(t) ==
  /\ left[t] > 0 /\ GoTo(t, "loop", "insert")
  /\ NewChannel(t, next_request_id[At[t]])
  /\ UNCHANGED next_request_id

\* The head of the loop when the target resolves: fetch_add.
NextRequest(t) ==
  /\ left[t] > 0 /\ GoTo(t, "loop", "insert")
  /\ next_request_id' = [next_request_id EXCEPT ![At[t]] = @ + 1]
  /\ NewChannel(t, next_request_id[At[t]])

Unresolved(t) ==
  /\ left[t] > 0 /\ GoTo(t, "loop", "loop")
  /\ ResolveTarget(At[t], cmd[t].target) = {}
  /\ Push(t, Failure)
  /\ UNCHANGED <<netVars, next_request_id, pending>>

\* The sender is put in the table before anything is sent.
InsertSender(t) ==
  LET n == At[t]
      entry == [op |-> cmd[t].op, id |-> request_id[t], thread |-> t]
  IN  /\ GoTo(t, "insert", "send")
      /\ pending' = [pending EXCEPT ![n] =
                       Without(@, entry.op, entry.id) \cup {entry}]
      /\ UNCHANGED <<netVars, next_request_id, cmd, left, target_stealth,
                     request_id, rx, results>>

RequestMsg(t) ==
  Request(IF cmd[t].op = "ping" THEN "PingReq" ELSE "PublicClientsReq",
          request_id[t], LocalStealth[At[t]], target_stealth[t])

SendRequest(t) ==
  /\ GoTo(t, "send", "wait")
  /\ \E p \in NextHop(At[t], target_stealth[t]) :
       net' = net \cup SendTo(At[t], {p}, RequestMsg(t))
  /\ UNCHANGED <<dups, next_request_id, pending, cmd, left, target_stealth,
                 request_id, rx, results>>

SendFails(t) ==
  /\ GoTo(t, "send", "cancel")
  /\ "send" \in Faults \/ NextHop(At[t], target_stealth[t]) = {}
  /\ UNCHANGED <<netVars, next_request_id, pending, cmd, left, target_stealth,
                 request_id, rx, results>>

\* recv_timeout: a queued result wins; a timeout needs the channel empty.
TakeResult(t) ==
  /\ rx[t] # <<>> /\ GoTo(t, "wait", "loop")
  /\ Push(t, Head(rx[t]))
  /\ UNCHANGED <<netVars, next_request_id, pending>>

\* Mutant: recv, with no timeout.
Expire_Never(t) == FALSE /\ UNCHANGED <<netVars, next_request_id, adminVars, pending>>

Expire(t) ==
  /\ rx[t] = <<>> /\ GoTo(t, "wait", "expired")
  /\ UNCHANGED <<netVars, next_request_id, pending, cmd, left, target_stealth,
                 request_id, rx, results>>

\* Mutant: the sender is forgotten in the table.
RemoveSender_Leaks(t) ==
  /\ GoTo(t, "cancel", "loop") \/ GoTo(t, "expired", "loop")
  /\ Push(t, Failure)
  /\ UNCHANGED <<netVars, next_request_id, pending>>

\* After a failed send or a timeout the sender is removed again, if the UDP
\* thread has not taken it meanwhile; what it then sends is dropped with rx.
RemoveSender(t) ==
  /\ GoTo(t, "cancel", "loop") \/ GoTo(t, "expired", "loop")
  /\ pending' = [pending EXCEPT ![At[t]] = Without(@, cmd[t].op, request_id[t])]
  /\ Push(t, Failure)
  /\ UNCHANGED <<netVars, next_request_id>>

\* The response is written and the connection closed.
Respond(t) ==
  /\ left[t] = 0 /\ GoTo(t, "loop", "closed")
  /\ UNCHANGED <<netVars, next_request_id, pending, cmd, left, target_stealth,
                 request_id, rx, results>>

AdminStep(t) ==
  /\ \/ NextRequest(t) \/ Unresolved(t) \/ InsertSender(t) \/ SendRequest(t)
     \/ SendFails(t) \/ TakeResult(t) \/ Expire(t) \/ RemoveSender(t)
     \/ Respond(t)
  /\ UNCHANGED <<restarts, registered_clients, udp, tunVars, timerVars>>

Connect(t) ==
  /\ \E c \in Command : AcceptRequest(t, c)
  /\ UNCHANGED <<restarts, registered_clients, udp, tunVars, timerVars>>
-----------------------------------------------------------------------------
(***************************************************************************)
(* The environment: datagrams are lost, nodes crash and are restarted.     *)
(***************************************************************************)
Lose(f) ==
  /\ "loss" \in Faults
  /\ net' = net \ {f}
  /\ UNCHANGED <<dups, restarts, next_request_id, pending, registered_clients,
                 udp, tunVars, timerVars, adminVars>>

\* A process dies and is started again, a gateway by its container
\* (compose.yaml: restart: unless-stopped) or by hand, a client by its bootstrap.
\* Everything in Shared starts afresh and its admin connections break.  What
\* its socket and its TUN device had queued may be lost; the datagrams that
\* are still on the network stay.
Restart(n) ==
  LET here == {t \in Thread : At[t] = n /\ pc[t] # "new"}
  IN  /\ restarts < MaxRestarts
      /\ restarts' = restarts + 1
      /\ \E lost \in SUBSET {f \in net : f.to = n} : net' = net \ lost
      /\ \E lost \in SUBSET tun_in[n] :
           tun_in' = [tun_in EXCEPT ![n] = @ \ lost]
      /\ next_request_id' = [next_request_id EXCEPT ![n] = 1]
      /\ pending' = [pending EXCEPT ![n] = {}]
      /\ registered_clients' = [registered_clients EXCEPT ![n] = {}]
      /\ udp' = [udp EXCEPT ![n] = Idle]
      /\ tun_writers' = [tun_writers EXCEPT ![n] = {}]
      /\ pc' = [t \in Thread |-> IF t \in here THEN "closed" ELSE pc[t]]
      /\ rx' = [t \in Thread |-> IF t \in here THEN <<>> ELSE rx[t]]
      /\ UNCHANGED <<dups, tun_out, timerVars, cmd, left, target_stealth,
                     request_id, results>>
-----------------------------------------------------------------------------
NoCommand == [op |-> "ping", target |-> LocalStealth[CHOOSE n \in Node : TRUE],
              count |-> 0]

Init ==
  /\ net = {} /\ dups = 0 /\ restarts = 0
  /\ next_request_id = [n \in Node |-> 1]
  /\ pending = [n \in Node |-> {}]
  /\ registered_clients = [n \in Node |-> {}]
  /\ udp = [n \in Node |-> Idle]
  /\ tun_in = LocalTraffic
  /\ tun_writers = [n \in Node |-> {}]
  /\ tun_out = [n \in Node |-> {}]
  /\ keepalive_left = KeepaliveRounds
  /\ register_left = RegisterRounds
  /\ pc = [t \in Thread |-> "new"]
  /\ cmd = [t \in Thread |-> NoCommand]
  /\ left = [t \in Thread |-> 0]
  /\ target_stealth = [t \in Thread |-> LocalStealth[At[t]]]
  /\ request_id = [t \in Thread |-> 0]
  /\ rx = [t \in Thread |-> <<>>]
  /\ results = [t \in Thread |-> <<>>]

Next ==
  \/ \E f \in net : HandleDatagram(f) \/ Lose(f)
  \/ \E n \in Node : \/ HandOver(n) \/ KeepaliveRound(n) \/ Restart(n)
                     \/ \E p \in Packet : ReadTun(n, p) \/ WriteTun(n, p)
  \/ \E c \in Client : RegisterRound(c)
  \/ \E t \in Thread : Connect(t) \/ AdminStep(t)

Spec == Init /\ [][Next]_vars

\* Threads that are runnable run; the network and the operator owe nothing
\* but that a datagram neither lost nor handled does not wait for ever.
UdpThread(n) == \/ HandOver(n)
                \/ \E f \in net : f.to = n /\ HandleDatagram(f)

Fairness ==
  /\ \A n \in Node : /\ WF_vars(UdpThread(n))
                     /\ WF_vars(\E p \in Packet : ReadTun(n, p))
                     /\ \A p \in Packet : WF_vars(WriteTun(n, p))
  /\ \A c \in Client : WF_vars(RegisterRound(c))
  /\ \A t \in Thread : WF_vars(AdminStep(t))

FairSpec == Spec /\ Fairness
=============================================================================
