---------------------------- MODULE DaemonProofs ----------------------------
(***************************************************************************)
(* Proofs about the daemons: type correctness.                             *)
(***************************************************************************)
EXTENDS DaemonProperties, RoutingProofs

-----------------------------------------------------------------------------
\* A node's constants have their types.
LEMMA NodeType ==
  ASSUME NEW n \in Node
  PROVE  /\ DOMAIN PeersById[n] \subseteq Node
         /\ \A p \in DOMAIN PeersById[n] : PeersById[n][p] \in Stealth
         /\ Table[n] \in RoutingTable(Node)
         /\ LocalStealth[n] \in Stealth
<1>1. PICK ids \in SUBSET Node : PeersById[n] \in [ids -> Stealth]
  BY NodeAssumption
<1> QED
  BY <1>1, NodeAssumption

\* A send goes to nodes, and puts frames on the network.
LEMMA NextHopType == ASSUME NEW n \in Node, NEW s PROVE NextHop(n, s) \subseteq Node
BY NodeType DEF NextHop

LEMMA SendType ==
  ASSUME NEW n \in Node, NEW peers \in SUBSET Node, NEW msg \in Message
  PROVE  SendTo(n, peers, msg) \subseteq Frame
BY DEF SendTo, Frame

LEMMA ForwardType ==
  ASSUME NEW n \in Node, NEW s, NEW msg \in Message
  PROVE  Forward(n, s, msg) \subseteq Frame
<1>1. NextHop(n, s) \in SUBSET Node
  BY NextHopType
<1> QED
  BY <1>1, SendType DEF Forward

\* The network after a datagram was handled.
LEMMA ReceivedType ==
  ASSUME NEW f, NEW out, net \subseteq Frame, dups \in Nat, out \subseteq Frame,
         Received(f, out)
  PROVE  net' \subseteq Frame /\ dups' \in Nat
BY DEF Received

\* The network after a thread of a node has sent something.
LEMMA OriginateType ==
  ASSUME NEW out, net \subseteq Frame, dups \in Nat, out \subseteq Frame,
         Originate(out)
  PROVE  net' \subseteq Frame /\ dups' \in Nat
BY DEF Originate, Outcomes

\* Requests and answers made by a node are messages.
LEMMA RequestType ==
  ASSUME NEW kind \in {"PingReq", "PingResp", "PublicClientsReq", "ClientRegisterAck"},
         NEW id \in Nat, NEW src \in Stealth, NEW dst \in Stealth
  PROVE  Request(kind, id, src, dst) \in Message
<1>1. Ttl \in 0 .. Ttl
  BY BoundAssumption
<1>2. /\ kind = "PingReq" => Request(kind, id, src, dst) \in Pings
      /\ kind = "PingResp" => Request(kind, id, src, dst) \in Pongs
      /\ kind = "PublicClientsReq" => Request(kind, id, src, dst) \in ClientsReqs
      /\ kind = "ClientRegisterAck" => Request(kind, id, src, dst) \in Acks
  BY <1>1 DEF Request, Pings, Pongs, ClientsReqs, Acks
<1> QED
  BY <1>2 DEF Message

\* A message with TTL left is a message of the same kind with one less.
LEMMA RelayedType ==
  ASSUME NEW msg \in Message,
         \/ msg.kind \in Routed /\ msg.ttl # 0
         \/ msg.kind = "Data" /\ msg.ttl > 1
  PROVE  [msg EXCEPT !.ttl = @ - 1] \in Message
<1> DEFINE new == [msg EXCEPT !.ttl = @ - 1]
<1>1. Ttl \in Nat
  BY BoundAssumption
<1>2. CASE msg \in Pings
  <2>1. new \in Pings
    BY <1>1, <1>2 DEF Pings, Routed
  <2> QED BY <2>1 DEF Message
<1>3. CASE msg \in Pongs
  <2>1. new \in Pongs
    BY <1>1, <1>3 DEF Pongs, Routed
  <2> QED BY <2>1 DEF Message
<1>4. CASE msg \in ClientsReqs
  <2>1. new \in ClientsReqs
    BY <1>1, <1>4 DEF ClientsReqs, Routed
  <2> QED BY <2>1 DEF Message
<1>5. CASE msg \in ClientsResps
  <2>1. new \in ClientsResps
    BY <1>1, <1>5 DEF ClientsResps, Routed
  <2> QED BY <2>1 DEF Message
<1>6. CASE msg \in Registers
  <2>1. new \in Registers
    BY <1>1, <1>6 DEF Registers, Routed
  <2> QED BY <2>1 DEF Message
<1>7. CASE msg \in Datas
  <2>1. new \in Datas
    BY <1>1, <1>7 DEF Datas, Routed
  <2> QED BY <2>1 DEF Message
<1>8. CASE msg \in Acks \cup Keepalives
  BY <1>8 DEF Acks, Keepalives, Routed
<1> QED
  BY <1>2, <1>3, <1>4, <1>5, <1>6, <1>7, <1>8 DEF Message

\* What a target resolves to is a stealth identifier.
LEMMA ResolveType ==
  ASSUME NEW n \in Node, NEW target
  PROVE  ResolveTarget(n, target) \subseteq Stealth
<1>1. Table[n] \in RoutingTable(Node)
  BY NodeType
<1>2. Lookup(Table[n], target).found => Lookup(Table[n], target).route \in Route
  BY <1>1, LookupType
<1> QED
  BY <1>2 DEF ResolveTarget, Route

\* The set a message is in is told by its kind.
LEMMA KindType ==
  ASSUME NEW msg \in Message
  PROVE  /\ msg.kind = "PingReq" => msg \in Pings
         /\ msg.kind = "PingResp" => msg \in Pongs
         /\ msg.kind = "PublicClientsReq" => msg \in ClientsReqs
         /\ msg.kind = "PublicClientsResp" => msg \in ClientsResps
         /\ msg.kind = "ClientRegister" => msg \in Registers
         /\ msg.kind = "Data" => msg \in Datas
BY DEF Message, Pings, Pongs, ClientsReqs, ClientsResps, Registers, Acks, Datas,
       Keepalives

-----------------------------------------------------------------------------
(***************************************************************************)
(* Type correctness.  LoopsCount is needed beside TypeOK: the counter of a *)
(* loop stays a natural number because an iteration is only entered, and   *)
(* so only left, with something left to do.                                *)
(***************************************************************************)
TypeInv == TypeOK /\ LoopsCount

LEMMA TypeInit == Init => TypeInv
<1> SUFFICES ASSUME Init PROVE TypeInv
  OBVIOUS
<1>1. /\ LocalTraffic \in [Node -> SUBSET Packet]
      /\ KeepaliveRounds \in [Node -> Nat] /\ RegisterRounds \in [Client -> Nat]
      /\ [t \in Thread |-> LocalStealth[At[t]]] \in [Thread -> Stealth]
  BY PacketAssumption, BoundAssumption, NodeAssumption, CommandAssumption
<1> QED
  BY <1>1 DEF Init, TypeInv, TypeOK, LoopsCount, Active

\* A handler that changes nothing but the network.
LEMMA TypeForward ==
  ASSUME TypeInv, NEW f, NEW out, out \subseteq Frame, Received(f, out),
         UNCHANGED <<pending, registered_clients, udp, tun_writers>>,
         UNCHANGED <<restarts, next_request_id, tun_in, tun_out, timerVars, adminVars>>
  PROVE  TypeInv'
<1>1. net' \subseteq Frame /\ dups' \in Nat
  BY ReceivedType DEF TypeInv, TypeOK
<1> QED
  BY <1>1 DEF TypeInv, TypeOK, LoopsCount, Active, timerVars, adminVars

\* What the handler of f knows of it.
LEMMA OpenedType ==
  ASSUME TypeInv, NEW f \in net
  PROVE  /\ f.to \in Node /\ f.from \in Node /\ f.msg \in Message
         /\ LocalStealth[f.to] \in Stealth
BY NodeType DEF TypeInv, TypeOK, Frame

\* A handler that only reads the datagram, or sends one on.
LEMMA TypeHandlePlain ==
  ASSUME TypeInv, NEW f \in net,
         \/ DropUnknownSender(f) \/ Ignore(f) \/ DropExhausted(f) \/ Relay(f)
         \/ AnswerPing(f) \/ AnswerClients(f) \/ RelayData(f) \/ DropData(f),
         UNCHANGED <<restarts, next_request_id, tun_in, tun_out, timerVars, adminVars>>
  PROVE  TypeInv'
<1> DEFINE n == f.to
<1>0. /\ n \in Node /\ f.msg \in Message /\ LocalStealth[n] \in Stealth
      /\ {} \subseteq Frame
  BY OpenedType
<1>1. CASE DropUnknownSender(f) \/ Ignore(f) \/ DropExhausted(f) \/ DropData(f)
  <2>1. /\ Received(f, {})
        /\ UNCHANGED <<pending, registered_clients, udp, tun_writers>>
    BY <1>1 DEF DropUnknownSender, Ignore, DropExhausted, DropData
  <2> QED
    BY <1>0, <2>1, TypeForward
<1>2. CASE Relay(f) \/ RelayData(f)
  <2> DEFINE new == [f.msg EXCEPT !.ttl = @ - 1]
  <2>1. \/ f.msg.kind \in Routed /\ f.msg.ttl # 0
        \/ f.msg.kind = "Data" /\ ~(f.msg.ttl <= 1)
    BY <1>2 DEF Relay, RoutedOn, Exhausted, RelayData, OpenedData, Spent
  <2>2. f.msg.kind = "Data" => f.msg.ttl \in Int
    BY <1>0, KindType, BoundAssumption DEF Datas
  <2>3. new \in Message
    BY <1>0, <2>1, <2>2, RelayedType
  <2>4. /\ Received(f, Forward(n, f.msg.dst_stealth, new))
        /\ UNCHANGED <<pending, registered_clients, udp, tun_writers>>
    BY <1>2 DEF Relay, RelayData
  <2>5. Forward(n, f.msg.dst_stealth, new) \subseteq Frame
    BY <1>0, <2>3, ForwardType
  <2> QED
    BY <2>4, <2>5, TypeForward
<1>3. CASE AnswerPing(f)
  <2> DEFINE reply == Request("PingResp", f.msg.request_id, LocalStealth[n],
                              f.msg.src_stealth)
  <2>1. f.msg \in Pings
    BY <1>0, <1>3, KindType DEF AnswerPing, RoutedToMe
  <2>2. f.msg.request_id \in Nat /\ f.msg.src_stealth \in Stealth
    BY <2>1 DEF Pings
  <2>3. reply \in Message
    BY <1>0, <2>2, RequestType
  <2>4. Forward(n, f.msg.src_stealth, reply) \subseteq Frame
    BY <1>0, <2>3, ForwardType
  <2> QED
    BY <1>3, <2>4, TypeForward DEF AnswerPing
<1>4. CASE AnswerClients(f)
  <2> DEFINE listing ==
        {[origin |-> "configured", entry |-> e] :
           e \in IF Published[n].enabled THEN Published[n].entries ELSE {}}
        \cup {[origin |-> "registered", entry |-> e] : e \in registered_clients[n]}
      reply == [kind |-> "PublicClientsResp", request_id |-> f.msg.request_id,
                src_stealth |-> LocalStealth[n], dst_stealth |-> f.msg.src_stealth,
                ttl |-> Ttl, clients |-> listing]
  <2>1. f.msg \in ClientsReqs
    BY <1>0, <1>4, KindType DEF AnswerClients, RoutedToMe
  <2>2. f.msg.request_id \in Nat /\ f.msg.src_stealth \in Stealth
    BY <2>1 DEF ClientsReqs
  <2>3. listing \subseteq Listing
    <3>1. Published[n].entries \subseteq Entry
      BY <1>0, ClientAssumption
    <3>2. registered_clients[n] \subseteq Entry
      BY <1>0 DEF TypeInv, TypeOK
    <3> QED
      BY <3>1, <3>2 DEF Listing
  <2>4. reply \in ClientsResps
    BY <1>0, <2>2, <2>3, BoundAssumption DEF ClientsResps
  <2>5. reply \in Message
    BY <2>4 DEF Message
  <2>6. Forward(n, f.msg.src_stealth, reply) \subseteq Frame
    BY <1>0, <2>5, ForwardType
  <2>7. /\ Received(f, Forward(n, f.msg.src_stealth, reply))
        /\ UNCHANGED <<pending, registered_clients, udp, tun_writers>>
    BY <1>4 DEF AnswerClients
  <2> QED
    BY <2>6, <2>7, TypeForward
<1> QED
  BY <1>1, <1>2, <1>3, <1>4

\* A handler that also changes a table of its node.
LEMMA TypeHandleTables ==
  ASSUME TypeInv, NEW f \in net,
         RegisterClient(f) \/ AcceptPong(f) \/ AcceptClients(f) \/ DeliverData(f),
         UNCHANGED <<restarts, next_request_id, tun_in, tun_out, timerVars, adminVars>>
  PROVE  TypeInv'
<1> DEFINE n == f.to
<1>0. /\ n \in Node /\ f.msg \in Message /\ LocalStealth[n] \in Stealth
      /\ {} \subseteq Frame
  BY OpenedType
<1> USE DEF TypeInv, TypeOK, LoopsCount, Active, timerVars, adminVars
<1>1. CASE RegisterClient(f)
  <2> DEFINE ack == Request("ClientRegisterAck", f.msg.request_id, LocalStealth[n],
                            f.msg.src_stealth)
  <2>1. f.msg \in Registers
    BY <1>0, <1>1, KindType DEF RegisterClient, RoutedToMe
  <2>2. /\ f.msg.request_id \in Nat /\ f.msg.src_stealth \in Stealth
        /\ f.msg.client \in Entry
    BY <2>1 DEF Registers
  <2>3. ack \in Message
    BY <1>0, <2>2, RequestType
  <2>4. Forward(n, f.msg.src_stealth, ack) \subseteq Frame
    BY <1>0, <2>3, ForwardType
  <2>5. net' \subseteq Frame /\ dups' \in Nat
    BY <1>1, <2>4, ReceivedType DEF RegisterClient
  <2>6. registered_clients' \in [Node -> SUBSET Entry]
    BY <1>0, <1>1, <2>2 DEF RegisterClient
  <2> QED
    BY <1>1, <2>5, <2>6 DEF RegisterClient
<1>2. ASSUME NEW op, NEW result, TakeSender(f, op, result),
             result \in [ok : {TRUE}, responder : Stealth, clients : SUBSET Listing]
      PROVE  TypeInv'
  <2>1. net' \subseteq Frame /\ dups' \in Nat
    BY <1>0, <1>2, ReceivedType DEF TakeSender
  <2>2. pending' \in [Node -> SUBSET [op : Operation, id : Nat, thread : Thread]]
    BY <1>0, <1>2 DEF TakeSender, Without
  <2>3. udp' \in [Node -> {Idle} \cup Busy]
    <3> DEFINE found == {e \in pending[n] : e.op = op /\ e.id = f.msg.request_id}
    <3>1. Take(n, found, result)
      BY <1>2 DEF TakeSender
    <3>2. \A e \in found : e.thread \in Thread /\ e.id \in Nat
      BY <1>0
    <3>3. \A e \in found : [busy |-> TRUE, thread |-> e.thread, id |-> e.id,
                            result |-> result] \in Busy
      BY <1>2, <3>2 DEF Busy
    <3>4. \/ UNCHANGED udp
          \/ \E v \in Busy : udp' = [udp EXCEPT ![n] = v]
      BY <3>1, <3>3 DEF Take
    <3> QED
      BY <1>0, <3>4
  <2> QED
    BY <1>2, <2>1, <2>2, <2>3 DEF TakeSender
<1>3. CASE AcceptPong(f)
  <2>1. f.msg \in Pongs
    BY <1>0, <1>3, KindType DEF AcceptPong, RoutedToMe
  <2>2. f.msg.src_stealth \in Stealth
    BY <2>1 DEF Pongs
  <2> QED
    BY <1>2, <1>3, <2>2 DEF AcceptPong
<1>4. CASE AcceptClients(f)
  <2>1. f.msg \in ClientsResps
    BY <1>0, <1>4, KindType DEF AcceptClients, RoutedToMe
  <2>2. f.msg.src_stealth \in Stealth /\ f.msg.clients \subseteq Listing
    BY <2>1 DEF ClientsResps
  <2> QED
    BY <1>2, <1>4, <2>2 DEF AcceptClients
<1>5. CASE DeliverData(f)
  <2>1. f.msg \in Datas
    BY <1>0, <1>5, KindType DEF DeliverData, OpenedData
  <2>2. f.msg.inner_packet \in Packet
    BY <2>1 DEF Datas
  <2>3. net' \subseteq Frame /\ dups' \in Nat
    BY <1>0, <1>5, ReceivedType DEF DeliverData
  <2>4. tun_writers' \in [Node -> SUBSET Packet]
    BY <1>0, <1>5, <2>2 DEF DeliverData
  <2> QED
    BY <1>5, <2>3, <2>4 DEF DeliverData
<1> QED
  BY <1>1, <1>3, <1>4, <1>5

LEMMA TypeHandOver == ASSUME TypeInv, NEW n \in Node, HandOver(n) PROVE TypeInv'
<1> USE DEF TypeInv, TypeOK, LoopsCount, Active
<1>1. udp[n].thread \in Thread /\ udp[n].result \in Result
  BY DEF HandOver, Busy, Result
<1>2. rx' \in [Thread -> Seq(Result)]
  <2>1. \/ UNCHANGED rx
        \/ rx' = [rx EXCEPT ![udp[n].thread] = Append(@, udp[n].result)]
    BY DEF HandOver
  <2>2. rx[udp[n].thread] \in Seq(Result)
    BY <1>1
  <2>3. Append(rx[udp[n].thread], udp[n].result) \in Seq(Result)
    BY <1>1, <2>2
  <2> QED
    BY <1>1, <2>1, <2>3
<1>3. udp' \in [Node -> {Idle} \cup Busy]
  BY DEF HandOver
<1> QED
  BY <1>2, <1>3 DEF HandOver, netVars, tunVars, timerVars

LEMMA TypeTun ==
  ASSUME TypeInv, NEW n \in Node, NEW p \in Packet, ReadTun(n, p) \/ WriteTun(n, p)
  PROVE  TypeInv'
<1> USE DEF TypeInv, TypeOK, LoopsCount, Active, netVars, timerVars, adminVars
<1>1. CASE ReadTun(n, p)
  <2> DEFINE found == Lookup(Table[n], p.dst)
             msg == [kind |-> "Data", src_stealth |-> LocalStealth[n],
                     dst_stealth |-> found.route.stealth, ttl |-> Ttl,
                     inner_packet |-> p]
  <2>1. Table[n] \in RoutingTable(Node) /\ LocalStealth[n] \in Stealth
    BY NodeType
  <2>2. ASSUME found.found PROVE msg \in Message
    <3>1. found.route.stealth \in Stealth
      BY <2>1, <2>2, LookupType DEF Route
    <3>2. Ttl \in 1 .. Ttl
      BY BoundAssumption
    <3>3. msg \in Datas
      BY <2>1, <3>1, <3>2 DEF Datas
    <3> QED
      BY <3>3 DEF Message
  <2>3. Encapsulated(n, p) \subseteq Frame
    <3>1. CASE found.found
      <4>1. Forward(n, found.route.stealth, msg) \subseteq Frame
        BY <2>2, <3>1, ForwardType
      <4> QED
        BY <4>1 DEF Encapsulated
    <3>2. CASE ~found.found
      BY <3>2 DEF Encapsulated
    <3> QED
      BY <3>1, <3>2
  <2>4. net' \subseteq Frame /\ dups' \in Nat
    BY <1>1, <2>3, OriginateType DEF ReadTun
  <2>5. tun_in' \in [Node -> SUBSET Packet]
    BY <1>1 DEF ReadTun
  <2> QED
    BY <1>1, <2>4, <2>5 DEF ReadTun
<1>2. CASE WriteTun(n, p)
  <2>1. tun_writers' \in [Node -> SUBSET Packet]
    BY <1>2 DEF WriteTun
  <2>2. tun_out' \in [Node -> SUBSET Packet]
    <3>1. \/ tun_out' = tun_out
          \/ tun_out' = [tun_out EXCEPT ![n] = @ \cup {p}]
      BY <1>2 DEF WriteTun
    <3>2. tun_out \in [Node -> SUBSET Packet]
      OBVIOUS
    <3> HIDE DEF TypeInv, TypeOK
    <3> QED
      BY <3>1, <3>2
  <2>3. UNCHANGED <<netVars, restarts, next_request_id, pending, udp,
                    registered_clients, tun_in, timerVars, adminVars>>
    BY <1>2 DEF WriteTun
  <2> QED
    BY <2>1, <2>2, <2>3
<1> QED
  BY <1>1, <1>2

LEMMA TypeKeepalive == ASSUME TypeInv, NEW n \in Node, KeepaliveRound(n) PROVE TypeInv'
<1> USE DEF TypeInv, TypeOK, LoopsCount, Active, tunVars, adminVars
<1>1. [kind |-> "Keepalive"] \in Message
  BY DEF Message, Keepalives
<1>2. SendTo(n, DOMAIN PeersById[n], [kind |-> "Keepalive"]) \subseteq Frame
  BY <1>1, NodeType, SendType
<1>3. net' \subseteq Frame /\ dups' \in Nat
  BY <1>2, OriginateType DEF KeepaliveRound
<1>4. keepalive_left' \in [Node -> Nat]
  BY DEF KeepaliveRound
<1>5. UNCHANGED <<restarts, next_request_id, pending, registered_clients, udp,
                  tunVars, register_left, adminVars>>
  BY DEF KeepaliveRound
<1> QED
  BY <1>3, <1>4, <1>5

LEMMA TypeRegister == ASSUME TypeInv, NEW c \in Client, RegisterRound(c) PROVE TypeInv'
<1> USE DEF TypeInv, TypeOK, LoopsCount, Active, tunVars, adminVars
<1> DEFINE home == HomeGateway[c]
           msg  == [kind |-> "ClientRegister", request_id |-> next_request_id[c],
                    src_stealth |-> LocalStealth[c],
                    dst_stealth |-> PeersById[c][home], ttl |-> Ttl,
                    client |-> [public_id |-> PublicIdOf[c],
                                client_stealth |-> LocalStealth[c]]]
<1>1. c \in Node /\ home \in Node /\ PublicIdOf[c] \in PublicId
  BY NodeAssumption, ClientAssumption
<1>2. home \in DOMAIN PeersById[c]
  BY DEF RegisterRound, SendRegister
<1>3. /\ LocalStealth[c] \in Stealth /\ PeersById[c][home] \in Stealth
      /\ next_request_id[c] \in Nat
  BY <1>1, <1>2, NodeType
<1>4. msg \in Registers
  BY <1>1, <1>3, BoundAssumption DEF Registers, Entry
<1>5. SendTo(c, {home}, msg) \subseteq Frame
  <2>1. msg \in Message
    BY <1>4 DEF Message
  <2> QED
    BY <1>1, <2>1, SendType
<1>6. net' \subseteq Frame /\ dups' \in Nat
  BY <1>5, OriginateType DEF RegisterRound, SendRegister
<1>7. /\ register_left' \in [Client -> Nat]
      /\ next_request_id' \in [Node -> Nat \ {0}]
  BY <1>1 DEF RegisterRound, SendRegister
<1>8. UNCHANGED <<restarts, pending, registered_clients, udp, tunVars,
                  keepalive_left, adminVars>>
  BY DEF RegisterRound, SendRegister
<1> HIDE DEF home, msg
<1> QED
  BY <1>6, <1>7, <1>8

LEMMA TypeEnvironment ==
  ASSUME TypeInv, \/ \E f \in net : Lose(f)
                  \/ \E n \in Node : Restart(n)
  PROVE  TypeInv'
<1> USE DEF TypeInv, TypeOK, LoopsCount, Active, tunVars, timerVars, adminVars
<1>1. CASE \E f \in net : Lose(f)
  BY <1>1 DEF Lose
<1>2. ASSUME NEW n \in Node, Restart(n) PROVE TypeInv'
  <2>1. net' \subseteq net
    BY <1>2 DEF Restart
  <2>2. \E lost \in SUBSET tun_in[n] : tun_in' = [tun_in EXCEPT ![n] = @ \ lost]
    BY <1>2 DEF Restart
  <2>3. tun_in' \in [Node -> SUBSET Packet]
    <3>1. tun_in \in [Node -> SUBSET Packet]
      OBVIOUS
    <3> HIDE DEF TypeInv, TypeOK
    <3> QED BY <2>2, <3>1
  <2>4. next_request_id' \in [Node -> Nat \ {0}]
    BY <1>2 DEF Restart
  <2>5. pending' \in [Node -> SUBSET [op : Operation, id : Nat, thread : Thread]]
    BY <1>2 DEF Restart
  <2>6. /\ registered_clients' \in [Node -> SUBSET Entry]
        /\ tun_writers' \in [Node -> SUBSET Packet]
    BY <1>2 DEF Restart
  <2>7. udp' \in [Node -> {Idle} \cup Busy]
    BY <1>2 DEF Restart
  <2>8. /\ pc' \in [Thread -> {"new", "loop", "insert", "send", "cancel", "wait",
                               "expired", "closed"}]
        /\ \A t \in Thread : Active(t)' => Active(t)
    BY <1>2 DEF Restart
  <2>9. rx' \in [Thread -> Seq(Result)]
    BY <1>2 DEF Restart
  <2>10. /\ UNCHANGED <<dups, tun_out, timerVars, cmd, left, target_stealth,
                        request_id, results>>
         /\ restarts' = restarts + 1
    BY <1>2 DEF Restart
  <2> QED
    BY <2>1, <2>3, <2>4, <2>5, <2>6, <2>7, <2>8, <2>9, <2>10
<1> QED
  BY <1>1, <1>2
-----------------------------------------------------------------------------
\* What an admin step leaves alone.
Elsewhere == <<restarts, registered_clients, udp, tunVars, timerVars>>

\* An iteration begins: ids are counted from 1, and the target is a stealth.
LEMMA TypeNextRequest ==
  ASSUME TypeInv, NEW t \in Thread, NextRequest(t), UNCHANGED Elsewhere
  PROVE  TypeInv'
<1> USE DEF TypeInv, TypeOK, LoopsCount, Active, netVars, tunVars, timerVars
<1>1. At[t] \in Node
  BY CommandAssumption
<1>2. next_request_id' \in [Node -> Nat \ {0}]
  BY <1>1 DEF NextRequest
<1>3. target_stealth' \in [Thread -> Stealth]
  <2>1. ResolveTarget(At[t], cmd[t].target) \subseteq Stealth
    BY <1>1, ResolveType
  <2>2. \E s \in Stealth : target_stealth' = [target_stealth EXCEPT ![t] = s]
    BY <2>1 DEF NextRequest, NewChannel
  <2> QED
    BY <2>2
<1>4. request_id' \in [Thread -> Nat] /\ rx' \in [Thread -> Seq(Result)]
  BY <1>1 DEF NextRequest, NewChannel
<1>5. /\ left[t] > 0 /\ pc' = [pc EXCEPT ![t] = "insert"]
      /\ UNCHANGED <<netVars, pending, cmd, left, results>>
  BY DEF NextRequest, NewChannel, GoTo
<1> QED
  BY <1>2, <1>3, <1>4, <1>5 DEF Elsewhere

\* An iteration ends: left is counted down from more than 0.
LEMMA TypePush ==
  ASSUME TypeInv, NEW t \in Thread, NEW result \in Result, Push(t, result),
         left[t] > 0, pc' = [pc EXCEPT ![t] = "loop"],
         UNCHANGED <<netVars, next_request_id>>, UNCHANGED Elsewhere,
         pending' \in [Node -> SUBSET [op : Operation, id : Nat, thread : Thread]]
  PROVE  TypeInv'
<1> USE DEF TypeInv, TypeOK, LoopsCount, Active, netVars, tunVars, timerVars
<1>1. results' \in [Thread -> Seq(Result)]
  BY DEF Push
<1>2. left' \in [Thread -> Nat] /\ \A u \in Thread : u # t => left'[u] = left[u]
  BY DEF Push
<1>3. rx' \in [Thread -> Seq(Result)]
  BY DEF Push
<1>4. UNCHANGED <<cmd, target_stealth, request_id>>
  BY DEF Push
<1>5. \A u \in Thread : Active(u)' => u # t /\ Active(u)
  OBVIOUS
<1> QED
  BY <1>1, <1>2, <1>3, <1>4, <1>5 DEF Elsewhere

\* A step that only moves the thread, within its iteration or to its end.
LEMMA TypeMove ==
  ASSUME TypeInv, NEW t \in Thread, NEW to,
         (to \in {"cancel", "expired"} /\ Active(t)) \/ to = "closed",
         pc' = [pc EXCEPT ![t] = to],
         UNCHANGED <<netVars, next_request_id, pending, cmd, left, target_stealth,
                     request_id, rx, results>>,
         UNCHANGED Elsewhere
  PROVE  TypeInv'
BY DEF TypeInv, TypeOK, LoopsCount, Active, netVars, tunVars, timerVars, Elsewhere

LEMMA TypeInsert ==
  ASSUME TypeInv, NEW t \in Thread, InsertSender(t), UNCHANGED Elsewhere
  PROVE  TypeInv'
<1> USE DEF TypeInv, TypeOK, LoopsCount, Active, netVars, tunVars, timerVars
<1> DEFINE entry == [op |-> cmd[t].op, id |-> request_id[t], thread |-> t]
<1>1. At[t] \in Node /\ cmd[t].op \in Operation
  <2>1. cmd[t] \in Command \/ cmd[t] = NoCommand
    OBVIOUS
  <2>2. NoCommand.op \in Operation
    BY DEF NoCommand, Operation
  <2> HIDE DEF TypeInv, TypeOK
  <2> QED
    BY <2>1, <2>2, CommandAssumption
<1>2. entry \in [op : Operation, id : Nat, thread : Thread]
  BY <1>1
<1>3. pending' = [pending EXCEPT ![At[t]] = Without(@, entry.op, entry.id) \cup {entry}]
  BY DEF InsertSender
<1>4. pending' \in [Node -> SUBSET [op : Operation, id : Nat, thread : Thread]]
  <2>1. Without(pending[At[t]], entry.op, entry.id)
          \subseteq [op : Operation, id : Nat, thread : Thread]
    BY <1>1 DEF Without
  <2> HIDE DEF entry
  <2> QED
    BY <1>1, <1>2, <1>3, <2>1
<1>5. /\ pc[t] = "insert" /\ pc' = [pc EXCEPT ![t] = "send"]
      /\ UNCHANGED <<netVars, next_request_id, cmd, left, target_stealth,
                     request_id, rx, results>>
  BY DEF InsertSender, GoTo
<1> QED
  BY <1>4, <1>5 DEF Elsewhere

LEMMA TypeSendRequest ==
  ASSUME TypeInv, NEW t \in Thread, SendRequest(t), UNCHANGED Elsewhere
  PROVE  TypeInv'
<1> USE DEF TypeInv, TypeOK, LoopsCount, Active, tunVars, timerVars
<1>1. At[t] \in Node /\ LocalStealth[At[t]] \in Stealth
  BY CommandAssumption, NodeType
<1>2. RequestMsg(t) \in Message
  BY <1>1, RequestType DEF RequestMsg
<1>3. net' \subseteq Frame
  <2>1. PICK p \in NextHop(At[t], target_stealth[t]) :
          net' = net \cup SendTo(At[t], {p}, RequestMsg(t))
    BY DEF SendRequest
  <2>2. SendTo(At[t], {p}, RequestMsg(t)) \subseteq Frame
    BY <1>1, <1>2, NextHopType, SendType
  <2> QED
    BY <2>1, <2>2
<1>4. /\ pc[t] = "send" /\ pc' = [pc EXCEPT ![t] = "wait"]
      /\ UNCHANGED <<dups, next_request_id, pending, cmd, left, target_stealth,
                     request_id, rx, results>>
  BY DEF SendRequest, GoTo
<1> QED
  BY <1>3, <1>4 DEF Elsewhere

LEMMA TypeAdminStep == ASSUME TypeInv, NEW t \in Thread, AdminStep(t) PROVE TypeInv'
<1>0. UNCHANGED Elsewhere
  BY DEF AdminStep, Elsewhere
<1>1. CASE NextRequest(t)
  BY <1>0, <1>1, TypeNextRequest
<1>2. CASE InsertSender(t)
  BY <1>0, <1>2, TypeInsert
<1>3. CASE SendRequest(t)
  BY <1>0, <1>3, TypeSendRequest
<1>4. CASE SendFails(t) \/ Expire(t) \/ Respond(t)
  <2>1. \E to : /\ (to \in {"cancel", "expired"} /\ Active(t)) \/ to = "closed"
                /\ pc' = [pc EXCEPT ![t] = to]
    BY <1>4 DEF SendFails, Expire, Respond, GoTo, Active
  <2>2. UNCHANGED <<netVars, next_request_id, pending, cmd, left, target_stealth,
                    request_id, rx, results>>
    BY <1>4 DEF SendFails, Expire, Respond
  <2> QED
    BY <1>0, <2>1, <2>2, TypeMove
<1>5. CASE Unresolved(t) \/ TakeResult(t) \/ RemoveSender(t)
  <2>1. left[t] > 0
    BY <1>5 DEF Unresolved, TakeResult, RemoveSender, GoTo, TypeInv, LoopsCount, Active
  <2>2. pc' = [pc EXCEPT ![t] = "loop"]
    BY <1>5 DEF Unresolved, TakeResult, RemoveSender, GoTo
  <2>3. \E result \in Result : Push(t, result)
    <3>1. rx[t] \in Seq(Result)
      BY DEF TypeInv, TypeOK
    <3>2. rx[t] # <<>> => Head(rx[t]) \in Result
      BY <3>1
    <3> QED
      BY <1>5, <3>2 DEF Unresolved, TakeResult, RemoveSender, Result
  <2>4. pending' \in [Node -> SUBSET [op : Operation, id : Nat, thread : Thread]]
    BY <1>5 DEF Unresolved, TakeResult, RemoveSender, Without, TypeInv, TypeOK
  <2>5. UNCHANGED <<netVars, next_request_id>>
    BY <1>5 DEF Unresolved, TakeResult, RemoveSender
  <2> QED
    BY <1>0, <2>1, <2>2, <2>3, <2>4, <2>5, TypePush
<1> QED
  BY <1>1, <1>2, <1>3, <1>4, <1>5 DEF AdminStep

LEMMA TypeConnect == ASSUME TypeInv, NEW t \in Thread, Connect(t) PROVE TypeInv'
<1> USE DEF TypeInv, TypeOK, LoopsCount, Active, netVars, tunVars, timerVars
<1>1. PICK c \in Command : AcceptRequest(t, c)
  BY DEF Connect
<1>2. /\ cmd' \in [Thread -> Command \cup {NoCommand}]
      /\ left' \in [Thread -> Nat]
      /\ \A u \in Thread : u # t => left'[u] = left[u]
  BY <1>1, CommandAssumption DEF AcceptRequest
<1>3. /\ pc' = [pc EXCEPT ![t] = "loop"]
      /\ UNCHANGED <<netVars, next_request_id, pending, target_stealth,
                     request_id, rx, results>>
  BY <1>1 DEF AcceptRequest, GoTo
<1>4. UNCHANGED <<restarts, registered_clients, udp, tunVars, timerVars>>
  BY DEF Connect
<1>5. \A u \in Thread : Active(u)' => u # t /\ Active(u)
  BY <1>3
<1> QED
  BY <1>2, <1>3, <1>4, <1>5

\* A step of any thread, timer, or of the environment keeps the types.
LEMMA TypeStep == TypeInv /\ [Next]_vars => TypeInv'
<1> SUFFICES ASSUME TypeInv, [Next]_vars PROVE TypeInv'
  OBVIOUS
<1>1. ASSUME NEW f \in net, HandleDatagram(f) PROVE TypeInv'
  <2>1. UNCHANGED <<restarts, next_request_id, tun_in, tun_out, timerVars, adminVars>>
    BY <1>1 DEF HandleDatagram
  <2>2. CASE \/ DropUnknownSender(f) \/ Ignore(f) \/ DropExhausted(f) \/ Relay(f)
             \/ AnswerPing(f) \/ AnswerClients(f) \/ RelayData(f) \/ DropData(f)
    BY <2>1, <2>2, TypeHandlePlain
  <2>3. CASE RegisterClient(f) \/ AcceptPong(f) \/ AcceptClients(f) \/ DeliverData(f)
    BY <2>1, <2>3, TypeHandleTables
  <2> QED
    BY <1>1, <2>2, <2>3 DEF HandleDatagram
<1>2. ASSUME NEW n \in Node, HandOver(n) PROVE TypeInv'
  BY <1>2, TypeHandOver
<1>3. ASSUME NEW n \in Node, KeepaliveRound(n) PROVE TypeInv'
  BY <1>3, TypeKeepalive
<1>4. ASSUME NEW n \in Node, NEW p \in Packet, ReadTun(n, p) \/ WriteTun(n, p)
      PROVE TypeInv'
  BY <1>4, TypeTun
<1>5. ASSUME NEW c \in Client, RegisterRound(c) PROVE TypeInv'
  BY <1>5, TypeRegister
<1>6. ASSUME NEW t \in Thread, Connect(t) \/ AdminStep(t) PROVE TypeInv'
  BY <1>6, TypeConnect, TypeAdminStep
<1>7. CASE (\E f \in net : Lose(f)) \/ (\E n \in Node : Restart(n))
  BY <1>7, TypeEnvironment
<1>8. CASE UNCHANGED vars
  BY <1>8 DEF TypeInv, TypeOK, LoopsCount, Active, vars, netVars, tunVars,
              timerVars, adminVars
<1> QED
  BY <1>1, <1>2, <1>3, <1>4, <1>5, <1>6, <1>7, <1>8 DEF Next

\* Every variable of the daemons keeps its type, whatever the topology, the
\* tables, the traffic and the faults: in particular no relayed TTL, no loop
\* counter and no request id ever leaves its range.
THEOREM TypeCorrect == Spec => []TypeOK
<1>1. Init => TypeInv
  BY TypeInit
<1>2. TypeInv /\ [Next]_vars => TypeInv'
  BY TypeStep
<1>3. TypeInv => TypeOK
  BY DEF TypeInv
<1> QED
  BY <1>1, <1>2, <1>3, PTL DEF Spec
=============================================================================
