----------------------------- MODULE RelayProofs -----------------------------
(***************************************************************************)
(* Proofs about the messages on the network: where they come from, the way *)
(* they take, and what the nodes they reach keep of them.                  *)
(***************************************************************************)
EXTENDS DaemonProofs, FiniteSetTheorems

-----------------------------------------------------------------------------
(***************************************************************************)
(* The ways a frame gets on the network.                                   *)
(***************************************************************************)
\* A node that is no destination of f's message sends it on as g.
Relays(f, g) ==
  /\ f.msg.kind \in Relayed /\ ~ConsumedAt(f.to, f.msg) /\ f.msg.ttl # 0
  /\ g \in Forward(f.to, f.msg.dst_stealth, [f.msg EXCEPT !.ttl = @ - 1])

\* The destination of the request in f answers with g; an answer to CLIENTS
\* has every client that is registered at that moment.
Replies(f, g) ==
  /\ <<f.msg.kind, g.msg.kind>> \in {<<"PingReq", "PingResp">>,
                                     <<"PublicClientsReq", "PublicClientsResp">>,
                                     <<"ClientRegister", "ClientRegisterAck">>}
  /\ ForMe(f)
  /\ g.from = f.to /\ g.to \in NextHop(f.to, f.msg.src_stealth)
  /\ g.msg.request_id = f.msg.request_id /\ g.msg.ttl = Ttl
  /\ g.msg.src_stealth = LocalStealth[f.to]
  /\ g.msg.dst_stealth = f.msg.src_stealth
  /\ g.msg.kind = "PublicClientsResp" =>
       \A e \in registered_clients[f.to] :
         [origin |-> "registered", entry |-> e] \in g.msg.clients

\* An admin thread asks, the TUN reader sends a packet, a client registers.
Asks(t, g) ==
  pc[t] = "send" /\ g \in Forward(At[t], target_stealth[t], RequestMsg(t))

Carries(n, p, g) == p \in tun_in[n] /\ g \in Encapsulated(n, p)

Enrols(c, g) ==
  /\ g.from = c /\ g.to = HomeGateway[c]
  /\ g.msg.kind = "ClientRegister" /\ g.msg.ttl = Ttl
  /\ g.msg.request_id = next_request_id[c]
  /\ g.msg.src_stealth = LocalStealth[c]
  /\ g.msg.dst_stealth = PeersById[c][HomeGateway[c]]
  /\ g.msg.client = EntryOf(c)

Sent(g) == \/ \E f \in net : Relays(f, g) \/ Replies(f, g)
           \/ \E t \in Thread : Asks(t, g)
           \/ \E n \in Node, p \in Packet : Carries(n, p, g)
           \/ \E c \in Client : Enrols(c, g)
           \/ g.msg.kind = "Keepalive"

LEMMA SentByHandler ==
  ASSUME TypeInv, NEW f \in net, HandleDatagram(f), NEW g \in net', g \notin net
  PROVE  Relays(f, g) \/ Replies(f, g)
<1>1. ASSUME NEW out, Received(f, out) PROVE g \in out
  BY <1>1 DEF Received
<1>2. CASE \/ DropUnknownSender(f) \/ Ignore(f) \/ DropExhausted(f)
           \/ AcceptPong(f) \/ AcceptClients(f) \/ DeliverData(f) \/ DropData(f)
  <2>1. Received(f, {})
    BY <1>2 DEF DropUnknownSender, Ignore, DropExhausted, AcceptPong, AcceptClients,
                TakeSender, DeliverData, DropData
  <2> QED
    BY <1>1, <2>1
<1>3. CASE Relay(f)
  <2>1. Received(f, Forward(f.to, f.msg.dst_stealth, [f.msg EXCEPT !.ttl = @ - 1]))
    BY <1>3 DEF Relay
  <2>2. f.msg.kind \in Routed /\ f.msg.ttl # 0 /\ ~ForMe(f)
    BY <1>3 DEF Relay, RoutedOn, Exhausted
  <2> QED
    BY <1>1, <2>1, <2>2 DEF Relays, Relayed, Routed, ConsumedAt, ForMe
<1>4. CASE RelayData(f)
  <2>1. Received(f, Forward(f.to, f.msg.dst_stealth, [f.msg EXCEPT !.ttl = @ - 1]))
    BY <1>4 DEF RelayData
  <2>2. f.msg.kind = "Data" /\ ~DataIsLocal(f.to, f.msg) /\ ~(f.msg.ttl <= 1)
    BY <1>4 DEF RelayData, OpenedData, Spent
  <2> QED
    BY <1>1, <2>1, <2>2 DEF Relays, Relayed, ConsumedAt
<1>5. CASE AnswerPing(f)
  <2>1. g \in Forward(f.to, f.msg.src_stealth,
                Request("PingResp", f.msg.request_id, LocalStealth[f.to], f.msg.src_stealth))
    BY <1>1, <1>5 DEF AnswerPing
  <2> QED
    BY <1>5, <2>1 DEF AnswerPing, RoutedToMe, Forward, SendTo, Request, Replies
<1>6. CASE AnswerClients(f)
  <2>1. PICK listing :
          /\ g \in Forward(f.to, f.msg.src_stealth,
               [kind |-> "PublicClientsResp", request_id |-> f.msg.request_id,
                src_stealth |-> LocalStealth[f.to], dst_stealth |-> f.msg.src_stealth,
                ttl |-> Ttl, clients |-> listing])
          /\ \A e \in registered_clients[f.to] :
               [origin |-> "registered", entry |-> e] \in listing
    BY <1>1, <1>6 DEF AnswerClients
  <2> QED
    BY <1>6, <2>1 DEF AnswerClients, RoutedToMe, Forward, SendTo, Replies
<1>7. CASE RegisterClient(f)
  <2>1. g \in Forward(f.to, f.msg.src_stealth,
                Request("ClientRegisterAck", f.msg.request_id, LocalStealth[f.to],
                        f.msg.src_stealth))
    BY <1>1, <1>7 DEF RegisterClient
  <2> QED
    BY <1>7, <2>1 DEF RegisterClient, RoutedToMe, Forward, SendTo, Request, Replies
<1> QED
  BY <1>2, <1>3, <1>4, <1>5, <1>6, <1>7 DEF HandleDatagram

\* Every frame that a step leaves on the network was there, or got there in
\* one of these ways.
LEMMA FramesStep ==
  ASSUME TypeInv, [Next]_vars
  PROVE  \A g \in net' : g \in net \/ Sent(g)
<1> SUFFICES ASSUME NEW g \in net', g \notin net PROVE Sent(g)
  OBVIOUS
<1>0. ASSUME NEW out, Originate(out) PROVE g \in out
  BY <1>0 DEF Originate, Outcomes
<1>1. ASSUME NEW f \in net, HandleDatagram(f) PROVE Sent(g)
  BY <1>1, SentByHandler DEF Sent
<1>2. CASE \/ \E f \in net : Lose(f)
           \/ \E n \in Node : HandOver(n) \/ Restart(n)
           \/ \E n \in Node, p \in Packet : WriteTun(n, p)
           \/ \E t \in Thread : Connect(t)
           \/ UNCHANGED vars
  <2>1. net' \subseteq net
    BY <1>2 DEF Lose, HandOver, Restart, WriteTun, Connect, AcceptRequest, vars, netVars
  <2> QED
    BY <2>1
<1>3. ASSUME NEW n \in Node, NEW p \in Packet, ReadTun(n, p) PROVE Sent(g)
  BY <1>0, <1>3 DEF ReadTun, Sent, Carries
<1>4. ASSUME NEW n \in Node, KeepaliveRound(n) PROVE Sent(g)
  <2>1. g \in SendTo(n, DOMAIN PeersById[n], [kind |-> "Keepalive"])
    BY <1>0, <1>4 DEF KeepaliveRound
  <2>2. g.msg.kind = "Keepalive"
    BY <2>1 DEF SendTo
  <2> QED
    BY <2>2 DEF Sent
<1>5. ASSUME NEW c \in Client, RegisterRound(c) PROVE Sent(g)
  <2>1. g \in SendTo(c, {HomeGateway[c]},
              [kind |-> "ClientRegister", request_id |-> next_request_id[c],
               src_stealth |-> LocalStealth[c],
               dst_stealth |-> PeersById[c][HomeGateway[c]], ttl |-> Ttl,
               client |-> [public_id |-> PublicIdOf[c],
                           client_stealth |-> LocalStealth[c]]])
    BY <1>0, <1>5 DEF RegisterRound, SendRegister
  <2>2. Enrols(c, g)
    BY <2>1 DEF SendTo, Enrols, EntryOf
  <2> QED
    BY <2>2 DEF Sent
<1>6. ASSUME NEW t \in Thread, AdminStep(t) PROVE Sent(g)
  <2>1. CASE SendRequest(t)
    <3>1. pc[t] = "send"
      BY <2>1 DEF SendRequest, GoTo
    <3>2. g \in Forward(At[t], target_stealth[t], RequestMsg(t))
      BY <2>1 DEF SendRequest, Forward, SendTo
    <3> QED
      BY <3>1, <3>2 DEF Sent, Asks
  <2>2. CASE ~SendRequest(t)
    <3>1. net' = net
      BY <1>6, <2>2 DEF AdminStep, NextRequest, NewChannel, Unresolved, InsertSender,
                        SendFails, TakeResult, Expire, RemoveSender, Respond, netVars
    <3> QED
      BY <3>1
  <2> QED
    BY <2>1, <2>2
<1> QED
  BY <1>1, <1>2, <1>3, <1>4, <1>5, <1>6 DEF Next

\* A message that is sent on keeps everything but one of its TTL.
LEMMA RelayKeeps ==
  ASSUME TypeInv, NEW f \in net, NEW g, Relays(f, g)
  PROVE  /\ f.to \in Node /\ g.from = f.to
         /\ g.to \in NextHop(f.to, f.msg.dst_stealth)
         /\ g.msg.kind = f.msg.kind
         /\ f.msg.ttl \in 1 .. Ttl /\ g.msg.ttl = f.msg.ttl - 1
         /\ g.msg.src_stealth = f.msg.src_stealth
         /\ g.msg.dst_stealth = f.msg.dst_stealth
         /\ g.msg.kind = "Data" => g.msg.inner_packet = f.msg.inner_packet
         /\ g.msg.kind = "ClientRegister" => g.msg.client = f.msg.client
         /\ g.msg.kind = "PublicClientsResp" => g.msg.clients = f.msg.clients
         /\ g.msg.kind \in Routed => g.msg.request_id = f.msg.request_id
<1>1. f.to \in Node /\ f.msg \in Message /\ Ttl \in Nat
  BY OpenedType, BoundAssumption
<1>2. /\ g.from = f.to /\ g.to \in NextHop(f.to, f.msg.dst_stealth)
      /\ g.msg = [f.msg EXCEPT !.ttl = @ - 1]
  BY DEF Relays, Forward, SendTo
<1>3. f.msg.kind \in Relayed /\ f.msg.ttl # 0
  BY DEF Relays
<1>4. f.msg \in Pings \cup Pongs \cup ClientsReqs \cup ClientsResps \cup Registers
                  \cup Datas
  BY <1>1, <1>3, KindType DEF Relayed, Routed
<1>5. /\ DOMAIN f.msg = DOMAIN g.msg
      /\ {"kind", "ttl", "src_stealth", "dst_stealth"} \subseteq DOMAIN f.msg
      /\ f.msg.kind = "Data" => "inner_packet" \in DOMAIN f.msg
      /\ f.msg.kind = "ClientRegister" => "client" \in DOMAIN f.msg
      /\ f.msg.kind = "PublicClientsResp" => "clients" \in DOMAIN f.msg
      /\ f.msg.kind \in Routed => "request_id" \in DOMAIN f.msg
  BY <1>2, <1>4 DEF Pings, Pongs, ClientsReqs, ClientsResps, Registers, Datas, Routed
<1>6. f.msg.ttl \in 0 .. Ttl
  BY <1>1, <1>4 DEF Pings, Pongs, ClientsReqs, ClientsResps, Registers, Datas
<1> QED
  BY <1>1, <1>2, <1>3, <1>5, <1>6

-----------------------------------------------------------------------------
(***************************************************************************)
(* Registration.  An entry of registered_clients goes when another one     *)
(* with its client_stealth arrives; so it matters that every registration  *)
(* on the network, however old, is what its client still sends.            *)
(***************************************************************************)
RegistrationsAreMeant ==
  \A f \in net : f.msg.kind = "ClientRegister" => \E c \in Client : f.msg.client = EntryOf(c)

EnrolInv == TypeInv /\ RegistrationsAreMeant

LEMMA RegistrationsStep ==
  ASSUME EnrolInv, [Next]_vars
  PROVE  RegistrationsAreMeant'
<1> SUFFICES ASSUME NEW g \in net', g.msg.kind = "ClientRegister"
             PROVE  \E c \in Client : g.msg.client = EntryOf(c)
  BY DEF RegistrationsAreMeant, EntryOf
<1>1. CASE g \in net
  BY <1>1 DEF EnrolInv, RegistrationsAreMeant
<1>2. ASSUME NEW f \in net, Relays(f, g)
      PROVE  f.msg.kind = "ClientRegister" /\ g.msg.client = f.msg.client
  BY <1>2, RelayKeeps DEF EnrolInv
<1>3. ASSUME NEW t \in Thread, Asks(t, g) PROVE FALSE
  BY <1>3 DEF Asks, Forward, SendTo, RequestMsg, Request
<1>4. ASSUME NEW n \in Node, NEW p \in Packet, Carries(n, p, g) PROVE FALSE
  BY <1>4 DEF Carries, Encapsulated, Forward, SendTo
<1>5. \A f \in net : ~Replies(f, g)
  BY DEF Replies
<1>6. g \in net \/ Sent(g)
  BY FramesStep DEF EnrolInv
<1> QED
  BY <1>1, <1>2, <1>3, <1>4, <1>5, <1>6 DEF Sent, Enrols, EnrolInv, RegistrationsAreMeant

LEMMA EnrolAlways == Spec => []EnrolInv
<1>1. Init => EnrolInv
  BY TypeInit DEF Init, EnrolInv, RegistrationsAreMeant
<1>2. EnrolInv /\ [Next]_vars => EnrolInv'
  BY TypeStep, RegistrationsStep DEF EnrolInv
<1> QED
  BY <1>1, <1>2, PTL DEF Spec

\* A gateway lists a client until it crashes: what replaces the entry is, by
\* the client's name, the client's own registration again.
LEMMA RegisteredStays ==
  ASSUME EnrolInv, [Next]_vars, \A n \in Node : ~Restart(n),
         NEW c \in Client, NEW n \in Node, EntryOf(c) \in registered_clients[n]
  PROVE  EntryOf(c) \in registered_clients'[n]
<1>0. registered_clients \in [Node -> SUBSET Entry] /\ c \in Node
  BY NodeAssumption DEF EnrolInv, TypeInv, TypeOK
<1>1. ASSUME NEW f \in net, RegisterClient(f)
      PROVE  EntryOf(c) \in registered_clients'[n]
  <2>1. PICK d \in Client : f.msg.client = EntryOf(d)
    BY <1>1 DEF RegisterClient, RoutedToMe, EnrolInv, RegistrationsAreMeant
  <2>2. CASE d = c
    BY <1>0, <1>1, <2>1, <2>2 DEF RegisterClient
  <2>3. CASE d # c
    <3>1. EntryOf(c).client_stealth # f.msg.client.client_stealth
      BY <1>0, <2>1, <2>3, StealthAssumption, NodeAssumption DEF EntryOf
    <3> QED
      BY <1>0, <1>1, <3>1 DEF RegisterClient
  <2> QED
    BY <2>2, <2>3
<1>2. ASSUME NEW f \in net, HandleDatagram(f), ~RegisterClient(f)
      PROVE  UNCHANGED registered_clients
  BY <1>2 DEF HandleDatagram, DropUnknownSender, Ignore, DropExhausted, Relay, AnswerPing,
              AnswerClients, AcceptPong, AcceptClients, TakeSender, DeliverData,
              RelayData, DropData
<1>3. CASE \/ \E f \in net : Lose(f)
           \/ \E m \in Node : HandOver(m) \/ KeepaliveRound(m)
           \/ \E m \in Node, p \in Packet : ReadTun(m, p) \/ WriteTun(m, p)
           \/ \E d \in Client : RegisterRound(d)
           \/ \E t \in Thread : Connect(t) \/ AdminStep(t)
           \/ UNCHANGED vars
  BY <1>3 DEF Lose, HandOver, KeepaliveRound, ReadTun, WriteTun, RegisterRound,
              SendRegister, Connect, AdminStep, vars
<1> QED
  BY <1>1, <1>2, <1>3 DEF Next

-----------------------------------------------------------------------------
(***************************************************************************)
(* IP packets.  A DATA message on the network still carries a packet of    *)
(* some node's traffic under the identifier that node's table gives it.    *)
(***************************************************************************)
TrafficIsLocal == \A n \in Node : tun_in[n] \subseteq LocalTraffic[n]

PacketsAreRouted ==
  \A f \in net : f.msg.kind = "Data" =>
    \E a \in Node :
      LET p == f.msg.inner_packet
          found == Lookup(Table[a], p.dst)
      IN  /\ p \in LocalTraffic[a]
          /\ found.found /\ found.route.stealth = f.msg.dst_stealth

PacketInv == TypeInv /\ TrafficIsLocal /\ PacketsAreRouted /\ PacketsLandWhereRouted

LEMMA TrafficStep ==
  ASSUME PacketInv, [Next]_vars
  PROVE  TrafficIsLocal'
<1>0. tun_in \in [Node -> SUBSET Packet]
  BY DEF PacketInv, TypeInv, TypeOK
<1>1. ASSUME NEW n \in Node, NEW lost, tun_in' = [tun_in EXCEPT ![n] = @ \ lost]
      PROVE  TrafficIsLocal'
  BY <1>0, <1>1 DEF PacketInv, TrafficIsLocal
<1>2. ASSUME NEW n \in Node, NEW p \in Packet, ReadTun(n, p) PROVE TrafficIsLocal'
  BY <1>1, <1>2 DEF ReadTun
<1>3. ASSUME NEW n \in Node, Restart(n) PROVE TrafficIsLocal'
  BY <1>1, <1>3 DEF Restart
<1>4. CASE \/ \E f \in net : HandleDatagram(f) \/ Lose(f)
           \/ \E n \in Node : HandOver(n) \/ KeepaliveRound(n)
           \/ \E n \in Node, p \in Packet : WriteTun(n, p)
           \/ \E c \in Client : RegisterRound(c)
           \/ \E t \in Thread : Connect(t) \/ AdminStep(t)
           \/ UNCHANGED vars
  <2>1. UNCHANGED tun_in
    BY <1>4 DEF HandleDatagram, Lose, HandOver, KeepaliveRound, WriteTun, RegisterRound,
                SendRegister, Connect, AdminStep, vars, tunVars
  <2> QED
    BY <2>1 DEF PacketInv, TrafficIsLocal
<1> QED
  BY <1>2, <1>3, <1>4 DEF Next

LEMMA RoutedStep ==
  ASSUME PacketInv, [Next]_vars
  PROVE  PacketsAreRouted'
<1> DEFINE Routes(a, p, s) == /\ p \in LocalTraffic[a]
                              /\ Lookup(Table[a], p.dst).found
                              /\ Lookup(Table[a], p.dst).route.stealth = s
<1> SUFFICES ASSUME NEW g \in net', g.msg.kind = "Data"
             PROVE  \E a \in Node : Routes(a, g.msg.inner_packet, g.msg.dst_stealth)
  BY DEF PacketsAreRouted
<1>1. ASSUME NEW f \in net, f.msg.kind = "Data"
      PROVE  \E a \in Node : Routes(a, f.msg.inner_packet, f.msg.dst_stealth)
  BY <1>1 DEF PacketInv, PacketsAreRouted
<1>2. ASSUME NEW f \in net, Relays(f, g)
      PROVE  /\ f.msg.kind = "Data" /\ g.msg.inner_packet = f.msg.inner_packet
             /\ g.msg.dst_stealth = f.msg.dst_stealth
  BY <1>2, RelayKeeps DEF PacketInv
<1>3. ASSUME NEW t \in Thread, Asks(t, g) PROVE FALSE
  BY <1>3 DEF Asks, Forward, SendTo, RequestMsg, Request
<1>4. ASSUME NEW n \in Node, NEW p \in Packet, Carries(n, p, g)
      PROVE  Routes(n, g.msg.inner_packet, g.msg.dst_stealth)
  BY <1>4 DEF Carries, Encapsulated, Forward, SendTo, PacketInv, TrafficIsLocal
<1>5. (\A f \in net : ~Replies(f, g)) /\ (\A c \in Client : ~Enrols(c, g))
  BY DEF Replies, Enrols
<1>6. g \in net \/ Sent(g)
  BY FramesStep DEF PacketInv
<1> HIDE DEF Routes
<1> QED
  BY <1>1, <1>2, <1>3, <1>4, <1>5, <1>6 DEF Sent

\* What a node writes to its TUN device came in a DATA message that was local.
LEMMA WritesOnly ==
  ASSUME TypeInv, [Next]_vars, NEW m \in Node, NEW p \in tun_writers'[m] \cup tun_out'[m],
         p \notin tun_writers[m] \cup tun_out[m]
  PROVE  /\ m \in Tun
         /\ \E f \in net : /\ f.msg.kind = "Data" /\ f.msg.inner_packet = p
                           /\ DataIsLocal(m, f.msg)
<1>0. /\ tun_writers \in [Node -> SUBSET Packet]
      /\ tun_out \in [Node -> SUBSET Packet]
  BY DEF TypeInv, TypeOK
<1>1. ASSUME NEW f \in net, HandleDatagram(f), DeliverData(f)
      PROVE  /\ m \in Tun /\ f.msg.kind = "Data" /\ f.msg.inner_packet = p
             /\ DataIsLocal(m, f.msg)
  <2>1. /\ tun_out' = tun_out /\ DataIsLocal(f.to, f.msg) /\ f.msg.kind = "Data"
        /\ tun_writers' = IF f.to \in Tun
                          THEN [tun_writers EXCEPT ![f.to] = @ \cup {f.msg.inner_packet}]
                          ELSE tun_writers
    BY <1>1 DEF HandleDatagram, DeliverData, OpenedData
  <2> QED
    BY <1>0, <2>1
<1>2. ASSUME NEW f \in net, HandleDatagram(f), ~DeliverData(f)
      PROVE  UNCHANGED <<tun_writers, tun_out>>
  BY <1>2 DEF HandleDatagram, DropUnknownSender, Ignore, DropExhausted, Relay, AnswerPing,
              AnswerClients, RegisterClient, AcceptPong, AcceptClients, TakeSender,
              RelayData, DropData
<1>3. ASSUME NEW n \in Node, NEW q \in Packet, WriteTun(n, q) PROVE FALSE
  BY <1>0, <1>3 DEF WriteTun
<1>4. ASSUME NEW n \in Node, Restart(n) PROVE FALSE
  BY <1>0, <1>4 DEF Restart
<1>5. CASE \/ \E f \in net : Lose(f)
           \/ \E n \in Node : HandOver(n) \/ KeepaliveRound(n)
           \/ \E n \in Node, q \in Packet : ReadTun(n, q)
           \/ \E c \in Client : RegisterRound(c)
           \/ \E t \in Thread : Connect(t) \/ AdminStep(t)
           \/ UNCHANGED vars
  BY <1>5 DEF Lose, HandOver, KeepaliveRound, ReadTun, RegisterRound, SendRegister,
              Connect, AdminStep, vars, tunVars
<1> QED
  BY <1>1, <1>2, <1>3, <1>4, <1>5 DEF Next

\* No packet leaks into another network: whatever the tables say, loops and
\* disagreements between them included, a node writes to its TUN device only
\* what a sender's table maps to it or what it owns.
THEOREM PacketsLand == Spec => []PacketsLandWhereRouted
<1>1. Init => PacketInv
  <2> SUFFICES ASSUME Init PROVE PacketInv
    OBVIOUS
  <2>1. /\ net = {} /\ tun_in = LocalTraffic
        /\ \A n \in Node : tun_writers[n] = {} /\ tun_out[n] = {}
    BY DEF Init
  <2> QED
    BY <2>1, TypeInit
      DEF PacketInv, TrafficIsLocal, PacketsAreRouted, PacketsLandWhereRouted
<1>2. PacketInv /\ [Next]_vars => PacketInv'
  <2> SUFFICES ASSUME PacketInv, [Next]_vars PROVE PacketInv'
    OBVIOUS
  <2>1. TypeInv' /\ TrafficIsLocal' /\ PacketsAreRouted'
    BY TypeStep, TrafficStep, RoutedStep DEF PacketInv
  <2>2. PacketsLandWhereRouted'
    <3> SUFFICES ASSUME NEW m \in Node, NEW p \in tun_writers'[m] \cup tun_out'[m]
                 PROVE  /\ m \in Tun
                        /\ \/ OwnsIp(Table[m], p.dst)
                           \/ \E a \in Node : p \in LocalTraffic[a] /\ RoutesTo(a, p, m)
      BY DEF PacketsLandWhereRouted
    <3>1. CASE p \in tun_writers[m] \cup tun_out[m]
      BY <3>1 DEF PacketInv, PacketsLandWhereRouted
    <3>2. CASE p \notin tun_writers[m] \cup tun_out[m]
      <4>1. m \in Tun
        BY <3>2, WritesOnly DEF PacketInv
      <4>2. PICK f \in net : /\ f.msg.kind = "Data" /\ f.msg.inner_packet = p
                             /\ DataIsLocal(m, f.msg)
        BY <3>2, WritesOnly DEF PacketInv
      <4> QED
        BY <4>1, <4>2 DEF PacketInv, PacketsAreRouted, DataIsLocal, RoutesTo
    <3> QED
      BY <3>1, <3>2
  <2> QED
    BY <2>1, <2>2 DEF PacketInv
<1>3. PacketInv => PacketsLandWhereRouted
  BY DEF PacketInv
<1> QED
  BY <1>1, <1>2, <1>3, PTL DEF Spec

-----------------------------------------------------------------------------
(***************************************************************************)
(* Relaying.  FramesFollowRoutes is inductive beside the types: a relayed  *)
(* message adds one node to its route and takes one from its TTL.          *)
(***************************************************************************)
RouteInv == TypeInv /\ FramesFollowRoutes

\* The route of a message that has just been sent.
LEMMA FirstStep ==
  ASSUME NEW g, g.from \in Node, g.to \in Node, g.msg.ttl = Ttl,
         g.msg.src_stealth = LocalStealth[g.from], g.to \in FirstHop(g.from, g.msg)
  PROVE  \E p \in [1 .. Ttl - g.msg.ttl + 2 -> Node] : OnRoute(p, Ttl - g.msg.ttl + 2, g)
<1> DEFINE p == [i \in 1 .. 2 |-> IF i = 1 THEN g.from ELSE g.to]
<1>1. Ttl \in Nat /\ Ttl - g.msg.ttl + 2 = 2
  BY BoundAssumption
<1>2. p \in [1 .. 2 -> Node] /\ p[1] = g.from /\ p[2] = g.to
  OBVIOUS
<1> HIDE DEF p
<1>3. OnRoute(p, 2, g)
  BY <1>2 DEF OnRoute
<1> QED
  BY <1>1, <1>2, <1>3

\* The route of a message that was sent on.
LEMMA RelayedStep ==
  ASSUME RouteInv, NEW f \in net, NEW g, Relays(f, g), g.to \in Node
  PROVE  \E p \in [1 .. Ttl - g.msg.ttl + 2 -> Node] : OnRoute(p, Ttl - g.msg.ttl + 2, g)
<1> DEFINE k == Ttl - f.msg.ttl + 2
<1>1. /\ f.to \in Node /\ g.from = f.to /\ g.to \in NextHop(f.to, f.msg.dst_stealth)
      /\ g.msg.kind = f.msg.kind /\ f.msg.ttl \in 1 .. Ttl /\ g.msg.ttl = f.msg.ttl - 1
      /\ g.msg.src_stealth = f.msg.src_stealth /\ g.msg.dst_stealth = f.msg.dst_stealth
      /\ g.msg.kind = "Data" => g.msg.inner_packet = f.msg.inner_packet
  BY RelayKeeps DEF RouteInv
<1>2. f.msg.kind \in Relayed /\ ~ConsumedAt(f.to, f.msg)
  BY DEF Relays
<1>3. \A m \in Node : ConsumedAt(m, g.msg) <=> ConsumedAt(m, f.msg)
  BY <1>1 DEF ConsumedAt, DataIsLocal
<1>4. \A m \in Node : FirstHop(m, g.msg) = FirstHop(m, f.msg)
  BY <1>1 DEF FirstHop
<1>5. PICK p \in [1 .. k -> Node] : OnRoute(p, k, f)
  BY <1>2 DEF RouteInv, FramesFollowRoutes
<1>6. k \in Nat /\ k >= 2 /\ Ttl - g.msg.ttl + 2 = k + 1
  BY <1>1, BoundAssumption
<1> HIDE DEF k
<1> DEFINE q == [i \in 1 .. k + 1 |-> IF i <= k THEN p[i] ELSE g.to]
<1>7. /\ q \in [1 .. k + 1 -> Node]
      /\ q[k + 1] = g.to
      /\ \A i \in 1 .. k : q[i] = p[i] /\ p[i] \in Node
  BY <1>6
<1> HIDE DEF q
<1>8. /\ q[1] = p[1] /\ q[2] = p[2] /\ q[k] = f.to /\ p[1] \in Node
  BY <1>5, <1>6, <1>7 DEF OnRoute
<1>9. ASSUME NEW i \in 2 .. k
      PROVE  q[i + 1] \in NextHop(q[i], g.msg.dst_stealth) /\ ~ConsumedAt(q[i], g.msg)
  <2>1. CASE i = k
    BY <1>1, <1>2, <1>3, <1>7, <1>8, <2>1
  <2>2. CASE i # k
    <3>1. i \in 2 .. k - 1 /\ i \in 1 .. k /\ i + 1 \in 1 .. k
      BY <1>6, <2>2
    <3>2. p[i + 1] \in NextHop(p[i], f.msg.dst_stealth) /\ ~ConsumedAt(p[i], f.msg)
      BY <1>5, <3>1 DEF OnRoute
    <3> QED
      BY <1>1, <1>3, <1>7, <3>1, <3>2
  <2> QED
    BY <2>1, <2>2
<1>10. OnRoute(q, k + 1, g)
  <2>1. LocalStealth[q[1]] = g.msg.src_stealth /\ q[2] \in FirstHop(q[1], g.msg)
    BY <1>1, <1>4, <1>5, <1>8 DEF OnRoute
  <2>2. q[(k + 1) - 1] = g.from /\ q[k + 1] = g.to
    BY <1>1, <1>6, <1>7, <1>8
  <2>3. 2 .. (k + 1) - 1 = 2 .. k
    BY <1>6
  <2> QED
    BY <1>9, <2>1, <2>2, <2>3 DEF OnRoute
<1> QED
  BY <1>6, <1>7, <1>10

LEMMA RouteStep ==
  ASSUME RouteInv, [Next]_vars
  PROVE  FramesFollowRoutes'
<1> DEFINE Follows(g) == \E p \in [1 .. Ttl - g.msg.ttl + 2 -> Node] :
                           OnRoute(p, Ttl - g.msg.ttl + 2, g)
<1> SUFFICES ASSUME NEW g \in net', g.msg.kind \in Relayed
             PROVE  Follows(g)
  BY DEF FramesFollowRoutes, OnRoute
<1>1. g \in Frame
  <2>1. TypeInv'
    BY TypeStep DEF RouteInv
  <2> QED
    BY <2>1 DEF TypeInv, TypeOK
<1>2. g.from \in Node /\ g.to \in Node
  BY <1>1 DEF Frame
<1>3. CASE g \in net
  BY <1>3 DEF RouteInv, FramesFollowRoutes
<1>4. ASSUME NEW f \in net, Relays(f, g) PROVE Follows(g)
  BY <1>2, <1>4, RelayedStep
<1>5. ASSUME NEW f \in net, Replies(f, g) PROVE Follows(g)
  <2>1. g.to \in FirstHop(g.from, g.msg)
    BY <1>5 DEF Replies, FirstHop
  <2> QED
    BY <1>2, <1>5, <2>1, FirstStep DEF Replies
<1>6. ASSUME NEW t \in Thread, Asks(t, g) PROVE Follows(g)
  <2>1. /\ g.msg.ttl = Ttl /\ g.msg.src_stealth = LocalStealth[g.from]
        /\ g.to \in NextHop(g.from, g.msg.dst_stealth)
        /\ g.msg.kind # "ClientRegister"
    BY <1>6 DEF Asks, Forward, SendTo, RequestMsg, Request
  <2> QED
    BY <1>2, <2>1, FirstStep DEF FirstHop
<1>7. ASSUME NEW n \in Node, NEW p \in Packet, Carries(n, p, g) PROVE Follows(g)
  <2>1. /\ g.msg.ttl = Ttl /\ g.msg.src_stealth = LocalStealth[g.from]
        /\ g.to \in NextHop(g.from, g.msg.dst_stealth)
        /\ g.msg.kind # "ClientRegister"
    BY <1>7 DEF Carries, Encapsulated, Forward, SendTo
  <2> QED
    BY <1>2, <2>1, FirstStep DEF FirstHop
<1>8. ASSUME NEW c \in Client, Enrols(c, g) PROVE Follows(g)
  <2>1. g.to \in FirstHop(g.from, g.msg)
    BY <1>8 DEF Enrols, FirstHop
  <2> QED
    BY <1>2, <1>8, <2>1, FirstStep DEF Enrols
<1>9. g.msg.kind # "Keepalive"
  BY DEF Relayed, Routed
<1>10. g \in net \/ Sent(g)
  BY FramesStep DEF RouteInv
<1> HIDE DEF Follows
<1> QED
  BY <1>3, <1>4, <1>5, <1>6, <1>7, <1>8, <1>9, <1>10 DEF Sent

\* The TTL bounds the way of every message, in every topology and for every
\* value of the TTL: what is in flight with a TTL of ttl has been sent
\* Ttl - ttl + 1 times, each time to the next hop of the tables, and has met
\* no destination before.
THEOREM RoutesAreFollowed == Spec => []FramesFollowRoutes
<1>1. Init => RouteInv
  BY TypeInit DEF Init, RouteInv, FramesFollowRoutes
<1>2. RouteInv /\ [Next]_vars => RouteInv'
  BY TypeStep, RouteStep DEF RouteInv
<1>3. RouteInv => FramesFollowRoutes
  BY DEF RouteInv
<1> QED
  BY <1>1, <1>2, <1>3, PTL DEF Spec

-----------------------------------------------------------------------------
(***************************************************************************)
(* No amplification.  A handler sends to one peer at most, so the frame it *)
(* adds is paid for by the one it took.                                    *)
(***************************************************************************)
FiniteInv == TypeInv /\ IsFiniteSet(net)

LEMMA ForwardIsOne ==
  ASSUME NEW n, NEW s, NEW msg
  PROVE  \E g : Forward(n, s, msg) \subseteq {g}
<1>1. \E p : NextHop(n, s) \subseteq {p}
  BY DEF NextHop
<1> QED
  BY <1>1 DEF Forward, SendTo

\* Sending to a set of peers puts finitely many frames on the network.
LEMMA SendIsFinite ==
  ASSUME NEW n, NEW peers, NEW msg, IsFiniteSet(peers)
  PROVE  IsFiniteSet(SendTo(n, peers, msg))
<1> DEFINE out == SendTo(n, peers, msg)
           frame == [p \in peers |-> [from |-> n, to |-> p, msg |-> msg]]
<1>1. frame \in [peers -> out] /\ \A g \in out : \E p \in peers : frame[p] = g
  BY DEF SendTo
<1>2. frame \in Surjection(peers, out)
  BY <1>1 DEF Surjection
<1> QED
  BY <1>2, FS_Surjection

\* A handler's effect on the network.
LEMMA HandlerSendsOne ==
  ASSUME NEW f, HandleDatagram(f)
  PROVE  \E g : \E out \in SUBSET {g} : Received(f, out)
<1>1. ASSUME NEW n, NEW s, NEW msg, Received(f, Forward(n, s, msg))
      PROVE  \E g : \E out \in SUBSET {g} : Received(f, out)
  BY <1>1, ForwardIsOne
<1>2. CASE Relay(f) \/ RelayData(f)
  BY <1>1, <1>2 DEF Relay, RelayData
<1>3. CASE AnswerPing(f) \/ AnswerClients(f) \/ RegisterClient(f)
  BY <1>1, <1>3 DEF AnswerPing, AnswerClients, RegisterClient
<1>4. CASE \/ DropUnknownSender(f) \/ Ignore(f) \/ DropExhausted(f)
           \/ AcceptPong(f) \/ AcceptClients(f) \/ DeliverData(f) \/ DropData(f)
  <2>1. Received(f, {})
    BY <1>4 DEF DropUnknownSender, Ignore, DropExhausted, AcceptPong, AcceptClients,
                TakeSender, DeliverData, DropData
  <2> QED
    BY <2>1
<1> QED
  BY <1>2, <1>3, <1>4 DEF HandleDatagram

LEMMA ReceivedCount ==
  ASSUME FiniteInv, NEW f \in net, NEW g, NEW out \in SUBSET {g}, Received(f, out)
  PROVE  /\ IsFiniteSet(net')
         /\ Cardinality(net') > Cardinality(net) =>
              dups' # dups /\ Cardinality(net') = Cardinality(net) + 1
<1>1. IsFiniteSet(net) /\ Cardinality(net) \in Nat /\ dups \in Nat
  BY FS_CardinalityType DEF FiniteInv, TypeInv, TypeOK
<1>2. out = {} \/ out = {g}
  OBVIOUS
<1>3. /\ IsFiniteSet(net \ {f}) /\ Cardinality(net \ {f}) = Cardinality(net) - 1
  BY <1>1, FS_RemoveElement
<1>4. CASE net' = (net \ {f}) \cup out
  <2>1. CASE out = {}
    BY <1>1, <1>3, <1>4, <2>1
  <2>2. CASE out = {g}
    <3>1. /\ IsFiniteSet((net \ {f}) \cup {g})
          /\ Cardinality((net \ {f}) \cup {g}) <= Cardinality(net)
      <4> DEFINE rest == net \ {f}
      <4> HIDE DEF rest
      <4>1. IsFiniteSet(rest) /\ Cardinality(rest) = Cardinality(net) - 1
        BY <1>3 DEF rest
      <4>2. /\ IsFiniteSet(rest \cup {g})
            /\ Cardinality(rest \cup {g}) =
                 IF g \in rest THEN Cardinality(rest) ELSE Cardinality(rest) + 1
        BY <4>1, FS_AddElement
      <4>3. Cardinality(rest \cup {g}) <= Cardinality(net)
        BY <1>1, <4>1, <4>2
      <4> QED
        BY <4>2, <4>3 DEF rest
    <3>2. Cardinality((net \ {f}) \cup {g}) \in Nat
      BY <3>1, FS_CardinalityType
    <3> QED
      BY <1>1, <1>4, <2>2, <3>1, <3>2
  <2> QED
    BY <1>2, <2>1, <2>2
<1>5. CASE dups' = dups + 1 /\ net' = net \cup out
  <2>1. CASE out = {}
    BY <1>1, <1>5, <2>1
  <2>2. CASE out = {g}
    <3>1. /\ IsFiniteSet(net \cup {g})
          /\ Cardinality(net \cup {g}) =
               IF g \in net THEN Cardinality(net) ELSE Cardinality(net) + 1
      BY <1>1, FS_AddElement
    <3> QED
      BY <1>1, <1>5, <2>2, <3>1
  <2> QED
    BY <1>2, <2>1, <2>2
<1> QED
  BY <1>4, <1>5 DEF Received

\* The steps that send something new change a thread's place, the TUN's queue
\* or a timer.
LEMMA Originators ==
  ASSUME TypeInv,
         \/ \E n \in Node : KeepaliveRound(n)
         \/ \E n \in Node, p \in Packet : ReadTun(n, p)
         \/ \E c \in Client : RegisterRound(c)
         \/ \E t \in Thread : SendRequest(t)
  PROVE  \/ pc' # pc \/ tun_in' # tun_in
         \/ keepalive_left' # keepalive_left \/ register_left' # register_left
<1>1. /\ pc \in [Thread -> {"new", "loop", "insert", "send", "cancel", "wait",
                            "expired", "closed"}]
      /\ tun_in \in [Node -> SUBSET Packet]
      /\ keepalive_left \in [Node -> Nat] /\ register_left \in [Client -> Nat]
  BY DEF TypeInv, TypeOK
<1>2. ASSUME NEW n \in Node, KeepaliveRound(n) PROVE keepalive_left' # keepalive_left
  BY <1>1, <1>2 DEF KeepaliveRound
<1>3. ASSUME NEW n \in Node, NEW p \in Packet, ReadTun(n, p) PROVE tun_in' # tun_in
  BY <1>1, <1>3 DEF ReadTun
<1>4. ASSUME NEW c \in Client, RegisterRound(c) PROVE register_left' # register_left
  BY <1>1, <1>4 DEF RegisterRound, SendRegister
<1>5. ASSUME NEW t \in Thread, SendRequest(t) PROVE pc' # pc
  BY <1>1, <1>5 DEF SendRequest, GoTo
<1> QED
  BY <1>2, <1>3, <1>4, <1>5

LEMMA OriginateIsFinite ==
  ASSUME FiniteInv, NEW out, IsFiniteSet(out), Originate(out)
  PROVE  IsFiniteSet(net')
<1>1. PICK sent \in SUBSET out : net' = net \cup sent
  BY DEF Originate, Outcomes
<1>2. IsFiniteSet(sent)
  BY FS_Subset
<1> QED
  BY <1>1, <1>2, FS_Union DEF FiniteInv

\* The steps of the environment, the UDP threads and the admin threads that
\* send nothing.
LEMMA NothingSent ==
  ASSUME [Next]_vars, \A f \in net : ~HandleDatagram(f),
         ~(\/ \E n \in Node : KeepaliveRound(n)
           \/ \E n \in Node, p \in Packet : ReadTun(n, p)
           \/ \E c \in Client : RegisterRound(c)
           \/ \E t \in Thread : SendRequest(t))
  PROVE  net' \subseteq net
<1>1. ASSUME NEW t \in Thread, AdminStep(t), ~SendRequest(t) PROVE net' = net
  BY <1>1 DEF AdminStep, NextRequest, NewChannel, Unresolved, InsertSender,
              SendFails, TakeResult, Expire, RemoveSender, Respond, netVars
<1>2. CASE \/ \E f \in net : Lose(f)
           \/ \E n \in Node : HandOver(n) \/ Restart(n)
           \/ \E n \in Node, p \in Packet : WriteTun(n, p)
           \/ \E t \in Thread : Connect(t)
           \/ UNCHANGED vars
  BY <1>2 DEF Lose, HandOver, Restart, WriteTun, Connect, AcceptRequest, vars, netVars
<1> QED
  BY <1>1, <1>2 DEF Next

LEMMA FiniteStep == FiniteInv /\ [Next]_vars => IsFiniteSet(net)'
<1> SUFFICES ASSUME FiniteInv, [Next]_vars PROVE IsFiniteSet(net')
  OBVIOUS
<1>0. IsFiniteSet(net)
  BY DEF FiniteInv
<1>1. ASSUME NEW n, NEW s, NEW msg PROVE IsFiniteSet(Forward(n, s, msg))
  BY ForwardIsOne, FS_Singleton, FS_Subset
<1>2. ASSUME NEW f \in net, HandleDatagram(f) PROVE IsFiniteSet(net')
  BY <1>2, HandlerSendsOne, ReceivedCount
<1>3. ASSUME NEW n \in Node, KeepaliveRound(n) PROVE IsFiniteSet(net')
  BY <1>3, PeersAssumption, SendIsFinite, OriginateIsFinite DEF KeepaliveRound
<1>4. ASSUME NEW n \in Node, NEW p \in Packet, ReadTun(n, p) PROVE IsFiniteSet(net')
  <2>1. IsFiniteSet(Encapsulated(n, p))
    BY <1>1, FS_EmptySet DEF Encapsulated
  <2> QED
    BY <1>4, <2>1, OriginateIsFinite DEF ReadTun
<1>5. ASSUME NEW c \in Client, RegisterRound(c) PROVE IsFiniteSet(net')
  <2>1. \A home, msg : IsFiniteSet(SendTo(c, {home}, msg))
    BY FS_Singleton, SendIsFinite
  <2> QED
    BY <1>5, <2>1, OriginateIsFinite DEF RegisterRound, SendRegister
<1>6. ASSUME NEW t \in Thread, SendRequest(t) PROVE IsFiniteSet(net')
  <2>1. \A p, msg : IsFiniteSet(SendTo(At[t], {p}, msg))
    BY FS_Singleton, SendIsFinite
  <2> QED
    BY <1>0, <1>6, <2>1, FS_Union DEF SendRequest
<1>7. net' \subseteq net => IsFiniteSet(net')
  BY <1>0, FS_Subset
<1> QED
  BY <1>2, <1>3, <1>4, <1>5, <1>6, <1>7, NothingSent

\* Handling a datagram never leaves more datagrams on the network than there
\* were, unless the network itself keeps a copy: every growth is one that an
\* admin thread, the TUN reader or a timer has asked for.
THEOREM NoneIsAmplified == Spec => NoAmplification
<1> DEFINE Grows == Cardinality(net') > Cardinality(net)
           Cause == \/ pc' # pc \/ tun_in' # tun_in
                    \/ keepalive_left' # keepalive_left \/ register_left' # register_left
                    \/ dups' # dups /\ Cardinality(net') = Cardinality(net) + 1
<1>1. Init => FiniteInv
  BY TypeInit, FS_EmptySet DEF Init, FiniteInv
<1>2. FiniteInv /\ [Next]_vars => FiniteInv'
  BY TypeStep, FiniteStep DEF FiniteInv
<1>3. FiniteInv /\ [Next]_vars => [Grows => Cause]_vars
  <2> SUFFICES ASSUME FiniteInv, [Next]_vars, Grows PROVE Cause
    OBVIOUS
  <2>1. ASSUME NEW f \in net, HandleDatagram(f) PROVE Cause
    BY <2>1, HandlerSendsOne, ReceivedCount
  <2>2. CASE \/ \E n \in Node : KeepaliveRound(n)
             \/ \E n \in Node, p \in Packet : ReadTun(n, p)
             \/ \E c \in Client : RegisterRound(c)
             \/ \E t \in Thread : SendRequest(t)
    BY <2>2, Originators DEF FiniteInv
  <2>3. CASE net' \subseteq net
    <3>1. Cardinality(net') <= Cardinality(net)
      BY <2>3, FS_Subset DEF FiniteInv
    <3>2. Cardinality(net) \in Nat /\ Cardinality(net') \in Nat
      BY <2>3, FS_Subset, FS_CardinalityType DEF FiniteInv
    <3> QED
      BY <3>1, <3>2
  <2> QED
    BY <2>1, <2>2, <2>3, NothingSent
<1>4. Spec => []FiniteInv
  BY <1>1, <1>2, PTL DEF Spec
<1> QED
  BY <1>3, <1>4, PTL DEF Spec, NoAmplification
=============================================================================
