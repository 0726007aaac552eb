---------------------------- MODULE RequestProofs ----------------------------
(***************************************************************************)
(* Proofs about the pending tables: no sender leaks, none is lost, and no  *)
(* iteration gets a second answer, for any topology and any number of      *)
(* admin connections, and with loss, duplication, reordering, failed sends *)
(* and crashes.                                                            *)
(***************************************************************************)
EXTENDS RelayProofs

\* The four invariants hold one another up.  A response is matched by id, so
\* UniqueIds is what keeps it from taking another iteration's sender;
\* NoLeakedRequests is what makes an id that is taken out that of a running
\* iteration; and AtMostOneAnswer is what makes the channel empty on HandOver.
Requests == UniqueIds /\ NoLeakedRequests /\ WaiterHasSender /\ AtMostOneAnswer
RequestInv == TypeInv /\ Requests

\* The state the four invariants speak of.
Counted == next_request_id \in [Node -> Nat \ {0}]
Tables == /\ pending \in [Node -> SUBSET [op : Operation, id : Nat, thread : Thread]]
          /\ udp \in [Node -> {Idle} \cup Busy]
Threads == /\ pc \in [Thread -> {"new", "loop", "insert", "send", "cancel", "wait",
                                 "expired", "closed"}]
           /\ cmd \in [Thread -> Command \cup {NoCommand}]
           /\ request_id \in [Thread -> Nat]
           /\ rx \in [Thread -> Seq(Result)]

LEMMA RequestTypes ==
  TypeInv => /\ Counted /\ Tables /\ Threads
             /\ At \in [Thread -> Node]
BY CommandAssumption DEF TypeInv, TypeOK, Counted, Tables, Threads

\* A held answer is no idle thread.
LEMMA BusyIsNotIdle == \A v \in Busy : v # Idle
BY DEF Busy, Idle

-----------------------------------------------------------------------------
LEMMA RequestsInit == Init => Requests
<1> SUFFICES ASSUME Init PROVE Requests
  OBVIOUS
<1>1. /\ \A t \in Thread : pc[t] = "new" /\ rx[t] = <<>>
      /\ \A n \in Node : pending[n] = {} /\ udp[n] = Idle
      /\ At \in [Thread -> Node]
  BY CommandAssumption DEF Init
<1> QED
  BY <1>1 DEF Requests, UniqueIds, NoLeakedRequests, WaiterHasSender,
              AtMostOneAnswer, Active, Inserted, Held

\* A step that leaves tables and threads alone, and only draws ids.
LEMMA RequestsIdle ==
  ASSUME RequestInv, UNCHANGED <<pending, udp, pc, cmd, request_id, rx>>,
         Counted', \A n \in Node : next_request_id'[n] >= next_request_id[n]
  PROVE  Requests'
<1>1. Counted /\ Tables /\ Threads /\ At \in [Thread -> Node]
  BY RequestTypes DEF RequestInv
<1>2. UniqueIds'
  <2>1. \A n \in Node : udp[n] # Idle => udp[n].id \in Nat
    BY <1>1 DEF Tables, Busy
  <2>2. ASSUME NEW n \in Node, NEW id \in Nat, id < next_request_id[n]
        PROVE  id < next_request_id'[n]
    BY <1>1, <2>2 DEF Counted
  <2>3. \A t \in Thread : At[t] \in Node /\ request_id[t] \in Nat
    BY <1>1 DEF Threads
  <2> QED
    BY <2>1, <2>2, <2>3 DEF RequestInv, Requests, UniqueIds, Active
<1> QED
  BY <1>2 DEF RequestInv, Requests, NoLeakedRequests, WaiterHasSender,
              AtMostOneAnswer, Active, Inserted, Held, Pending

\* Taking a sender moves it from the table into the UDP thread's hand.
LEMMA RequestsTake ==
  ASSUME RequestInv, NEW f \in net, NEW op, NEW result, udp[f.to] = Idle,
         result \in [ok : {TRUE}, responder : Stealth, clients : SUBSET Listing],
         TakeSender(f, op, result), UNCHANGED <<next_request_id, adminVars>>
  PROVE  Requests'
<1> DEFINE n == f.to
           id == f.msg.request_id
           found == {e \in pending[n] : e.op = op /\ e.id = id}
<1>1. Counted /\ Tables /\ Threads /\ At \in [Thread -> Node] /\ n \in Node
  BY RequestTypes, OpenedType DEF RequestInv
<1>2. /\ UNCHANGED <<next_request_id, pc, cmd, request_id, rx>>
      /\ pending' = [pending EXCEPT ![n] = @ \ found]
  BY DEF adminVars, TakeSender, Without
<1>3. CASE found = {}
  <2>1. pending' = pending
    BY <1>1, <1>2, <1>3 DEF Tables
  <2>2. udp' = udp
    BY <1>3 DEF TakeSender, Take
  <2> QED
    BY <1>1, <1>2, <2>1, <2>2, RequestsIdle DEF Counted
<1>4. ASSUME NEW e \in found,
             udp' = [udp EXCEPT ![n] = [busy |-> TRUE, thread |-> e.thread,
                                        id |-> e.id, result |-> result]]
      PROVE  Requests'
  <2> DEFINE t == e.thread
  <2>1. /\ t \in Thread /\ At[t] = n /\ Inserted(t) /\ request_id[t] = id
        /\ cmd[t].op = op
    BY <1>1 DEF RequestInv, Requests, NoLeakedRequests, Tables
  <2>2. /\ udp'[n] # Idle /\ udp'[n].thread = t /\ udp'[n].id = id
        /\ \A m \in Node : m # n => udp'[m] = udp[m] /\ pending'[m] = pending[m]
        /\ pending'[n] = pending[n] \ found
    BY <1>1, <1>2, <1>4 DEF Tables, Idle
  \* Every sender that was found is that of t: ids are unique at a node.
  <2>3. \A d \in pending[n] : d.thread = t => d \in found
    BY <1>1, <2>1 DEF RequestInv, Requests, NoLeakedRequests
  <2>4. \A d \in found : d.thread = t
    BY <1>1, <2>1 DEF RequestInv, Requests, NoLeakedRequests, UniqueIds, Tables,
                      Active, Inserted
  <2>5. ASSUME NEW u \in Thread PROVE At[u] \in Node
    BY <1>1
  <2>6. \A u \in Thread : u # t => /\ Pending(u)' <=> Pending(u)
                                   /\ Held(u)' => Held(u) /\ At[u] # n
                                   /\ Held(u) => Held(u)'
    BY <1>1, <1>2, <2>2, <2>3, <2>4, <2>5 DEF Pending, Held
  <2>7. Held(t)' /\ ~Pending(t)'
    BY <1>2, <2>1, <2>2, <2>3 DEF Held, Pending
  <2>8. UniqueIds'
    BY <1>1, <1>2, <2>1, <2>2 DEF RequestInv, Requests, UniqueIds, Active, Inserted
  <2>9. NoLeakedRequests'
    <3>1. \A m \in Node : pending'[m] \subseteq pending[m]
      BY <1>1, <2>2
    <3> QED
      BY <1>2, <3>1 DEF RequestInv, Requests, NoLeakedRequests, Inserted
  <2>10. WaiterHasSender'
    BY <1>2, <2>6, <2>7 DEF RequestInv, Requests, WaiterHasSender
  <2>11. AtMostOneAnswer'
    <3>1. rx[t] = <<>>
      <4>1. Pending(t)
        BY <2>1 DEF Pending
      <4> QED
        BY <2>1, <4>1 DEF RequestInv, Requests, AtMostOneAnswer
    <3>2. \A u \in Thread : (Active(u)' <=> Active(u)) /\ (Inserted(u)' <=> Inserted(u))
      BY <1>2 DEF Active, Inserted
    <3>3. Inserted(t)'
      BY <1>2, <2>1 DEF Inserted
    <3> QED
      BY <1>2, <2>6, <2>7, <3>1, <3>2, <3>3 DEF RequestInv, Requests, AtMostOneAnswer
  <2> QED
    BY <2>8, <2>9, <2>10, <2>11 DEF Requests
<1> QED
  BY <1>3, <1>4 DEF TakeSender, Take

\* Whatever a handler does, the invariants survive it.
LEMMA RequestsHandle ==
  ASSUME RequestInv, NEW f \in net, HandleDatagram(f)
  PROVE  Requests'
<1>1. UNCHANGED <<next_request_id, adminVars>>
  BY DEF HandleDatagram
<1>2. CASE AcceptPong(f)
  <2>1. f.msg.src_stealth \in Stealth
    BY <1>2, OpenedType, KindType DEF RequestInv, AcceptPong, RoutedToMe, Pongs
  <2> QED
    BY <1>1, <1>2, <2>1, RequestsTake DEF AcceptPong, RoutedToMe, Opened
<1>3. CASE AcceptClients(f)
  <2>1. f.msg.src_stealth \in Stealth /\ f.msg.clients \subseteq Listing
    BY <1>3, OpenedType, KindType DEF RequestInv, AcceptClients, RoutedToMe, ClientsResps
  <2> QED
    BY <1>1, <1>3, <2>1, RequestsTake DEF AcceptClients, RoutedToMe, Opened
<1>4. CASE ~AcceptPong(f) /\ ~AcceptClients(f)
  <2>1. UNCHANGED <<pending, udp>>
    BY <1>4 DEF HandleDatagram, DropUnknownSender, Ignore, DropExhausted, Relay,
                AnswerPing, AnswerClients, RegisterClient, DeliverData, RelayData,
                DropData
  <2>2. Counted
    BY RequestTypes DEF RequestInv
  <2> QED
    BY <1>1, <2>1, <2>2, RequestsIdle DEF Counted, adminVars
<1> QED
  BY <1>2, <1>3, <1>4

\* The UDP thread uses the sender it holds, and holds none.
LEMMA RequestsHandOver ==
  ASSUME RequestInv, NEW n \in Node, HandOver(n)
  PROVE  Requests'
<1> DEFINE held == udp[n]
           t == held.thread
<1>1. Counted /\ Tables /\ Threads /\ At \in [Thread -> Node]
  BY RequestTypes DEF RequestInv
<1>2. /\ held # Idle /\ udp' = [udp EXCEPT ![n] = Idle]
      /\ UNCHANGED <<next_request_id, pending, pc, cmd, request_id>>
  BY DEF HandOver
<1>3. t \in Thread /\ held.id \in Nat /\ held.result \in Result
  BY <1>1, <1>2 DEF Tables, Busy, Result
<1>4. At[t] = n
  BY <1>2 DEF RequestInv, Requests, UniqueIds
<1>5. /\ udp'[n] = Idle
      /\ \A m \in Node : m # n => udp'[m] = udp[m]
  BY <1>1, <1>2 DEF Tables
<1>6. /\ \A u \in Thread : Held(u)' => Held(u) /\ u # t
      /\ \A u \in Thread : u # t /\ Held(u) => Held(u)'
      /\ \A u \in Thread : /\ Pending(u)' <=> Pending(u)
                           /\ Active(u)' <=> Active(u)
                           /\ Inserted(u)' <=> Inserted(u)
  BY <1>1, <1>2, <1>4, <1>5 DEF Held, Pending, Active, Inserted
<1>7. \A u \in Thread : u # t => rx'[u] = rx[u]
  BY <1>1, <1>3 DEF HandOver, Threads
<1>8. UniqueIds'
  BY <1>1, <1>2, <1>5, <1>6 DEF RequestInv, Requests, UniqueIds
<1>9. NoLeakedRequests'
  BY <1>2 DEF RequestInv, Requests, NoLeakedRequests, Inserted
<1>10. CASE Listening(t, held.id)
  <2>1. Held(t) /\ Active(t)
    BY <1>2, <1>4, <1>10 DEF Listening, Held, Active
  <2>2. rx[t] = <<>> /\ Inserted(t) /\ ~Pending(t)
    BY <1>3, <2>1 DEF RequestInv, Requests, AtMostOneAnswer
  <2>3. rx' = [rx EXCEPT ![t] = Append(<<>>, held.result)]
    BY <1>10, <2>2 DEF HandOver
  <2>4. rx'[t] = <<held.result>> /\ Len(rx'[t]) = 1 /\ rx'[t] # <<>>
    BY <1>1, <1>3, <2>3 DEF Threads
  <2>5. WaiterHasSender'
    BY <1>2, <1>6, <1>7, <2>4 DEF RequestInv, Requests, WaiterHasSender
  <2>6. AtMostOneAnswer'
    BY <1>6, <1>7, <2>2, <2>4 DEF RequestInv, Requests, AtMostOneAnswer
  <2> QED
    BY <1>8, <1>9, <2>5, <2>6 DEF Requests
<1>11. CASE ~Listening(t, held.id)
  <2>1. rx' = rx
    BY <1>11 DEF HandOver
  <2>2. ~(Held(t) /\ Active(t))
    BY <1>4, <1>11 DEF Listening, Held, Active
  <2>3. WaiterHasSender'
    BY <1>2, <1>6, <2>1, <2>2 DEF RequestInv, Requests, WaiterHasSender, Active
  <2>4. AtMostOneAnswer'
    BY <1>6, <2>1 DEF RequestInv, Requests, AtMostOneAnswer
  <2> QED
    BY <1>8, <1>9, <2>3, <2>4 DEF Requests
<1> QED
  BY <1>10, <1>11

\* A crash clears both tables of its node, and closes its connections.
LEMMA RequestsRestart ==
  ASSUME RequestInv, NEW n \in Node, Restart(n)
  PROVE  Requests'
<1>1. Counted /\ Tables /\ Threads /\ At \in [Thread -> Node]
  BY RequestTypes DEF RequestInv
<1>2. /\ next_request_id'[n] = 1 /\ pending'[n] = {} /\ udp'[n] = Idle
      /\ \A m \in Node : m # n => /\ next_request_id'[m] = next_request_id[m]
                                  /\ pending'[m] = pending[m] /\ udp'[m] = udp[m]
      /\ UNCHANGED <<cmd, request_id>>
  BY <1>1 DEF Restart, Counted, Tables
<1>3. \A t \in Thread :
        /\ At[t] = n => pc'[t] \in {"new", "closed"} /\ (pc[t] # "new" => rx'[t] = <<>>)
                        /\ (pc[t] = "new" => rx'[t] = rx[t])
        /\ At[t] # n => pc'[t] = pc[t] /\ rx'[t] = rx[t]
  BY <1>1 DEF Restart, Threads
<1>4. \A t \in Thread :
        /\ rx[t] # <<>> => pc[t] # "new"
        /\ Active(t)' => Active(t) /\ At[t] # n
        /\ At[t] # n => /\ Active(t)' <=> Active(t)
                        /\ Inserted(t)' <=> Inserted(t)
                        /\ Pending(t)' <=> Pending(t)
                        /\ Held(t)' <=> Held(t)
  BY <1>1, <1>2, <1>3 DEF Active, Inserted, Pending, Held, RequestInv, Requests,
                          AtMostOneAnswer
<1>5. UniqueIds'
  BY <1>1, <1>2, <1>4 DEF RequestInv, Requests, UniqueIds
<1>6. NoLeakedRequests'
  <2>1. ASSUME NEW m \in Node, NEW e \in pending'[m]
        PROVE  /\ m # n /\ e \in pending[m] /\ e.thread \in Thread
               /\ At[e.thread] = m
    BY <1>1, <1>2, <2>1 DEF Tables, RequestInv, Requests, NoLeakedRequests
  <2> QED
    BY <1>2, <1>4, <2>1 DEF RequestInv, Requests, NoLeakedRequests
<1>7. WaiterHasSender'
  BY <1>2, <1>3, <1>4 DEF RequestInv, Requests, WaiterHasSender
<1>8. AtMostOneAnswer'
  BY <1>3, <1>4 DEF RequestInv, Requests, AtMostOneAnswer
<1> QED
  BY <1>5, <1>6, <1>7, <1>8 DEF Requests

-----------------------------------------------------------------------------
(***************************************************************************)
(* The admin threads.  In a step of t the other threads keep what they     *)
(* have: their place, their id, their sender.                              *)
(***************************************************************************)
Others(t) ==
  \A u \in Thread \ {t} :
    /\ pc'[u] = pc[u] /\ cmd'[u] = cmd[u]
    /\ request_id'[u] = request_id[u] /\ rx'[u] = rx[u]
    /\ Pending(u)' <=> Pending(u)

LEMMA OthersKeep ==
  ASSUME RequestInv, NEW t \in Thread, Others(t), UNCHANGED udp
  PROVE  \A u \in Thread \ {t} : /\ Active(u)' <=> Active(u)
                                 /\ Inserted(u)' <=> Inserted(u)
                                 /\ Held(u)' <=> Held(u)
BY DEF Others, Active, Inserted, Held

\* A thread that comes or stays outside an iteration with its channel gone,
\* and with no sender left in the table.
LEMMA RequestsOutside ==
  ASSUME RequestInv, NEW t \in Thread, Others(t),
         UNCHANGED <<udp, next_request_id, request_id>>,
         pc'[t] \notin {"insert", "send", "cancel", "wait", "expired"},
         rx'[t] = <<>>,
         \A n \in Node : \A e \in pending'[n] : e \in pending[n] /\ e.thread # t
  PROVE  Requests'
<1>1. Tables
  BY RequestTypes DEF RequestInv
<1>2. \A u \in Thread \ {t} : /\ Active(u)' <=> Active(u)
                              /\ Inserted(u)' <=> Inserted(u)
                              /\ Held(u)' <=> Held(u)
  BY OthersKeep
<1>3. ~Active(t)' /\ ~Inserted(t)'
  BY DEF Active, Inserted
<1>4. UniqueIds'
  BY <1>2, <1>3 DEF RequestInv, Requests, UniqueIds
<1>5. NoLeakedRequests'
  <2>1. ASSUME NEW n \in Node, NEW e \in pending'[n]
        PROVE  e \in pending[n] /\ e.thread \in Thread \ {t}
    BY <1>1, <2>1 DEF Tables
  <2> QED
    BY <1>2, <2>1 DEF RequestInv, Requests, NoLeakedRequests, Others
<1>6. WaiterHasSender'
  BY <1>2 DEF RequestInv, Requests, WaiterHasSender, Others
<1>7. AtMostOneAnswer'
  BY <1>2, <1>3 DEF RequestInv, Requests, AtMostOneAnswer, Others
<1> QED
  BY <1>4, <1>5, <1>6, <1>7 DEF Requests

\* Outside an iteration a thread has no sender in any table.
LEMMA NotInserted ==
  ASSUME RequestInv, NEW t \in Thread, ~Inserted(t)
  PROVE  /\ \A n \in Node : \A e \in pending[n] : e.thread # t
         /\ rx[t] = <<>>
BY DEF RequestInv, Requests, NoLeakedRequests, AtMostOneAnswer

LEMMA RequestsConnect ==
  ASSUME RequestInv, NEW t \in Thread, Connect(t)
  PROVE  Requests'
<1>1. PICK c \in Command : AcceptRequest(t, c)
  BY DEF Connect
<1>2. Threads /\ pc[t] = "new" /\ pc' = [pc EXCEPT ![t] = "loop"]
  BY <1>1, RequestTypes DEF RequestInv, AcceptRequest, GoTo
<1>3. UNCHANGED <<udp, next_request_id, request_id, pending, rx>>
  BY <1>1 DEF Connect, AcceptRequest
<1>4. Others(t)
  BY <1>1, <1>2, <1>3 DEF Others, AcceptRequest, Threads, Pending
<1>5. /\ \A n \in Node : \A e \in pending[n] : e.thread # t
      /\ rx[t] = <<>>
  BY <1>2, NotInserted DEF Inserted
<1>6. pc'[t] = "loop"
  BY <1>2 DEF Threads
<1> QED
  BY <1>3, <1>4, <1>5, <1>6, RequestsOutside

\* The head of the loop: the id is fresh, and no held answer carries it.
LEMMA RequestsNext ==
  ASSUME RequestInv, NEW t \in Thread, NextRequest(t), UNCHANGED Elsewhere
  PROVE  Requests'
<1> DEFINE n == At[t]
           id == next_request_id[n]
<1>1. Counted /\ Tables /\ Threads /\ At \in [Thread -> Node] /\ n \in Node
  BY RequestTypes DEF RequestInv
<1>2. /\ pc[t] = "loop" /\ pc' = [pc EXCEPT ![t] = "insert"]
      /\ next_request_id' = [next_request_id EXCEPT ![n] = id + 1]
      /\ request_id' = [request_id EXCEPT ![t] = id]
      /\ rx' = [rx EXCEPT ![t] = <<>>]
      /\ UNCHANGED <<pending, cmd, udp>>
  BY DEF NextRequest, NewChannel, GoTo, Elsewhere
<1>3. /\ pc'[t] = "insert" /\ request_id'[t] = id /\ rx'[t] = <<>>
      /\ id \in Nat /\ next_request_id'[n] = id + 1
      /\ \A m \in Node : m # n => next_request_id'[m] = next_request_id[m]
  BY <1>1, <1>2 DEF Counted, Threads
<1>4. Others(t)
  BY <1>1, <1>2 DEF Others, Threads, Pending
<1>5. \A u \in Thread \ {t} : /\ Active(u)' <=> Active(u)
                              /\ Inserted(u)' <=> Inserted(u)
                              /\ Held(u)' <=> Held(u)
  BY <1>2, <1>4, OthersKeep
<1>6. /\ \A m \in Node : \A e \in pending[m] : e.thread # t
      /\ rx[t] = <<>>
  BY <1>2, NotInserted DEF Inserted
<1>7. ~Inserted(t)' /\ ~Held(t)'
  <2>1. udp[n] # Idle => udp[n].id < id /\ udp[n].id \in Nat
    BY <1>1 DEF RequestInv, Requests, UniqueIds, Tables, Busy
  <2>2. udp[n] # Idle => udp[n].id # id
    BY <1>3, <2>1
  <2>3. ~Held(t)'
    BY <1>2, <1>3, <2>2 DEF Held
  <2> QED
    BY <1>3, <2>3 DEF Inserted
<1>8. UniqueIds'
  <2>1. ASSUME NEW u \in Thread \ {t}, Active(u)'
        PROVE  /\ request_id'[u] < next_request_id'[At[u]]
               /\ At[u] = n => request_id'[u] < id
    <3>1. request_id'[u] = request_id[u] /\ request_id[u] < next_request_id[At[u]]
      BY <1>4, <1>5, <2>1 DEF RequestInv, Requests, UniqueIds, Others
    <3>2. At[u] \in Node /\ request_id[u] \in Nat
      BY <1>1 DEF Threads
    <3> QED
      BY <1>3, <3>1, <3>2
  <2>2. ASSUME NEW m \in Node, udp'[m] # Idle
        PROVE  At[udp'[m].thread] = m /\ udp'[m].id < next_request_id'[m]
    <3>1. /\ At[udp[m].thread] = m /\ udp[m].id < next_request_id[m]
          /\ udp'[m] = udp[m] /\ udp[m].id \in Nat
      BY <1>1, <1>2, <2>2 DEF RequestInv, Requests, UniqueIds, Tables, Busy
    <3> QED
      BY <1>3, <3>1
  <2>3. request_id'[t] < next_request_id'[At[t]]
    BY <1>3
  <2>4. \A u \in Thread \ {t} : Active(u)' /\ At[u] = n => request_id'[u] # id
    <3>1. \A u \in Thread \ {t} : request_id'[u] \in Nat
      BY <1>1, <1>4 DEF Threads, Others
    <3> QED
      BY <1>3, <2>1, <3>1
  <2>5. \A u, v \in Thread \ {t} :
          /\ Active(u)' /\ Active(v)' /\ At[u] = At[v]
          /\ request_id'[u] = request_id'[v]
          => u = v
    BY <1>4, <1>5 DEF RequestInv, Requests, UniqueIds, Others
  <2> QED
    BY <1>3, <2>1, <2>2, <2>3, <2>4, <2>5 DEF UniqueIds
<1>9. NoLeakedRequests'
  <2>1. ASSUME NEW m \in Node, NEW e \in pending'[m]
        PROVE  e \in pending[m] /\ e.thread \in Thread \ {t}
    BY <1>1, <1>2, <1>6, <2>1 DEF Tables
  <2> QED
    BY <1>2, <1>4, <1>5, <2>1 DEF RequestInv, Requests, NoLeakedRequests, Others
<1>10. WaiterHasSender'
  BY <1>3, <1>4, <1>5 DEF RequestInv, Requests, WaiterHasSender, Others
<1>11. AtMostOneAnswer'
  BY <1>3, <1>4, <1>5, <1>7 DEF RequestInv, Requests, AtMostOneAnswer, Others
<1> QED
  BY <1>8, <1>9, <1>10, <1>11 DEF Requests

\* The sender goes into the table: what it would replace had its id, and so
\* belonged to the same thread, which had none.
LEMMA RequestsInsert ==
  ASSUME RequestInv, NEW t \in Thread, InsertSender(t), UNCHANGED Elsewhere
  PROVE  Requests'
<1> DEFINE n == At[t]
           entry == [op |-> cmd[t].op, id |-> request_id[t], thread |-> t]
<1>1. Tables /\ Threads /\ At \in [Thread -> Node] /\ n \in Node
  BY RequestTypes DEF RequestInv
<1>2. /\ pc[t] = "insert" /\ pc' = [pc EXCEPT ![t] = "send"]
      /\ UNCHANGED <<next_request_id, cmd, request_id, rx, udp>>
  BY DEF InsertSender, GoTo, Elsewhere
<1>3. Without(pending[n], entry.op, entry.id) = pending[n]
  <2>1. ASSUME NEW e \in pending[n], e.id = request_id[t] PROVE FALSE
    <3>1. /\ e.thread \in Thread /\ At[e.thread] = n /\ Inserted(e.thread)
          /\ request_id[e.thread] = request_id[t]
      BY <1>1, <2>1 DEF RequestInv, Requests, NoLeakedRequests, Tables
    <3>2. e.thread = t
      BY <1>2, <3>1 DEF RequestInv, Requests, UniqueIds, Active, Inserted
    <3> QED
      BY <1>2, <3>1, <3>2 DEF Inserted
  <2> QED
    BY <2>1 DEF Without
<1>4. /\ pending'[n] = pending[n] \cup {entry}
      /\ \A m \in Node : m # n => pending'[m] = pending[m]
  <2>1. pending' = [pending EXCEPT ![n] = pending[n] \cup {entry}]
    BY <1>3 DEF InsertSender
  <2> QED
    BY <1>1, <2>1 DEF Tables
<1>5. Others(t)
  <2>1. ASSUME NEW u \in Thread \ {t} PROVE Pending(u)' <=> Pending(u)
    <3>1. At[u] \in Node /\ entry.thread # u
      BY <1>1
    <3> HIDE DEF entry
    <3> QED
      BY <1>4, <3>1 DEF Pending
  <2>2. \A u \in Thread \ {t} : pc'[u] = pc[u]
    BY <1>1, <1>2 DEF Threads
  <2> QED
    BY <1>2, <2>1, <2>2 DEF Others
<1>6. \A u \in Thread \ {t} : /\ Active(u)' <=> Active(u)
                              /\ Inserted(u)' <=> Inserted(u)
                              /\ Held(u)' <=> Held(u)
  BY <1>2, <1>5, OthersKeep
<1>7. /\ pc'[t] = "send" /\ Inserted(t)' /\ Pending(t)' /\ rx'[t] = <<>>
  <2>1. pc'[t] = "send" /\ Inserted(t)'
    BY <1>1, <1>2 DEF Threads, Inserted
  <2>2. Pending(t)'
    <3>1. entry \in pending'[At[t]] /\ entry.thread = t
      BY <1>4
    <3> HIDE DEF entry
    <3> QED
      BY <3>1 DEF Pending
  <2>3. rx[t] = <<>>
    BY <1>2, NotInserted DEF Inserted
  <2> QED
    BY <1>2, <2>1, <2>2, <2>3
<1>8. ~Held(t)'
  BY <1>2 DEF RequestInv, Requests, AtMostOneAnswer, Held, Active, Inserted
<1>9. UniqueIds'
  <2>1. \A u \in Thread : Active(u)' => Active(u)
    BY <1>2, <1>6 DEF Active
  <2> QED
    BY <1>2, <2>1 DEF RequestInv, Requests, UniqueIds
<1>10. NoLeakedRequests'
  <2>1. ASSUME NEW m \in Node, NEW e \in pending'[m]
        PROVE  \/ e \in pending[m] /\ e.thread \in Thread
               \/ e = entry /\ m = n
    BY <1>1, <1>4, <2>1 DEF Tables
  <2>2. \A u \in Thread : Inserted(u) => Inserted(u)'
    BY <1>6, <1>7
  <2> QED
    BY <1>2, <1>7, <2>1, <2>2 DEF RequestInv, Requests, NoLeakedRequests
<1>11. WaiterHasSender'
  BY <1>2, <1>5, <1>6, <1>7 DEF RequestInv, Requests, WaiterHasSender, Others
<1>12. AtMostOneAnswer'
  BY <1>5, <1>6, <1>7, <1>8 DEF RequestInv, Requests, AtMostOneAnswer, Others
<1> QED
  BY <1>9, <1>10, <1>11, <1>12 DEF Requests

\* A thread that only goes on within its iteration.
LEMMA RequestsMove ==
  ASSUME RequestInv, NEW t \in Thread, Inserted(t), NEW to \in {"cancel", "wait", "expired"},
         pc[t] = "send" \/ (rx[t] = <<>> /\ to # "wait"),
         pc' = [pc EXCEPT ![t] = to],
         UNCHANGED <<next_request_id, pending, udp, cmd, request_id, rx>>
  PROVE  Requests'
<1>1. Threads
  BY RequestTypes DEF RequestInv
<1>2. \A u \in Thread : /\ Active(u)' <=> Active(u)
                        /\ Inserted(u)' <=> Inserted(u)
                        /\ Held(u)' <=> Held(u)
                        /\ Pending(u)' <=> Pending(u)
  BY <1>1 DEF Active, Inserted, Held, Pending, Threads
<1>3. \A u \in Thread : pc'[u] \in {"send", "wait"} => pc[u] \in {"send", "wait"}
  BY <1>1 DEF Threads
<1>4. UniqueIds'
  BY <1>2 DEF RequestInv, Requests, UniqueIds
<1>5. NoLeakedRequests'
  <2>1. \A n \in Node : \A e \in pending[n] : e.thread \in Thread
    BY RequestTypes DEF RequestInv, Tables
  <2> QED
    BY <1>2, <2>1 DEF RequestInv, Requests, NoLeakedRequests
<1>6. WaiterHasSender'
  BY <1>2, <1>3 DEF RequestInv, Requests, WaiterHasSender
<1>7. AtMostOneAnswer'
  BY <1>2 DEF RequestInv, Requests, AtMostOneAnswer
<1> QED
  BY <1>4, <1>5, <1>6, <1>7 DEF Requests

\* An iteration ends with a result, its channel gone.  In the table there is
\* no sender of it: one that was answered was taken out, and the others are
\* removed by their op and id, which no other running iteration has.
LEMMA RequestsPush ==
  ASSUME RequestInv, NEW t \in Thread, Unresolved(t) \/ TakeResult(t) \/ RemoveSender(t),
         UNCHANGED Elsewhere
  PROVE  Requests'
<1>1. Tables /\ Threads /\ At \in [Thread -> Node] /\ At[t] \in Node
  BY RequestTypes DEF RequestInv
<1>2. /\ pc' = [pc EXCEPT ![t] = "loop"] /\ rx' = [rx EXCEPT ![t] = <<>>]
      /\ UNCHANGED <<udp, next_request_id, cmd, request_id>>
  BY DEF Unresolved, TakeResult, RemoveSender, Push, GoTo, Elsewhere
<1>3. pc'[t] = "loop" /\ rx'[t] = <<>>
  BY <1>1, <1>2 DEF Threads
<1>4. CASE Unresolved(t) \/ TakeResult(t)
  <2>1. pending' = pending
    BY <1>4 DEF Unresolved, TakeResult
  <2>2. ~Pending(t)
    BY <1>4, <1>1, NotInserted
      DEF Unresolved, TakeResult, GoTo, Inserted, Pending, RequestInv, Requests, AtMostOneAnswer
  <2>3. \A n \in Node : \A e \in pending[n] : e.thread # t
    BY <2>2 DEF Pending, RequestInv, Requests, NoLeakedRequests
  <2>4. Others(t)
    BY <1>1, <1>2, <2>1 DEF Others, Threads, Pending
  <2> QED
    BY <1>2, <1>3, <2>1, <2>3, <2>4, RequestsOutside
<1>5. CASE RemoveSender(t)
  <2> DEFINE n == At[t]
             gone == {e \in pending[n] : e.op = cmd[t].op /\ e.id = request_id[t]}
  <2>1. pending' = [pending EXCEPT ![n] = @ \ gone]
    BY <1>5 DEF RemoveSender, Without
  <2>2. Active(t)
    BY <1>5 DEF RemoveSender, GoTo, Active
  <2>3. \A e \in gone : e.thread = t
    BY <1>1, <2>2 DEF RequestInv, Requests, NoLeakedRequests, UniqueIds, Tables,
                      Active, Inserted
  <2>4. \A m \in Node : \A e \in pending[m] : e.thread = t => m = n /\ e \in gone
    BY DEF RequestInv, Requests, NoLeakedRequests
  <2>5. /\ pending'[n] = pending[n] \ gone
        /\ \A m \in Node : m # n => pending'[m] = pending[m]
    BY <1>1, <2>1 DEF Tables
  <2>6. \A m \in Node : \A e \in pending'[m] : e \in pending[m] /\ e.thread # t
    BY <2>4, <2>5
  <2>7. Others(t)
    <3>1. \A u \in Thread \ {t} : Pending(u)' <=> Pending(u)
      <4>1. \A u \in Thread : At[u] \in Node
        BY <1>1
      <4> QED
        BY <2>3, <2>5, <4>1 DEF Pending
    <3> QED
      BY <1>1, <1>2, <3>1 DEF Others, Threads
  <2> QED
    BY <1>2, <1>3, <2>6, <2>7, RequestsOutside
<1> QED
  BY <1>4, <1>5

LEMMA RequestsAdmin ==
  ASSUME RequestInv, NEW t \in Thread, AdminStep(t)
  PROVE  Requests'
<1>0. UNCHANGED Elsewhere
  BY DEF AdminStep, Elsewhere
<1>1. CASE NextRequest(t)
  BY <1>0, <1>1, RequestsNext
<1>2. CASE InsertSender(t)
  BY <1>0, <1>2, RequestsInsert
<1>3. CASE Unresolved(t) \/ TakeResult(t) \/ RemoveSender(t)
  BY <1>0, <1>3, RequestsPush
<1>4. CASE SendRequest(t) \/ SendFails(t) \/ Expire(t)
  <2>1. \E to \in {"cancel", "wait", "expired"} :
          /\ pc[t] = "send" \/ (rx[t] = <<>> /\ to # "wait")
          /\ pc' = [pc EXCEPT ![t] = to]
    <3>1. CASE SendRequest(t)
      <4> WITNESS "wait" \in {"cancel", "wait", "expired"}
      <4> QED BY <3>1 DEF SendRequest, GoTo
    <3>2. CASE SendFails(t)
      <4> WITNESS "cancel" \in {"cancel", "wait", "expired"}
      <4> QED BY <3>2 DEF SendFails, GoTo
    <3>3. CASE Expire(t)
      <4> WITNESS "expired" \in {"cancel", "wait", "expired"}
      <4> QED BY <3>3 DEF Expire, GoTo
    <3> QED
      BY <1>4, <3>1, <3>2, <3>3
  <2>2. UNCHANGED <<next_request_id, pending, udp, cmd, request_id, rx>>
    BY <1>0, <1>4 DEF Elsewhere, SendRequest, SendFails, Expire
  <2>3. Inserted(t)
    BY <1>4 DEF SendRequest, SendFails, Expire, GoTo, Inserted
  <2> QED
    BY <2>1, <2>2, <2>3, RequestsMove
<1>5. CASE Respond(t)
  <2>1. /\ pc[t] = "loop" /\ pc' = [pc EXCEPT ![t] = "closed"]
        /\ UNCHANGED <<next_request_id, pending, cmd, request_id, rx, udp>>
    BY <1>0, <1>5 DEF Respond, GoTo, Elsewhere
  <2>2. Threads
    BY RequestTypes DEF RequestInv
  <2>3. Others(t) /\ pc'[t] = "closed"
    BY <2>1, <2>2 DEF Others, Threads, Pending
  <2>4. /\ \A n \in Node : \A e \in pending[n] : e.thread # t
        /\ rx[t] = <<>>
    BY <2>1, NotInserted DEF Inserted
  <2> QED
    BY <2>1, <2>3, <2>4, RequestsOutside
<1> QED
  BY <1>1, <1>2, <1>3, <1>4, <1>5 DEF AdminStep

-----------------------------------------------------------------------------
LEMMA RequestsStep == RequestInv /\ [Next]_vars => Requests'
<1> SUFFICES ASSUME RequestInv, [Next]_vars PROVE Requests'
  OBVIOUS
<1>0. Counted /\ TypeInv'
  BY TypeStep, RequestTypes DEF RequestInv
<1>1. ASSUME NEW f \in net, HandleDatagram(f) PROVE Requests'
  BY <1>1, RequestsHandle
<1>2. ASSUME NEW n \in Node, HandOver(n) PROVE Requests'
  BY <1>2, RequestsHandOver
<1>3. CASE \/ \E n \in Node : KeepaliveRound(n)
           \/ \E n \in Node, p \in Packet : ReadTun(n, p) \/ WriteTun(n, p)
           \/ \E f \in net : Lose(f)
           \/ UNCHANGED vars
  <2>1. UNCHANGED <<pending, udp, pc, cmd, request_id, rx, next_request_id>>
    BY <1>3 DEF KeepaliveRound, ReadTun, WriteTun, Lose, adminVars, vars
  <2> QED
    BY <1>0, <2>1, RequestsIdle DEF Counted
<1>4. ASSUME NEW c \in Client, RegisterRound(c) PROVE Requests'
  <2>1. /\ UNCHANGED <<pending, udp, pc, cmd, request_id, rx>>
        /\ next_request_id' = [next_request_id EXCEPT ![c] = @ + 1]
    BY <1>4 DEF RegisterRound, SendRegister, adminVars
  <2>2. Counted' /\ \A n \in Node : next_request_id'[n] >= next_request_id[n]
    <3>1. c \in Node
      BY NodeAssumption
    <3> QED
      BY <1>0, <2>1, <3>1 DEF Counted
  <2> QED
    BY <2>1, <2>2, RequestsIdle
<1>5. ASSUME NEW n \in Node, Restart(n) PROVE Requests'
  BY <1>5, RequestsRestart
<1>6. ASSUME NEW t \in Thread, Connect(t) \/ AdminStep(t) PROVE Requests'
  BY <1>6, RequestsConnect, RequestsAdmin
<1> QED
  BY <1>1, <1>2, <1>3, <1>4, <1>5, <1>6 DEF Next

\* The invariants of the pending tables, for every topology, any number of
\* connections and every failure of the environment: ids are unique among
\* the iterations of a node, no sender is left behind in a table, none that
\* is waited for is lost, and a channel never gets a second answer.
THEOREM RequestTables ==
  Spec => [](UniqueIds /\ NoLeakedRequests /\ WaiterHasSender /\ AtMostOneAnswer)
<1>1. Init => RequestInv
  BY TypeInit, RequestsInit DEF RequestInv
<1>2. RequestInv /\ [Next]_vars => RequestInv'
  BY TypeStep, RequestsStep DEF RequestInv
<1>3. RequestInv => UniqueIds /\ NoLeakedRequests /\ WaiterHasSender /\ AtMostOneAnswer
  BY DEF RequestInv, Requests
<1> QED
  BY <1>1, <1>2, <1>3, PTL DEF Spec

\* Two iterations of a node that overlap never share an id (fetch_add on
\* next_request_id).
THEOREM IdsAreUnique == Spec => []UniqueIds
BY RequestTables, PTL

\* The pending tables do not grow: every entry is that of a running iteration.
THEOREM NothingLeaks == Spec => []NoLeakedRequests
BY RequestTables, PTL

\* A channel never carries a second answer, however often the network
\* delivers a response (handle_datagram removes the sender it uses).
THEOREM OneAnswer == Spec => []AtMostOneAnswer
BY RequestTables, PTL

-----------------------------------------------------------------------------
(***************************************************************************)
(* Answers.  A response is matched by its id alone, and a node that is     *)
(* started again gives its ids out again: what is proved here holds until  *)
(* the first crash.                                                        *)
(***************************************************************************)
\* Requests that node n has sent, and responses that are for it.
Asked(n, f) == /\ f.msg.kind \in {"PingReq", "PublicClientsReq"}
               /\ f.msg.src_stealth = LocalStealth[n]
Answered(n, f) == /\ f.msg.kind \in {"PingResp", "PublicClientsResp"}
                  /\ f.msg.dst_stealth = LocalStealth[n]

\* No message on the network has an id that its node has still to give out.
IdsAreOld ==
  \A f \in net, n \in Node :
    Asked(n, f) \/ Answered(n, f) => f.msg.request_id < next_request_id[n]

\* The messages of a running iteration, the answer the UDP thread holds for
\* it and the one in its channel all name the target of that iteration.
FramesAgree ==
  \A f \in net, t \in Thread :
    Asked(At[t], f) \/ Answered(At[t], f) =>
      (Active(t) /\ f.msg.request_id = request_id[t] =>
         /\ Asked(At[t], f) => f.msg.dst_stealth = target_stealth[t]
         /\ Answered(At[t], f) => f.msg.src_stealth = target_stealth[t])
HandsAgree ==
  \A t \in Thread :
    Active(t) /\ Held(t) => udp[At[t]].result.responder = target_stealth[t]
ChannelsAgree ==
  \A t \in Thread : rx[t] # <<>> => Head(rx[t]).responder = target_stealth[t]

TargetsResolve ==
  \A t \in Thread :
    Active(t) => target_stealth[t] \in ResolveTarget(At[t], cmd[t].target)
NewHasNone == \A t \in Thread : pc[t] = "new" => results[t] = <<>>

Agreement == /\ IdsAreOld /\ FramesAgree /\ HandsAgree /\ ChannelsAgree
             /\ TargetsResolve /\ NewHasNone /\ AnswersMatchRequests
AnswerInv == RequestInv /\ (restarts = 0 => Agreement)

\* A request or response that a step leaves on the network goes on the way of
\* one that was there, answers one, or is sent by its admin thread.
LEMMA QuestionStep ==
  ASSUME TypeInv, [Next]_vars, NEW g \in net', NEW n \in Node,
         Asked(n, g) \/ Answered(n, g)
  PROVE  \/ \E f \in net :
              /\ Asked(n, f) \/ Answered(n, f)
              /\ g.msg.request_id = f.msg.request_id
              /\ Asked(n, g) => Asked(n, f) /\ g.msg.dst_stealth = f.msg.dst_stealth
              /\ Answered(n, g) =>
                   \/ Answered(n, f) /\ g.msg.src_stealth = f.msg.src_stealth
                   \/ Asked(n, f) /\ g.msg.src_stealth = f.msg.dst_stealth
         \/ \E t \in Thread :
              /\ pc[t] = "send" /\ At[t] = n /\ ~Answered(n, g)
              /\ g.msg.request_id = request_id[t]
              /\ g.msg.dst_stealth = target_stealth[t]
<1> DEFINE Same(f) ==
      /\ Asked(n, f) \/ Answered(n, f)
      /\ g.msg.request_id = f.msg.request_id
      /\ Asked(n, g) => Asked(n, f) /\ g.msg.dst_stealth = f.msg.dst_stealth
      /\ Answered(n, g) =>
           \/ Answered(n, f) /\ g.msg.src_stealth = f.msg.src_stealth
           \/ Asked(n, f) /\ g.msg.src_stealth = f.msg.dst_stealth
<1>1. Same(g)
  OBVIOUS
<1>2. ASSUME NEW f \in net, Relays(f, g) PROVE Same(f)
  <2>1. g.msg.kind \in Routed
    BY DEF Asked, Answered, Routed
  <2>2. /\ g.msg.kind = f.msg.kind /\ g.msg.src_stealth = f.msg.src_stealth
        /\ g.msg.dst_stealth = f.msg.dst_stealth
        /\ g.msg.request_id = f.msg.request_id
    BY <1>2, <2>1, RelayKeeps
  <2> QED
    BY <2>2 DEF Asked, Answered
<1>3. ASSUME NEW f \in net, Replies(f, g) PROVE Same(f)
  BY <1>3 DEF Replies, Asked, Answered, ForMe
<1>4. ASSUME NEW t \in Thread, Asks(t, g)
      PROVE  /\ pc[t] = "send" /\ At[t] = n /\ ~Answered(n, g)
             /\ g.msg.request_id = request_id[t]
             /\ g.msg.dst_stealth = target_stealth[t]
  <2>1. /\ g.msg.kind \in {"PingReq", "PublicClientsReq"}
        /\ g.msg.src_stealth = LocalStealth[At[t]]
        /\ g.msg.request_id = request_id[t] /\ g.msg.dst_stealth = target_stealth[t]
        /\ pc[t] = "send"
    BY <1>4 DEF Asks, Forward, SendTo, RequestMsg, Request
  <2>2. At[t] \in Node
    BY CommandAssumption
  <2> QED
    BY <2>1, <2>2, StealthAssumption DEF Asked, Answered
<1>5. ASSUME NEW m \in Node, NEW p \in Packet, Carries(m, p, g) PROVE FALSE
  <2>1. g.msg.kind = "Data"
    BY <1>5 DEF Carries, Encapsulated, Forward, SendTo
  <2> QED
    BY <2>1 DEF Asked, Answered
<1>6. g.msg.kind # "Keepalive" /\ \A c \in Client : ~Enrols(c, g)
  BY DEF Enrols, Asked, Answered
<1>7. g \in net \/ Sent(g)
  BY FramesStep
<1> HIDE DEF Same
<1>8. (\E f \in net : Same(f)) \/ \E t \in Thread : Asks(t, g)
  BY <1>1, <1>2, <1>3, <1>5, <1>6, <1>7 DEF Sent
<1>9. CASE \E f \in net : Same(f)
  BY <1>9 DEF Same
<1>10. CASE \E t \in Thread : Asks(t, g)
  BY <1>4, <1>10
<1> QED
  BY <1>8, <1>9, <1>10

\* What a step does to an admin thread: it begins an iteration, it is given a
\* request, it pushes a result, or it keeps what it has.
Begins(t) ==
  /\ pc[t] = "loop" /\ pc'[t] = "insert" /\ left[t] > 0
  /\ request_id'[t] = next_request_id[At[t]]
  /\ target_stealth'[t] \in ResolveTarget(At[t], cmd[t].target)
  /\ rx'[t] = <<>> /\ UNCHANGED udp
  /\ cmd'[t] = cmd[t] /\ left'[t] = left[t] /\ results'[t] = results[t]

Opens(t) ==
  /\ pc[t] = "new" /\ pc'[t] = "loop" /\ cmd'[t] \in Command
  /\ left'[t] = IterationsOf(cmd'[t]) /\ results'[t] = results[t]

Pushes(t) ==
  /\ pc'[t] = "loop" /\ left[t] > 0 /\ left'[t] = left[t] - 1 /\ cmd'[t] = cmd[t]
  /\ \/ pc[t] \in {"loop", "cancel", "expired"} /\ results'[t] = Append(results[t], Failure)
     \/ /\ pc[t] = "wait" /\ rx[t] # <<>>
        /\ results'[t] = Append(results[t], Head(rx[t]))

Keeps(t) ==
  /\ cmd'[t] = cmd[t] /\ left'[t] = left[t] /\ results'[t] = results[t]
  /\ target_stealth'[t] = target_stealth[t] /\ request_id'[t] = request_id[t]
  /\ \/ pc'[t] = pc[t] \/ (Active(t) /\ Active(t)')
     \/ pc[t] = "loop" /\ pc'[t] = "closed" /\ left[t] = 0

LEMMA ThreadsStep ==
  ASSUME TypeInv, [Next]_vars, \A n \in Node : ~Restart(n)
  PROVE  \A t \in Thread : Begins(t) \/ Opens(t) \/ Pushes(t) \/ Keeps(t)
<1> SUFFICES ASSUME NEW t \in Thread PROVE Begins(t) \/ Opens(t) \/ Pushes(t) \/ Keeps(t)
  OBVIOUS
<1> DEFINE Mine == <<pc[t], cmd[t], left[t], target_stealth[t], request_id[t], results[t]>>
<1>1. /\ pc \in [Thread -> {"new", "loop", "insert", "send", "cancel", "wait",
                            "expired", "closed"}]
      /\ cmd \in [Thread -> Command \cup {NoCommand}]
      /\ left \in [Thread -> Nat]
      /\ target_stealth \in [Thread -> Stealth] /\ request_id \in [Thread -> Nat]
      /\ rx \in [Thread -> Seq(Result)] /\ results \in [Thread -> Seq(Result)]
  BY DEF TypeInv, TypeOK
<1>2. CASE UNCHANGED Mine
  BY <1>2 DEF Keeps
<1>3. CASE \/ \E f \in net : HandleDatagram(f) \/ Lose(f)
           \/ \E n \in Node : \/ HandOver(n) \/ KeepaliveRound(n)
                              \/ \E p \in Packet : ReadTun(n, p) \/ WriteTun(n, p)
           \/ \E c \in Client : RegisterRound(c)
           \/ UNCHANGED vars
  <2>1. UNCHANGED <<pc, cmd, left, target_stealth, request_id, results>>
    BY <1>3 DEF HandleDatagram, Lose, HandOver, KeepaliveRound, ReadTun, WriteTun,
                RegisterRound, SendRegister, adminVars, vars
  <2> QED
    BY <1>2, <2>1
<1>4. ASSUME NEW u \in Thread \ {t}, Connect(u) \/ AdminStep(u) PROVE UNCHANGED Mine
  <2>1. CASE Connect(u)
    BY <1>1, <1>4, <2>1 DEF Connect, AcceptRequest, GoTo
  <2>2. CASE NextRequest(u)
    BY <1>1, <1>4, <2>2 DEF NextRequest, NewChannel, GoTo
  <2>3. CASE Unresolved(u) \/ TakeResult(u) \/ RemoveSender(u)
    BY <1>1, <1>4, <2>3 DEF Unresolved, TakeResult, RemoveSender, Push, GoTo
  <2>4. CASE InsertSender(u) \/ SendRequest(u) \/ SendFails(u) \/ Expire(u) \/ Respond(u)
    BY <1>1, <1>4, <2>4 DEF InsertSender, SendRequest, SendFails, Expire, Respond, GoTo
  <2> QED
    BY <1>4, <2>1, <2>2, <2>3, <2>4 DEF AdminStep
<1>5. CASE Connect(t)
  <2>1. PICK c \in Command : AcceptRequest(t, c)
    BY <1>5 DEF Connect
  <2>2. Opens(t)
    BY <1>1, <2>1 DEF AcceptRequest, GoTo, Opens, IterationsOf
  <2> QED
    BY <2>2
<1>6. CASE AdminStep(t)
  <2>1. CASE NextRequest(t)
    <3>1. Begins(t)
      BY <1>1, <1>6, <2>1 DEF AdminStep, NextRequest, NewChannel, GoTo, Begins
    <3> QED
      BY <3>1
  <2>2. CASE Unresolved(t) \/ TakeResult(t) \/ RemoveSender(t)
    <3>1. left[t] > 0
      BY <2>2 DEF Unresolved, TakeResult, RemoveSender, GoTo, TypeInv, LoopsCount, Active
    <3>2. Pushes(t)
      BY <1>1, <2>2, <3>1 DEF Unresolved, TakeResult, RemoveSender, Push, GoTo, Pushes
    <3> QED
      BY <3>2
  <2>3. CASE InsertSender(t) \/ SendRequest(t) \/ SendFails(t) \/ Expire(t) \/ Respond(t)
    <3>1. Keeps(t)
      BY <1>1, <2>3 DEF InsertSender, SendRequest, SendFails, Expire, Respond, GoTo,
                        Keeps, Active
    <3> QED
      BY <3>1
  <2> QED
    BY <1>6, <2>1, <2>2, <2>3 DEF AdminStep
<1> QED
  BY <1>2, <1>3, <1>4, <1>5, <1>6 DEF Next

\* The answer a UDP thread comes to hold is a response for its node, of an id
\* that an inserted thread of the node waits for.
LEMMA HandsStep ==
  ASSUME RequestInv, [Next]_vars, NEW t \in Thread, Active(t), Active(t)',
         request_id'[t] = request_id[t], Held(t)'
  PROVE  \/ Held(t) /\ udp'[At[t]] = udp[At[t]]
         \/ \E f \in net : /\ Answered(At[t], f) /\ f.msg.request_id = request_id[t]
                           /\ udp'[At[t]].result.responder = f.msg.src_stealth
                           /\ cmd[t].op = "clients" =>
                                /\ f.msg.kind = "PublicClientsResp"
                                /\ udp'[At[t]].result.clients = f.msg.clients
<1> DEFINE n == At[t]
<1>1. Tables /\ n \in Node
  BY RequestTypes DEF RequestInv
<1>2. udp'[n] # Idle /\ udp'[n].thread = t /\ udp'[n].id = request_id[t]
  BY DEF Held
<1>3. CASE udp'[n] = udp[n]
  BY <1>2, <1>3 DEF Held
<1>4. ASSUME NEW f \in net, NEW op, NEW result, TakeSender(f, op, result), f.to = n,
             udp'[n] # udp[n]
      PROVE  /\ f.msg.request_id = request_id[t] /\ udp'[n].result = result
             /\ cmd[t].op = op
  <2>1. PICK e \in pending[n] :
          /\ e.id = f.msg.request_id /\ e.op = op
          /\ udp' = [udp EXCEPT ![n] = [busy |-> TRUE, thread |-> e.thread,
                                        id |-> e.id, result |-> result]]
    BY <1>4 DEF TakeSender, Take
  <2>2. /\ f.msg.request_id = request_id[t] /\ udp'[n].result = result
        /\ e.thread = t
    BY <1>1, <1>2, <2>1 DEF Tables
  <2> QED
    BY <1>1, <2>1, <2>2 DEF RequestInv, Requests, NoLeakedRequests
<1>5. ASSUME NEW f \in net, HandleDatagram(f), udp'[n] # udp[n]
      PROVE  /\ Answered(n, f) /\ f.msg.request_id = request_id[t]
             /\ udp'[n].result.responder = f.msg.src_stealth
             /\ cmd[t].op = "clients" => /\ f.msg.kind = "PublicClientsResp"
                                         /\ udp'[n].result.clients = f.msg.clients
  <2>1. AcceptPong(f) \/ AcceptClients(f)
    BY <1>5 DEF HandleDatagram, DropUnknownSender, Ignore, DropExhausted, Relay,
                AnswerPing, AnswerClients, RegisterClient, DeliverData, RelayData, DropData
  <2>2. f.to = n
    <3>1. \E op, result : TakeSender(f, op, result)
      BY <2>1 DEF AcceptPong, AcceptClients
    <3>2. \E v : udp' = udp \/ udp' = [udp EXCEPT ![f.to] = v]
      BY <3>1 DEF TakeSender, Take
    <3> QED
      BY <1>1, <1>5, <3>2 DEF Tables
  <2>3. CASE AcceptPong(f)
    BY <1>4, <1>5, <2>2, <2>3 DEF AcceptPong, RoutedToMe, ForMe, Answered
  <2>4. CASE AcceptClients(f)
    BY <1>4, <1>5, <2>2, <2>4 DEF AcceptClients, RoutedToMe, ForMe, Answered
  <2> QED
    BY <2>1, <2>3, <2>4
<1>6. ASSUME NEW m \in Node, HandOver(m) PROVE udp'[n] = udp[n]
  BY <1>1, <1>2, <1>6 DEF HandOver, Tables
<1>7. ASSUME NEW m \in Node, Restart(m) PROVE udp'[n] = udp[n]
  BY <1>1, <1>2, <1>7 DEF Restart, Tables
<1>8. CASE \/ \E f \in net : Lose(f)
           \/ \E m \in Node : \/ KeepaliveRound(m)
                              \/ \E p \in Packet : ReadTun(m, p) \/ WriteTun(m, p)
           \/ \E c \in Client : RegisterRound(c)
           \/ \E u \in Thread : Connect(u) \/ AdminStep(u)
           \/ UNCHANGED vars
  <2>1. udp' = udp
    BY <1>8 DEF Lose, KeepaliveRound, ReadTun, WriteTun, RegisterRound, SendRegister,
                Connect, AdminStep, vars
  <2> QED
    BY <1>3, <2>1
<1> QED
  BY <1>3, <1>5, <1>6, <1>7, <1>8 DEF Next

\* What comes to be in a channel is the answer that the UDP thread held.
LEMMA ChannelsStep ==
  ASSUME RequestInv, [Next]_vars, NEW t \in Thread, rx'[t] # <<>>
  PROVE  \/ rx'[t] = rx[t]
         \/ Active(t) /\ Held(t) /\ Head(rx'[t]) = udp[At[t]].result
<1>1. Tables /\ Threads /\ At \in [Thread -> Node]
  BY RequestTypes DEF RequestInv
<1>2. ASSUME NEW n \in Node, HandOver(n), rx'[t] # rx[t]
      PROVE  Active(t) /\ Held(t) /\ Head(rx'[t]) = udp[At[t]].result
  <2> DEFINE held == udp[n]
  <2>1. held # Idle /\ Listening(held.thread, held.id)
    BY <1>2 DEF HandOver
  <2>2. held.thread \in Thread /\ held.result \in Result /\ At[held.thread] = n
    BY <1>1, <1>2, <2>1 DEF Tables, Busy, Result, RequestInv, Requests, UniqueIds
  <2>3. rx' = [rx EXCEPT ![held.thread] = Append(@, held.result)]
    BY <1>2, <2>1 DEF HandOver
  <2>4. held.thread = t
    BY <1>1, <1>2, <2>2, <2>3 DEF Threads
  <2>5. Active(t) /\ Held(t)
    BY <2>1, <2>2, <2>4 DEF Listening, Active, Held
  <2>6. rx[t] = <<>>
    BY <2>5 DEF RequestInv, Requests, AtMostOneAnswer
  <2>7. rx'[t] = Append(<<>>, held.result)
    BY <1>1, <2>3, <2>4, <2>6 DEF Threads
  <2>8. Head(rx'[t]) = held.result
    BY <2>2, <2>7
  <2> QED
    BY <2>2, <2>4, <2>5, <2>8
<1>3. ASSUME NEW u \in Thread, Connect(u) \/ AdminStep(u) PROVE rx'[t] = rx[t]
  <2>1. \/ rx' = rx
        \/ rx' = [rx EXCEPT ![u] = <<>>]
    BY <1>3 DEF Connect, AcceptRequest, AdminStep, NextRequest, NewChannel, Unresolved,
                InsertSender, SendRequest, SendFails, TakeResult, Expire, RemoveSender,
                Respond, Push
  <2> QED
    BY <1>1, <2>1 DEF Threads
<1>4. ASSUME NEW n \in Node, Restart(n) PROVE rx'[t] = rx[t]
  BY <1>1, <1>4 DEF Restart
<1>5. CASE \/ \E f \in net : HandleDatagram(f) \/ Lose(f)
           \/ \E n \in Node : \/ KeepaliveRound(n)
                              \/ \E p \in Packet : ReadTun(n, p) \/ WriteTun(n, p)
           \/ \E c \in Client : RegisterRound(c)
           \/ UNCHANGED vars
  BY <1>5 DEF HandleDatagram, Lose, KeepaliveRound, ReadTun, WriteTun, RegisterRound,
              SendRegister, adminVars, vars
<1> QED
  BY <1>2, <1>3, <1>4, <1>5 DEF Next

\* Up to a crash the counter of a node only grows.
LEMMA CounterStep ==
  ASSUME TypeInv, [Next]_vars, \A n \in Node : ~Restart(n), NEW n \in Node
  PROVE  /\ next_request_id[n] \in Nat /\ next_request_id'[n] \in Nat
         /\ next_request_id'[n] >= next_request_id[n]
<1>1. next_request_id \in [Node -> Nat \ {0}]
  BY DEF TypeInv, TypeOK
<1>2. ASSUME NEW m \in Node, next_request_id' = [next_request_id EXCEPT ![m] = @ + 1]
      PROVE  next_request_id'[n] \in Nat /\ next_request_id'[n] >= next_request_id[n]
  BY <1>1, <1>2
<1>3. ASSUME NEW c \in Client, RegisterRound(c)
      PROVE  c \in Node /\ next_request_id' = [next_request_id EXCEPT ![c] = @ + 1]
  BY <1>3, NodeAssumption DEF RegisterRound, SendRegister
<1>4. ASSUME NEW t \in Thread, AdminStep(t)
      PROVE  \/ UNCHANGED next_request_id
             \/ At[t] \in Node /\ next_request_id' = [next_request_id EXCEPT ![At[t]] = @ + 1]
  BY <1>4, CommandAssumption
     DEF AdminStep, NextRequest, Unresolved, InsertSender, SendRequest, SendFails,
         TakeResult, Expire, RemoveSender, Respond
<1>5. CASE \/ \E f \in net : HandleDatagram(f) \/ Lose(f)
           \/ \E m \in Node : \/ HandOver(m) \/ KeepaliveRound(m)
                              \/ \E p \in Packet : ReadTun(m, p) \/ WriteTun(m, p)
           \/ \E t \in Thread : Connect(t)
           \/ UNCHANGED vars
  <2>1. UNCHANGED next_request_id
    BY <1>5 DEF HandleDatagram, Lose, HandOver, KeepaliveRound, ReadTun, WriteTun,
                Connect, AcceptRequest, vars
  <2> QED
    BY <1>1, <2>1
<1> QED
  BY <1>1, <1>2, <1>3, <1>4, <1>5 DEF Next

\* An iteration that runs after a step ran before it, or has just begun.
LEMMA StillActive ==
  ASSUME NEW t \in Thread, Begins(t) \/ Opens(t) \/ Pushes(t) \/ Keeps(t), Active(t)'
  PROVE  \/ Begins(t)
         \/ /\ Active(t) /\ request_id'[t] = request_id[t] /\ cmd'[t] = cmd[t]
            /\ target_stealth'[t] = target_stealth[t]
BY DEF Opens, Pushes, Keeps, Active

LEMMA IdsStep ==
  ASSUME RequestInv, IdsAreOld, [Next]_vars, \A n \in Node : ~Restart(n),
         NEW g \in net', NEW n \in Node, Asked(n, g) \/ Answered(n, g)
  PROVE  g.msg.request_id < next_request_id[n] /\ g.msg.request_id \in Nat
<1>1. TypeInv /\ next_request_id \in [Node -> Nat \ {0}] /\ request_id \in [Thread -> Nat]
  BY DEF RequestInv, TypeInv, TypeOK
<1>2. ASSUME NEW f \in net, Asked(n, f) \/ Answered(n, f) PROVE f.msg.request_id \in Nat
  <2>1. f.msg \in Pings \cup Pongs \cup ClientsReqs \cup ClientsResps
    BY <1>1, <1>2, OpenedType, KindType DEF Asked, Answered
  <2> QED
    BY <2>1 DEF Pings, Pongs, ClientsReqs, ClientsResps
<1>3. \/ \E f \in net : /\ Asked(n, f) \/ Answered(n, f)
                        /\ g.msg.request_id = f.msg.request_id
      \/ \E t \in Thread : /\ pc[t] = "send" /\ At[t] = n
                           /\ g.msg.request_id = request_id[t]
  BY <1>1, QuestionStep
<1>4. \A t \in Thread : pc[t] = "send" => request_id[t] < next_request_id[At[t]]
  BY DEF RequestInv, Requests, UniqueIds, Active
<1> QED
  BY <1>1, <1>2, <1>3, <1>4 DEF IdsAreOld

LEMMA FramesAgreeStep ==
  ASSUME RequestInv, IdsAreOld, FramesAgree, [Next]_vars, \A n \in Node : ~Restart(n),
         NEW g \in net', NEW t \in Thread, Active(t)',
         Asked(At[t], g) \/ Answered(At[t], g), g.msg.request_id = request_id'[t]
  PROVE  /\ Asked(At[t], g) => g.msg.dst_stealth = target_stealth'[t]
         /\ Answered(At[t], g) => g.msg.src_stealth = target_stealth'[t]
<1> DEFINE n == At[t]
<1>1. TypeInv /\ n \in Node /\ next_request_id[n] \in Nat
  BY RequestTypes DEF RequestInv, Counted
<1>2. g.msg.request_id < next_request_id[n] /\ g.msg.request_id \in Nat
  BY <1>1, IdsStep
<1>3. ~Begins(t)
  BY <1>1, <1>2 DEF Begins
<1>4. /\ Active(t) /\ request_id'[t] = request_id[t]
      /\ target_stealth'[t] = target_stealth[t]
  BY <1>1, <1>3, ThreadsStep, StillActive
<1>5. ASSUME NEW f \in net, Asked(n, f) \/ Answered(n, f),
             g.msg.request_id = f.msg.request_id
      PROVE  /\ Asked(n, f) => f.msg.dst_stealth = target_stealth[t]
             /\ Answered(n, f) => f.msg.src_stealth = target_stealth[t]
  BY <1>4, <1>5 DEF FramesAgree
<1>6. ASSUME NEW u \in Thread, pc[u] = "send", At[u] = n, g.msg.request_id = request_id[u]
      PROVE  u = t
  BY <1>4, <1>6 DEF RequestInv, Requests, UniqueIds, Active
<1>7. \/ \E f \in net :
           /\ Asked(n, f) \/ Answered(n, f)
           /\ g.msg.request_id = f.msg.request_id
           /\ Asked(n, g) => Asked(n, f) /\ g.msg.dst_stealth = f.msg.dst_stealth
           /\ Answered(n, g) =>
                \/ Answered(n, f) /\ g.msg.src_stealth = f.msg.src_stealth
                \/ Asked(n, f) /\ g.msg.src_stealth = f.msg.dst_stealth
      \/ \E u \in Thread :
           /\ pc[u] = "send" /\ At[u] = n /\ ~Answered(n, g)
           /\ g.msg.request_id = request_id[u]
           /\ g.msg.dst_stealth = target_stealth[u]
  BY <1>1, QuestionStep
<1> QED
  BY <1>4, <1>5, <1>6, <1>7

LEMMA HandsAgreeStep ==
  ASSUME RequestInv, FramesAgree, HandsAgree, [Next]_vars, \A n \in Node : ~Restart(n),
         NEW t \in Thread, Active(t)', Held(t)'
  PROVE  udp'[At[t]].result.responder = target_stealth'[t]
<1> DEFINE n == At[t]
<1>1. TypeInv /\ n \in Node /\ next_request_id[n] \in Nat /\ Tables
  BY RequestTypes DEF RequestInv, Counted
<1>2. ~Begins(t)
  <2>1. udp[n] # Idle => udp[n].id \in Nat /\ udp[n].id < next_request_id[n]
    BY <1>1 DEF RequestInv, Requests, UniqueIds, Tables, Busy
  <2>2. Begins(t) => udp[n] # Idle /\ udp[n].id = next_request_id[n]
    BY DEF Begins, Held
  <2> QED
    BY <1>1, <2>1, <2>2
<1>3. /\ Active(t) /\ request_id'[t] = request_id[t]
      /\ target_stealth'[t] = target_stealth[t]
  BY <1>1, <1>2, ThreadsStep, StillActive
<1> QED
  BY <1>3, HandsStep DEF HandsAgree, FramesAgree

LEMMA ChannelsAgreeStep ==
  ASSUME RequestInv, HandsAgree, ChannelsAgree, [Next]_vars,
         \A n \in Node : ~Restart(n), NEW t \in Thread, rx'[t] # <<>>
  PROVE  Head(rx'[t]).responder = target_stealth'[t]
<1>1. Active(t)'
  <2>1. Requests'
    BY RequestsStep
  <2> QED
    BY <2>1 DEF Requests, AtMostOneAnswer, Inserted, Active
<1>2. /\ Active(t) /\ target_stealth'[t] = target_stealth[t]
  BY <1>1, ThreadsStep, StillActive DEF RequestInv, Begins
<1>3. \/ rx'[t] = rx[t]
      \/ Held(t) /\ Head(rx'[t]) = udp[At[t]].result
  BY ChannelsStep
<1> QED
  BY <1>2, <1>3 DEF HandsAgree, ChannelsAgree

\* A positive result is pushed by a thread whose channel, and so whose answer,
\* is that of its target.
LEMMA ResultsAgreeStep ==
  ASSUME RequestInv, ChannelsAgree, TargetsResolve, NewHasNone, AnswersMatchRequests,
         [Next]_vars, \A n \in Node : ~Restart(n), NEW t \in Thread
  PROVE  /\ \A i \in DOMAIN results'[t] : results'[t][i].ok =>
              results'[t][i].responder \in ResolveTarget(At[t], cmd'[t].target)
         /\ pc'[t] = "new" => results'[t] = <<>>
<1>1. TypeInv /\ results[t] \in Seq(Result) /\ rx[t] \in Seq(Result)
  BY DEF RequestInv, TypeInv, TypeOK
<1>2. CASE Begins(t) \/ Keeps(t)
  BY <1>2 DEF Begins, Keeps, Active, NewHasNone, AnswersMatchRequests
<1>3. CASE Opens(t)
  BY <1>3 DEF Opens, NewHasNone
<1>4. CASE Pushes(t)
  <2> DEFINE Right(r) == r.ok => r.responder \in ResolveTarget(At[t], cmd[t].target)
  <2>1. pc'[t] = "loop" /\ cmd'[t] = cmd[t]
    BY <1>4 DEF Pushes
  <2>2. Right(Failure)
    BY DEF Failure
  <2>3. ASSUME pc[t] = "wait", rx[t] # <<>> PROVE Right(Head(rx[t])) /\ Head(rx[t]) \in Result
    BY <1>1, <2>3 DEF ChannelsAgree, TargetsResolve, Active
  <2>4. \E r \in Result : Right(r) /\ results'[t] = Append(results[t], r)
    <3>1. Failure \in Result
      BY DEF Result
    <3> HIDE DEF Right
    <3> QED
      BY <1>4, <2>2, <2>3, <3>1 DEF Pushes
  <2>5. \A i \in DOMAIN results[t] : Right(results[t][i])
    BY DEF AnswersMatchRequests
  <2>6. \A i \in DOMAIN results'[t] : Right(results'[t][i])
    <3> HIDE DEF Right
    <3> QED
      BY <1>1, <2>4, <2>5
  <2> QED
    BY <2>1, <2>6
<1> QED
  BY <1>1, <1>2, <1>3, <1>4, ThreadsStep

LEMMA AgreementStep ==
  ASSUME RequestInv, Agreement, [Next]_vars, \A n \in Node : ~Restart(n)
  PROVE  Agreement'
<1>1. TypeInv
  BY DEF RequestInv
<1>2. IdsAreOld'
  <2> SUFFICES ASSUME NEW g \in net', NEW n \in Node, Asked(n, g) \/ Answered(n, g)
               PROVE  g.msg.request_id < next_request_id'[n]
    BY DEF IdsAreOld, Asked, Answered
  <2>1. g.msg.request_id < next_request_id[n] /\ g.msg.request_id \in Nat
    BY IdsStep DEF Agreement
  <2> QED
    BY <1>1, <2>1, CounterStep
<1>3. FramesAgree'
  BY FramesAgreeStep DEF Agreement, FramesAgree, Asked, Answered
<1>4. HandsAgree'
  BY HandsAgreeStep DEF Agreement, HandsAgree
<1>5. ChannelsAgree'
  BY ChannelsAgreeStep DEF Agreement, ChannelsAgree
<1>6. TargetsResolve'
  BY <1>1, ThreadsStep, StillActive DEF Agreement, TargetsResolve, Begins, ResolveTarget
<1>7. NewHasNone' /\ AnswersMatchRequests'
  BY ResultsAgreeStep DEF Agreement, NewHasNone, AnswersMatchRequests, ResolveTarget
<1> QED
  BY <1>2, <1>3, <1>4, <1>5, <1>6, <1>7 DEF Agreement

LEMMA AnswersInit == Init => AnswerInv
<1> SUFFICES ASSUME Init PROVE AnswerInv
  OBVIOUS
<1>1. RequestInv
  BY TypeInit, RequestsInit DEF RequestInv
<1>2. /\ net = {}
      /\ \A t \in Thread : pc[t] = "new" /\ rx[t] = <<>> /\ results[t] = <<>>
  BY DEF Init
<1>3. IdsAreOld /\ FramesAgree
  BY <1>2 DEF IdsAreOld, FramesAgree
<1>4. HandsAgree /\ ChannelsAgree /\ TargetsResolve
  BY <1>2 DEF HandsAgree, ChannelsAgree, TargetsResolve, Active
<1>5. NewHasNone /\ AnswersMatchRequests
  BY <1>2 DEF NewHasNone, AnswersMatchRequests
<1> QED
  BY <1>1, <1>3, <1>4, <1>5 DEF AnswerInv, Agreement

\* Crashes are counted.
LEMMA CrashesCount ==
  ASSUME TypeInv, [Next]_vars
  PROVE  /\ restarts \in Nat /\ restarts' \in Nat
         /\ restarts' = 0 => restarts = 0 /\ \A n \in Node : ~Restart(n)
<1>1. restarts \in Nat
  BY DEF TypeInv, TypeOK
<1>2. CASE \E n \in Node : Restart(n)
  BY <1>1, <1>2 DEF Restart
<1>3. CASE \A n \in Node : ~Restart(n)
  <2>1. restarts' = restarts
    BY <1>3 DEF Next, HandleDatagram, Lose, HandOver, KeepaliveRound, ReadTun, WriteTun,
                RegisterRound, SendRegister, Connect, AdminStep, vars
  <2> QED
    BY <1>1, <1>3, <2>1
<1> QED
  BY <1>2, <1>3

LEMMA AnswersStep == AnswerInv /\ [Next]_vars => AnswerInv'
<1> SUFFICES ASSUME AnswerInv, [Next]_vars PROVE AnswerInv'
  OBVIOUS
<1>1. RequestInv /\ RequestInv'
  BY TypeStep, RequestsStep DEF AnswerInv, RequestInv
<1>2. restarts' = 0 => restarts = 0 /\ \A n \in Node : ~Restart(n)
  BY <1>1, CrashesCount DEF RequestInv
<1>3. restarts' = 0 => Agreement'
  BY <1>1, <1>2, AgreementStep DEF AnswerInv
<1> QED
  BY <1>1, <1>3 DEF AnswerInv

\* A positive result of PING or CLIENTS is the answer of the node that was
\* asked, whatever the network loses, repeats or reorders and however the
\* connections of a node overlap; until a process crashes, and with it the
\* memory of the ids that are still on the network.
THEOREM AnswersAreRight == Spec => [](restarts = 0 => AnswersMatchRequests)
<1>1. AnswerInv => (restarts = 0 => AnswersMatchRequests)
  BY DEF AnswerInv, Agreement
<1> QED
  BY <1>1, AnswersInit, AnswersStep, PTL DEF Spec

-----------------------------------------------------------------------------
(***************************************************************************)
(* Listings.  A connection that is made when gateway n lists client c may  *)
(* still meet answers of n from before, to requests of earlier connections;*)
(* their ids are old, so none of them gets into the result.                *)
(***************************************************************************)
Listed(c) == [origin |-> "registered", entry |-> EntryOf(c)]

\* The answers of n to the running iteration of t list c: those on the
\* network, the one in the UDP thread's hand, and the one in the channel.
FramesList(t, n, c) ==
  \A f \in net :
    /\ Active(t) /\ f.msg.kind = "PublicClientsResp" /\ Answered(At[t], f)
    /\ f.msg.request_id = request_id[t] /\ f.msg.src_stealth = LocalStealth[n]
    => Listed(c) \in f.msg.clients
HandLists(t, n, c) ==
  LET held == udp[At[t]]
  IN  /\ Active(t) /\ Held(t) /\ cmd[t].op = "clients"
      /\ held.result.responder = LocalStealth[n]
      => Listed(c) \in held.result.clients
ChannelLists(t, n, c) ==
  /\ rx[t] # <<>> /\ cmd[t].op = "clients"
  /\ Head(rx[t]).responder = LocalStealth[n]
  => Listed(c) \in Head(rx[t]).clients

Current(t, n, c) ==
  /\ EntryOf(c) \in registered_clients[n]
  /\ FramesList(t, n, c) /\ HandLists(t, n, c) /\ ChannelLists(t, n, c)
  /\ Shows(t, n, c)

ListingInv == AnswerInv /\ EnrolInv

\* A CLIENTS answer that a step leaves on the network goes on the way of one
\* that was there, or is given by a node with all that it has registered.
LEMMA ListingStep ==
  ASSUME TypeInv, [Next]_vars, NEW g \in net', g.msg.kind = "PublicClientsResp",
         NEW m \in Node, Answered(m, g)
  PROVE  \E f \in net :
           \/ /\ f.msg.kind = "PublicClientsResp" /\ Answered(m, f)
              /\ f.msg.request_id = g.msg.request_id
              /\ f.msg.src_stealth = g.msg.src_stealth
              /\ f.msg.clients = g.msg.clients
           \/ /\ f.to \in Node /\ g.msg.src_stealth = LocalStealth[f.to]
              /\ \A e \in registered_clients[f.to] :
                   [origin |-> "registered", entry |-> e] \in g.msg.clients
<1>1. CASE g \in net
  BY <1>1
<1>2. ASSUME NEW f \in net, Relays(f, g)
      PROVE  /\ f.msg.kind = "PublicClientsResp" /\ Answered(m, f)
             /\ f.msg.request_id = g.msg.request_id
             /\ f.msg.src_stealth = g.msg.src_stealth /\ f.msg.clients = g.msg.clients
  <2>1. g.msg.kind \in Routed
    BY DEF Routed
  <2>2. /\ g.msg.kind = f.msg.kind /\ g.msg.src_stealth = f.msg.src_stealth
        /\ g.msg.dst_stealth = f.msg.dst_stealth
        /\ g.msg.request_id = f.msg.request_id /\ g.msg.clients = f.msg.clients
    BY <1>2, <2>1, RelayKeeps
  <2> QED
    BY <2>2 DEF Answered
<1>3. ASSUME NEW f \in net, Replies(f, g)
      PROVE  /\ f.to \in Node /\ g.msg.src_stealth = LocalStealth[f.to]
             /\ \A e \in registered_clients[f.to] :
                  [origin |-> "registered", entry |-> e] \in g.msg.clients
  BY <1>3, OpenedType DEF Replies
<1>4. ASSUME NEW t \in Thread, Asks(t, g) PROVE FALSE
  BY <1>4 DEF Asks, Forward, SendTo, RequestMsg, Request
<1>5. ASSUME NEW k \in Node, NEW p \in Packet, Carries(k, p, g) PROVE FALSE
  BY <1>5 DEF Carries, Encapsulated, Forward, SendTo
<1>6. \A c \in Client : ~Enrols(c, g)
  BY DEF Enrols
<1>7. g \in net \/ Sent(g)
  BY FramesStep
<1> QED
  BY <1>1, <1>2, <1>3, <1>4, <1>5, <1>6, <1>7 DEF Sent

LEMMA FramesListStep ==
  ASSUME ListingInv, Agreement, [Next]_vars, \A m \in Node : ~Restart(m),
         NEW t \in Thread, NEW n \in Node, NEW c \in Client, Current(t, n, c)
  PROVE  FramesList(t, n, c)'
<1> SUFFICES ASSUME NEW g \in net', Active(t)', g.msg.kind = "PublicClientsResp",
                    Answered(At[t], g), g.msg.request_id = request_id'[t],
                    g.msg.src_stealth = LocalStealth[n]
             PROVE  Listed(c) \in g.msg.clients
  BY DEF FramesList, Answered, Listed, EntryOf
<1>1. RequestInv /\ TypeInv /\ At[t] \in Node /\ next_request_id[At[t]] \in Nat
  BY RequestTypes DEF ListingInv, AnswerInv, RequestInv, Counted
<1>2. g.msg.request_id < next_request_id[At[t]] /\ g.msg.request_id \in Nat
  BY <1>1, IdsStep DEF Agreement
<1>3. ~Begins(t)
  BY <1>1, <1>2 DEF Begins
<1>4. Active(t) /\ request_id'[t] = request_id[t]
  BY <1>1, <1>3, ThreadsStep, StillActive
<1>5. ASSUME NEW f \in net, f.msg.kind = "PublicClientsResp", Answered(At[t], f),
             f.msg.request_id = g.msg.request_id, f.msg.src_stealth = g.msg.src_stealth
      PROVE  Listed(c) \in f.msg.clients
  BY <1>4, <1>5 DEF Current, FramesList
<1>6. ASSUME NEW f \in net, f.to \in Node, g.msg.src_stealth = LocalStealth[f.to],
             \A e \in registered_clients[f.to] :
               [origin |-> "registered", entry |-> e] \in g.msg.clients
      PROVE  Listed(c) \in g.msg.clients
  <2>1. f.to = n
    BY <1>6, StealthAssumption
  <2> QED
    BY <1>6, <2>1 DEF Current, Listed
<1> QED
  BY <1>1, <1>5, <1>6, ListingStep

LEMMA HandListsStep ==
  ASSUME ListingInv, [Next]_vars, \A m \in Node : ~Restart(m),
         NEW t \in Thread, NEW n \in Node, NEW c \in Client, Current(t, n, c)
  PROVE  HandLists(t, n, c)'
<1> SUFFICES ASSUME Active(t)', Held(t)', cmd'[t].op = "clients",
                    udp'[At[t]].result.responder = LocalStealth[n]
             PROVE  Listed(c) \in udp'[At[t]].result.clients
  BY DEF HandLists, Listed, EntryOf
<1>1. RequestInv /\ TypeInv /\ At[t] \in Node /\ next_request_id[At[t]] \in Nat /\ Tables
  BY RequestTypes DEF ListingInv, AnswerInv, RequestInv, Counted
<1>2. ~Begins(t)
  <2>1. udp[At[t]] # Idle => udp[At[t]].id \in Nat /\ udp[At[t]].id < next_request_id[At[t]]
    BY <1>1 DEF RequestInv, Requests, UniqueIds, Tables, Busy
  <2>2. Begins(t) => udp[At[t]] # Idle /\ udp[At[t]].id = next_request_id[At[t]]
    BY DEF Begins, Held
  <2> QED
    BY <1>1, <2>1, <2>2
<1>3. Active(t) /\ request_id'[t] = request_id[t] /\ cmd'[t] = cmd[t]
  BY <1>1, <1>2, ThreadsStep, StillActive
<1>4. CASE Held(t) /\ udp'[At[t]] = udp[At[t]]
  BY <1>3, <1>4 DEF Current, HandLists
<1>5. ASSUME NEW f \in net, Answered(At[t], f), f.msg.request_id = request_id[t],
             udp'[At[t]].result.responder = f.msg.src_stealth,
             f.msg.kind = "PublicClientsResp", udp'[At[t]].result.clients = f.msg.clients
      PROVE  Listed(c) \in udp'[At[t]].result.clients
  BY <1>3, <1>5 DEF Current, FramesList
<1> QED
  BY <1>1, <1>3, <1>4, <1>5, HandsStep

LEMMA ChannelListsStep ==
  ASSUME ListingInv, [Next]_vars, \A m \in Node : ~Restart(m),
         NEW t \in Thread, NEW n \in Node, NEW c \in Client, Current(t, n, c)
  PROVE  ChannelLists(t, n, c)'
<1> SUFFICES ASSUME rx'[t] # <<>>, cmd'[t].op = "clients",
                    Head(rx'[t]).responder = LocalStealth[n]
             PROVE  Listed(c) \in Head(rx'[t]).clients
  BY DEF ChannelLists, Listed, EntryOf
<1>1. RequestInv /\ TypeInv
  BY DEF ListingInv, AnswerInv, RequestInv
<1>2. Active(t)'
  <2>1. Requests'
    BY <1>1, RequestsStep
  <2> QED
    BY <2>1 DEF Requests, AtMostOneAnswer, Inserted, Active
<1>3. cmd'[t] = cmd[t]
  BY <1>1, <1>2, ThreadsStep, StillActive DEF Begins
<1>4. \/ rx'[t] = rx[t]
      \/ Active(t) /\ Held(t) /\ Head(rx'[t]) = udp[At[t]].result
  BY <1>1, ChannelsStep
<1> QED
  BY <1>3, <1>4 DEF Current, ChannelLists, HandLists

\* What a thread adds to its results is a failure or what its channel has.
LEMMA ShowsStep ==
  ASSUME ListingInv, Agreement, [Next]_vars, \A m \in Node : ~Restart(m),
         NEW t \in Thread, NEW n \in Node, NEW c \in Client, Current(t, n, c)
  PROVE  Shows(t, n, c)'
<1> DEFINE Right(r) == cmd[t].op = "clients" /\ r.ok /\ r.responder = LocalStealth[n]
                         => Listed(c) \in r.clients
<1>1. TypeInv /\ results[t] \in Seq(Result) /\ rx[t] \in Seq(Result)
  BY DEF ListingInv, AnswerInv, RequestInv, TypeInv, TypeOK
<1>2. \A i \in DOMAIN results[t] : Right(results[t][i])
  BY DEF Current, Shows, Listed
<1>3. ASSUME cmd'[t] = cmd[t], \A i \in DOMAIN results'[t] : Right(results'[t][i])
      PROVE  Shows(t, n, c)'
  BY <1>3 DEF Shows, Listed, EntryOf
<1>4. CASE Begins(t) \/ Keeps(t)
  BY <1>2, <1>3, <1>4 DEF Begins, Keeps
<1>5. CASE Opens(t)
  BY <1>5 DEF Opens, Agreement, NewHasNone, Shows
<1>6. CASE Pushes(t)
  <2>1. Right(Failure)
    BY DEF Failure
  <2>2. ASSUME rx[t] # <<>> PROVE Right(Head(rx[t])) /\ Head(rx[t]) \in Result
    BY <1>1, <2>2 DEF Current, ChannelLists
  <2>3. \E r \in Result : Right(r) /\ results'[t] = Append(results[t], r)
    <3>1. Failure \in Result
      BY DEF Result
    <3> HIDE DEF Right
    <3> QED
      BY <1>6, <2>1, <2>2, <3>1 DEF Pushes
  <2>4. \A i \in DOMAIN results'[t] : Right(results'[t][i])
    <3> HIDE DEF Right
    <3> QED
      BY <1>1, <1>2, <2>3
  <2>5. cmd'[t] = cmd[t]
    BY <1>6 DEF Pushes
  <2> HIDE DEF Right
  <2> QED
    BY <1>3, <2>4, <2>5
<1> QED
  BY <1>1, <1>4, <1>5, <1>6, ThreadsStep

\* A connection that has not been made has nothing old.
LEMMA CurrentAtFirst ==
  ASSUME ListingInv, Agreement, NEW t \in Thread, NEW n \in Node, NEW c \in Client,
         pc[t] = "new", EntryOf(c) \in registered_clients[n]
  PROVE  Current(t, n, c)
<1>1. ~Active(t) /\ ~Inserted(t)
  BY DEF Active, Inserted
<1>2. rx[t] = <<>>
  BY <1>1 DEF ListingInv, AnswerInv, RequestInv, Requests, AtMostOneAnswer
<1>3. results[t] = <<>>
  BY DEF Agreement, NewHasNone
<1>4. Shows(t, n, c)
  BY <1>3 DEF Shows
<1> QED
  BY <1>1, <1>2, <1>4 DEF Current, FramesList, HandLists, ChannelLists

LEMMA CurrentStep ==
  ASSUME ListingInv, [Next]_vars, restarts' = 0,
         NEW t \in Thread, NEW n \in Node, NEW c \in Client, Current(t, n, c)
  PROVE  Current(t, n, c)'
<1>1. restarts = 0 /\ \A m \in Node : ~Restart(m)
  BY CrashesCount DEF ListingInv, AnswerInv, RequestInv
<1>2. Agreement
  BY <1>1 DEF ListingInv, AnswerInv
<1>3. EntryOf(c)' \in registered_clients'[n]
  BY <1>1, RegisteredStays DEF ListingInv, Current, EntryOf
<1> QED
  BY <1>1, <1>2, <1>3, FramesListStep, HandListsStep, ChannelListsStep, ShowsStep
     DEF Current

\* What CLIENTS shows is no older than its question, for any network and
\* however the answers to earlier requests are delayed or repeated: a client
\* that was listed before a connection was made is shown by it; until a
\* process crashes.
THEOREM ListingsStayCurrent == Spec => ListingsAreCurrent
<1> SUFFICES ASSUME NEW c \in Client, NEW n \in Homes(c), NEW t \in Thread
             PROVE  Spec => [](pc[t] = "new" /\ EntryOf(c) \in registered_clients[n]
                                 => [](restarts = 0 => Shows(t, n, c)))
  BY DEF ListingsAreCurrent
<1> DEFINE Made == pc[t] = "new" /\ EntryOf(c) \in registered_clients[n]
           Kept == restarts = 0 => Current(t, n, c)
<1>0. n \in Node
  BY DEF Homes
<1>1. Spec => []ListingInv
  BY AnswersInit, AnswersStep, EnrolAlways, PTL DEF Spec, ListingInv
<1>2. ListingInv /\ Made => Kept
  BY <1>0, CurrentAtFirst DEF ListingInv, AnswerInv
<1>3. ListingInv /\ Kept /\ [Next]_vars => Kept'
  <2> SUFFICES ASSUME ListingInv, Kept, [Next]_vars, restarts' = 0
               PROVE  Current(t, n, c)'
    OBVIOUS
  <2>1. restarts = 0
    BY CrashesCount DEF ListingInv, AnswerInv, RequestInv
  <2> QED
    BY <1>0, <2>1, CurrentStep
<1>4. Kept => (restarts = 0 => Shows(t, n, c))
  BY DEF Current
<1> HIDE DEF Made, Kept
<1>5. Spec => [](Made => [](restarts = 0 => Shows(t, n, c)))
  BY <1>1, <1>2, <1>3, <1>4, PTL DEF Spec
<1> QED
  BY <1>5 DEF Made

-----------------------------------------------------------------------------
(***************************************************************************)
(* Refinement.  The daemons keep the promise of AdminCall: every step of   *)
(* theirs is one of its steps or changes nothing there, up to and          *)
(* including the first crash.                                              *)
(***************************************************************************)
\* The results a thread has and those it still has to collect make up what
\* was asked for.
ResultsAreCounted ==
  \A t \in Thread :
    pc[t] \notin {"new", "closed"} => Len(results[t]) + left[t] = IterationsOf(cmd[t])

CallInv == AnswerInv /\ (restarts = 0 => ResultsAreCounted)

LEMMA CountedStep ==
  ASSUME AnswerInv, ResultsAreCounted, [Next]_vars, restarts' = 0
  PROVE  ResultsAreCounted'
<1> SUFFICES ASSUME NEW t \in Thread, pc'[t] \notin {"new", "closed"}
             PROVE  Len(results'[t]) + left'[t] = IterationsOf(cmd'[t])
  BY DEF ResultsAreCounted, IterationsOf
<1>1. TypeInv /\ results[t] \in Seq(Result) /\ left[t] \in Nat
  BY DEF AnswerInv, RequestInv, TypeInv, TypeOK
<1>2. Len(results[t]) \in Nat
  BY <1>1
<1>3. restarts = 0 /\ \A n \in Node : ~Restart(n)
  BY <1>1, CrashesCount
<1>4. CASE Begins(t) \/ Keeps(t)
  <2>1. /\ pc[t] \notin {"new", "closed"}
        /\ results'[t] = results[t] /\ left'[t] = left[t] /\ cmd'[t] = cmd[t]
    BY <1>4 DEF Begins, Keeps, Active
  <2> QED
    BY <2>1 DEF ResultsAreCounted
<1>5. CASE Opens(t)
  <2>1. results'[t] = <<>> /\ left'[t] = IterationsOf(cmd'[t]) /\ cmd'[t] \in Command
    BY <1>3, <1>5 DEF Opens, AnswerInv, Agreement, NewHasNone
  <2>2. IterationsOf(cmd'[t]) \in Nat
    BY <2>1, CommandAssumption DEF IterationsOf
  <2> QED
    BY <2>1, <2>2
<1>6. CASE Pushes(t)
  <2>1. /\ pc[t] \notin {"new", "closed"} /\ cmd'[t] = cmd[t]
        /\ left[t] > 0 /\ left'[t] = left[t] - 1
    BY <1>6 DEF Pushes
  <2>2. \E r : results'[t] = Append(results[t], r)
    BY <1>6 DEF Pushes
  <2>3. Len(results'[t]) = Len(results[t]) + 1
    BY <1>1, <2>2
  <2>4. Len(results[t]) + left[t] = IterationsOf(cmd[t])
    BY <2>1 DEF ResultsAreCounted
  <2> QED
    BY <1>1, <1>2, <2>1, <2>3, <2>4
<1> QED
  BY <1>1, <1>3, <1>4, <1>5, <1>6, ThreadsStep

\* The variables of AdminCall, and its steps, in terms of the daemons.
CallOf == [t \in Thread |-> IF pc[t] \in {"new", "closed"} THEN pc[t] ELSE "open"]
AnswersOf == [t \in Thread |-> Answers(t)]

LEMMA CallSteps ==
  ASSUME NEW t \in Thread
  PROVE  /\ Call!Open(t) <=>
              /\ CallOf[t] = "new" /\ CallOf' = [CallOf EXCEPT ![t] = "open"]
              /\ \E c \in Command : cmd' = [cmd EXCEPT ![t] = c]
              /\ AnswersOf' = AnswersOf
         /\ Call!Answer(t) <=>
              /\ CallOf[t] = "open" /\ Len(AnswersOf[t]) < IterationsOf(cmd[t])
              /\ \E r \in Rightful(t, cmd[t]) :
                   AnswersOf' = [AnswersOf EXCEPT ![t] = Append(@, r)]
              /\ UNCHANGED <<CallOf, cmd>>
         /\ Call!Close(t) <=>
              /\ CallOf[t] = "open" /\ Len(AnswersOf[t]) = IterationsOf(cmd[t])
              /\ CallOf' = [CallOf EXCEPT ![t] = "closed"]
              /\ UNCHANGED <<cmd, AnswersOf>>
BY DEF Call!Open, Call!Answer, Call!Close, CallOf, AnswersOf

LEMMA CallAborts ==
  ASSUME NEW ts
  PROVE  /\ Call!Abort(ts) <=>
              /\ \A t \in ts : CallOf[t] # "new"
              /\ CallOf' = [t \in Thread |-> IF t \in ts THEN "closed" ELSE CallOf[t]]
              /\ UNCHANGED <<cmd, AnswersOf>>
         /\ UNCHANGED <<CallOf, cmd, AnswersOf>> => UNCHANGED Call!vars
BY DEF Call!Abort, Call!vars, CallOf, AnswersOf

\* The answers of a thread are as many as its results, and go on as they do.
LEMMA AnswersAppend ==
  ASSUME NEW t \in Thread, results[t] \in Seq(Result)
  PROVE  /\ Answers(t) \in Seq({Failure} \cup Stealth) /\ Len(Answers(t)) = Len(results[t])
         /\ \A r \in Result : results'[t] = Append(results[t], r) =>
              Answers(t)' = Append(Answers(t), IF r.ok THEN r.responder ELSE Failure)
<1>1. ASSUME NEW r \in Result
      PROVE  (IF r.ok THEN r.responder ELSE Failure) \in {Failure} \cup Stealth
  <2>1. CASE r = Failure
    <3>1. r.ok = FALSE
      BY <2>1 DEF Failure
    <3> QED
      BY <3>1
  <2>2. CASE r \in [ok : {TRUE}, responder : Stealth, clients : SUBSET Listing]
    <3>1. r.responder \in Stealth
      BY <2>2
    <3> QED
      BY <3>1
  <2> QED
    BY <2>1, <2>2 DEF Result
<1>2. DOMAIN results[t] = 1 .. Len(results[t]) /\ Len(results[t]) \in Nat
  OBVIOUS
<1>3. Answers(t) \in Seq({Failure} \cup Stealth) /\ Len(Answers(t)) = Len(results[t])
  BY <1>1, <1>2 DEF Answers
<1>4. ASSUME NEW r \in Result, results'[t] = Append(results[t], r)
      PROVE  Answers(t)' = Append(Answers(t), IF r.ok THEN r.responder ELSE Failure)
  <2> DEFINE n == Len(results[t])
             last == IF r.ok THEN r.responder ELSE Failure
             Known(x) == IF x.ok THEN x.responder ELSE Failure
  <2>1. n \in Nat /\ DOMAIN results[t] = 1 .. n /\ DOMAIN results'[t] = 1 .. n + 1
    BY <1>2, <1>4
  <2>2. /\ results'[t][n + 1] = r
        /\ \A i \in 1 .. n : results'[t][i] = results[t][i]
    BY <1>2, <1>4
  <2>3. Answers(t)' = [i \in 1 .. n + 1 |-> Known(results'[t][i])]
    BY <2>1 DEF Answers
  <2>4. Append(Answers(t), last) =
          [i \in 1 .. n + 1 |-> IF i = n + 1 THEN last ELSE Answers(t)[i]]
    BY <1>1, <1>3, <2>1
  <2>5. \A i \in 1 .. n : Answers(t)[i] = Known(results[t][i])
    BY <2>1 DEF Answers
  <2>6. \A i \in 1 .. n + 1 : i = n + 1 \/ i \in 1 .. n
    BY <2>1
  <2>7. \A i \in 1 .. n + 1 :
          Known(results'[t][i]) = IF i = n + 1 THEN last ELSE Answers(t)[i]
    BY <2>2, <2>5, <2>6
  <2> HIDE DEF n, last, Known
  <2> QED
    BY <2>3, <2>4, <2>7 DEF last
<1> QED
  BY <1>3, <1>4

LEMMA CallOpens ==
  ASSUME TypeInv, NEW t \in Thread, Connect(t)
  PROVE  Call!Open(t)
<1>1. PICK c \in Command : AcceptRequest(t, c)
  BY DEF Connect
<1>2. /\ pc[t] = "new" /\ pc' = [pc EXCEPT ![t] = "loop"]
      /\ cmd' = [cmd EXCEPT ![t] = c] /\ results' = results
  BY <1>1 DEF AcceptRequest, GoTo
<1>3. CallOf[t] = "new" /\ CallOf' = [CallOf EXCEPT ![t] = "open"]
  BY <1>2 DEF CallOf, TypeInv, TypeOK
<1>4. AnswersOf' = AnswersOf
  BY <1>2 DEF AnswersOf, Answers
<1> QED
  BY <1>2, <1>3, <1>4, CallSteps

\* The end of an iteration is an answer: a failure, or the name of the target.
LEMMA CallAnswers ==
  ASSUME AnswerInv, Agreement, ResultsAreCounted, NEW t \in Thread,
         Unresolved(t) \/ TakeResult(t) \/ RemoveSender(t)
  PROVE  Call!Answer(t)
<1>1. /\ TypeInv /\ results \in [Thread -> Seq(Result)] /\ rx[t] \in Seq(Result)
      /\ left[t] \in Nat
      /\ pc \in [Thread -> {"new", "loop", "insert", "send", "cancel", "wait",
                            "expired", "closed"}]
  BY DEF AnswerInv, RequestInv, TypeInv, TypeOK
<1>2. /\ pc[t] \in {"loop", "wait", "cancel", "expired"} /\ left[t] > 0
      /\ pc' = [pc EXCEPT ![t] = "loop"] /\ cmd' = cmd
  BY <1>1 DEF Unresolved, TakeResult, RemoveSender, Push, GoTo, TypeInv, LoopsCount, Active
<1>3. CallOf[t] = "open" /\ CallOf' = CallOf
  BY <1>1, <1>2 DEF CallOf
<1>4. Len(AnswersOf[t]) < IterationsOf(cmd[t])
  <2>1. Len(results[t]) + left[t] = IterationsOf(cmd[t])
    BY <1>2 DEF ResultsAreCounted
  <2>2. Len(results[t]) \in Nat /\ Len(Answers(t)) = Len(results[t])
    BY <1>1, AnswersAppend
  <2> QED
    BY <1>1, <1>2, <2>1, <2>2 DEF AnswersOf
<1> DEFINE Known(r) == IF r.ok THEN r.responder ELSE Failure
<1>5. PICK r \in Result : /\ results' = [results EXCEPT ![t] = Append(@, r)]
                          /\ Known(r) \in Rightful(t, cmd[t])
  <2>1. CASE Unresolved(t) \/ RemoveSender(t)
    <3>1. results' = [results EXCEPT ![t] = Append(@, Failure)]
      BY <2>1 DEF Unresolved, RemoveSender, Push
    <3>2. Failure \in Result /\ Known(Failure) \in Rightful(t, cmd[t])
      BY DEF Result, Failure, Rightful
    <3> HIDE DEF Known
    <3> QED
      BY <3>1, <3>2
  <2>2. CASE TakeResult(t)
    <3>1. /\ results' = [results EXCEPT ![t] = Append(@, Head(rx[t]))]
          /\ rx[t] # <<>> /\ Active(t)
      BY <2>2 DEF TakeResult, Push, GoTo, Active
    <3>2. Head(rx[t]) \in Result
      BY <1>1, <3>1
    <3>3. Head(rx[t]).responder \in ResolveTarget(At[t], cmd[t].target)
      BY <3>1 DEF Agreement, ChannelsAgree, TargetsResolve
    <3>4. Known(Head(rx[t])) \in Rightful(t, cmd[t])
      BY <3>3 DEF Rightful
    <3> HIDE DEF Known
    <3> QED
      BY <3>1, <3>2, <3>4
  <2> QED
    BY <2>1, <2>2
<1>6. AnswersOf' = [AnswersOf EXCEPT ![t] = Append(@, Known(r))]
  <2>1. results'[t] = Append(results[t], r) /\ \A u \in Thread \ {t} : results'[u] = results[u]
    BY <1>1, <1>5
  <2>2. Answers(t)' = Append(Answers(t), Known(r))
    BY <1>1, <2>1, AnswersAppend
  <2>3. \A u \in Thread \ {t} : Answers(u)' = Answers(u)
    BY <2>1 DEF Answers
  <2> HIDE DEF Known
  <2> QED
    BY <2>2, <2>3 DEF AnswersOf
<1> HIDE DEF Known
<1> QED
  BY <1>2, <1>3, <1>4, <1>5, <1>6, CallSteps

LEMMA CallCloses ==
  ASSUME TypeInv, ResultsAreCounted, NEW t \in Thread, Respond(t)
  PROVE  Call!Close(t)
<1>1. /\ results[t] \in Seq(Result) /\ left[t] = 0
      /\ pc[t] = "loop" /\ pc' = [pc EXCEPT ![t] = "closed"]
      /\ cmd' = cmd /\ results' = results
  BY DEF TypeInv, TypeOK, Respond, GoTo
<1>2. CallOf[t] = "open" /\ CallOf' = [CallOf EXCEPT ![t] = "closed"]
  BY <1>1 DEF CallOf, TypeInv, TypeOK
<1>3. AnswersOf' = AnswersOf
  BY <1>1 DEF AnswersOf, Answers
<1>4. Len(AnswersOf[t]) = IterationsOf(cmd[t])
  <2>1. Len(results[t]) + left[t] = IterationsOf(cmd[t])
    BY <1>1 DEF ResultsAreCounted
  <2>2. Len(results[t]) \in Nat /\ Len(Answers(t)) = Len(results[t])
    BY <1>1, AnswersAppend
  <2> QED
    BY <1>1, <2>1, <2>2 DEF AnswersOf
<1> QED
  BY <1>1, <1>2, <1>3, <1>4, CallSteps

LEMMA CallBreaks ==
  ASSUME TypeInv, NEW n \in Node, Restart(n)
  PROVE  \E ts \in SUBSET Thread : Call!Abort(ts)
<1> DEFINE here == {t \in Thread : At[t] = n /\ pc[t] # "new"}
<1>1. /\ pc' = [t \in Thread |-> IF t \in here THEN "closed" ELSE pc[t]]
      /\ cmd' = cmd /\ results' = results
  BY DEF Restart
<1>2. \A t \in here : CallOf[t] # "new"
  BY DEF CallOf
<1>3. CallOf' = [t \in Thread |-> IF t \in here THEN "closed" ELSE CallOf[t]]
  BY <1>1 DEF CallOf
<1>4. AnswersOf' = AnswersOf
  BY <1>1 DEF AnswersOf, Answers
<1>5. here \in SUBSET Thread
  OBVIOUS
<1> HIDE DEF here
<1> QED
  BY <1>1, <1>2, <1>3, <1>4, <1>5, CallAborts

\* The steps inside an iteration, and those of everyone else.
LEMMA CallStutters ==
  ASSUME TypeInv, [Next]_vars, \A n \in Node : ~Restart(n),
         \A t \in Thread : /\ ~Connect(t) /\ ~Unresolved(t) /\ ~TakeResult(t)
                           /\ ~RemoveSender(t) /\ ~Respond(t)
  PROVE  UNCHANGED Call!vars
<1>1. pc \in [Thread -> {"new", "loop", "insert", "send", "cancel", "wait",
                         "expired", "closed"}]
  BY DEF TypeInv, TypeOK
<1>2. ASSUME NEW t \in Thread, AdminStep(t)
      PROVE  /\ cmd' = cmd /\ results' = results
             /\ \E to \in {"insert", "send", "wait", "cancel", "expired"} :
                  pc[t] \notin {"new", "closed"} /\ pc' = [pc EXCEPT ![t] = to]
  BY <1>2 DEF AdminStep, NextRequest, NewChannel, InsertSender, SendRequest, SendFails,
              Expire, GoTo
<1>3. CASE \E t \in Thread : AdminStep(t)
  <2>1. cmd' = cmd /\ results' = results
    BY <1>2, <1>3
  <2>2. CallOf' = CallOf
    BY <1>1, <1>2, <1>3 DEF CallOf
  <2>3. AnswersOf' = AnswersOf
    BY <2>1 DEF AnswersOf, Answers
  <2> QED
    BY <2>1, <2>2, <2>3, CallAborts
<1>4. CASE \/ \E f \in net : HandleDatagram(f) \/ Lose(f)
           \/ \E n \in Node : \/ HandOver(n) \/ KeepaliveRound(n)
                              \/ \E p \in Packet : ReadTun(n, p) \/ WriteTun(n, p)
           \/ \E c \in Client : RegisterRound(c)
           \/ UNCHANGED vars
  <2>1. UNCHANGED <<pc, cmd, results>>
    BY <1>4 DEF HandleDatagram, Lose, HandOver, KeepaliveRound, ReadTun, WriteTun,
                RegisterRound, SendRegister, adminVars, vars
  <2>2. CallOf' = CallOf /\ AnswersOf' = AnswersOf
    BY <2>1 DEF CallOf, AnswersOf, Answers
  <2> QED
    BY <2>1, <2>2, CallAborts
<1> QED
  BY <1>3, <1>4 DEF Next

LEMMA CallStep ==
  ASSUME CallInv, [Next]_vars, restarts = 0
  PROVE  [Call!Next]_(Call!vars)
<1>0. AnswerInv /\ TypeInv /\ Agreement /\ ResultsAreCounted
  BY DEF CallInv, AnswerInv, RequestInv
<1>1. ASSUME NEW t \in Thread, Connect(t) PROVE Call!Next
  BY <1>0, <1>1, CallOpens DEF Call!Next
<1>2. ASSUME NEW t \in Thread, Unresolved(t) \/ TakeResult(t) \/ RemoveSender(t)
      PROVE  Call!Next
  BY <1>0, <1>2, CallAnswers DEF Call!Next
<1>3. ASSUME NEW t \in Thread, Respond(t) PROVE Call!Next
  BY <1>0, <1>3, CallCloses DEF Call!Next
<1>4. ASSUME NEW n \in Node, Restart(n) PROVE Call!Next
  BY <1>0, <1>4, CallBreaks DEF Call!Next
<1> QED
  BY <1>0, <1>1, <1>2, <1>3, <1>4, CallStutters

LEMMA CallInit == Init => CallInv /\ Call!Init
<1> SUFFICES ASSUME Init PROVE CallInv /\ Call!Init
  OBVIOUS
<1>1. \A t \in Thread : pc[t] = "new" /\ results[t] = <<>>
  BY DEF Init
<1>2. CallInv
  BY <1>1, AnswersInit DEF CallInv, ResultsAreCounted
<1>3. CallOf = [t \in Thread |-> "new"]
  BY <1>1 DEF CallOf
<1>4. AnswersOf = [t \in Thread |-> <<>>]
  <2>1. ASSUME NEW t \in Thread PROVE Answers(t) = <<>>
    <3>1. results[t] \in Seq(Result) /\ Len(results[t]) = 0
      <4>1. <<>> \in Seq(Result) /\ Len(<<>>) = 0
        OBVIOUS
      <4> QED
        BY <1>1, <4>1
    <3>2. Answers(t) \in Seq({Failure} \cup Stealth) /\ Len(Answers(t)) = 0
      BY <3>1, AnswersAppend
    <3> QED
      BY <3>2
  <2> QED
    BY <2>1 DEF AnswersOf
<1> QED
  BY <1>2, <1>3, <1>4 DEF Call!Init, CallOf, AnswersOf

\* The daemons implement AdminCall, for every topology, any number of
\* connections and whatever the network does: a connection collects one
\* rightful answer for each iteration that it asked for and then closes.  A
\* crash breaks the connections of its node together; what is answered after
\* a crash is promised no more (see AnswersAreRight).
THEOREM PromiseIsKept ==
  Spec => Call!Init /\ [][restarts = 0 => Call!Next]_(Call!vars)
<1>1. CallInv /\ [Next]_vars => CallInv'
  <2> SUFFICES ASSUME CallInv, [Next]_vars PROVE CallInv'
    OBVIOUS
  <2>1. AnswerInv /\ AnswerInv' /\ TypeInv
    BY AnswersStep DEF CallInv, AnswerInv, RequestInv
  <2>2. ASSUME restarts' = 0 PROVE ResultsAreCounted'
    <3>1. restarts = 0
      BY <2>1, <2>2, CrashesCount
    <3> QED
      BY <2>1, <2>2, <3>1, CountedStep DEF CallInv
  <2> QED
    BY <2>1, <2>2 DEF CallInv
<1>2. CallInv /\ [Next]_vars => [restarts = 0 => Call!Next]_(Call!vars)
  BY CallStep
<1>3. Spec => []CallInv
  BY <1>1, CallInit, PTL DEF Spec
<1> QED
  BY <1>2, <1>3, CallInit, PTL DEF Spec
=============================================================================
