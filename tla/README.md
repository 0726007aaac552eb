# StealthNet in TLA+

A model of the StealthNet overlay (`src/`, Rust): the daemons `stealthd` of a
network, the datagrams between them, the admin requests of `stealthctl`, and
what the operator, the network and crashes may do to them. The modules are
checked by TLC on small networks; what holds for every network is proved with
TLAPS. Paths below are relative to the repository root `src/`; `daemon.rs` is
`src/src/daemon.rs`.

## The system

| component | state | operations | talks to |
| --- | --- | --- | --- |
| routing table (`routing.rs`) | routes sorted once, overlay routes, owned prefixes; constant after start | `from_config`, `lookup`, `reverse_lookup`, `owns_ip`, `next_hop_via` | called by every thread |
| packet parser (`ip.rs`) | none | `packet_destination` | datagram handler, TUN reader |
| peer tables (`GatewayDaemon::new`) | `peers_by_id`, `peers_by_stealth`; constant | two `HashMap::insert` per `[[peers]]` entry | every send |
| datagram handler (`handle_datagram`) | one UDP thread per node; writes `pending_*`, `registered_clients` | one arm per message: consume, answer, relay or drop | peers by UDP, admin threads by channels, TUN by spawned threads |
| admin requests (`handle_admin_request`) | one thread per connection; `next_request_id`, `pending_pings`, `pending_clients`, one channel per iteration | PING (a loop), CLIENTS, and read-only queries | UDP thread through the tables, `stealthctl` through the socket |
| TUN reader and writers (`tun.rs`) | the device's queues; one thread per delivered packet | encapsulate a packet; write a packet | kernel, peers |
| timers | none | keepalives to all peers every 10 s; a client's registration every 15 s | peers; home gateway |
| client bootstrap (`perform_client_bootstrap`) | the socket before the daemon runs | request, wait for the response, derive stealth and overlay address | home gateway |
| identity and encryption (`crypto.rs`) | the identity file | load or generate; agree on a key; seal and open | every frame |
| `stealthctl`, admin socket | one stream | write, half-close, read to end | daemon |
| configuration, `main`, containers, chat demo | files | parsing, deployment | - |

What makes each correct, and what is hard about it:

- *Routing.* Longest prefix first must come out of one stable sort and a
  linear search, with host bits kept in the prefixes.
- *Datagram handler.* Three different TTL guards (zero at every node for
  requests, one for DATA where it is relayed) must give messages the same reach
  and never wrap a `u8`. Overlay routes are static and may loop: every message
  must come to an end, and no handler may multiply them. A packet must not
  be injected into a network it was not routed to. Datagrams are lost,
  duplicated and reordered.
- *Admin requests.* The admin threads and the UDP thread share the pending
  tables. A sender is inserted before the request goes out, taken out under the
  lock when the answer comes, and used after the unlock; meanwhile the admin
  thread may time out and remove it. No entry may leak, none that is waited for
  may vanish, no channel may get two answers, an answer must be that of the node
  that was asked, and every request must be answered.
- *Registration.* The registry lives in memory: a restarted gateway must learn
  its clients again. Listings travel like pongs: an old one must not be shown for
  the current one.
- *Restarts.* `compose.yaml` restarts the processes; what was in flight is not
  restarted with them, and request ids begin at 1 again.
- *Bootstrap.* A client sends one request and takes the first datagram with its
  request id for the answer; the timeout starts afresh with every other datagram, a
  single undecryptable one ends the start, and what the response assigns is merged
  with what the file says. A client must come up only as this start has asked, and a
  start must end.
- *Identity.* The key file is written in place, a public key spreads through a log and
  the operator's hands, and a node needs its peers' keys before it runs. No copied key
  may get lost in a crash, and nodes that begin with nothing must not wait for each
  other.
- *Admin socket.* Both ends read to end of file, over streams with small buffers and a
  socket path that outlives its process. No call may hang or take a part of a message
  for the whole, and a restarted daemon must be able to bind.

## Modules

| module | what it is |
| --- | --- |
| `Routing` | `routing.rs` and `ip.rs` as pure operators over addresses of `Bits` bits |
| `NodeConfig` | the peer tables that `GatewayDaemon::new` makes of `[[peers]]`; what a client asks for and keeps of the answer |
| `Bootstrap` | how a client starts: its process, its home gateway, its other peers, the network and the clock |
| `Identity` | the key files, public keys and derived keys of all nodes, and the operator |
| `AdminSocket` | one call of `stealthctl` over a unix socket, byte streams and socket path |
| `Daemon` | the running daemons of a network: all threads, the network, crashes |
| `DaemonProperties` | invariants, action properties and liveness of `Daemon` |
| `AdminCall` | the abstract promise of an admin request: no network, tables or timers |
| `MCRouting` | an operator who edits a configuration, and what routing means |
| `MCPair` | the two gateways of `compose.yaml` (`examples/gw-*.docker.toml`) |
| `MCDemo` | the four nodes of `compose.v2.yaml` (`examples/*.v2.docker.toml`) |
| `MCHome` | the part of it in which a client is listed: the line gw-a, gw-b, client-b |
| `MCRing` | gateways whose overlay routes are wrong: loops, a bypassed hop, no way back |
| `MCBootstrap` | a client of `compose.v2.yaml` whose operator has five versions of its file |
| `MCIdentity` | three neighbouring nodes in a line |
| `RoutingProofs`, `LongestMatchProofs` | about the table: lemmas on the first hit, and theorems that it is the longest match |
| `DaemonProofs`, `RelayProofs`, `RequestProofs` | theorems about `Daemon`, each extending the one before: types; what travels and where it lands; admin requests and the refinement |
| `BootstrapProofs`, `IdentityProofs`, `SocketProofs` | theorems about `Bootstrap`, `Identity` and `AdminSocket` |

`Daemon` extends `Routing`; `DaemonProperties` extends `Daemon` and instantiates
`AdminCall` with a refinement mapping; the `MC` modules extend `DaemonProperties`
and `NodeConfig` and write their nodes the way the configuration files do, so the
tables the model runs on are those the code would build. `Bootstrap` extends
`NodeConfig`, and `MCDemo` passes its clients' files through the same `Assigned`, so
its clients run with what a bootstrap leaves. `Identity` and `AdminSocket` stand
alone: the first ends where `Daemon` assumes that a frame opens at the peer it was
sealed for, and the second leaves what a request does to `Daemon`.

### State and actions of `Daemon`

A node of `Daemon` is past its start. Its `config`, `routing` and peer tables never
change while the process lives, so they are constants (`Table`, `PeersById`,
`PeersByStealth`, `LocalStealth`, ...). The variables `next_request_id`, `pending`
(both pending maps, an entry carrying its operation), and `registered_clients` are
the fields of `Shared`. `udp[n]` is what the UDP thread has in hand between
`guard.remove` and `sender.send`; `pc`, `cmd`, `left`, `target_stealth`, `request_id`,
`rx`, `results` are the locals of each admin thread. `net` holds the datagrams in
flight or in a socket buffer as a set: order is not kept, and two equal datagrams
are one until the network duplicates it (`dups`).

- `HandleDatagram(f)` has one disjunct per way through `handle_datagram`. An arm
  is one step with the sends it makes, except that taking a sender
  (`TakeSender`) and using it (`HandOver`) are two. A failed send in a handler is
  only logged and has the effect of a lost datagram, which `Lose` covers.
- `NextHop` is the decision of `forward_by_stealth`: the direct peer, else the
  overlay route, else nothing. A message's TTL starts at the constant `Ttl` (16 in
  the code).
- An iteration of PING is `NextRequest` (`fetch_add`), `InsertSender`, `SendRequest`
  or `SendFails`, `TakeResult` or `Expire`, and `RemoveSender`, each with the lock
  region or call it stands for; `Unresolved` is the early `continue`. CLIENTS is one
  iteration of the same steps on its own map.
- `ReadTun`, `WriteTun`, `KeepaliveRound` and `RegisterRound` are single rounds of the
  other threads.
- `Lose`, the second disjunct of `Received` (a duplicate) and `Restart` are the
  environment. `Restart` starts the `Shared` of a node afresh (a client's after a
  bootstrap that gives it the same name), breaks its admin connections, and may drop what its socket and TUN device had queued.

Encryption is taken as ideal: a frame opens at the peer it was sealed for, and a
frame from an unknown sender is dropped (`DropUnknownSender`). Timestamps, round-trip
times, texts and logs are left out. Address families are one, because a prefix of
one family never contains an address of the other.

### State and actions of the other modules

`Bootstrap`. `phase`, `config` and `request_id` are the client's process;
`left` is what remains of the read timeout and `waited` the time since the request
went out (kept only for `WithinTimeout`). `SendBootstrapReq` and `StartFails` are
`perform_client_bootstrap` up to its loop, with whichever version of the file the
operator has left (`File`). Each datagram the loop reads is `ComeUp` (the response),
`Undecryptable` (a peer's frame that does not open: the `?` of `decrypt`) or `Skip`;
`TimeOut` is `recv_from` running out. `HandleBootstrapReq` is the gateway's arm, which
answers only as a gateway, under its own name and to a frame sealed with its key.
`Keepalive` and `Relay` are the other datagrams a client gets, `Launch` and `Crash` the
daemons that send them. The request id is the clock in milliseconds; the model
numbers the starts instead, which assumes that two starts of a client differ in
their clock (the clock is not set back, and starts are a millisecond apart).

`Identity`. `Load`, `Generate` and `WriteKey` are `load_or_generate` (`fs::write` creates
the file and then fills it; `key_file` is empty in between, and stays so if the
process dies), with the log line of `GatewayDaemon::new` in `shown`. `DeriveKeys` and
`DeriveFails` are its loop over `[[peers]]`. The rest is the operator, who copies
public keys, restarts nodes and removes key files, torn or good. Processes die;
the machine does not, so what was written is on disk (there is no `fsync`, and a
power failure is not modelled).

`AdminSocket`. `RemoveSocket` and `BindSocket` are `spawn_admin_loop`; `Connect`,
`WriteRequest`, `ShutdownWrite`, `ReadResponse`, `Finish` are `send_request`; `Accept`,
`ReadRequest`, `Handle`, `WriteResponse` are the connection's thread. A stream is
counted in chunks, of which `Buffer` fit between the ends.

## Runs

| run | module | question | bounds |
| --- | --- | --- | --- |
| `routing` | `MCRouting` | is sort-then-find longest-prefix matching? | addresses of 2 bits, all 14 425 files of up to 3 routes, 2 names |
| `requests` | `MCPair` | do the pending tables survive the races of two connections? | 2 nodes, 2 threads with up to 2 pings each, loss, failed sends, 1 duplicate, 1 crash |
| `answered` | `MCDemo` | is each request answered, and by the node it asked? | 4 nodes, 2 threads, 4 commands, one a loop of 2 pings, loss, failed sends, 1 duplicate, no crash |
| `line` | `MCDemo` | do messages reach nodes exactly as far as their TTL? | `Ttl` 3, the length of the line; no loss |
| `loops` | `MCRing` | what do wrong overlay routes do? | 4 nodes, `Ttl` 3, 4 packets, one for an address owned on the way, loss, 1 duplicate, failing TUN writes |
| `registry` | `MCHome` | is the listing that is shown current, and refilled after a crash? | 3 nodes, 1 client with 2 rounds, 2 threads, 1 crash |
| `bootstrap` | `MCBootstrap` | does a client come up as asked, and does its start end? | 2 starts, 5 versions of the file, timeout 1 tick, keepalives every 3, 2 senders, loss, 1 duplicate, 1 relayed message |
| `identity` | `MCIdentity` | do fresh nodes end up talking, and keep their identities? | 3 nodes, 1 crash, 1 replaced key |
| `socket` | `AdminSocket` | does every call end, with the whole response? | buffer 2, messages of 3 chunks, 2 calls, 1 crash |
| `overdue` | `MCBootstrap` | does `bootstrap_timeout_ms` bound the bootstrap? (violated) | as `bootstrap`, 1 start |
| `hop` | `MCRing` | is a configured hop always used? (violated) | as `loops`, one packet |
| `stale` | `MCDemo` | does an answer come from the node asked, with a crash? (violated) | as `answered`, 2 commands, 1 crash, no duplicate or failed send |

What the properties say:

- `LookupIsLongestMatch`, `ResolvedAddressRoutesBack`, `AddingARouteIsLocal`: the
  table compared with a definition of longest match that does not sort. Two bits
  give every relation two prefixes can have (disjoint, nested, equal, with and
  without host bits), and three routes every relation of order to length.
- `UniqueIds`, `NoLeakedRequests`, `WaiterHasSender`, `AtMostOneAnswer`: ids are not
  shared by iterations that overlap; every entry of a pending map belongs to a
  running iteration; a waiting thread's sender is in the map, in the UDP thread's
  hand, or used; and in one of these places only. Two threads suffice for the races,
  because the maps are per node and every conflict is between two iterations, or an
  iteration and the UDP thread; the proof below removes the bound.
- `AnswersMatchRequests`, `RequestsAnswered`, `ImplementsAdminCall`: the threads with
  all their machinery implement `AdminCall`, in which a PING of count *n* collects *n*
  results, each a failure or the answer of the node asked, and then closes. The
  refinement includes the liveness of `AdminCall`. One command has two pings whose
  sends always fail, so the loop has to go on after a failure; `requests` has loops
  whose first ping may be answered. There is no crash in `answered`: `stale` has one.
- `FramesFollowRoutes`: a datagram with a given TTL has made exactly that many hops
  along the configured next hops without passing its destination; so wherever the
  tables lead, a message makes at most `Ttl + 1` hops. `NoAmplification`,
  `NetworkDrains`: no handler multiplies messages, and the network falls silent.
  With `Ttl` 3 a message goes all the way round the ring of three and one hop on, so
  that the loop does close before the TTL ends it.
- `PingsComeBack`, `PacketsArrive`: with no loss, a request and a packet reach every
  node within `Ttl` hops and an answer returns. The line is exactly `Ttl` long, so
  that a guard that is one too strict loses them.
- `PacketsLandWhereRouted`: a TUN device gets only what a table routes to it or what is
  for an address it owns. In `loops` one address has moved to a node on the way, which
  takes its packets by the inner address.
- `ListingsAreCurrent`, `Reregistered`: a client that a gateway lists before a connection
  is made is in what the connection shows of that gateway, until a process crashes; and
  a client that a crash has wiped out is listed again after a round of its timer. The
  second connection is the one that could be shown an answer to the first, from before
  the registration: the first has timed out or is still waiting, and nothing but the
  request id tells their answers apart. A client that comes up has its home gateway's
  own name in the home entry (`daemon.rs:428` answers to no other), so its
  registrations are direct.
- `RunsAsRequested`, `OwnsItsAddress`, `BootstrapEnds`: the name and the address of a client
  that comes up are those its own process asked for, though answers to an earlier
  start are in flight; the address of the device is an owned one, so that packets
  routed to it are taken; and no start waits for ever. Files that set `tun.address` and
  request another address are left out of `OwnsItsAddress`: with them the client has
  one and owns the other, and no text says which should give way. Two starts are what a stale answer needs, and the
  five files are one for each way to fill a field: requested, from the file, absent
  (no TUN), and two that fail. `BootstrapEnds` needs the timeout to be shorter than
  the pauses between datagrams, and other traffic to end: with two senders, a timeout of 1 and keepalives
  every 3 ticks, and one relayed datagram, there is always such a pause. With the example's 3 s against one
  keepalive per 10 s and neighbour, it is so for up to three neighbours that are
  out of step; see `overdue`.
- `CopiedKeysAreKept`, `PeersTalk`: a public key in a peer's file is that of an identity
  on disk, or one the operator removed; and nodes that begin with empty key
  directories and unfilled `public_key` entries all end up running with frames that
  open at both ends. Three nodes in a line have one with two peers, so that an
  entry can be filled in while another is missing.
- `CallsSucceed`, `CallsEnd`, `ServesAgain`: a call that is not broken off prints the
  response of a whole request; every call and its thread end; a crashed daemon
  binds its path again. Messages are longer than the buffer, so that a writer has
  to wait for the reader in both directions.

`CHECK_DEADLOCK FALSE` is set everywhere: traffic and rounds are bounded, so a run
ends when all is done.

### Violations

- `stale` (`AnswersMatchRequests`): a gateway pings node B, crashes, is started again
  (by hand in `compose.v2.yaml`, which has no restart policy, by its container in
  `compose.yaml:25`), and draws id 1 again for a PING to node C. B's PONG of the previous
  life arrives and is matched by its id alone (`daemon.rs:546`): the PING of C has
  `ok` = true, though C never answered. `stealthctl` prints `reply from` the name of the
  node that answered, B (`stealthctl.rs:95`), so an attentive operator can see it; a
  script that looks for the failure line does not. Without a crash the property holds
  (`answered`).
- `overdue` (`WithinTimeout`): `examples/client-a.v2.docker.toml:46` sets
  `bootstrap_timeout_ms = 3000`. It is the timeout of one `recv_from` in a loop
  (`daemon.rs:279-288`): the request or its answer is lost, a keepalive arrives before
  the three seconds are over, and the client waits for three more. Four neighbours
  out of step, or any steady DATA, keep it waiting for good; the request is never
  sent again.
- `hop` (`ConfiguredHopIsUsed`): `README.md:40` says that a packet goes through the hop
  that is set for its destination. `forward_by_stealth` looks for a direct peer first,
  so a hop set for a peer is never used.

### Fairness

`FairSpec` assumes weak fairness of each UDP thread, TUN reader, spawned writer,
registration timer and admin thread: each is an operating-system thread in a loop,
none holds a lock of the shared tables across a send or a wait, and a sleep or `recv_timeout` ends by
itself. `UdpThread(n)` is fair as a whole, which means that a datagram that reaches
the head of the socket is handled or was lost, but not that any one datagram is
handled first. Nothing is assumed of the environment: connections need not come,
datagrams need not be lost or delivered twice, gateways need not crash, and
keepalive rounds may stay away (they only add traffic).

In `Bootstrap` time passes (`Tick`) and the client's thread runs (`Client`: it reads what
has come, or times out). The gateway may never answer. In `Identity` a node that is
down is started again and its process runs (`Process`), and the operator does in the
end what the logs ask for: copy a key that is not yet copied, restart a node whose
file has changed, remove a torn key file. Without the operator nothing can be
promised, since `public_key` entries are filled in by hand. The key directory can be
written in the end (a failing write is a crash, and `compose.yaml` mounts the directory
read-only, with the keys in it), and the log level is `info` or lower, as `RUST_LOG` is
in both compose files, so that public keys are shown. In `AdminSocket` the
daemon is restarted (`compose.yaml:25`) and each end runs when it can; calls,
crashes and interruptions need not happen.

## Proofs

Assumptions are the types of what `GatewayDaemon::new` builds (`NodeAssumption`,
`ClientAssumption`, `PacketAssumption`, `CommandAssumption`, `BoundAssumption`, and in
the other modules `FileAssumption`, `SenderAssumption`, `LengthAssumption`) and two
more: a node is named by its stealth identifier (`StealthAssumption`, cited only where
nodes or clients are told apart by their names), and a configuration has finitely many
peers (`PeersAssumption`, cited only by `NoneIsAmplified`). Nothing is assumed of where
routes lead, nor that they are free of loops. TLC evaluates all of them in every run.

- `LongestMatchProofs!LongestPrefixWins`, `ResolvedRoutesBack` and `OneRouteAtATime`, for
  files of any length and addresses of any width. `Routing` states the stable sort by
  where it puts each route, namely behind as many others as sort before it; the
  proof shows that the places are a permutation (`SortsBefore` is a strict total
  order, so the place is injective, and an injection of a finite set into itself
  is onto) and that order of place is order of `SortsBefore`. Then the first
  hit is the longest match with no induction over the list. That there is a first hit,
  the case for the `CHOOSE` that models `Iterator::find`, is a lemma of `RoutingProofs`:
  a nonempty set of indices has a least element.
- `DaemonProofs!TypeCorrect`, `Spec => []TypeOK`. The inductive invariant is
  `TypeInv == TypeOK /\ LoopsCount`. `TypeOK` alone is not inductive: the counter of
  an admin loop is decremented when an iteration ends, and stays a natural number
  only because an iteration is entered with something left to do (`LoopsCount`). The
  TTLs are handled by `RelayedType`: a message that passes its guard is a message
  of the same kind with one less; this is the lemma in which the guards of the code
  are used.
- `RelayProofs`: what one step can add to the network is described once (`SentByHandler`,
  `FramesStep`: a relayed message with one less of TTL, a reply, a question of an
  admin thread, a packet, a registration, a keepalive), and each theorem adds an
  invariant of what is in flight.
  - `PacketsLand` (`PacketsLandWhereRouted`) needs that each DATA message carries the
    destination that the table of some node with this packet gives
    (`PacketsAreRouted`), and that what waits in a TUN device is the node's own
    traffic (`TrafficIsLocal`).
  - `RoutesAreFollowed` (`FramesFollowRoutes`) is inductive beside `TypeInv`: one hop
    more is one of TTL less, for each of the three guards. It holds for every `Ttl`.
  - `NoneIsAmplified` (`NoAmplification`) needs only that `net` is finite, since it
    compares cardinalities; the work is in the case of a reply or a relayed message,
    for which the handled datagram makes room.
- `RequestProofs!RequestTables`, `Spec => [](UniqueIds /\ NoLeakedRequests /\
  WaiterHasSender /\ AtMostOneAnswer)`, for any number of nodes, connections, pings
  and duplicates. The four are inductive together with `TypeInv`, and none is without
  the others: a response is matched by id, so `UniqueIds` is what keeps it from
  taking another iteration's sender; `NoLeakedRequests` is what makes an id that is
  taken that of a running iteration; `AtMostOneAnswer` is what makes the channel
  empty when the UDP thread uses the sender. `UniqueIds` speaks of held answers too,
  because an answer may be in hand after its iteration is over, and must not fit the
  thread's next one.

  `IdsAreUnique`, `NothingLeaks` and `OneAnswer` state three of them by themselves.
- `RequestProofs!AnswersAreRight`, `Spec => [](restarts = 0 => AnswersMatchRequests)`. An
  answer is matched by its id alone, so what is invariant is an agreement of all the
  places where an id and a node occur together (`Agreement`): an id on the network is
  below the counter of its node (`IdsAreOld`), so that a new request meets no old answer;
  and a request or answer on the network, an answer in the UDP thread's hand and one
  in the channel come from the node that the thread with this id is asking
  (`FramesAgree`, `HandsAgree`, `ChannelsAgree`). The hypothesis is
  needed: a restart sets the counter back to 1 while old answers are on
  their way, and the `stale` run is the counterexample.
- `RequestProofs!ListingsStayCurrent`, `Spec => ListingsAreCurrent`. From the moment the
  connection is made, `Current` is kept by every step but a crash: the client is listed;
  every answer of the gateway with the id of the running iteration, on the network,
  in the UDP thread's hand or in the channel, lists it; and so do the results. It
  begins true because a new connection has no iteration, and holds for the next id
  because no message on the network has it (`IdsAreOld` again). That the client stays
  listed is `RelayProofs!RegisteredStays`: only a registration under its name replaces
  its entry, and by `RegistrationsAreMeant` that is its own.
- `RequestProofs!PromiseIsKept`, `Spec => Call!Init /\ [][restarts = 0 => Call!Next]_(Call!vars)`:
  under the refinement mapping of `DaemonProperties` each step of the daemons is a step of
  `AdminCall` or leaves it alone. It rests on `AnswerInv` and on `ResultsAreCounted`: the
  results that a thread has and the iterations it has left make up the count that was
  asked for. The first crash is covered too, it breaks the connections of its
  node; the steps after it are not, for the reason above.
- `BootstrapProofs!RunsUnderItsOwnName`, `OwnsTheTunAddress` and `BootstrapTypes`, from
  `StartInv`: a message in the network carries no id ahead of the client's
  (`NoneAhead`), and one with the id of a waiting client carries what its file asks
  for (`OfThisProcess`). The second is what the properties need and the first is
  what makes it inductive: a new start changes the file, and only because every
  message is then behind the new id does nothing have to be said of it. Any number
  of starts, files, senders and duplicates.
- `IdentityProofs!IdentitiesAreKept` and `IdentityTypes`: what a node has shown is on disk or
  removed (`ShownIsKept`), because a key is written only into a file that was not
  there (`WrittenOnce`) and shown after that.
- `SocketProofs!SocketTypes`: the path is free when it is bound and no stream overflows,
  for buffers and messages of any length.

Only model-checked: liveness (`RequestsAnswered`, `NetworkDrains`, `PingsComeBack`,
`PacketsArrive`, `Reregistered`, `BootstrapEnds`, `PeersTalk`, `CallsSucceed`, `CallsEnd`,
`ServesAgain`) and with it the fairness of `AdminCall` in `ImplementsAdminCall`. TLAPS has
no rules for `ENABLED`, without which weak fairness cannot be used. Every invariant
and every action property of the passing runs but `ImplementsAdminCall` is a theorem,
`AnswersMatchRequests` under its hypothesis; so is `ListingsAreCurrent`, which is a
temporal property without fairness.

## Not modelled

- AEAD, X25519 and HKDF as computations; `rand`, `bincode`, TOML and JSON; frames of
  other programs (a datagram that does not parse is dropped by every reader).
- Creating and configuring the TUN device: system calls before any thread runs,
  of which the first that fails ends the process, and the device with it.
- Containers, the entry script and the chat demo, except that processes are
  restarted; arguments, printing and logs, except the public key in the log.
- A `Message::Error`, a response with `ok: false` and the rejection of a bootstrap: no
  code sends them, so their arms are unreachable among these daemons.
- The answer to a client that is renamed: the gateway grants any name and keeps
  nothing of it, so whether the network routes to that name is the operator's matter.
- Expiry of registrations, `publish_policy` and `max_entries`: no code applies them and no
  text says what they promise; the model registers and lists as the code does.
- The wrap-around of the 64-bit request counter, power failures.

## Plan

1. `AdminSocket` composed with `AdminCall`: a call that prints has the whole list of
   answers.
2. Proofs: a bound on the datagrams that one message can still cause, falling with
   every hop (the argument behind `NetworkDrains`); that a process of `Identity` runs
   only with the keys its peers have on disk; that a call of `AdminSocket` that
   prints has read the whole response.
