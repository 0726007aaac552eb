------------------------------ MODULE Bootstrap ------------------------------
(***************************************************************************)
(* How a client starts (perform_client_bootstrap and                       *)
(* decode_bootstrap_response of src/src/daemon.rs): it sends one request   *)
(* to its home gateway and reads datagrams until the response comes, one   *)
(* does not decrypt, or the socket stays silent for bootstrap_timeout_ms.  *)
(*                                                                         *)
(* Time is counted in ticks.  A request id is the clock in milliseconds;   *)
(* attempts begin at different times, so the number of the attempt stands  *)
(* for it.  No code sends a response with ok false or a Message::Error, so *)
(* the arms for them are never taken.                                      *)
(***************************************************************************)
EXTENDS NodeConfig

CONSTANTS
  Sender,          \* the nodes that have the client among their peers
  PublicKey,       \* their public keys
  LocalStealth,    \* their stealth identifiers
  Gateway,         \* those whose role is "gateway"
  Keys,            \* the public keys a file may name
  File,            \* the config files an operator may give the client
  KeepalivePeriod, \* ticks between two keepalives of a node
  Faults,          \* of "loss" (datagrams), "send" (send_to fails)
  MaxAttempts,     \* bound on the starts of the client process
  MaxDups,         \* bound on datagrams the network delivers twice
  MaxTraffic       \* bound on relayed messages (DATA, pings) for the client

ASSUME FileAssumption == File \subseteq ClientFile(Sender, Keys) /\ File # {}
ASSUME SenderAssumption ==
  /\ PublicKey \in [Sender -> Keys] /\ LocalStealth \in [Sender -> Stealth]
  /\ Gateway \subseteq Sender
ASSUME BoundAssumption ==
  /\ KeepalivePeriod \in Nat \ {0}
  /\ MaxAttempts \in Nat /\ MaxDups \in Nat /\ MaxTraffic \in Nat

VARIABLES
  phase,           \* of the client process
  config,          \* the Config it holds
  request_id,      \* of its attempt
  left,            \* ticks until recv_from times out
  waited,          \* ticks since the request was sent, at most one too many
  net,             \* datagrams in flight or in a socket buffer
  listening,       \* the senders whose daemon runs
  next_keepalive,  \* ticks until a sender's timer fires
  dups, traffic    \* how much of MaxDups and MaxTraffic was used

timing  == <<left, waited>>
process == <<phase, config, request_id, timing>>
senders == <<listening, next_keepalive, traffic>>
vars == <<process, net, dups, senders>>

Phase == {"down", "waiting", "up"}

\* A request is sealed for one key; the response repeats what was asked for.
Request == [kind : {"BootstrapReq"}, to : Sender, key : Keys, request_id : Nat,
            stealth : Stealth, ip : Option(Prefix), target : Stealth]
Response == [kind : {"BootstrapResp"}, from : Sender, request_id : Nat,
             stealth : Stealth, ip : Option(Prefix)]
\* Any other message for the client: a keepalive, DATA, a ping.
Other == [kind : {"Other"}, from : Sender]
-----------------------------------------------------------------------------
(***************************************************************************)
(* The client process.                                                     *)
(***************************************************************************)
\* A new process loads the file the way the operator has left it.
Start(f, to, timeout) ==
  /\ phase = "down" /\ request_id < MaxAttempts
  /\ config' = f
  /\ request_id' = request_id + 1
  /\ phase' = to /\ left' = timeout /\ waited' = 0
  /\ UNCHANGED <<dups, senders>>

HomeKnown(f) == f.home_gateway_id \in DOMAIN f.peers

\* The request goes out once.  Then a read timeout of zero is an error.
SendBootstrapReq(f) ==
  LET home == f.peers[f.home_gateway_id]
  IN  /\ HomeKnown(f)
      /\ Start(f, IF f.timeout = 0 THEN "down" ELSE "waiting", f.timeout)
      /\ \E stealth \in RequestedStealth(f) :
           net' = net \cup
             {[kind |-> "BootstrapReq", to |-> f.home_gateway_id,
               key |-> home.public_key, request_id |-> request_id',
               stealth |-> stealth, ip |-> RequestedIp(f),
               target |-> home.stealth]}

\* The home gateway is unknown, or send_to fails.
StartFails(f) ==
  /\ ~HomeKnown(f) \/ "send" \in Faults
  /\ Start(f, "down", 0)
  /\ UNCHANGED net

\* The network delivers d and drops its copy, or keeps one to deliver again.
Delivered(d, out) ==
  \/ net' = (net \ {d}) \cup out /\ UNCHANGED dups
  \/ dups < MaxDups /\ dups' = dups + 1 /\ net' = net \cup out

\* recv_from returns a datagram while the client waits.
Received(d) == /\ phase = "waiting" /\ d \in net /\ d.kind # "BootstrapReq"
               /\ Delivered(d, {})
               /\ UNCHANGED <<request_id, senders>>

Known(d) == d.from \in DOMAIN config.peers
Decrypts(d) == Known(d) /\ config.peers[d.from].public_key = PublicKey[d.from]

\* Mutant: any response is taken for the one that is waited for.
Answers_Any(d) == d.kind = "BootstrapResp"

\* A response is known by its request id alone.
Answers(d) == d.kind = "BootstrapResp" /\ d.request_id = request_id

\* The wait is over, one way or the other.
Leave(to) == phase' = to /\ left' = 0 /\ waited' = 0

ComeUp(d) ==
  /\ Received(d) /\ Decrypts(d) /\ Answers(d)
  /\ config' = Assigned(config, d.stealth, d.ip)
  /\ Leave("up")

\* A datagram that a peer has sealed with another key ends the bootstrap.
Undecryptable(d) ==
  /\ Received(d) /\ Known(d) /\ ~Decrypts(d)
  /\ Leave("down") /\ UNCHANGED config

\* Anything else is dropped, and the next recv_from waits afresh.
Skip(d) ==
  /\ Received(d) /\ (~Known(d) \/ (Decrypts(d) /\ ~Answers(d)))
  /\ left' = config.timeout
  /\ UNCHANGED <<phase, config, waited>>

\* Mutant: a socket without a read timeout.
TimeOut_Never == FALSE /\ UNCHANGED vars

TimeOut ==
  /\ phase = "waiting" /\ left = 0 /\ Leave("down")
  /\ UNCHANGED <<config, request_id, net, dups, senders>>

Stop ==
  /\ phase # "down" /\ Leave("down")
  /\ UNCHANGED <<config, request_id, net, dups, senders>>
-----------------------------------------------------------------------------
(***************************************************************************)
(* The nodes that send to the client, the gateway arm for BootstrapReq in  *)
(* handle_datagram, and the keepalive loop.                                *)
(***************************************************************************)
\* The gateway grants what is asked for.  One that is down, has another role
\* or name, or another key, says nothing.
HandleBootstrapReq(d) ==
  LET g == d.to
      resp == [kind |-> "BootstrapResp", from |-> g, request_id |-> d.request_id,
               stealth |-> d.stealth, ip |-> d.ip]
  IN  /\ d \in net /\ d.kind = "BootstrapReq"
      /\ Delivered(d, IF /\ g \in listening \cap Gateway
                         /\ d.key = PublicKey[g] /\ d.target = LocalStealth[g]
                      THEN {resp} ELSE {})
      /\ UNCHANGED <<process, senders>>

Emit(s) == /\ s \in listening
           /\ net' = net \cup {[kind |-> "Other", from |-> s]}
           /\ UNCHANGED <<process, dups, listening>>

Keepalive(s) ==
  /\ next_keepalive[s] = 0 /\ Emit(s)
  /\ next_keepalive' = [next_keepalive EXCEPT ![s] = KeepalivePeriod]
  /\ UNCHANGED traffic

Relay(s) ==
  /\ traffic < MaxTraffic /\ Emit(s)
  /\ traffic' = traffic + 1
  /\ UNCHANGED next_keepalive

Launch(s) ==
  /\ s \notin listening
  /\ listening' = listening \cup {s}
  /\ UNCHANGED <<process, net, dups, next_keepalive, traffic>>

\* The keepalive loop of the next process sleeps before its first round.
Crash(s) ==
  /\ s \in listening
  /\ listening' = listening \ {s}
  /\ next_keepalive' = [next_keepalive EXCEPT ![s] = KeepalivePeriod]
  /\ UNCHANGED <<process, net, dups, traffic>>
-----------------------------------------------------------------------------
(***************************************************************************)
(* The network and the clock.                                              *)
(***************************************************************************)
\* Lost on the way, or with no process that waits for it: a running client
\* ignores a late response, and module Daemon has the rest of its datagrams.
Lose(d) ==
  /\ d \in net /\ net' = net \ {d}
  /\ "loss" \in Faults \/ (d.kind # "BootstrapReq" /\ phase # "waiting")
  /\ UNCHANGED <<process, dups, senders>>

\* recv_from does not outlast its timeout.
Tick ==
  /\ ~(phase = "waiting" /\ left = 0)
  /\ next_keepalive' = [s \in Sender |->
       IF s \in listening /\ next_keepalive[s] > 0 THEN next_keepalive[s] - 1
       ELSE next_keepalive[s]]
  /\ IF phase = "waiting"
     THEN /\ left' = left - 1
          /\ waited' = IF waited > config.timeout THEN waited ELSE waited + 1
     ELSE UNCHANGED timing
  /\ UNCHANGED <<phase, config, request_id, net, dups, listening, traffic>>
-----------------------------------------------------------------------------
Init ==
  /\ phase = "down" /\ config \in File
  /\ request_id = 0 /\ left = 0 /\ waited = 0
  /\ net = {} /\ dups = 0 /\ traffic = 0
  /\ listening = {}
  /\ next_keepalive = [s \in Sender |-> KeepalivePeriod]

Client == \/ TimeOut
          \/ \E d \in net : ComeUp(d) \/ Undecryptable(d) \/ Skip(d)

Next ==
  \/ \E f \in File : SendBootstrapReq(f) \/ StartFails(f)
  \/ Client \/ Stop \/ Tick
  \/ \E d \in net : HandleBootstrapReq(d) \/ Lose(d)
  \/ \E s \in Sender : Keepalive(s) \/ Relay(s) \/ Launch(s) \/ Crash(s)

Spec == Init /\ [][Next]_vars

\* Time passes, and a client that can go on does.  Nothing is assumed of the
\* gateway, the network or the operator.
FairSpec == Spec /\ WF_vars(Tick) /\ WF_vars(Client)
-----------------------------------------------------------------------------
(***************************************************************************)
(* What makes a start correct.                                             *)
(***************************************************************************)
\* Every variable has its type; in particular no address is kept for a TUN
\* device that the file does not have.
TypeOK ==
  /\ phase \in Phase /\ config \in ClientFile(Sender, Keys)
  /\ request_id \in Nat /\ left \in Nat /\ waited \in Nat
  /\ net \subseteq Request \cup Response \cup Other
  /\ dups \in Nat /\ traffic \in Nat
  /\ listening \subseteq Sender /\ next_keepalive \in [Sender -> Nat]

\* A client runs under the name and address that this very process asked for,
\* though responses to its earlier processes, started from other versions of
\* the file, may still arrive.
ComesUp == phase = "waiting" /\ phase' = "up"
RunsAsRequested ==
  [][ ComesUp => \E stealth \in RequestedStealth(config) :
                   config' = Assigned(config, stealth, RequestedIp(config)) ]_vars

\* A client owns the address of its TUN device, so that packets routed to that
\* device are its own: the two places that an assigned address fills agree, and
\* it is assigned as the file writes it.  A file that sets tun.address and asks
\* for another address as well is left out: the code keeps both, and no text
\* says which of them should give way.
OwnsItsAddress ==
  [][ ComesUp /\ config.owned_prefixes = {}
        /\ (config.tun_address = {} \/ config.requested_overlay_ip = {})
      => config'.tun_address \subseteq config'.owned_prefixes ]_vars

\* A bootstrap ends, in a client that runs or one that has failed, although
\* the keepalives of its peers come for ever: as long as the timeout is shorter
\* than the pauses between them and other datagrams are finitely many, as in
\* MCBootstrap.  Where they leave no such pause it need not end (WithinTimeout
\* shows the timeout starting afresh).
BootstrapEnds == phase = "waiting" ~> phase # "waiting"

\* bootstrap_timeout_ms bounds the bootstrap.
WithinTimeout == phase = "waiting" => waited <= config.timeout
=============================================================================
