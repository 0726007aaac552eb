--------------------------- MODULE BootstrapProofs ---------------------------
(***************************************************************************)
(* Proofs about the start of a client: whatever was requested by earlier   *)
(* processes, from whatever files, and whatever the network does with the  *)
(* requests and their answers, a client that comes up runs under the name  *)
(* and address that its own process asked for.                             *)
(***************************************************************************)
EXTENDS Bootstrap, TLAPS

\* Request ids never repeat, so a message with the id of the process that
\* waits now is its request or the answer to it.  Without the first conjunct
\* the second is lost when a process starts: an old answer could be ahead.
NoneAhead == \A d \in net : d.kind # "Other" => d.request_id <= request_id
OfThisProcess ==
  phase = "waiting" =>
    \A d \in net : d.kind # "Other" /\ d.request_id = request_id =>
      d.stealth \in RequestedStealth(config) /\ d.ip = RequestedIp(config)
StartInv == TypeOK /\ NoneAhead /\ OfThisProcess
-----------------------------------------------------------------------------
(***************************************************************************)
(* Types.                                                                  *)
(***************************************************************************)
LEMMA OptionType ==
  ASSUME NEW S, NEW a \in Option(S), NEW b \in Option(S)
  PROVE  OrElse(a, b) \in Option(S)
BY DEF OrElse

LEMMA FileFields ==
  ASSUME NEW f \in ClientFile(Sender, Keys)
  PROVE  /\ f.stealth \in Stealth /\ f.home_gateway_id \in Sender
         /\ f.peers \in PeerTable(Sender, Keys)
         /\ f.tun \in BOOLEAN /\ f.tun_address \in Option(Prefix)
         /\ f.owned_prefixes \in SUBSET Prefix
         /\ f.requested_stealth \in Option(Stealth)
         /\ f.requested_overlay_ip \in Option(Prefix) /\ f.timeout \in Nat
         /\ f.tun \/ f.tun_address = {}
BY DEF ClientFile

LEMMA PeerFields ==
  ASSUME NEW peers \in PeerTable(Sender, Keys), NEW id \in DOMAIN peers
  PROVE  id \in Sender /\ peers[id].stealth \in Stealth /\ peers[id].public_key \in Keys
<1>1. PICK ids \in SUBSET Sender : peers \in [ids -> [stealth : Stealth, public_key : Keys]]
  BY DEF PeerTable
<1> QED
  BY <1>1

LEMMA RequestedType ==
  ASSUME NEW f \in ClientFile(Sender, Keys)
  PROVE  RequestedStealth(f) \subseteq Stealth /\ RequestedIp(f) \in Option(Prefix)
<1>1. f.requested_stealth \subseteq Stealth
  BY FileFields DEF Option
<1>2. RequestedStealth(f) \subseteq Stealth
  BY <1>1, FileFields DEF RequestedStealth, OrElse
<1> QED
  BY <1>2, FileFields, OptionType DEF RequestedIp

\* A response makes a config out of a config, whatever it assigns.
LEMMA AssignedType ==
  ASSUME NEW f \in ClientFile(Sender, Keys), NEW s \in Stealth, NEW ip \in Option(Prefix)
  PROVE  Assigned(f, s, ip) \in ClientFile(Sender, Keys)
<1> DEFINE g == Assigned(f, s, ip)
<1>1. ip \in SUBSET Prefix
  BY DEF Option
<1>2. OrElse(f.tun_address, ip) \in Option(Prefix)
  BY FileFields, OptionType
<1>3. OrElse(f.owned_prefixes, ip) \in SUBSET Prefix
  BY <1>1, FileFields DEF OrElse
<1> QED
  BY <1>2, <1>3, FileFields DEF Assigned, ClientFile
-----------------------------------------------------------------------------
LEMMA StartInit == Init => StartInv
BY FileAssumption, BoundAssumption
   DEF Init, StartInv, TypeOK, Phase, NoneAhead, OfThisProcess

\* A step that adds to the network only messages that are of another kind, or
\* repeat what a request asked for, and changes neither file nor id.
LEMMA NetStep ==
  ASSUME StartInv, TypeOK', UNCHANGED request_id,
         phase' = "waiting" => phase = "waiting" /\ config' = config,
         \A d \in net' \ net :
           d.kind = "Other" \/
           \E r \in net : /\ r.kind # "Other" /\ r.request_id = d.request_id
                          /\ r.stealth = d.stealth /\ r.ip = d.ip
  PROVE  StartInv'
BY DEF StartInv, NoneAhead, OfThisProcess

LEMMA StartStep == StartInv /\ [Next]_vars => StartInv'
<1> SUFFICES ASSUME StartInv, [Next]_vars PROVE StartInv'
  OBVIOUS
<1>0. TypeOK
  BY DEF StartInv
<1>1. ASSUME NEW f \in File, SendBootstrapReq(f) PROVE StartInv'
  <2> DEFINE home == f.peers[f.home_gateway_id]
  <2>1. f \in ClientFile(Sender, Keys) /\ f.timeout \in Nat
    BY FileAssumption, FileFields
  <2>2. PICK stealth \in RequestedStealth(f) :
          net' = net \cup
            {[kind |-> "BootstrapReq", to |-> f.home_gateway_id,
              key |-> home.public_key, request_id |-> request_id',
              stealth |-> stealth, ip |-> RequestedIp(f), target |-> home.stealth]}
    BY <1>1 DEF SendBootstrapReq
  <2>3. /\ config' = f /\ request_id' = request_id + 1
        /\ phase' \in {"down", "waiting"} /\ left' = f.timeout /\ waited' = 0
        /\ UNCHANGED <<dups, listening, next_keepalive, traffic>>
    BY <1>1 DEF SendBootstrapReq, Start, senders
  <2>4. stealth \in Stealth /\ RequestedIp(f) \in Option(Prefix)
    BY <2>1, RequestedType
  <2>5. home.public_key \in Keys /\ home.stealth \in Stealth /\ f.home_gateway_id \in Sender
    BY <1>1, <2>1, FileFields, PeerFields DEF SendBootstrapReq, HomeKnown
  <2>6. request_id \in Nat /\ request_id' \in Nat
    BY <1>0, <2>3 DEF TypeOK
  <2>7. net' \subseteq Request \cup Response \cup Other
    BY <1>0, <2>2, <2>4, <2>5, <2>6 DEF TypeOK, Request
  <2>8. TypeOK'
    BY <1>0, <2>1, <2>3, <2>6, <2>7 DEF TypeOK, Phase
  <2>9. \A d \in net : d.kind # "Other" => d.request_id \in Nat /\ d.request_id < request_id'
    BY <1>0, <2>3 DEF StartInv, NoneAhead, TypeOK, Request, Response, Other
  <2> QED
    BY <2>2, <2>3, <2>6, <2>8, <2>9 DEF StartInv, NoneAhead, OfThisProcess
<1>2. ASSUME NEW f \in File, StartFails(f) PROVE StartInv'
  <2>1. /\ config' = f /\ request_id' = request_id + 1 /\ phase' = "down"
        /\ left' = 0 /\ waited' = 0
        /\ UNCHANGED <<net, dups, listening, next_keepalive, traffic>>
    BY <1>2 DEF StartFails, Start, senders
  <2>2. TypeOK'
    BY <1>0, <2>1, FileAssumption DEF TypeOK, Phase
  <2>3. \A d \in net : d.kind # "Other" => d.request_id \in Nat /\ d.request_id <= request_id'
    BY <1>0, <2>1 DEF StartInv, NoneAhead, TypeOK, Request, Response, Other
  <2> QED
    BY <2>1, <2>2, <2>3 DEF StartInv, NoneAhead, OfThisProcess
<1>3. ASSUME NEW d \in net, Received(d) PROVE /\ net' \subseteq net /\ dups' \in Nat
                                              /\ UNCHANGED <<request_id, senders>>
  BY <1>0, <1>3 DEF Received, Delivered, TypeOK
<1>4. ASSUME NEW d \in net, ComeUp(d) PROVE StartInv'
  <2>1. d.kind = "BootstrapResp" /\ d \in Response
    BY <1>0, <1>4 DEF ComeUp, Answers, TypeOK, Request, Response, Other
  <2>2. config' \in ClientFile(Sender, Keys)
    BY <1>0, <1>4, <2>1, AssignedType DEF ComeUp, TypeOK, Response
  <2>3. /\ phase' = "up" /\ left' = 0 /\ waited' = 0
        /\ net' \subseteq net /\ dups' \in Nat /\ UNCHANGED <<request_id, senders>>
    BY <1>3, <1>4 DEF ComeUp, Leave
  <2>4. TypeOK'
    BY <1>0, <2>2, <2>3 DEF TypeOK, Phase, senders
  <2> QED
    BY <2>3, <2>4, NetStep
<1>5. ASSUME NEW d \in net, Undecryptable(d) \/ Skip(d) PROVE StartInv'
  <2>1. /\ phase' \in {"down", phase} /\ left' \in Nat /\ waited' \in Nat
        /\ UNCHANGED config
    BY <1>0, <1>5, FileFields DEF Undecryptable, Skip, Leave, TypeOK
  <2>2. net' \subseteq net /\ dups' \in Nat /\ UNCHANGED <<request_id, senders>>
    BY <1>3, <1>5 DEF Undecryptable, Skip
  <2>3. TypeOK'
    BY <1>0, <2>1, <2>2 DEF TypeOK, Phase, senders
  <2> QED
    BY <2>1, <2>2, <2>3, NetStep
<1>6. CASE TimeOut \/ Stop
  <2>1. /\ phase' = "down" /\ left' = 0 /\ waited' = 0
        /\ UNCHANGED <<config, request_id, net, dups, senders>>
    BY <1>6 DEF TimeOut, Stop, Leave
  <2>2. TypeOK'
    BY <1>0, <2>1 DEF TypeOK, Phase, senders
  <2> QED
    BY <2>1, <2>2, NetStep
<1>7. CASE Tick
  <2>1. UNCHANGED <<phase, config, request_id, net, dups, listening, traffic>>
    BY <1>7 DEF Tick
  <2>2. left' \in Nat /\ waited' \in Nat
    BY <1>0, <1>7 DEF Tick, TypeOK, timing
  <2>3. next_keepalive' \in [Sender -> Nat]
    BY <1>0, <1>7 DEF Tick, TypeOK
  <2>4. TypeOK'
    BY <1>0, <2>1, <2>2, <2>3 DEF TypeOK
  <2> QED
    BY <2>1, <2>4, NetStep
<1>8. ASSUME NEW d \in net, HandleBootstrapReq(d) PROVE StartInv'
  <2> DEFINE resp == [kind |-> "BootstrapResp", from |-> d.to,
                      request_id |-> d.request_id, stealth |-> d.stealth, ip |-> d.ip]
  <2>1. d \in Request /\ d.kind = "BootstrapReq"
    BY <1>0, <1>8 DEF HandleBootstrapReq, TypeOK, Request, Response, Other
  <2>2. net' \subseteq net \cup {resp} /\ dups' \in Nat
    BY <1>0, <1>8 DEF HandleBootstrapReq, Delivered, TypeOK
  <2>3. UNCHANGED <<process, senders>>
    BY <1>8 DEF HandleBootstrapReq
  <2>4. resp \in Response
    BY <2>1 DEF Request, Response
  <2>5. TypeOK'
    BY <1>0, <2>2, <2>3, <2>4 DEF TypeOK, process, senders, timing
  <2> QED
    BY <2>1, <2>2, <2>3, <2>5, NetStep DEF process
<1>9. ASSUME NEW s \in Sender, Keepalive(s) \/ Relay(s) PROVE StartInv'
  <2>1. /\ net' = net \cup {[kind |-> "Other", from |-> s]}
        /\ UNCHANGED <<process, dups, listening>>
    BY <1>9 DEF Keepalive, Relay, Emit
  <2>2. traffic' \in Nat /\ next_keepalive' \in [Sender -> Nat]
    BY <1>0, <1>9, BoundAssumption DEF Keepalive, Relay, TypeOK
  <2>3. TypeOK'
    BY <1>0, <2>1, <2>2 DEF TypeOK, process, timing, Other
  <2> QED
    BY <2>1, <2>3, NetStep DEF process
<1>10. ASSUME NEW s \in Sender, Launch(s) \/ Crash(s) PROVE StartInv'
  <2>1. UNCHANGED <<process, net, dups, traffic>>
    BY <1>10 DEF Launch, Crash
  <2>2. listening' \subseteq Sender /\ next_keepalive' \in [Sender -> Nat]
    BY <1>0, <1>10, BoundAssumption DEF Launch, Crash, TypeOK
  <2>3. TypeOK'
    BY <1>0, <2>1, <2>2 DEF TypeOK, process, timing
  <2> QED
    BY <2>1, <2>3, NetStep DEF process
<1>11. ASSUME NEW d \in net, Lose(d) PROVE StartInv'
  <2>1. net' \subseteq net /\ UNCHANGED <<process, dups, senders>>
    BY <1>11 DEF Lose
  <2>2. TypeOK'
    BY <1>0, <2>1 DEF TypeOK, process, timing, senders
  <2> QED
    BY <2>1, <2>2, NetStep DEF process
<1>12. CASE UNCHANGED vars
  BY <1>12 DEF vars, process, timing, senders, StartInv, TypeOK, NoneAhead,
               OfThisProcess
<1> QED
  BY <1>1, <1>2, <1>4, <1>5, <1>6, <1>7, <1>8, <1>9, <1>10, <1>11, <1>12
     DEF Next, Client

LEMMA StartInvariant == Spec => []StartInv
BY StartInit, StartStep, PTL DEF Spec
-----------------------------------------------------------------------------
\* Only a response ends the wait with a client that runs.
LEMMA ComesUpByResponse ==
  ASSUME StartInv, [Next]_vars, ComesUp
  PROVE  \E stealth \in RequestedStealth(config) :
           config' = Assigned(config, stealth, RequestedIp(config))
<1>1. ASSUME NEW d \in net, ComeUp(d)
      PROVE  /\ d.stealth \in RequestedStealth(config) /\ d.ip = RequestedIp(config)
             /\ config' = Assigned(config, d.stealth, d.ip)
  BY <1>1 DEF ComeUp, Answers, ComesUp, StartInv, OfThisProcess
<1>2. \E d \in net : ComeUp(d)
  <2>1. phase = "waiting" /\ phase' = "up"
    BY DEF ComesUp
  <2>2. ~\E f \in File : SendBootstrapReq(f) \/ StartFails(f)
    BY <2>1 DEF SendBootstrapReq, StartFails, Start
  <2>3. ~(TimeOut \/ Stop \/ Tick)
    BY <2>1 DEF TimeOut, Stop, Tick, Leave
  <2>4. ~\E d \in net : \/ Undecryptable(d) \/ Skip(d) \/ Lose(d)
                        \/ HandleBootstrapReq(d)
    BY <2>1 DEF Undecryptable, Skip, Lose, HandleBootstrapReq, Leave, process
  <2>5. ~\E s \in Sender : Keepalive(s) \/ Relay(s) \/ Launch(s) \/ Crash(s)
    BY <2>1 DEF Keepalive, Relay, Emit, Launch, Crash, process
  <2>6. ~UNCHANGED vars
    BY <2>1 DEF vars, process
  <2> QED
    BY <2>2, <2>3, <2>4, <2>5, <2>6 DEF Next, Client
<1> QED
  BY <1>1, <1>2

\* In every network and from every set of config files a client comes up as
\* its own process has asked: a response to an earlier process of the client,
\* late or delivered twice, is never taken (the check of the request id in
\* decode_bootstrap_response).
THEOREM RunsUnderItsOwnName == Spec => RunsAsRequested
<1>1. StartInv /\ [Next]_vars =>
        [ComesUp => \E stealth \in RequestedStealth(config) :
                      config' = Assigned(config, stealth, RequestedIp(config))]_vars
  BY ComesUpByResponse
<1> QED
  BY <1>1, StartInvariant, PTL DEF Spec, RunsAsRequested

\* What the response assigns is owned, and is the address of the TUN device,
\* unless the file sets two different addresses (perform_client_bootstrap).
THEOREM OwnsTheTunAddress == Spec => OwnsItsAddress
<1>1. ASSUME StartInv, [Next]_vars, ComesUp, config.owned_prefixes = {},
             config.tun_address = {} \/ config.requested_overlay_ip = {}
      PROVE  config'.tun_address \subseteq config'.owned_prefixes
  <2>1. config \in ClientFile(Sender, Keys)
    BY <1>1 DEF StartInv, TypeOK
  <2>2. PICK stealth : config' = Assigned(config, stealth, RequestedIp(config))
    BY <1>1, ComesUpByResponse
  <2>3. config.tun \/ config.tun_address = {}
    BY <2>1, FileFields
  <2>4. config'.owned_prefixes = RequestedIp(config)
    BY <1>1, <2>1, <2>2 DEF Assigned, OrElse, ClientFile
  <2>5. config'.tun_address = IF config.tun THEN OrElse(config.tun_address, RequestedIp(config))
                              ELSE config.tun_address
    BY <2>1, <2>2 DEF Assigned, ClientFile
  <2> QED
    BY <1>1, <2>3, <2>4, <2>5 DEF RequestedIp, OrElse
<1>2. StartInv /\ [Next]_vars =>
        [ ComesUp /\ config.owned_prefixes = {}
            /\ (config.tun_address = {} \/ config.requested_overlay_ip = {})
          => config'.tun_address \subseteq config'.owned_prefixes ]_vars
  BY <1>1
<1> QED
  BY <1>2, StartInvariant, PTL DEF Spec, OwnsItsAddress

\* Every variable of the bootstrap keeps its type for every set of files,
\* names and nodes.
THEOREM BootstrapTypes == Spec => []TypeOK
BY StartInvariant, PTL DEF StartInv
=============================================================================
