----------------------------- MODULE NodeConfig -----------------------------
(***************************************************************************)
(* What GatewayDaemon::new makes of a config file (src/src/daemon.rs): the *)
(* two maps every send goes through, from the [[peers]] entries, and what  *)
(* a client asks its home gateway for and keeps of the answer.  Bootstrap  *)
(* and the modules that model-check Daemon use these operators.            *)
(*                                                                         *)
(* An Option is a set: {} is None, {x} is Some(x).                         *)
(***************************************************************************)
EXTENDS Routing

Option(S) == {{}} \cup {{x} : x \in S}
OrElse(option, other) == IF option = {} THEN other ELSE option

\* peers_by_id: id |-> stealth identifier of the entry, the last one winning.
LoadPeersById(peers) ==
  LastWins([i \in DOMAIN peers |-> <<peers[i].id, peers[i].stealth>>])

\* peers_by_stealth: stealth identifier |-> id, the last one winning.
LoadPeersByStealth(peers) ==
  LastWins([i \in DOMAIN peers |-> <<peers[i].stealth, peers[i].id>>])
-----------------------------------------------------------------------------
\* A client's config file, as far as its bootstrap reads or changes it.  The
\* address of a TUN device and the requested one are written as prefixes
\* ("10.50.0.2/32"); tun is whether there is a [tun] section.  Ids are those
\* of other nodes and Keys their public keys.
PeerTable(Ids, Keys) ==
  UNION {[ids -> [stealth : Stealth, public_key : Keys]] : ids \in SUBSET Ids}

ClientFile(Ids, Keys) ==
  {f \in [stealth : Stealth, home_gateway_id : Ids, peers : PeerTable(Ids, Keys),
          tun : BOOLEAN, tun_address : Option(Prefix),
          owned_prefixes : SUBSET Prefix, requested_stealth : Option(Stealth),
          requested_overlay_ip : Option(Prefix), timeout : Nat] :
     f.tun \/ f.tun_address = {}}

RequestedStealth(file) == OrElse(file.requested_stealth, {file.stealth})

\* Mutant: an address that is not requested is not filled in.
RequestedIp_AsWritten(file) == file.requested_overlay_ip

RequestedIp(file) == OrElse(file.requested_overlay_ip, file.tun_address)

\* Mutant: the address is kept whether there is a TUN section or not.
Assigned_AnyTun(file, stealth, ip) ==
  [file EXCEPT !.stealth = stealth,
               !.tun_address = OrElse(@, ip),
               !.owned_prefixes = OrElse(@, ip)]

\* The config after a response that assigns a name and perhaps an address:
\* the address fills what the file leaves open and replaces nothing.
Assigned(file, stealth, ip) ==
  [file EXCEPT !.stealth = stealth,
               !.tun_address = IF file.tun THEN OrElse(@, ip) ELSE @,
               !.owned_prefixes = OrElse(@, ip)]
=============================================================================
