------------------------------ MODULE Routing ------------------------------
(***************************************************************************)
(* The static routing table of a StealthNet node (src/src/routing.rs) and  *)
(* the parser of packet destinations (src/src/ip.rs), as pure operators.   *)
(*                                                                         *)
(* An address is a number of Bits bits.  The code has two families, with   *)
(* 32 and 128 bits; a prefix of one never contains an address of the       *)
(* other, so a table of both behaves as two tables and one family is       *)
(* modelled.  The fields metric and mode of a route are only displayed:    *)
(* no decision of the code reads them, and they are left out.              *)
(***************************************************************************)
EXTENDS Integers, Sequences, FiniteSets, TLC

CONSTANTS
  Bits,       \* the width of an address
  Stealth     \* the stealth identifiers of the network

ASSUME BitsAssumption == Bits \in Nat

\* What lookup and reverse_lookup return for Option::None.
NoRoute == [found |-> FALSE]

Address == 0 .. (2^Bits - 1)
Prefix  == [addr : Address, len : 0 .. Bits]
Route   == [prefix : Prefix, stealth : Stealth]

\* What RoutingTable holds, Via being the ids a route may name as next hop.
RoutingTable(Via) ==
  [routes         : Seq(Route),
   overlay_routes : UNION {[keys -> Via] : keys \in SUBSET Stealth},
   owned_prefixes : SUBSET Prefix]

-----------------------------------------------------------------------------
\* Mutant: as if a prefix had no host bits.
Contains_Untruncated(prefix, ip) == ip \div 2^(Bits - prefix.len) = prefix.addr

\* IpNet::contains: the first len bits agree.  A prefix keeps the host bits
\* it was written with ("10.50.0.2/30"), so both sides are truncated.
Contains(prefix, ip) ==
  LET hosts == 2^(Bits - prefix.len)
  IN  ip \div hosts = prefix.addr \div hosts

\* Mutant: shorter prefixes first.
SortsBefore_Ascending(routes, i, j) ==
  \/ routes[i].prefix.len < routes[j].prefix.len
  \/ routes[i].prefix.len = routes[j].prefix.len /\ i < j

\* The order sort_by_key(Reverse(prefix_len)) gives two configured routes:
\* longer prefixes first, and the sort is stable.
SortsBefore(routes, i, j) ==
  \/ routes[i].prefix.len > routes[j].prefix.len
  \/ routes[i].prefix.len = routes[j].prefix.len /\ i < j

SortByPrefixLen(routes) ==
  LET Place(i) == Cardinality({j \in DOMAIN routes : SortsBefore(routes, j, i)}) + 1
  IN  [k \in DOMAIN routes |-> routes[CHOOSE i \in DOMAIN routes : Place(i) = k]]

\* HashMap::insert in the order of the configuration, of a sequence of pairs
\* <<key, value>>: the last one with a key wins.
LastWins(pairs) ==
  [key \in {pairs[i][1] : i \in DOMAIN pairs} |->
     LET at == {i \in DOMAIN pairs : pairs[i][1] = key}
     IN  pairs[CHOOSE i \in at : \A j \in at : j <= i][2]]

\* RoutingTable::from_config.
FromConfig(static_map, overlay_routes, owned_prefixes) ==
  [routes         |-> SortByPrefixLen(static_map),
   overlay_routes |-> LastWins([i \in DOMAIN overlay_routes |->
                                  <<overlay_routes[i].destination,
                                    overlay_routes[i].via>>]),
   owned_prefixes |-> owned_prefixes]

-----------------------------------------------------------------------------
\* Mutant: the last of the routes.
FindRoute_Last(table, hits) ==
  IF hits = {} THEN NoRoute
  ELSE [found |-> TRUE,
        route |-> table.routes[CHOOSE k \in hits : \A j \in hits : k >= j]]

\* Iterator::find: the first of the routes, given by index, that satisfy a test.
FindRoute(table, hits) ==
  IF hits = {} THEN NoRoute
  ELSE [found |-> TRUE,
        route |-> table.routes[CHOOSE k \in hits : \A j \in hits : k <= j]]

\* RoutingTable::lookup.
Lookup(table, ip) ==
  FindRoute(table, {k \in DOMAIN table.routes :
                      Contains(table.routes[k].prefix, ip)})

\* RoutingTable::reverse_lookup: the first route to a stealth identifier; the
\* address reported for it is the one the prefix was written with.
ReverseLookup(table, stealth) ==
  FindRoute(table, {k \in DOMAIN table.routes : table.routes[k].stealth = stealth})

\* AdminRequest::Resolve: an address by the table, a name in reverse.
Resolve(table, target) ==
  IF target \in Address THEN Lookup(table, target) ELSE ReverseLookup(table, target)

\* RoutingTable::owns_ip.
OwnsIp(table, ip) == \E p \in table.owned_prefixes : Contains(p, ip)

-----------------------------------------------------------------------------
\* packet_destination: the destination is read only from a packet whose
\* version is 4 or 6 and that is long enough to hold that version's header.
HasDestination(packet) ==
  \/ packet.version = 4 /\ packet.bytes >= 20
  \/ packet.version = 6 /\ packet.bytes >= 40
=============================================================================
