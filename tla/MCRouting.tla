----------------------------- MODULE MCRouting -----------------------------
(***************************************************************************)
(* Model checking of Routing.  An operator edits a node's configuration    *)
(* one entry at a time; in every configuration the table the daemon builds *)
(* from it is compared with what longest-prefix routing means.             *)
(***************************************************************************)
EXTENDS Routing

CONSTANT MaxRoutes      \* bound on the routes of one configuration

VARIABLE static_map     \* the [[routing.static_map]] entries, in file order
vars == <<static_map>>

TableOf(routes) == FromConfig(routes, <<>>, {})
Table == TableOf(static_map)

Init == static_map = <<>>

AddRoute(r) ==
  /\ Len(static_map) < MaxRoutes
  /\ static_map' = Append(static_map, r)

Next == \E r \in Route : AddRoute(r)

Spec == Init /\ [][Next]_vars
-----------------------------------------------------------------------------
\* The entry that longest-prefix routing selects for an address, defined on
\* the configuration as it is written, with no sorting: of the entries that
\* contain the address the longest, and of the longest the first in the file.
Beats(i, j) ==
  \/ static_map[i].prefix.len > static_map[j].prefix.len
  \/ static_map[i].prefix.len = static_map[j].prefix.len /\ i <= j

LongestMatch(ip) ==
  LET hits == {i \in DOMAIN static_map : Contains(static_map[i].prefix, ip)}
  IN  IF hits = {} THEN NoRoute
      ELSE [found |-> TRUE,
            route |-> static_map[CHOOSE i \in hits : \A j \in hits : Beats(i, j)]]

\* Sorting once in from_config and taking the first hit in lookup is
\* longest-prefix matching, with ties broken by the order of the file.
LookupIsLongestMatch ==
  \A ip \in Address : Lookup(Table, ip) = LongestMatch(ip)

\* "resolve <stealth>" answers with the address of a prefix; sending to that
\* address reaches the same stealth identifier, unless a route at least as
\* specific shadows the prefix that was reported.
ResolvedAddressRoutesBack ==
  \A s \in Stealth :
    LET found == Resolve(Table, s)
    IN  found.found =>
          LET back == Resolve(Table, found.route.prefix.addr)
          IN  /\ back.found
              /\ \/ back.route.stealth = s
                 \/ back.route.prefix.len >= found.route.prefix.len

\* Adding an entry is local: an address outside its prefix is routed as
\* before, and an address inside it as before or by the new entry; and an
\* address that had a route keeps one.
AddingARouteIsLocal ==
  [][ LET added == static_map'[Len(static_map')]
          new   == TableOf(static_map')
      IN  \A ip \in Address :
            \/ Lookup(new, ip) = Lookup(Table, ip)
            \/ /\ Contains(added.prefix, ip)
               /\ Lookup(new, ip) = [found |-> TRUE, route |-> added]
               /\ Lookup(Table, ip).found =>
                    Lookup(Table, ip).route.prefix.len < added.prefix.len
    ]_vars
=============================================================================
