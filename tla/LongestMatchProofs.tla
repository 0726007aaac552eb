-------------------------- MODULE LongestMatchProofs --------------------------
(***************************************************************************)
(* Proofs about the static routing table: sorting it once and taking the   *)
(* first hit is longest-prefix routing, for every configuration.           *)
(***************************************************************************)
EXTENDS MCRouting, RoutingProofs, FiniteSetTheorems

Configuration == Seq(Route)

\* An entry has an index, a prefix of at most Bits bits, and an identifier.
LEMMA EntryType ==
  ASSUME NEW routes \in Configuration, NEW k \in DOMAIN routes
  PROVE  /\ k \in Nat /\ k >= 1 /\ k <= Len(routes)
         /\ routes[k] \in Route
         /\ routes[k].prefix.len \in Nat
         /\ routes[k].prefix.addr \in Address
         /\ routes[k].stealth \in Stealth
<1>1. k \in 1 .. Len(routes) /\ Len(routes) \in Nat /\ routes[k] \in Route
  BY DEF Configuration
<1>2. routes[k].prefix \in Prefix /\ routes[k].stealth \in Stealth
  BY <1>1 DEF Route
<1>3. routes[k].prefix.len \in 0 .. Bits /\ routes[k].prefix.addr \in Address
  BY <1>2 DEF Prefix
<1> QED
  BY <1>1, <1>2, <1>3, BitsAssumption

\* Two entries of a configuration are never tied in the order of the sort.
LEMMA SortsBeforeIsTotal ==
  ASSUME NEW routes \in Configuration, NEW i \in DOMAIN routes, NEW j \in DOMAIN routes
  PROVE  /\ ~(SortsBefore(routes, i, j) /\ SortsBefore(routes, j, i))
         /\ i # j => SortsBefore(routes, i, j) \/ SortsBefore(routes, j, i)
         /\ \A k \in DOMAIN routes :
              SortsBefore(routes, i, j) /\ SortsBefore(routes, j, k)
                => SortsBefore(routes, i, k)
<1>1. \A k \in DOMAIN routes : k \in Nat /\ routes[k].prefix.len \in Int
  BY EntryType
<1> QED
  BY <1>1 DEF SortsBefore

\* The place of an entry in the sorted table: after all that sort before it.
Ahead(routes, i) == {j \in DOMAIN routes : SortsBefore(routes, j, i)}
Place(routes) == [i \in DOMAIN routes |-> Cardinality(Ahead(routes, i)) + 1]

LEMMA PlaceOrders ==
  ASSUME NEW routes \in Configuration
  PROVE  /\ Place(routes) \in [DOMAIN routes -> DOMAIN routes]
         /\ \A i, j \in DOMAIN routes :
              SortsBefore(routes, i, j) => Place(routes)[i] < Place(routes)[j]
<1> DEFINE n == Len(routes)
<1>1. n \in Nat /\ DOMAIN routes = 1 .. n
  BY DEF Configuration
<1>2. IsFiniteSet(DOMAIN routes) /\ Cardinality(DOMAIN routes) = n
  <2>1. IsFiniteSet(1 .. n) /\ Cardinality(1 .. n) = n
    <3>1. Cardinality(1 .. n) = IF 1 > n THEN 0 ELSE n - 1 + 1
      BY <1>1, FS_Interval
    <3>2. IsFiniteSet(1 .. n)
      BY <1>1, FS_Interval
    <3> HIDE DEF n
    <3> QED
      BY <1>1, <3>1, <3>2
  <2> QED
    BY <1>1, <2>1
<1>3. ASSUME NEW i \in DOMAIN routes
      PROVE  /\ IsFiniteSet(Ahead(routes, i))
             /\ Cardinality(Ahead(routes, i)) \in Nat
             /\ Cardinality(Ahead(routes, i)) < n
  <2>1. Ahead(routes, i) \subseteq DOMAIN routes \ {i}
    BY SortsBeforeIsTotal DEF Ahead
  <2>2. /\ IsFiniteSet(DOMAIN routes \ {i})
        /\ Cardinality(DOMAIN routes \ {i}) = n - 1
    BY <1>2, FS_RemoveElement
  <2>3. IsFiniteSet(Ahead(routes, i)) /\ Cardinality(Ahead(routes, i)) <= n - 1
    BY <2>1, <2>2, FS_Subset
  <2>4. Cardinality(Ahead(routes, i)) \in Nat
    BY <2>3, FS_CardinalityType
  <2> QED
    BY <1>1, <2>3, <2>4
<1>4. ASSUME NEW i \in DOMAIN routes, NEW j \in DOMAIN routes,
             SortsBefore(routes, i, j)
      PROVE  Cardinality(Ahead(routes, i)) < Cardinality(Ahead(routes, j))
  <2>1. Ahead(routes, i) \subseteq Ahead(routes, j)
    BY <1>4, SortsBeforeIsTotal DEF Ahead
  <2>2. i \in Ahead(routes, j) /\ i \notin Ahead(routes, i)
    BY <1>4, SortsBeforeIsTotal DEF Ahead
  <2>3. /\ Cardinality(Ahead(routes, i)) <= Cardinality(Ahead(routes, j))
        /\ Cardinality(Ahead(routes, i)) # Cardinality(Ahead(routes, j))
    BY <1>3, <2>1, <2>2, FS_Subset
  <2> QED
    BY <1>3, <2>3
<1>5. Place(routes) \in [DOMAIN routes -> DOMAIN routes]
  BY <1>1, <1>3 DEF Place
<1> QED
  BY <1>3, <1>4, <1>5 DEF Place

\* No two entries have the same place, so every place is taken.
LEMMA PlacesAreTaken ==
  ASSUME NEW routes \in Configuration
  PROVE  \A k \in DOMAIN routes : \E i \in DOMAIN routes : Place(routes)[i] = k
<1>1. DOMAIN routes = 1 .. Len(routes) /\ Len(routes) \in Nat
  BY DEF Configuration
<1>2. IsFiniteSet(DOMAIN routes)
  BY <1>1, FS_Interval
<1>3. Place(routes) \in Injection(DOMAIN routes, DOMAIN routes)
  <2>1. ASSUME NEW i \in DOMAIN routes, NEW j \in DOMAIN routes, i # j
        PROVE  Place(routes)[i] # Place(routes)[j]
    <3>1. Place(routes)[i] \in Nat /\ Place(routes)[j] \in Nat
      BY <1>1, PlaceOrders
    <3> QED
      BY <2>1, <3>1, SortsBeforeIsTotal, PlaceOrders
  <2> QED
    BY <2>1, PlaceOrders DEF Injection, IsInjective
<1>4. Place(routes) \in Surjection(DOMAIN routes, DOMAIN routes)
  BY <1>2, <1>3, FS_Injection
<1> QED
  BY <1>4 DEF Surjection

Sorts(routes, p) ==
  /\ p \in [DOMAIN routes -> DOMAIN routes]
  /\ \A k, m \in DOMAIN routes : k < m => SortsBefore(routes, p[k], p[m])

\* The entries by their places: what sort_by_key makes of them.
Sorted(routes) == [k \in DOMAIN routes |->
                     CHOOSE i \in DOMAIN routes : Place(routes)[i] = k]

LEMMA SortedSorts ==
  ASSUME NEW routes \in Configuration
  PROVE  Sorts(routes, Sorted(routes))
<1> DEFINE p == Sorted(routes)
<1>1. DOMAIN routes \subseteq Nat
  BY DEF Configuration
<1>2. \A k \in DOMAIN routes : p[k] \in DOMAIN routes /\ Place(routes)[p[k]] = k
  BY PlacesAreTaken DEF Sorted
<1>3. ASSUME NEW k \in DOMAIN routes, NEW m \in DOMAIN routes, k < m
      PROVE  SortsBefore(routes, p[k], p[m])
  <2>1. p[k] # p[m]
    BY <1>1, <1>2, <1>3
  <2>2. SortsBefore(routes, p[k], p[m]) \/ SortsBefore(routes, p[m], p[k])
    BY <1>2, <2>1, SortsBeforeIsTotal
  <2>3. SortsBefore(routes, p[m], p[k]) => m < k
    BY <1>2, PlaceOrders
  <2> HIDE DEF p
  <2> QED
    BY <1>1, <1>3, <2>2, <2>3
<1>4. p \in [DOMAIN routes -> DOMAIN routes]
  BY <1>2 DEF Sorted
<1> QED
  BY <1>3, <1>4 DEF Sorts

-----------------------------------------------------------------------------
(***************************************************************************)
(* The table against the configuration it was built from.                  *)
(***************************************************************************)
\* The table holds the entries of the configuration, each once, longer
\* prefixes first and entries of one length in the order of the file.
LEMMA TableIsSorted ==
  ASSUME NEW routes \in Configuration
  PROVE  \E p : /\ Sorts(routes, p)
               /\ TableOf(routes).routes = [k \in DOMAIN routes |-> routes[p[k]]]
<1> DEFINE At(k) == CHOOSE i \in DOMAIN routes : Place(routes)[i] = k
           Ranked(k) == CHOOSE i \in DOMAIN routes : Cardinality(Ahead(routes, i)) + 1 = k
<1>1. TableOf(routes).routes = SortByPrefixLen(routes)
  BY DEF TableOf, FromConfig
<1>2. SortByPrefixLen(routes) = [k \in DOMAIN routes |-> routes[Ranked(k)]]
  BY Zenon DEF SortByPrefixLen, Ahead
<1>3. \A k : Ranked(k) = At(k)
  BY Zenon DEF Place
<1>4. \A k \in DOMAIN routes : Sorted(routes)[k] = At(k)
  BY DEF Sorted
<1>5. TableOf(routes).routes = [k \in DOMAIN routes |-> routes[Sorted(routes)[k]]]
  <2> HIDE DEF At, Ranked
  <2> QED
    BY <1>1, <1>2, <1>3, <1>4
<1> QED
  BY <1>5, SortedSorts

\* A sort leaves no entry out.
LEMMA SortIsOnto ==
  ASSUME NEW routes \in Configuration, NEW p, Sorts(routes, p)
  PROVE  \A i \in DOMAIN routes : \E k \in DOMAIN routes : p[k] = i
<1>1. DOMAIN routes = 1 .. Len(routes) /\ Len(routes) \in Nat
  BY DEF Configuration
<1>2. IsFiniteSet(DOMAIN routes)
  BY <1>1, FS_Interval
<1>3. ASSUME NEW k \in DOMAIN routes, NEW m \in DOMAIN routes, k # m
      PROVE  p[k] # p[m]
  <2>1. k < m \/ m < k
    BY <1>1, <1>3
  <2>2. SortsBefore(routes, p[k], p[m]) \/ SortsBefore(routes, p[m], p[k])
    BY <2>1 DEF Sorts
  <2> QED
    BY <2>2, SortsBeforeIsTotal DEF Sorts
<1>4. p \in Injection(DOMAIN routes, DOMAIN routes)
  BY <1>3 DEF Sorts, Injection, IsInjective
<1>5. p \in Surjection(DOMAIN routes, DOMAIN routes)
  BY <1>2, <1>4, FS_Injection
<1> QED
  BY <1>5 DEF Surjection

\* The entries of a configuration for an address, and the order of
\* longest-prefix routing among them.
Hits(routes, ip) == {i \in DOMAIN routes : Contains(routes[i].prefix, ip)}
Wins(routes, i, ip) ==
  /\ i \in Hits(routes, ip)
  /\ \A j \in Hits(routes, ip) : j = i \/ SortsBefore(routes, i, j)

LEMMA TableType ==
  ASSUME NEW routes \in Configuration
  PROVE  /\ TableOf(routes) \in RoutingTable({})
         /\ DOMAIN TableOf(routes).routes = DOMAIN routes
<1>1. PICK p : /\ Sorts(routes, p)
               /\ TableOf(routes).routes = [k \in DOMAIN routes |-> routes[p[k]]]
  BY TableIsSorted
<1>2. TableOf(routes).routes \in Seq(Route)
  <2>1. DOMAIN routes = 1 .. Len(routes) /\ Len(routes) \in Nat
    BY DEF Configuration
  <2>2. \A k \in DOMAIN routes : routes[p[k]] \in Route
    BY <1>1, EntryType DEF Sorts
  <2> QED
    BY <1>1, <2>1, <2>2
<1>3. TableOf(routes) = [routes |-> TableOf(routes).routes,
                         overlay_routes |-> LastWins([i \in DOMAIN <<>> |->
                            <<(<<>>)[i].destination, (<<>>)[i].via>>]),
                         owned_prefixes |-> {}]
  BY DEF TableOf, FromConfig
<1>4. LastWins([i \in DOMAIN <<>> |-> <<(<<>>)[i].destination, (<<>>)[i].via>>])
        \in [{} -> {}]
  BY DEF LastWins
<1> QED
  BY <1>1, <1>2, <1>3, <1>4 DEF RoutingTable

\* The first hit in the table is the entry that wins in the configuration.
LEMMA LookupFindsTheWinner ==
  ASSUME NEW routes \in Configuration, NEW ip
  PROVE  LET found == Lookup(TableOf(routes), ip)
         IN  \/ found = NoRoute /\ Hits(routes, ip) = {}
             \/ \E i : /\ Wins(routes, i, ip)
                      /\ found = [found |-> TRUE, route |-> routes[i]]
<1> DEFINE table == TableOf(routes)
           hits == {k \in DOMAIN table.routes : Contains(table.routes[k].prefix, ip)}
           first == CHOOSE k \in hits : \A j \in hits : k <= j
<1>1. PICK p : /\ Sorts(routes, p)
               /\ table.routes = [k \in DOMAIN routes |-> routes[p[k]]]
  BY TableIsSorted
<1>2. hits = {k \in DOMAIN routes : p[k] \in Hits(routes, ip)}
  BY <1>1 DEF Hits, Sorts
<1>3. Lookup(table, ip) = IF hits = {} THEN NoRoute
                          ELSE [found |-> TRUE, route |-> table.routes[first]]
  BY DEF Lookup, FindRoute
<1>4. \A i \in Hits(routes, ip) : \E k \in hits : p[k] = i
  BY <1>1, <1>2, SortIsOnto DEF Hits
<1> HIDE DEF hits
<1>5. CASE hits = {}
  <2>1. Hits(routes, ip) = {}
    BY <1>4, <1>5
  <2> QED
    BY <1>3, <1>5, <2>1
<1>6. CASE hits # {}
  <2>1. hits \in SUBSET Nat
    BY <1>2, EntryType
  <2>2. first \in hits /\ \A j \in hits : first <= j
    BY <1>6, <2>1, LeastIndex
  <2>3. Wins(routes, p[first], ip)
    <3>1. ASSUME NEW j \in Hits(routes, ip)
          PROVE  j = p[first] \/ SortsBefore(routes, p[first], j)
      <4>1. PICK k \in hits : p[k] = j
        BY <1>4
      <4>2. first = k \/ first < k
        <5>1. first \in Nat /\ k \in Nat /\ first <= k
          BY <2>1, <2>2
        <5> HIDE DEF first
        <5> QED
          BY <5>1
      <4>3. first < k => SortsBefore(routes, p[first], p[k])
        BY <1>1, <1>2, <2>2 DEF Sorts
      <4> QED
        BY <4>1, <4>2, <4>3
    <3> QED
      BY <1>2, <2>2, <3>1 DEF Wins
  <2>4. table.routes[first] = routes[p[first]]
    BY <1>1, <1>2, <2>2
  <2> QED
    BY <1>3, <1>6, <2>3, <2>4
<1> QED
  BY <1>5, <1>6

\* The order of the sort leaves at most one winner.
LEMMA OneWinner ==
  ASSUME NEW routes \in Configuration, NEW ip, NEW i, NEW j,
         Wins(routes, i, ip), Wins(routes, j, ip)
  PROVE  i = j
BY SortsBeforeIsTotal DEF Wins, Hits

\* What an address finds in the table when an entry wins, or when none does.
LEMMA LookupIsTheWinner ==
  ASSUME NEW routes \in Configuration, NEW ip
  PROVE  /\ \A i : Wins(routes, i, ip) =>
                  Lookup(TableOf(routes), ip) = [found |-> TRUE, route |-> routes[i]]
         /\ Hits(routes, ip) = {} => Lookup(TableOf(routes), ip) = NoRoute
BY LookupFindsTheWinner, OneWinner DEF Wins

-----------------------------------------------------------------------------
\* What the reader of the file expects: the definition of LongestMatch.
LEMMA LongestMatchIsTheWinner ==
  ASSUME static_map \in Configuration, NEW ip
  PROVE  /\ \A i : Wins(static_map, i, ip) =>
                  LongestMatch(ip) = [found |-> TRUE, route |-> static_map[i]]
         /\ Hits(static_map, ip) = {} => LongestMatch(ip) = NoRoute
<1> DEFINE hits == Hits(static_map, ip)
           best == CHOOSE i \in hits : \A j \in hits : Beats(i, j)
<1>1. LongestMatch(ip) = IF hits = {} THEN NoRoute
                         ELSE [found |-> TRUE, route |-> static_map[best]]
  BY DEF LongestMatch, Hits
<1>2. ASSUME NEW i, Wins(static_map, i, ip)
      PROVE  LongestMatch(ip) = [found |-> TRUE, route |-> static_map[i]]
  <2>1. ASSUME NEW k \in DOMAIN static_map, NEW m \in DOMAIN static_map
        PROVE  Beats(k, m) <=> k = m \/ SortsBefore(static_map, k, m)
    <3>1. /\ k \in Nat /\ m \in Nat
          /\ static_map[k].prefix.len \in Nat /\ static_map[m].prefix.len \in Nat
      BY EntryType
    <3> QED
      BY <3>1 DEF Beats, SortsBefore
  <2>2. i \in hits /\ \A j \in hits : Beats(i, j)
    BY <1>2, <2>1 DEF Wins, Hits
  <2>3. best \in hits /\ \A j \in hits : Beats(best, j)
    BY <2>2
  <2>4. Wins(static_map, best, ip)
    <3> HIDE DEF best
    <3> QED
      BY <2>1, <2>3 DEF Wins, Hits
  <2>5. best = i
    BY <1>2, <2>4, OneWinner
  <2> QED
    BY <1>1, <2>2, <2>5
<1> QED
  BY <1>1, <1>2

LEMMA ConfigurationStep ==
  /\ Init => static_map \in Configuration
  /\ static_map \in Configuration /\ [Next]_vars => (static_map \in Configuration)'
<1>1. Init => static_map \in Configuration
  BY DEF Init, Configuration
<1>2. ASSUME static_map \in Configuration, NEW r \in Route, AddRoute(r)
      PROVE  static_map' \in Configuration
  BY <1>2 DEF AddRoute, Configuration
<1> QED
  BY <1>1, <1>2 DEF Next, vars

\* sort_by_key(Reverse(prefix_len)) in from_config and Iterator::find in
\* lookup: for every configuration and every address the table answers with
\* the longest of the entries that contain it, the first of them in the file.
THEOREM LongestPrefixWins == Spec => []LookupIsLongestMatch
<1>1. static_map \in Configuration => LookupIsLongestMatch
  <2> SUFFICES ASSUME static_map \in Configuration, NEW ip \in Address
               PROVE  Lookup(Table, ip) = LongestMatch(ip)
    BY DEF LookupIsLongestMatch
  <2> QED
    BY LookupFindsTheWinner, LongestMatchIsTheWinner DEF Table
<1> QED
  BY <1>1, ConfigurationStep, PTL DEF Spec

\* A prefix contains the address it was written with.
LEMMA ContainsItself == ASSUME NEW prefix PROVE Contains(prefix, prefix.addr)
BY DEF Contains

\* RESOLVE of an identifier answers with an address that the node routes, to
\* that identifier or by an entry at least as specific.
THEOREM ResolvedRoutesBack == Spec => []ResolvedAddressRoutesBack
<1>1. static_map \in Configuration => ResolvedAddressRoutesBack
  <2> SUFFICES ASSUME static_map \in Configuration, NEW s \in Stealth,
                      Resolve(Table, s).found
               PROVE  LET found == Resolve(Table, s)
                          back == Resolve(Table, found.route.prefix.addr)
                      IN  /\ back.found
                          /\ \/ back.route.stealth = s
                             \/ back.route.prefix.len >= found.route.prefix.len
    BY DEF ResolvedAddressRoutesBack
  <2> DEFINE found == Resolve(Table, s)
             addr == found.route.prefix.addr
  <2>1. PICK i \in DOMAIN static_map : found.route = static_map[i]
    <3>1. CASE s \in Address
      <4>1. found = Lookup(Table, s)
        BY <3>1 DEF Resolve
      <4> QED
        BY <4>1, LookupFindsTheWinner DEF Table, NoRoute, Wins, Hits
    <3>2. CASE s \notin Address
      <4>1. found = ReverseLookup(Table, s)
        BY <3>2 DEF Resolve
      <4> DEFINE hits == {k \in DOMAIN Table.routes : Table.routes[k].stealth = s}
      <4>2. found = IF hits = {} THEN NoRoute
                    ELSE [found |-> TRUE,
                          route |-> Table.routes[CHOOSE k \in hits : \A j \in hits : k <= j]]
        BY <4>1 DEF ReverseLookup, FindRoute
      <4>3. hits # {}
        BY <4>2 DEF NoRoute
      <4>4. hits \in SUBSET Nat
        BY TableType, EntryType DEF Table
      <4>5. \E k \in hits : found.route = Table.routes[k]
        <5> DEFINE first == CHOOSE k \in hits : \A j \in hits : k <= j
        <5> HIDE DEF hits
        <5>1. first \in hits
          BY <4>3, <4>4, LeastIndex
        <5>2. found.route = Table.routes[first]
          BY <4>2, <4>3
        <5> QED
          BY <5>1, <5>2
      <4>6. \A k \in DOMAIN Table.routes : \E j \in DOMAIN static_map :
              Table.routes[k] = static_map[j]
        <5>1. PICK p : /\ Sorts(static_map, p)
                       /\ Table.routes = [k \in DOMAIN static_map |-> static_map[p[k]]]
          BY TableIsSorted DEF Table
        <5> QED
          BY <5>1 DEF Sorts
      <4> QED
        BY <4>5, <4>6
    <3> QED
      BY <3>1, <3>2
  <2>2. i \in Hits(static_map, addr) /\ addr \in Address
    BY <2>1, ContainsItself, EntryType DEF Hits
  <2>3. PICK w : /\ Wins(static_map, w, addr)
                 /\ Lookup(Table, addr) = [found |-> TRUE, route |-> static_map[w]]
    BY <2>2, LookupFindsTheWinner DEF Table
  <2>4. static_map[w].prefix.len >= static_map[i].prefix.len
    <3>1. w \in DOMAIN static_map /\ (i = w \/ SortsBefore(static_map, w, i))
      BY <2>2, <2>3 DEF Wins, Hits
    <3>2. static_map[w].prefix.len \in Nat /\ static_map[i].prefix.len \in Nat
      BY <3>1, EntryType
    <3> QED
      BY <3>1, <3>2 DEF SortsBefore
  <2>5. Resolve(Table, addr) = Lookup(Table, addr)
    BY <2>2 DEF Resolve
  <2> QED
    BY <2>1, <2>3, <2>4, <2>5
<1> QED
  BY <1>1, ConfigurationStep, PTL DEF Spec

\* Editing one entry into a configuration changes no route but those of the
\* addresses it contains and wins.
THEOREM OneRouteAtATime == Spec => AddingARouteIsLocal
<1> DEFINE Local(added, old, new) ==
      \A ip \in Address :
        \/ Lookup(new, ip) = Lookup(old, ip)
        \/ /\ Contains(added.prefix, ip)
           /\ Lookup(new, ip) = [found |-> TRUE, route |-> added]
           /\ Lookup(old, ip).found =>
                Lookup(old, ip).route.prefix.len < added.prefix.len
<1>1. ASSUME static_map \in Configuration, NEW r \in Route,
             static_map' = Append(static_map, r)
      PROVE  Local(static_map'[Len(static_map')], Table, TableOf(static_map'))
  <2> DEFINE n == Len(static_map)
  <2>1. /\ n \in Nat /\ static_map' \in Configuration /\ Len(static_map') = n + 1
        /\ static_map'[n + 1] = r
        /\ DOMAIN static_map = 1 .. n /\ DOMAIN static_map' = 1 .. n + 1
        /\ \A i \in DOMAIN static_map : static_map'[i] = static_map[i]
    BY <1>1 DEF Configuration
  <2> HIDE DEF n
  <2> SUFFICES ASSUME NEW ip \in Address
               PROVE  \/ Lookup(TableOf(static_map'), ip) = Lookup(Table, ip)
                      \/ /\ Contains(r.prefix, ip)
                         /\ Lookup(TableOf(static_map'), ip) = [found |-> TRUE, route |-> r]
                         /\ Lookup(Table, ip).found =>
                              Lookup(Table, ip).route.prefix.len < r.prefix.len
    BY <2>1
  <2>2. \A i \in DOMAIN static_map : /\ i \in Hits(static_map', ip)
                                     /\ i \in DOMAIN static_map'
                                     <=> i \in Hits(static_map, ip)
    BY <2>1 DEF Hits
  <2>3. \A i, j \in DOMAIN static_map :
          SortsBefore(static_map', i, j) <=> SortsBefore(static_map, i, j)
    BY <2>1 DEF SortsBefore
  <2>4. CASE Hits(static_map', ip) = {}
    <3>1. Hits(static_map, ip) = {}
      BY <2>1, <2>2, <2>4 DEF Hits
    <3>2. /\ Lookup(TableOf(static_map), ip) = NoRoute
          /\ Lookup(TableOf(static_map'), ip) = NoRoute
      BY <1>1, <2>1, <2>4, <3>1, LookupIsTheWinner
    <3> QED
      BY <3>2 DEF Table
  <2>5. ASSUME NEW w, Wins(static_map', w, ip), w # n + 1
        PROVE  Lookup(TableOf(static_map'), ip) = Lookup(Table, ip)
    <3>1. w \in DOMAIN static_map
      BY <2>1, <2>5 DEF Wins, Hits
    <3>2. Wins(static_map, w, ip)
      BY <2>2, <2>3, <2>5, <3>1 DEF Wins, Hits
    <3> QED
      <4>1. /\ Lookup(TableOf(static_map), ip) = [found |-> TRUE, route |-> static_map[w]]
            /\ Lookup(TableOf(static_map'), ip) = [found |-> TRUE, route |-> static_map'[w]]
        BY <1>1, <2>1, <2>5, <3>2, LookupIsTheWinner
      <4> QED
        BY <2>1, <3>1, <4>1 DEF Table
  <2>6. ASSUME Wins(static_map', n + 1, ip), Lookup(Table, ip).found
        PROVE  Lookup(Table, ip).route.prefix.len < r.prefix.len
    <3>1. PICK i : /\ Wins(static_map, i, ip)
                   /\ Lookup(Table, ip) = [found |-> TRUE, route |-> static_map[i]]
      BY <1>1, <2>6, LookupFindsTheWinner DEF Table, NoRoute
    <3>2. i \in DOMAIN static_map /\ i \in Hits(static_map', ip)
      BY <2>2, <3>1 DEF Wins, Hits
    <3>3. i \in Nat /\ i <= n /\ i # n + 1
      BY <2>1, <3>2
    <3>4. SortsBefore(static_map', n + 1, i)
      BY <2>6, <3>2, <3>3 DEF Wins
    <3>5. static_map[i].prefix.len \in Nat /\ r.prefix.len \in Nat
      <4>1. n + 1 \in DOMAIN static_map'
        BY <2>1
      <4> QED
        BY <1>1, <2>1, <3>2, <4>1, EntryType
    <3> QED
      BY <2>1, <3>1, <3>2, <3>3, <3>4, <3>5 DEF SortsBefore
  <2>7. ASSUME Wins(static_map', n + 1, ip)
        PROVE  /\ Contains(r.prefix, ip)
               /\ Lookup(TableOf(static_map'), ip) = [found |-> TRUE, route |-> r]
    BY <2>1, <2>7, LookupIsTheWinner DEF Wins, Hits
  <2>8. Hits(static_map', ip) = {} \/ \E w : Wins(static_map', w, ip)
    BY <2>1, LookupFindsTheWinner
  <2> QED
    BY <2>4, <2>5, <2>6, <2>7, <2>8
<1>2. static_map \in Configuration /\ [Next]_vars
        => [Local(static_map'[Len(static_map')], Table, TableOf(static_map'))]_vars
  BY <1>1 DEF Next, AddRoute
<1>3. Spec => [](static_map \in Configuration)
  BY ConfigurationStep, PTL DEF Spec
<1> QED
  BY <1>2, <1>3, PTL DEF Spec, AddingARouteIsLocal
=============================================================================
