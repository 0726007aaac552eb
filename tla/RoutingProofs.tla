---------------------------- MODULE RoutingProofs ----------------------------
(***************************************************************************)
(* Facts about the operators of Routing that hold for every table, and     *)
(* that the proofs about the daemons rest on.                              *)
(***************************************************************************)
EXTENDS Routing, TLAPS, WellFoundedInduction

\* A nonempty set of indices has a least element: Iterator::find stops.
LEMMA LeastIndex ==
  ASSUME NEW S \in SUBSET Nat, S # {}
  PROVE  \E k \in S : \A j \in S : k <= j
<1> DEFINE less == {ss \in Nat \X Nat : ss[1] < ss[2]}
<1>0. IsWellFoundedOn(less, Nat)
  BY NatLessThanWellFounded DEF OpToRel
<1>1. PICK k \in S : \A j \in S : <<j, k>> \notin less
  <2> HIDE DEF less
  <2> QED BY <1>0, WFMin
<1>2. ASSUME NEW j \in S PROVE k <= j
  <2>1. k \in Nat /\ j \in Nat
    OBVIOUS
  <2>2. ~(j < k)
    BY <1>1, <2>1
  <2> QED
    BY <2>1, <2>2
<1> QED
  BY <1>2

\* What lookup returns is a route of the table that contains the address, and
\* no earlier one does.
LEMMA LookupIsFirstHit ==
  ASSUME NEW Via, NEW table \in RoutingTable(Via), NEW ip,
         Lookup(table, ip).found
  PROVE  \E k \in DOMAIN table.routes :
           /\ Lookup(table, ip).route = table.routes[k]
           /\ Contains(table.routes[k].prefix, ip)
           /\ \A j \in DOMAIN table.routes :
                Contains(table.routes[j].prefix, ip) => k <= j
<1> DEFINE hits == {k \in DOMAIN table.routes : Contains(table.routes[k].prefix, ip)}
           first == CHOOSE k \in hits : \A j \in hits : k <= j
<1>1. table.routes \in Seq(Route)
  BY DEF RoutingTable
<1>2. hits \in SUBSET Nat
  BY <1>1
<1>3. Lookup(table, ip) = IF hits = {} THEN NoRoute
                          ELSE [found |-> TRUE, route |-> table.routes[first]]
  BY DEF Lookup, FindRoute
<1>4. hits # {}
  BY <1>3 DEF NoRoute
<1>5. first \in hits /\ \A j \in hits : first <= j
  BY <1>2, <1>4, LeastIndex
<1>6. Lookup(table, ip).route = table.routes[first]
  BY <1>3, <1>4
<1> QED
  BY <1>5, <1>6

\* lookup answers with a configured route.
LEMMA LookupType ==
  ASSUME NEW Via, NEW table \in RoutingTable(Via), NEW ip,
         Lookup(table, ip).found
  PROVE  Lookup(table, ip).route \in Route
<1>1. table.routes \in Seq(Route)
  BY DEF RoutingTable
<1> QED
  BY <1>1, LookupIsFirstHit
=============================================================================
