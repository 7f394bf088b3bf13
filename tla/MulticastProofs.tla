---------------------------- MODULE MulticastProofs ----------------------------
(***************************************************************************)
(* create_multicast_socket_on_device, for addresses of any width, any      *)
(* routes and any failures.                                                *)
(***************************************************************************)
EXTENDS Multicast, TLAPS

\* The groups that FindGroups finds.
Found == IF multicast_ip = None THEN parse_ip_route_for_device(routes) ELSE {multicast_ip}

\* A family the function is through with.
Passed(f) == pc = "done" \/ (f = "v4" /\ family = "v6")

\* The wanted groups of a family.
Of(f) == {g \in Wanted : g.family = f}

Types ==
    /\ routes \subseteq Route /\ multicast_ip \in Address \cup {None}
    /\ pc \in {"groups", "bind", "join", "done"} /\ family \in Family
    /\ groups \in [Family -> SUBSET Address]
    /\ sockets \subseteq Family /\ unbound \subseteq Family

\* What is known of family f once the groups have been found.  A family that was
\* bound is in the result and has no groups left; one that was not keeps its
\* groups; one whose turn has not come has all of them.
FamilyInv(f) ==
    /\ groups[f] \subseteq Of(f)
    /\ \A g \in Of(f) : g \in groups[f] \/ g \in joined \cup refused
    /\ Passed(f) => /\ f \notin unbound => groups[f] = {}
                    /\ f \in sockets <=> f \notin unbound /\ Of(f) # {}
    /\ ~Passed(f) => f \notin sockets /\ f \notin unbound
    /\ ~Passed(f) /\ (f # family \/ pc # "join") => groups[f] = Of(f)
    /\ ~Passed(f) /\ f = family /\ pc = "join" => Of(f) # {}

MulticastInv ==
    /\ Types
    /\ joined \cup refused \subseteq Wanted
    /\ pc = "groups" => /\ sockets = {} /\ unbound = {} /\ joined = {} /\ refused = {}
                        /\ family = "v4"
    /\ pc # "groups" => \A f \in Family : FamilyInv(f)

-----------------------------------------------------------------------------
(* Addresses and routes *)

\* An address is its family and its bits.
LEMMA AddressFacts ==
    ASSUME NEW a
    PROVE  a \in Address <=>
             /\ a = [family |-> a.family, bits |-> a.bits]
             /\ a.family \in Family
             /\ a.bits \in [1 .. Width[a.family] -> {0, 1}]
<1>1. ASSUME a \in Address
      PROVE  /\ a = [family |-> a.family, bits |-> a.bits]
             /\ a.family \in Family
             /\ a.bits \in [1 .. Width[a.family] -> {0, 1}]
  <2>1. PICK f \in Family : a \in [family : {f}, bits : [1 .. Width[f] -> {0, 1}]]
    BY <1>1 DEF Address
  <2> QED BY <2>1
<1>2. ASSUME a = [family |-> a.family, bits |-> a.bits], a.family \in Family,
             a.bits \in [1 .. Width[a.family] -> {0, 1}]
      PROVE  a \in Address
  <2>1. a \in [family : {a.family}, bits : [1 .. Width[a.family] -> {0, 1}]]
    BY <1>2
  <2> QED BY <1>2, <2>1 DEF Address
<1> QED BY <1>1, <1>2

\* Two addresses of a width that agree in every bit are the same.
LEMMA SameBits ==
    ASSUME NEW n, NEW b, NEW c, b \in [1 .. n -> {0, 1}], c \in [1 .. n -> {0, 1}],
           \A i \in 1 .. n : b[i] = c[i]
    PROVE  b = c
<1>1. ASSUME NEW S, NEW x \in [S -> {0, 1}], NEW y \in [S -> {0, 1}],
             \A i \in S : x[i] = y[i]
      PROVE  x = y
  BY <1>1
<1> QED BY <1>1, Zenon

\* A route has an address, and a mask no longer than it.
LEMMA RouteFacts ==
    ASSUME NEW r \in Route
    PROVE  /\ r.ip \in Address /\ Width[r.ip.family] \in Nat
           /\ r.mask = None \/ r.mask \in 0 .. Width[r.ip.family]
<1>1. PICK a \in Address : r \in [ip : {a}, mask : 0 .. Width[a.family] \cup {None}]
  BY DEF Route
<1>2. r.ip = a /\ r.mask \in 0 .. Width[a.family] \cup {None}
  BY <1>1
<1>3. Width[a.family] \in Nat
  BY AddressFacts, MulticastAssumption
<1> QED BY <1>2, <1>3

\* A route leads to one address exactly when it has no mask or a mask of full
\* length: with a shorter one, flipping the last bit gives a second address.
LEMMA OneAddress ==
    ASSUME NEW r \in Route
    PROVE  /\ r.mask = None \/ is_exact(r) => Covered(r) = {r.ip}
           /\ \A g : Covered(r) = {g} => g = r.ip /\ (r.mask = None \/ is_exact(r))
<1> DEFINE ip == r.ip
           w == Width[r.ip.family]
<1>1. ip \in Address /\ w \in Nat /\ (r.mask = None \/ r.mask \in 0 .. w)
  BY RouteFacts
<1>2. /\ ip = [family |-> ip.family, bits |-> ip.bits] /\ ip.family \in Family
      /\ ip.bits \in [1 .. w -> {0, 1}]
  BY <1>1, AddressFacts
<1>3. ip \in Covered(r)
  BY <1>1 DEF Covered
<1>4. CASE r.mask = None
  BY <1>4 DEF Covered
<1>5. CASE r.mask # None /\ is_exact(r)
  <2>1. ASSUME NEW a \in Covered(r) PROVE a = ip
    <3>1. a \in Address /\ a.family = ip.family /\ \A i \in 1 .. w : a.bits[i] = ip.bits[i]
      BY <1>5, <2>1 DEF Covered, is_exact
    <3>2. /\ a = [family |-> a.family, bits |-> a.bits]
          /\ a.bits \in [1 .. w -> {0, 1}]
      BY <3>1, AddressFacts
    <3>3. a.bits = ip.bits
      <4>1. a.bits \in [1 .. w -> {0, 1}] /\ ip.bits \in [1 .. w -> {0, 1}]
        BY <1>2, <3>2
      <4>2. \A i \in 1 .. w : a.bits[i] = ip.bits[i]
        BY <3>1
      <4> HIDE DEF w, ip
      <4> QED BY <4>1, <4>2, SameBits
    <3> QED BY <1>2, <3>1, <3>2, <3>3
  <2>2. Covered(r) = {ip}
    BY <1>3, <2>1
  <2> QED BY <1>5, <2>2
<1>6. CASE r.mask # None /\ ~is_exact(r)
  <2>1. r.mask \in 0 .. w /\ r.mask # w
    BY <1>1, <1>6 DEF is_exact
  <2> DEFINE b == [i \in 1 .. w |-> IF i = w THEN 1 - ip.bits[w] ELSE ip.bits[i]]
             a == [family |-> ip.family, bits |-> b]
  <2>2. w \in 1 .. w
    BY <1>1, <2>1
  <2>3. b \in [1 .. w -> {0, 1}] /\ b[w] # ip.bits[w]
    BY <1>2, <2>2
  <2>4. \A i \in 1 .. r.mask : b[i] = ip.bits[i]
    BY <1>1, <2>1
  <2>5. a.family = ip.family /\ a.bits = b
    OBVIOUS
  <2> HIDE DEF b
  <2>6. a \in Address /\ a # ip
    BY <1>2, <2>3, <2>5, AddressFacts
  <2>7. a \in Covered(r)
    BY <1>6, <2>4, <2>5, <2>6 DEF Covered
  <2>8. \A g : Covered(r) # {g}
    BY <1>3, <2>6, <2>7
  <2> QED BY <1>6, <2>8
<1> QED BY <1>3, <1>4, <1>5, <1>6

\* The parser finds exactly the groups to which the device has a route each.
LEMMA FoundIsWanted == ASSUME Types PROVE Found = Wanted
<1>1. CASE multicast_ip # None
  BY <1>1 DEF Found, Wanted
<1>2. CASE multicast_ip = None
  <2>1. ASSUME NEW g
        PROVE  g \in parse_ip_route_for_device(routes)
                 <=> g \in Group /\ \E r \in routes : Covered(r) = {g}
    <3>1. ASSUME g \in parse_ip_route_for_device(routes)
          PROVE  g \in Group /\ \E r \in routes : Covered(r) = {g}
      <4>1. PICK r \in routes : g = r.ip /\ r.ip \in Group /\ (r.mask = None \/ is_exact(r))
        BY <3>1 DEF parse_ip_route_for_device
      <4>2. r \in Route
        BY DEF Types
      <4> QED BY <4>1, <4>2, OneAddress
    <3>2. ASSUME g \in Group, NEW r \in routes, Covered(r) = {g}
          PROVE  g \in parse_ip_route_for_device(routes)
      <4>1. r \in Route
        BY DEF Types
      <4>2. g = r.ip /\ (r.mask = None \/ is_exact(r))
        BY <3>2, <4>1, OneAddress
      <4> QED BY <3>2, <4>2 DEF parse_ip_route_for_device
    <3> QED BY <3>1, <3>2
  <2> QED BY <1>2, <2>1 DEF Found, Wanted
<1> QED BY <1>1, <1>2

\* Wanted groups are addresses.
LEMMA WantedAddresses ==
    ASSUME Types PROVE Wanted \subseteq Address /\ \A g \in Wanted : g.family \in Family
<1>1. Wanted \subseteq Address
  BY MulticastAssumption DEF Wanted, Types
<1> QED BY <1>1, AddressFacts

-----------------------------------------------------------------------------
(* The invariant *)

\* Init establishes the invariant: nothing is joined, bound or refused yet.
LEMMA InvInit == ASSUME Init PROVE MulticastInv
<1>1. routes \subseteq Route
  BY DEF Init
<1>2. groups \in [Family -> SUBSET Address]
  BY DEF Init
<1>3. Types
  BY <1>1, <1>2 DEF Init, Types, Family
<1> QED BY <1>3 DEF Init, MulticastInv

\* What is wanted depends on the routes and the command line only.
LEMMA WantedStays ==
    ASSUME UNCHANGED <<routes, multicast_ip>>
    PROVE  Wanted' = Wanted /\ \A f \in Family : Of(f)' = Of(f)
BY DEF Wanted, Of, Covered

\* Finding the groups: each family gets its wanted groups.
LEMMA FindGroupsStep == ASSUME MulticastInv, FindGroups PROVE MulticastInv'
<1>1. Types /\ Found = Wanted
  BY FoundIsWanted DEF MulticastInv
<1>2. UNCHANGED <<routes, multicast_ip, family, sockets, joined, refused, unbound>>
  BY DEF FindGroups
<1>3. /\ pc = "groups" /\ pc' = IF Wanted = {} THEN "done" ELSE "bind"
      /\ groups' = [f \in Family |-> Of(f)]
  BY <1>1 DEF FindGroups, Found, Of
<1>4. family = "v4" /\ sockets = {} /\ unbound = {} /\ joined = {} /\ refused = {}
  BY <1>3 DEF MulticastInv
<1>5. \A f \in Family : Of(f) \in SUBSET Address
  BY <1>1, WantedAddresses DEF Of
<1>6. Types'
  BY <1>1, <1>2, <1>3, <1>5 DEF Types
<1>7. ASSUME NEW f \in Family PROVE FamilyInv(f)'
  <2>1. Of(f)' = Of(f) /\ groups'[f] = Of(f) /\ (Wanted = {} => Of(f) = {})
    BY <1>2, <1>3, WantedStays DEF Of
  <2>2. Passed(f)' <=> Wanted = {}
    BY <1>2, <1>3, <1>4 DEF Passed
  <2> QED BY <1>2, <1>3, <1>4, <2>1, <2>2 DEF FamilyInv
<1> QED BY <1>2, <1>3, <1>4, <1>6, <1>7 DEF MulticastInv

\* A step that is through with the family of the moment.  It leaves the groups,
\* the joined and the refused; the family is in the result, or unbound, or had
\* no groups.
LEMMA NextFamilyStep ==
    ASSUME MulticastInv, pc \in {"bind", "join"}, NextFamily,
           UNCHANGED <<routes, multicast_ip, groups, joined, refused>>,
           \/ /\ pc = "bind" /\ groups[family] = {} /\ UNCHANGED <<sockets, unbound>>
           \/ /\ pc = "bind" /\ groups[family] # {}
              /\ unbound' = unbound \cup {family} /\ sockets' = sockets
           \/ /\ pc = "join" /\ groups[family] = {}
              /\ sockets' = sockets \cup {family} /\ unbound' = unbound
    PROVE  MulticastInv'
<1>1. Types /\ \A f \in Family : FamilyInv(f)
  BY DEF MulticastInv
<1>2. /\ pc' \in {"bind", "done"} /\ family' = "v6" /\ family \in Family
      /\ pc' = "done" <=> family = "v6"
  BY <1>1 DEF NextFamily, Types, Family
<1>3. sockets' \subseteq Family /\ unbound' \subseteq Family
  BY <1>1, <1>2 DEF Types
<1>4. Types'
  BY <1>1, <1>2, <1>3 DEF Types, Family
<1>5. Wanted' = Wanted /\ \A f \in Family : Of(f)' = Of(f)
  BY WantedStays
<1>6. \A f \in Family : Passed(f)' <=> Passed(f) \/ f = family
  BY <1>2 DEF Passed, Family
<1>7. ~Passed(family)
  BY <1>2 DEF Passed
<1>8. ASSUME NEW f \in Family, f # family PROVE FamilyInv(f)'
  <2>1. FamilyInv(f) /\ Of(f)' = Of(f) /\ (Passed(f)' <=> Passed(f))
    BY <1>1, <1>5, <1>6, <1>8
  <2>2. (f \in sockets' <=> f \in sockets) /\ (f \in unbound' <=> f \in unbound)
    BY <1>8
  <2> QED BY <1>2, <1>8, <2>1, <2>2 DEF FamilyInv
<1>9. ASSUME NEW f \in Family, f = family PROVE FamilyInv(f)'
  <2>1. FamilyInv(f) /\ Of(f)' = Of(f) /\ Passed(f)' /\ ~Passed(f)
    BY <1>1, <1>5, <1>6, <1>7, <1>9
  <2>2. f \notin unbound' => groups[f] = {}
    BY <1>9
  <2>3. f \in sockets' <=> f \notin unbound' /\ Of(f) # {}
    BY <1>9, <2>1 DEF FamilyInv
  <2> QED BY <2>1, <2>2, <2>3 DEF FamilyInv
<1> QED BY <1>2, <1>4, <1>5, <1>8, <1>9 DEF MulticastInv

\* A step within a family: the bind that succeeds, and each join or refusal,
\* which moves one group from the list to the joined or refused.
LEMMA SameFamilyStep ==
    ASSUME MulticastInv,
           UNCHANGED <<routes, multicast_ip, family, sockets, unbound>>,
           pc' = "join",
           \/ /\ pc = "bind" /\ groups[family] # {}
              /\ UNCHANGED <<groups, joined, refused>>
           \/ \E g \in groups[family] :
                /\ pc = "join" /\ groups' = [groups EXCEPT ![family] = @ \ {g}]
                /\ \/ joined' = joined \cup {g} /\ refused' = refused
                   \/ refused' = refused \cup {g} /\ joined' = joined
    PROVE  MulticastInv'
<1>1. Types /\ pc # "groups" /\ pc # "done" /\ \A f \in Family : FamilyInv(f)
  BY DEF MulticastInv
<1>2. family \in Family
  BY <1>1 DEF Types
<1>3. Wanted' = Wanted /\ \A f \in Family : Of(f)' = Of(f)
  BY WantedStays
<1>4. \A f \in Family : Passed(f)' <=> Passed(f)
  BY <1>1 DEF Passed
<1>5. groups[family] \subseteq Of(family) /\ ~Passed(family)
  BY <1>1, <1>2 DEF FamilyInv, Passed
<1>6. CASE UNCHANGED <<groups, joined, refused>> /\ groups[family] # {} /\ pc = "bind"
  <2>1. Types'
    BY <1>1, <1>6 DEF Types
  <2>2. ASSUME NEW f \in Family PROVE FamilyInv(f)'
    <3>1. FamilyInv(f) /\ Of(f)' = Of(f) /\ (Passed(f)' <=> Passed(f))
      BY <1>1, <1>3, <1>4
    <3> QED BY <1>5, <1>6, <3>1 DEF FamilyInv
  <2> QED BY <1>3, <1>6, <2>1, <2>2 DEF MulticastInv
<1>7. ASSUME NEW g \in groups[family], pc = "join",
             groups' = [groups EXCEPT ![family] = @ \ {g}],
             joined' \cup refused' = joined \cup refused \cup {g}
      PROVE  MulticastInv'
  <2>1. groups \in [Family -> SUBSET Address]
    BY <1>1 DEF Types
  <2>2. /\ groups' \in [Family -> SUBSET Address] /\ groups'[family] = groups[family] \ {g}
        /\ \A f \in Family : f # family => groups'[f] = groups[f]
    BY <1>2, <1>7, <2>1
  <2>3. Types'
    BY <1>1, <2>2 DEF Types
  <2>4. ASSUME NEW f \in Family PROVE FamilyInv(f)'
    <3>1. FamilyInv(f) /\ Of(f)' = Of(f) /\ (Passed(f)' <=> Passed(f))
      BY <1>1, <1>3, <1>4
    <3>2. CASE f = family
      BY <1>5, <1>7, <2>2, <3>1, <3>2 DEF FamilyInv
    <3>3. CASE f # family
      BY <1>7, <2>2, <3>1, <3>3 DEF FamilyInv
    <3> QED BY <3>2, <3>3
  <2>5. g \in Wanted
    BY <1>5 DEF Of
  <2>6. (joined \cup refused \subseteq Wanted)'
    BY <1>3, <1>7, <2>5 DEF MulticastInv
  <2> QED BY <2>3, <2>4, <2>6 DEF MulticastInv
<1> QED BY <1>6, <1>7

\* Every step keeps the invariant: a family is bound, joined and passed, or
\* skipped, without touching the other.
LEMMA InvNext == ASSUME MulticastInv, [Next]_vars PROVE MulticastInv'
<1>1. CASE FindGroups
  BY <1>1, FindGroupsStep
<1>2. CASE SkipFamily
  BY <1>2, NextFamilyStep DEF SkipFamily
<1>3. CASE BindFails
  BY <1>3, NextFamilyStep DEF BindFails
<1>4. CASE BindOk
  BY <1>4, SameFamilyStep DEF BindOk
<1>5. CASE PushSocket
  BY <1>5, NextFamilyStep DEF PushSocket
<1>6. ASSUME NEW g \in groups[family], JoinOk(g) \/ JoinErr(g) PROVE MulticastInv'
  BY <1>6, SameFamilyStep DEF JoinOk, JoinErr
<1>7. CASE UNCHANGED vars
  <2>1. UNCHANGED <<routes, multicast_ip, pc, family, groups, sockets, joined, refused, unbound>>
    BY <1>7 DEF vars
  <2> QED BY <2>1 DEF MulticastInv, Types, FamilyInv, Passed, Of, Wanted, Covered
<1> QED BY <1>1, <1>2, <1>3, <1>4, <1>5, <1>6, <1>7 DEF Next

\* The invariant holds in every state of the function.
LEMMA InvAlways == Spec => []MulticastInv
BY InvInit, InvNext, PTL DEF Spec

-----------------------------------------------------------------------------
(* Theorems *)

\* For every routing table and every pattern of failures, and however long
\* addresses are: create_multicast_socket_on_device joins no group but the one
\* asked for or those to which the device has a route each.
THEOREM JoinsOnlyRoutedGroups == Spec => []OnlyRoutedGroups
<1>1. MulticastInv => OnlyRoutedGroups
  BY DEF MulticastInv, OnlyRoutedGroups
<1> QED BY <1>1, InvAlways, PTL

\* At its end, what is missing is what failed: no refused group or unbound
\* family costs another group or the other family its listener.
THEOREM FailuresStayLocal == Spec => []FailuresAreLocal
<1>1. ASSUME MulticastInv, pc = "done"
      PROVE  /\ \A g \in Wanted : g \in joined \cup refused \/ g.family \in unbound
             /\ sockets = {g.family : g \in Wanted} \ unbound
  <2>1. Types /\ \A f \in Family : FamilyInv(f) /\ Passed(f)
    BY <1>1 DEF MulticastInv, Passed
  <2>2. ASSUME NEW g \in Wanted PROVE g \in joined \cup refused \/ g.family \in unbound
    <3>1. g.family \in Family
      BY <2>1, WantedAddresses
    <3>2. g \in Of(g.family)
      BY DEF Of
    <3> QED BY <2>1, <3>1, <3>2 DEF FamilyInv
  <2>3. \A f \in Family : f \in sockets <=> f \notin unbound /\ Of(f) # {}
    BY <2>1 DEF FamilyInv
  <2>4. \A f : f \in {g.family : g \in Wanted} <=> f \in Family /\ Of(f) # {}
    BY <2>1, WantedAddresses DEF Of
  <2>5. sockets \subseteq Family
    BY <2>1 DEF Types
  <2> QED BY <2>2, <2>3, <2>4, <2>5
<1>2. MulticastInv => FailuresAreLocal
  BY <1>1 DEF FailuresAreLocal
<1> QED BY <1>2, InvAlways, PTL
=============================================================================
