------------------------------- MODULE Multicast -------------------------------
(***************************************************************************)
(* The multicast listeners (proxy/src/multicast_config.rs): which groups   *)
(* create_multicast_socket_on_device finds, and how it goes on when a bind *)
(* or a join fails.  Addresses have fewer bits than in the code.  The list *)
(* of groups is sorted and deduplicated there, so it is a set here.        *)
(***************************************************************************)
EXTENDS Integers, FiniteSets

CONSTANTS
    Width,        \* family -> bits of an address: 32 for "v4", 128 for "v6"
    Group,        \* the multicast addresses
    MaxRoutes,    \* bound on the routes of the device
    None          \* no mask in a route; no address on the command line

Family == {"v4", "v6"}
Address == UNION {[family : {f}, bits : [1 .. Width[f] -> {0, 1}]] : f \in Family}

\* A row of `ip route`; masks that do not parse, and "default", are dropped by
\* the parser and not among them.
Route == UNION {[ip : {a}, mask : 0 .. Width[a.family] \cup {None}] : a \in Address}

ASSUME MulticastAssumption ==
    /\ Width \in [Family -> Nat]
    /\ Group \subseteq Address
    /\ MaxRoutes \in Nat

VARIABLES
    routes,           \* of the device; {} also when the command fails
    multicast_ip,     \* the address given on the command line, or None
    pc,               \* "groups", then a family being "bind" or "join", "done"
    family,
    groups,           \* family -> groups still to be joined
    sockets,          \* families whose socket is in the result
    joined, refused, unbound   \* groups joined, refused; families not bound

vars == <<routes, multicast_ip, pc, family, groups, sockets, joined, refused, unbound>>

Init ==
    /\ routes \in {R \in SUBSET Route : Cardinality(R) <= MaxRoutes}
    /\ multicast_ip \in Address \cup {None}
    /\ pc = "groups" /\ family = "v4"
    /\ groups = [f \in Family |-> {}]
    /\ sockets = {} /\ joined = {} /\ refused = {} /\ unbound = {}

\* A faulty form of is_exact: the mask of an IPv4 host route for both families.
is_exact_v4(r) == r.mask = Width["v4"]

is_exact(r) == r.mask = Width[r.ip.family]

parse_ip_route_for_device(R) ==
    {r.ip : r \in {q \in R : q.ip \in Group /\ (q.mask = None \/ is_exact(q))}}

\* Without groups of either family the function returns None.
FindGroups ==
    /\ pc = "groups"
    /\ LET found == IF multicast_ip = None THEN parse_ip_route_for_device(routes)
                    ELSE {multicast_ip}
       IN  /\ groups' = [f \in Family |-> {g \in found : g.family = f}]
           /\ pc' = IF found = {} THEN "done" ELSE "bind"
    /\ UNCHANGED <<routes, multicast_ip, family, sockets, joined, refused, unbound>>

\* A faulty form of NextFamily: a failure of the first family ends the function.
NextFamily_Returns ==
    /\ pc' = IF family = "v4" /\ unbound' = {} THEN "bind" ELSE "done"
    /\ family' = "v6"

NextFamily ==
    /\ pc' = IF family = "v4" THEN "bind" ELSE "done"
    /\ family' = "v6"

SkipFamily ==
    /\ pc = "bind" /\ groups[family] = {}
    /\ UNCHANGED <<routes, multicast_ip, groups, sockets, joined, refused, unbound>>
    /\ NextFamily

BindFails ==
    /\ pc = "bind" /\ groups[family] # {}
    /\ unbound' = unbound \cup {family}
    /\ NextFamily
    /\ UNCHANGED <<routes, multicast_ip, groups, sockets, joined, refused>>

BindOk ==
    /\ pc = "bind" /\ groups[family] # {}
    /\ pc' = "join"
    /\ UNCHANGED <<routes, multicast_ip, family, groups, sockets, joined, refused, unbound>>

\* The system joins multicast groups only, and may refuse; the loop goes on.
JoinOk(g) ==
    /\ pc = "join" /\ g \in groups[family] \cap Group
    /\ joined' = joined \cup {g}
    /\ groups' = [groups EXCEPT ![family] = @ \ {g}]
    /\ UNCHANGED <<routes, multicast_ip, pc, family, sockets, refused, unbound>>

JoinErr(g) ==
    /\ pc = "join" /\ g \in groups[family]
    /\ refused' = refused \cup {g}
    /\ groups' = [groups EXCEPT ![family] = @ \ {g}]
    /\ UNCHANGED <<routes, multicast_ip, pc, family, sockets, joined, unbound>>

PushSocket ==
    /\ pc = "join" /\ groups[family] = {}
    /\ sockets' = sockets \cup {family}
    /\ UNCHANGED <<routes, multicast_ip, groups, joined, refused, unbound>>
    /\ NextFamily

Next ==
    \/ FindGroups \/ SkipFamily \/ BindFails \/ BindOk \/ PushSocket
    \/ \E g \in groups[family] : JoinOk(g) \/ JoinErr(g)

Spec == Init /\ [][Next]_vars

-----------------------------------------------------------------------------
(* Properties *)

\* The addresses a route leads to: those that agree in the bits of the mask.
Covered(r) ==
    IF r.mask = None THEN {r.ip}
    ELSE {a \in Address : /\ a.family = r.ip.family
                          /\ \A i \in 1 .. r.mask : a.bits[i] = r.ip.bits[i]}

\* "If `multicast_ip` is provided, join just that group, otherwise ... join all
\* multicast groups found": the groups to which the device has a route each.
Wanted ==
    IF multicast_ip # None THEN {multicast_ip}
    ELSE {g \in Group : \E r \in routes : Covered(r) = {g}}

\* No group is joined that was not asked for: a route to a range of addresses,
\* or to an address that is not multicast, makes the proxy join nothing.
OnlyRoutedGroups == joined \cup refused \subseteq Wanted

\* A failure costs only what failed: each wanted group was joined or refused,
\* or its family could not be bound; a family's socket is handed to the
\* forwarder exactly when it was bound for wanted groups.
FailuresAreLocal ==
    pc = "done" =>
        /\ \A g \in Wanted : g \in joined \cup refused \/ g.family \in unbound
        /\ sockets = {g.family : g \in Wanted} \ unbound
===============================================================================
