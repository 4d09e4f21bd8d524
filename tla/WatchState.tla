----------------------------- MODULE WatchState -----------------------------
(***************************************************************************)
(* What a node's controller knows of the cluster and what it wants in the  *)
(* dataplane's maps: WatchState of controller/src/watch.rs and the pure    *)
(* functions of controller/src/reconcile.rs.  h is a WatchState: the       *)
(* Service (one LoadBalancer with one port), its EndpointSlices, the       *)
(* addresses and the names of the Nodes, and the LISTs that have           *)
(* completed.  Objects are what the parsers take out of the JSON.          *)
(***************************************************************************)
EXTENDS Naturals, Sequences, FiniteSets

CONSTANTS
    Nodes,       \* node names
    SliceNames,  \* EndpointSlices of the Service
    Ips,         \* addresses of nodes and pods
    V6,          \* those of the IPv6 family
    IpRank,      \* IpRank[ip]: its place in the numeric order
    PodCidr,     \* addresses inside --pod-cidr
    NodeIp,      \* --node-ip
    Nothing      \* absent

ASSUME WatchAssumption ==
    /\ Nothing \notin Ips \cup Nodes
    /\ V6 \subseteq Ips /\ PodCidr \subseteq Ips /\ NodeIp \in Ips
    /\ IpRank \in [Ips -> Nat]
    /\ \A ip, other \in Ips : IpRank[ip] = IpRank[other] => ip = other

Resources == {"services", "slices", "nodes"}
Families  == {4, 6}
Family(ip) == IF ip \in V6 THEN 6 ELSE 4

\* A Service and an endpoint of a slice (an address is in one slice).
Services  == [type : {"LoadBalancer", "other"}, families : SUBSET Families,
              external : {"Cluster", "Local"}, distribution : {"none", "PreferClose"}]
Endpoints == [ip : Ips, uid : STRING, node : Nodes, ready : BOOLEAN,
              serving : BOOLEAN, terminating : BOOLEAN]

\* What parse_endpoint_slice makes of a slice: whether it carries the
\* Service's port, and its endpoints.
Slices == [port : BOOLEAN, endpoints : SUBSET Endpoints]

NoWatchState ==
    [service |-> Nothing, slices |-> [s \in SliceNames |-> Nothing],
     addrs |-> [n \in Nodes |-> Nothing], names |-> {}, listed |-> {}]

-----------------------------------------------------------------------------
(* Parsing.                                                                *)

\* parse_service: Nothing unless it is a LoadBalancer with a family.
ParseService(obj) ==
    IF obj # Nothing /\ obj.type = "LoadBalancer" /\ obj.families # {}
    THEN obj ELSE Nothing

\* EndpointPolicy::from_spec
Policy(svc) ==
    CASE svc.external = "Local" -> "OnlyLocal"
      [] svc.external # "Local" /\ svc.distribution = "PreferClose" -> "PreferLocal"
      [] OTHER -> "Uniform"

\* prefer_per_family
PreferPerFamily(preferred, fallback) ==
    preferred \cup
        {ip \in fallback : \A p \in preferred : Family(p) # Family(ip)}

\* parse_node_addrs: peers use InternalIPs, clients ExternalIPs.
ParseNodeAddrs(report) ==
    [underlay |-> PreferPerFamily(report.internal, report.external),
     fronts   |-> PreferPerFamily(report.external, report.internal)]

-----------------------------------------------------------------------------
(* Folding events and LISTs into the state.                                *)

\* apply_service_event
ApplyService(h, obj) == [h EXCEPT !.service = ParseService(obj)]

\* apply_endpoint_slice_event
ApplySlice(h, s, obj) == [h EXCEPT !.slices[s] = obj]

\* apply_node_event: a Node that reports no address keeps those it had.
ApplyNode(h, n, obj) ==
    IF obj = Nothing
    THEN [h EXCEPT !.addrs[n] = Nothing, !.names = @ \ {n}]
    ELSE LET addrs == ParseNodeAddrs(obj) IN
         [h EXCEPT !.names = @ \cup {n},
                   !.addrs[n] = IF addrs.underlay = {} THEN @ ELSE addrs]

\* own_node_addrs: the Nodes that report this node's address.
OwnNodes(addrs) ==
    {n \in Nodes : addrs[n] # Nothing /\ NodeIp \in addrs[n].underlay \cup addrs[n].fronts}

\* replace_services: an empty LIST is refused while a Service is held.
RefusesServices(h, empty) == empty /\ h.service # Nothing
ReplaceServices(h, obj) ==
    [ApplyService(h, obj) EXCEPT !.listed = @ \cup {"services"}]

\* replace_endpoint_slices: refused when no listed slice is of a tracked
\* Service and some held one is.
TrackedSlices(h, slices) ==
    {s \in SliceNames : h.service # Nothing /\ slices[s] # Nothing}
RefusesSlices(h, slices) ==
    TrackedSlices(h, h.slices) # {} /\ TrackedSlices(h, slices) = {}
\* Faulty: the latch is not set.
ReplaceSlicesOnly(h, slices) == [h EXCEPT !.slices = slices]

ReplaceSlices(h, slices) ==
    [h EXCEPT !.slices = slices, !.listed = @ \cup {"slices"}]

\* replace_nodes: refused when this node is not in the LIST but nodes are held.
RelistedNode(h, nodes, n) ==
    IF nodes[n] = Nothing THEN Nothing
    ELSE ApplyNode([h EXCEPT !.names = {}], n, nodes[n]).addrs[n]
RelistedNodes(h, nodes) == [n \in Nodes |-> RelistedNode(h, nodes, n)]
RefusesNodes(h, nodes) ==
    OwnNodes(RelistedNodes(h, nodes)) = {} /\ h.names # {}
ReplaceNodes(h, nodes) ==
    [h EXCEPT !.addrs = RelistedNodes(h, nodes),
              !.names = {n \in Nodes : nodes[n] # Nothing},
              !.listed = @ \cup {"nodes"}]

-----------------------------------------------------------------------------
(* The desired entries (WatchState::desired).                              *)

\* fully_listed, which is also fronts_known.
FullyListed(h) == h.listed = Resources

\* pod_targets_known
PodTargetsKnown(h) == FullyListed(h) /\ OwnNodes(h.addrs) # {}

\* The slices of the Service; none while it is not tracked.
OwnSlices(h) ==
    IF h.service = Nothing THEN {}
    ELSE {h.slices[s] : s \in {t \in SliceNames : h.slices[t] # Nothing}}

AddrsOf(h, e) == h.addrs[e.node].underlay \cup h.addrs[e.node].fronts

\* Endpoints whose Node has been resolved.
Resolved(h) ==
    {e \in UNION {sl.endpoints : sl \in OwnSlices(h)} : h.addrs[e.node] # Nothing}

\* PodCidrs::contains
InPodCidr(ip) == ip \in PodCidr

\* is_local, is_admitted
IsLocal(h, e) == NodeIp \in AddrsOf(h, e)
IsAdmitted(h, e) == InPodCidr(e.ip) \/ e.ip \in AddrsOf(h, e)

\* pod_targets_for_node
PodTargets(h) == {e.ip : e \in {x \in Resolved(h) : IsLocal(h, x) /\ IsAdmitted(h, x)}}

\* Faulty: a pod on a Node without addresses is taken for departed.
ResolvedEndpoints(h) == Resolved(h)

\* cluster_backends: every pod address of a slice whose Node is not known to
\* be gone, with the pod's uid ("none" without a targetRef).
TrackedEndpoints(h) ==
    {e \in UNION {sl.endpoints : sl \in OwnSlices(h)} :
        "nodes" \in h.listed => e.node \in h.names}
ClusterBackends(h) ==
    [ip \in Ips |->
        LET uids == {e.uid : e \in {x \in TrackedEndpoints(h) : x.ip = ip}} IN
        IF uids = {} THEN Nothing
        ELSE IF uids = {"none"} THEN "none"
        ELSE CHOOSE u \in uids : u # "none"]

\* node_allow
NodeAllow(h) ==
    UNION {h.addrs[n].underlay : n \in {m \in Nodes : h.addrs[m] # Nothing}}

\* The addresses clients reach nodes at, in the Service's families.
FrontIps(h) ==
    {ip \in UNION {h.addrs[n].fronts : n \in {m \in Nodes : h.addrs[m] # Nothing}} :
        Family(ip) \in h.service.families}

\* pick_underlay_ip: the peer's address of this node's family, else any.
PickUnderlay(h, e) ==
    LET peer == h.addrs[e.node].underlay
        same == {ip \in peer : Family(ip) = Family(NodeIp)} IN
    CHOOSE ip \in IF same = {} THEN peer ELSE same : TRUE

Ready(e) == e.ready /\ ~e.terminating

\* local_usable_endpoints
LocalUsable(h, candidates) ==
    LET local == {e \in candidates : IsLocal(h, e)}
        ready == {e \in local : Ready(e)} IN
    IF ready # {} THEN ready ELSE {e \in local : e.serving /\ e.terminating}

\* eligible_endpoints
Eligible(h, candidates) ==
    LET local == LocalUsable(h, candidates) IN
    IF Policy(h.service) = "OnlyLocal" /\ local # {}
    THEN local ELSE {e \in candidates : Ready(e)}

\* What the slots are sorted by: the pod's address, after whether it is local
\* under PreferLocal.  Endpoints that two slices list alike share a slot here.
SlotKey(h, e) == <<Policy(h.service) = "PreferLocal" /\ ~IsLocal(h, e), IpRank[e.ip]>>
SlotBefore(key, other) ==
    IF key[1] = other[1] THEN key[2] < other[2] ELSE other[1]
SlotOf(h, eps, e) ==
    1 + Cardinality({key \in {SlotKey(h, f) : f \in eps} : SlotBefore(key, SlotKey(h, e))})

\* The slices that carry the Service's port.
SlicePorts(h) == {sl \in OwnSlices(h) : sl.port}

\* Endpoints that serve the port in the front's family.
Candidates(h, front) ==
    {e \in Resolved(h) :
        /\ Family(e.ip) = Family(front)
        /\ \E sl \in SlicePorts(h) : e \in sl.endpoints}

\* resolve_target_port
PortResolved(h) == SlicePorts(h) # {}

\* reconcile_service: each front with its slots; a front without endpoints
\* stays, empty.
DesiredFront(h, front) ==
    LET eps == Eligible(h, Candidates(h, front))
        Slot(e) == [pod |-> e.ip, remote |-> PickUnderlay(h, e), local |-> IsLocal(h, e)] IN
    [slots |-> [i \in {SlotOf(h, eps, e) : e \in eps} |->
                  Slot(CHOOSE e \in eps : SlotOf(h, eps, e) = i)],
     preferLocal |-> Policy(h.service) # "Uniform"]

Fronts(h) ==
    LET owned == IF FullyListed(h) /\ h.service # Nothing /\ PortResolved(h)
                 THEN FrontIps(h) ELSE {} IN
    [ip \in Ips |-> IF ip \in owned THEN DesiredFront(h, ip) ELSE Nothing]

-----------------------------------------------------------------------------
(* The addresses for status.loadBalancer.ingress.                          *)

\* publishes_ingress: of the endpoints in the family some are usable here, or
\* none anywhere.  An endpoint on an unresolved Node is not local.
Usable(e) == Ready(e) \/ (e.serving /\ e.terminating)
PublishesIngress(h, family) ==
    LET same == {e \in UNION {sl.endpoints : sl \in OwnSlices(h)} : Family(e.ip) = family}
    IN \/ Policy(h.service) # "OnlyLocal"
       \/ \A e \in same : ~Usable(e)
       \/ LocalUsable(h, same \cap Resolved(h)) # {}

\* ips_to_publish, once this node's own Node is resolved.
IpsToPublish(h) ==
    IF h.service = Nothing THEN {}
    ELSE {ip \in UNION {h.addrs[n].fronts : n \in OwnNodes(h.addrs)} :
             Family(ip) \in h.service.families /\ PublishesIngress(h, Family(ip))}
=============================================================================
