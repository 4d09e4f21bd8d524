--------------------------- MODULE ReconcileProofs ---------------------------
(***************************************************************************)
(* Proofs about Reconcile, for any objects and any versions of them: its   *)
(* types, that what every version of the cluster calls for stays in the    *)
(* maps, that the sweep spares the pins of steady backends, and that a     *)
(* controller that has caught up leaves no pin of a departed pod.          *)
(***************************************************************************)
EXTENDS Reconcile, FiniteSetTheorems, SequenceTheorems, TLAPS

\* What the API server can say of any object, the events that carry it, and what
\* the process keeps of it: a Node's parsed addresses, a WatchState, a flow pin.
AllVersions == UNION {Versions[o] : o \in Objects}
Events == [name : Objects, object : AllVersions]
NodeAddrs == [underlay : SUBSET Ips, fronts : SUBSET Ips]
WatchStates ==
    [service : Services \cup {Nothing}, slices : [SliceNames -> Slices \cup {Nothing}],
     addrs : [Nodes -> NodeAddrs \cup {Nothing}], names : SUBSET Nodes,
     listed : SUBSET Resources]
Pins == [ip : Ips, owner : STRING \cup {Nothing}, foundBy : Finds]

\* The addresses a Node gets from a report when it had none.
ReportedAddrs(v) ==
    IF v = Nothing \/ ParseNodeAddrs(v).underlay = {} THEN Nothing ELSE ParseNodeAddrs(v)

\* And when it had the addresses old: a report without any leaves those.
Kept(old, v) ==
    IF v # Nothing /\ ParseNodeAddrs(v).underlay = {} THEN old ELSE ReportedAddrs(v)

\* Every part of h that has been listed is some version that the cluster has had.
FromSeen(h) ==
    /\ "services" \in h.listed => \E v \in seen[Svc] : h.service = ParseService(v)
    /\ "slices" \in h.listed => \A s \in SliceNames : h.slices[s] \in seen[s]
    /\ \A n \in Nodes :
         IF "nodes" \in h.listed
         THEN \E v \in seen[n] : h.addrs[n] = ReportedAddrs(v) /\ (n \in h.names <=> v # Nothing)
         ELSE h.addrs[n] = Nothing

\* The cluster, the versions it has had, and who last held each address.
EnvOK ==
    /\ cluster \in [Objects -> AllVersions]
    /\ seen \in [Objects -> SUBSET AllVersions]
    /\ \A o \in Objects : cluster[o] \in seen[o] /\ seen[o] \subseteq Versions[o]
    /\ holder \in [Ips -> STRING \cup {Nothing}]

\* Only a listed resource is watched; a log is what its watch has not acknowledged,
\* of its own objects, in versions the cluster has had.
LogOK ==
    /\ watching \subseteq held.listed
    /\ log \in [Resources -> Seq(Events)] /\ sent \in [Resources -> Nat]
    /\ \A r \in Resources : sent[r] <= Len(log[r])
    /\ \A r \in Resources \ watching : log[r] = <<>>
    /\ \A r \in Resources : \A i \in 1..Len(log[r]) :
         ResourceOf(log[r][i].name) = r /\ log[r][i].object \in seen[log[r][i].name]

\* What the process holds is made of versions the cluster has had.
HeldOK == held \in WatchStates /\ FromSeen(held)

\* The endpoints of a front are addresses.
PodsIn(f) == \A ip \in Ips : f[ip] # Nothing => \A i \in DOMAIN f[ip].slots : f[ip].slots[i].pod \in Ips

\* The maps, and the pin.
MapsOK ==
    /\ PodsIn(fronts)
    /\ podTargets \subseteq Ips /\ nodeAllow \subseteq Ips
    /\ pin = Nothing \/ pin \in Pins

\* A pass works on what is held: the rows it is to delete are in POD_TARGETS and no
\* pod that is held, and only a fully listed process has ever known the peers.
PassOK ==
    /\ pass = [at |-> pass.at, desired |-> pass.desired, pending |-> pass.pending,
               rows |-> pass.rows, readable |-> pass.readable, failed |-> pass.failed]
    /\ pass.at \in {"rest", "fronts", "allow", "targets"}
    /\ pass.pending \subseteq Ips /\ pass.rows \subseteq podTargets
    /\ pass.readable \in BOOLEAN /\ pass.failed \in BOOLEAN /\ retry \in BOOLEAN
    /\ orphansSwept \in BOOLEAN /\ everKnown \in BOOLEAN
    /\ pass.at # "rest" =>
         /\ pass.desired = Desired(held)
         /\ pass.rows \cap PodTargets(held) = {}
    /\ pass.at = "rest" => pass.rows = {}
    /\ everKnown => FullyListed(held)

\* The bounds on changes and mishaps.
BoundsOK == changes \in Nat /\ mishaps \in Nat /\ changes <= MaxChanges /\ mishaps <= MaxMishaps

\* The inductive invariant behind TypeOK.
TypeInv == EnvOK /\ LogOK /\ HeldOK /\ MapsOK /\ PassOK /\ BoundsOK

\* The steady entries are wanted by every combination of versions that the cluster
\* has had, which is what makes SteadyEntriesStay inductive.
SteadyWanted == \A c \in Mixes(seen) : steady \subseteq Wanted(c)
SteadyInv == SteadyWanted /\ SteadyEntriesStay

-----------------------------------------------------------------------------
\* The pods of the versions seen so far, and those of the cluster as it is.
SeenPods == EndpointsOf(UNION {seen[s] : s \in SliceNames})
CurrentPods == EndpointsOf({cluster[s] : s \in SliceNames})

\* No two current pods share an address.
OneHolder == \A e, f \in CurrentPods : e.ip = f.ip => e.uid = f.uid

\* The address belongs to that pod among these.
Has(pods, ip, uid) == \E e \in pods : e.ip = ip /\ e.uid = uid

\* The pods of any version; each has a targetRef with a uid, which reused_pod_ips
\* needs to tell a new holder of an address from the old one.
VersionPods == EndpointsOf(UNION {Versions[s] : s \in SliceNames})
Identified == \A e \in VersionPods : e.uid # "none"

\* h has the object o of a listed resource as x (of a Node, that it exists).
Agrees(h, o, x) ==
    /\ o = Svc => h.service = ParseService(x)
    /\ o \in SliceNames => h.slices[o] = x
    /\ o \in Nodes => (o \in h.names <=> x # Nothing)

\* The last event about o in the log l, if any, is x; and after the first s
\* events there is none about o.
LastIs(l, o, x) ==
    \A i \in 1..Len(l) :
        l[i].name = o /\ (\A j \in (i + 1)..Len(l) : l[j].name # o) => l[i].object = x

\* No event of l after the first s is about o.
NoneAfter(l, s, o) == \A i \in (s + 1)..Len(l) : l[i].name # o

\* A watched object is held as it is in the cluster unless an event about it
\* is to come, and the last such event is of its present version.
Synced(o) ==
    ResourceOf(o) \in watching =>
        /\ LastIs(log[ResourceOf(o)], o, cluster[o])
        /\ NoneAfter(log[ResourceOf(o)], sent[ResourceOf(o)], o) => Agrees(held, o, cluster[o])
SyncInv == \A o \in Objects : Synced(o)

\* The process is bound to try a pass again.
Owes == IF pass.at = "rest" THEN retry ELSE pass.failed

\* The known backends were pods; once everything is listed they are the backends
\* held, unless a pass is owed.
KnownInv ==
    /\ known \in [Ips -> STRING \cup {Nothing}]
    /\ \A ip \in Ips : known[ip] = Nothing \/ Has(SeenPods, ip, known[ip])
    /\ PodTargetsKnown(held) => Owes \/ known = ClusterBackends(held)

\* A front of f leads to the pod.
Leads(f, ip, pod) == f[ip] # Nothing /\ \E i \in DOMAIN f[ip].slots : f[ip].slots[i].pod = pod

\* Every pod that a flow can be pinned to has had an owner, and every pin has.
OwnerInv ==
    /\ \A e \in SeenPods : holder[e.ip] # Nothing
    /\ \A ip \in Ips : \A pod \in Ips : Leads(fronts, ip, pod) => holder[pod] # Nothing
    /\ pin # Nothing => pin.owner # Nothing

\* A current pod is the last holder of its address.
HolderInv == \A e \in CurrentPods : holder[e.ip] = e.uid

\* A pin found by its uid has its own owner behind the known address, or one that
\* has left; and after the walk the address of an older pin is known.
PinInv ==
    pin # Nothing =>
        /\ pin.foundBy = "uid" =>
              /\ known[pin.ip] # Nothing
              /\ known[pin.ip] = pin.owner \/ ~Has(CurrentPods, pin.ip, known[pin.ip])
        /\ pin.foundBy = "address" /\ orphansSwept => known[pin.ip] # Nothing

\* The Node reports --node-ip in some version; no two Nodes do; a pod stays on its
\* Node; and whether a pod outside --pod-cidr has an address of its Node, as one on
\* the host network does, is the same in all reports of that Node (is_admitted).
ReportsNodeIp(n) == \E v \in Versions[n] : v # Nothing /\ NodeIp \in v.internal \cup v.external
OneOwnNode == \A n, m \in Nodes : ReportsNodeIp(n) /\ ReportsNodeIp(m) => n = m
PodsStayPut == \A e, f \in VersionPods : e.ip = f.ip /\ e.uid = f.uid => e.node = f.node
Reports(n) == {v.internal \cup v.external : v \in Versions[n] \ {Nothing}} \ {{}}
AdmissionSteady ==
    \A e \in VersionPods :
        e.ip \in PodCidr \/ \A r, q \in Reports(e.node) : e.ip \in r <=> e.ip \in q

\* Every pod that has been seen at a steady backend's address is that backend.
SteadyPods == \A e \in SeenPods, b \in steady : b[1] = "backend" /\ b[2] = e.ip => b[3] = e.uid

\* POD_TARGETS only ever has pods of a Node that reports --node-ip, in --pod-cidr or
\* at an address of the Node.
Admissible(e) == e.ip \in PodCidr \/ \E r \in Reports(e.node) : e.ip \in r
LocalRow(e) == ReportsNodeIp(e.node) /\ Admissible(e)
LocalRows == \A ip \in podTargets : \E e \in SeenPods : e.ip = ip /\ LocalRow(e)

-----------------------------------------------------------------------------
(* The operators of WatchState.                                            *)

\* A Service that is parsed is the Service.
LEMMA ParsedService ==
  ASSUME NEW v \in Services \cup {Nothing}
  PROVE  ParseService(v) \in Services \cup {Nothing}
BY DEF ParseService

\* A Node's report: what is parsed of it are addresses, its own.
LEMMA ParsedAddrs ==
  ASSUME NEW v, v.internal \cup v.external \subseteq Ips
  PROVE  /\ ParseNodeAddrs(v) \in NodeAddrs
         /\ ParseNodeAddrs(v).underlay \cup ParseNodeAddrs(v).fronts
               \subseteq v.internal \cup v.external
BY DEF ParseNodeAddrs, PreferPerFamily, NodeAddrs

\* The versions of the objects, by kind.
LEMMA VersionTypes ==
  /\ Svc \in Objects /\ SliceNames \subseteq Objects /\ Nodes \subseteq Objects
  /\ \A v \in Versions[Svc] : v \in Services \cup {Nothing}
  /\ \A s \in SliceNames : \A v \in Versions[s] : v \in Slices \cup {Nothing}
  /\ \A n \in Nodes : \A v \in Versions[n] : v # Nothing => v.internal \cup v.external \subseteq Ips
BY ReconcileAssumption DEF ReconcileAssumption, Objects

\* What a version of a Node leaves of its addresses.
LEMMA ReportTypes ==
  ASSUME NEW n \in Nodes, NEW v \in Versions[n]
  PROVE  /\ ReportedAddrs(v) \in NodeAddrs \cup {Nothing}
         /\ v # Nothing => ParseNodeAddrs(v) \in NodeAddrs
BY VersionTypes, ParsedAddrs DEF ReportedAddrs

\* The record that apply_node_event leaves.
LEMMA NodeRecord ==
  ASSUME NEW h \in WatchStates, NEW n \in Nodes, NEW v \in Versions[n]
  PROVE  /\ Kept(h.addrs[n], v) \in NodeAddrs \cup {Nothing}
         /\ ApplyNode(h, n, v) =
              [service |-> h.service, slices |-> h.slices,
               addrs |-> [h.addrs EXCEPT ![n] = Kept(h.addrs[n], v)],
               names |-> IF v = Nothing THEN h.names \ {n} ELSE h.names \cup {n},
               listed |-> h.listed]
<1>1. CASE v = Nothing
  BY <1>1 DEF ApplyNode, ReportedAddrs, WatchStates, Kept
<1>2. CASE v # Nothing
  <2> DEFINE a == ParseNodeAddrs(v)
  <2>1. a \in NodeAddrs
    BY <1>2, ReportTypes
  <2> HIDE DEF a
  <2>2. Kept(h.addrs[n], v) = IF a.underlay = {} THEN h.addrs[n] ELSE a
    BY <1>2 DEF ReportedAddrs, a, Kept
  <2>3. ApplyNode(h, n, v) = [h EXCEPT !.names = @ \cup {n},
                                       !.addrs[n] = IF a.underlay = {} THEN @ ELSE a]
    BY <1>2 DEF ApplyNode, a
  <2>4. Kept(h.addrs[n], v) \in NodeAddrs \cup {Nothing}
    BY <2>1, <2>2 DEF WatchStates
  <2> QED BY <1>2, <2>2, <2>3, <2>4 DEF WatchStates
<1> QED BY <1>1, <1>2

\* apply_node_event stays within the types and leaves the rest alone.
LEMMA NodeApplied ==
  ASSUME NEW h \in WatchStates, NEW n \in Nodes, NEW v \in Versions[n]
  PROVE  /\ ApplyNode(h, n, v) \in WatchStates
         /\ ApplyNode(h, n, v).service = h.service
         /\ ApplyNode(h, n, v).slices = h.slices
         /\ ApplyNode(h, n, v).listed = h.listed
<1> DEFINE k == Kept(h.addrs[n], v)
<1>1. k \in NodeAddrs \cup {Nothing}
  BY NodeRecord
<1>2. ApplyNode(h, n, v) =
        [service |-> h.service, slices |-> h.slices, addrs |-> [h.addrs EXCEPT ![n] = k],
         names |-> IF v = Nothing THEN h.names \ {n} ELSE h.names \cup {n}, listed |-> h.listed]
  BY NodeRecord
<1> HIDE DEF k
<1> QED BY <1>1, <1>2 DEF WatchStates

\* The addresses after it.
LEMMA NodeAddrsApplied ==
  ASSUME NEW h \in WatchStates, NEW n \in Nodes, NEW v \in Versions[n], NEW m \in Nodes
  PROVE  ApplyNode(h, n, v).addrs[m] = IF m = n THEN Kept(h.addrs[n], v) ELSE h.addrs[m]
BY NodeRecord DEF WatchStates

\* The names after it.
LEMMA NodeNamesApplied ==
  ASSUME NEW h \in WatchStates, NEW n \in Nodes, NEW v \in Versions[n], NEW m \in Nodes
  PROVE  m \in ApplyNode(h, n, v).names <=> IF m = n THEN v # Nothing ELSE m \in h.names
BY NodeRecord DEF WatchStates

\* replace_nodes on one Node.
LEMMA NodeRelisted ==
  ASSUME NEW h \in WatchStates, NEW n \in Nodes, NEW c, c[n] \in Versions[n]
  PROVE  RelistedNode(h, c, n) = Kept(h.addrs[n], c[n])
<1>1. CASE c[n] = Nothing
  BY <1>1 DEF RelistedNode, ReportedAddrs, Kept
<1>2. CASE c[n] # Nothing
  <2> DEFINE g == [h EXCEPT !.names = {}]
  <2>1. g \in WatchStates /\ g.addrs = h.addrs
    BY DEF WatchStates
  <2>2. RelistedNode(h, c, n) = ApplyNode(g, n, c[n]).addrs[n]
    BY <1>2 DEF RelistedNode
  <2> HIDE DEF g
  <2>3. ASSUME NEW f \in WatchStates, NEW v \in Versions[n]
        PROVE  ApplyNode(f, n, v).addrs[n] = Kept(f.addrs[n], v)
    BY NodeAddrsApplied
  <2> QED BY <2>1, <2>2, <2>3
<1> QED BY <1>1, <1>2

\* What a Node's event leaves of its addresses comes from a version it has had.
LEMMA KeptFromSeen ==
  ASSUME NEW n \in Nodes, NEW S, S \subseteq Versions[n], NEW old,
         \E u \in S : old = ReportedAddrs(u), NEW v \in S
  PROVE  \E u \in S : Kept(old, v) = ReportedAddrs(u) /\ (u # Nothing <=> v # Nothing)
<1>1. PICK u \in S : old = ReportedAddrs(u)
  OBVIOUS
<1>2. CASE v # Nothing /\ ParseNodeAddrs(v).underlay = {} /\ old # Nothing
  <2>1. Kept(old, v) = ReportedAddrs(u) /\ u # Nothing
    BY <1>1, <1>2 DEF Kept, ReportedAddrs
  <2> QED BY <2>1, <1>2
<1>3. CASE v # Nothing /\ ParseNodeAddrs(v).underlay = {} /\ old = Nothing
  <2>1. Kept(old, v) = ReportedAddrs(v)
    BY <1>3 DEF Kept, ReportedAddrs
  <2> QED BY <2>1
<1>4. CASE v = Nothing \/ ParseNodeAddrs(v).underlay # {}
  <2>1. Kept(old, v) = ReportedAddrs(v)
    BY <1>4 DEF Kept
  <2> QED BY <2>1
<1> QED BY <1>2, <1>3, <1>4

\* The kinds of objects and their resources.
LEMMA ObjectKinds ==
  /\ ResourceOf(Svc) = "services"
  /\ \A s \in SliceNames : s # Svc /\ s \notin Nodes /\ ResourceOf(s) = "slices"
  /\ \A n \in Nodes : n # Svc /\ n \notin SliceNames /\ ResourceOf(n) = "nodes"
  /\ \A o \in Objects : o = Svc \/ o \in SliceNames \/ o \in Nodes
BY ReconcileAssumption DEF ReconcileAssumption, Objects, ResourceOf

\* An event of a listed resource leaves a WatchState of seen versions.
LEMMA AppliedOK ==
  ASSUME EnvOK, NEW h \in WatchStates, FromSeen(h), NEW o \in Objects, NEW v \in seen[o],
         ResourceOf(o) \in h.listed
  PROVE  /\ Applied(h, o, v) \in WatchStates
         /\ FromSeen(Applied(h, o, v))
         /\ Applied(h, o, v).listed = h.listed
<1>0. v \in Versions[o] /\ seen[o] \subseteq Versions[o]
  BY DEF EnvOK
<1>1. CASE o = Svc
  <2>1. ParseService(v) \in Services \cup {Nothing}
    BY <1>0, <1>1, VersionTypes, ParsedService
  <2>2. Applied(h, o, v) = [h EXCEPT !.service = ParseService(v)]
    BY <1>1, ObjectKinds DEF Applied, ApplyService
  <2> QED BY <1>1, <2>1, <2>2 DEF WatchStates, FromSeen
<1>2. CASE o \in SliceNames
  <2>1. v \in Slices \cup {Nothing}
    BY <1>0, <1>2, VersionTypes
  <2>2. Applied(h, o, v) = [h EXCEPT !.slices[o] = v]
    BY <1>2, ObjectKinds DEF Applied, ApplySlice
  <2> QED BY <1>2, <2>1, <2>2 DEF WatchStates, FromSeen
<1>3. CASE o \in Nodes
  <2>1. Applied(h, o, v) = ApplyNode(h, o, v)
    BY <1>3, ObjectKinds DEF Applied
  <2> DEFINE g == ApplyNode(h, o, v)
  <2>2. /\ g \in WatchStates /\ g.service = h.service /\ g.slices = h.slices
        /\ g.listed = h.listed
    BY <1>0, <1>3, NodeApplied
  <2>3. \A m \in Nodes : g.addrs[m] = IF m = o THEN Kept(h.addrs[o], v) ELSE h.addrs[m]
    BY <1>0, <1>3, NodeAddrsApplied
  <2>4. \A m \in Nodes : m \in g.names <=> IF m = o THEN v # Nothing ELSE m \in h.names
    BY <1>0, <1>3, NodeNamesApplied
  <2>5. "nodes" \in h.listed
    BY <1>3, ObjectKinds
  <2>6. \E u \in seen[o] : Kept(h.addrs[o], v) = ReportedAddrs(u) /\ (u # Nothing <=> v # Nothing)
    <3>1. \E u \in seen[o] : h.addrs[o] = ReportedAddrs(u)
      BY <1>3, <2>5 DEF FromSeen
    <3> QED BY <1>0, <1>3, <3>1, KeptFromSeen
  <2> HIDE DEF g
  <2>7. FromSeen(g)
    <3>1. ASSUME NEW n \in Nodes
          PROVE  \E u \in seen[n] : g.addrs[n] = ReportedAddrs(u) /\ (n \in g.names <=> u # Nothing)
      <4>1. CASE n = o
        BY <1>3, <2>3, <2>4, <2>6, <4>1
      <4>2. CASE n # o
        BY <2>3, <2>4, <2>5, <4>2 DEF FromSeen
      <4> QED BY <4>1, <4>2
    <3> QED BY <2>2, <2>5, <3>1 DEF FromSeen
  <2> QED BY <2>1, <2>2, <2>7 DEF g
<1> QED BY <1>1, <1>2, <1>3, ObjectKinds

\* So does an accepted LIST of versions that have been seen.
LEMMA ReplacedOK ==
  ASSUME EnvOK, NEW h \in WatchStates, FromSeen(h), NEW r \in Resources,
         NEW c, \A o \in Objects : c[o] \in seen[o]
  PROVE  /\ Replaced(h, r, c) \in WatchStates
         /\ FromSeen(Replaced(h, r, c))
         /\ Replaced(h, r, c).listed = h.listed \cup {r}
<1>0. \A o \in Objects : c[o] \in Versions[o] /\ seen[o] \subseteq Versions[o]
  BY DEF EnvOK
<1>1. CASE r = "services"
  <2>1. c[Svc] \in seen[Svc] /\ ParseService(c[Svc]) \in Services \cup {Nothing}
    BY <1>0, VersionTypes, ParsedService
  <2>2. Replaced(h, r, c) = [h EXCEPT !.service = ParseService(c[Svc]),
                                      !.listed = @ \cup {"services"}]
    BY <1>1 DEF Replaced, ReplaceServices, ApplyService, WatchStates
  <2> DEFINE g == Replaced(h, r, c)
  <2>3. /\ g \in WatchStates /\ g.service = ParseService(c[Svc]) /\ g.slices = h.slices
        /\ g.addrs = h.addrs /\ g.names = h.names /\ g.listed = h.listed \cup {"services"}
    BY <2>1, <2>2 DEF WatchStates, Resources
  <2> HIDE DEF g
  <2>4. FromSeen(g)
    BY <2>1, <2>3 DEF FromSeen
  <2> QED BY <1>1, <2>3, <2>4 DEF g
<1>2. CASE r = "slices"
  <2> DEFINE sl == [s \in SliceNames |-> c[s]]
  <2>1. /\ sl \in [SliceNames -> Slices \cup {Nothing}]
        /\ \A s \in SliceNames : sl[s] \in seen[s]
    BY <1>0, VersionTypes
  <2>2. Replaced(h, r, c) = [h EXCEPT !.slices = sl, !.listed = @ \cup {"slices"}]
    BY <1>2 DEF Replaced, ReplaceSlices
  <2> HIDE DEF sl
  <2> QED BY <1>2, <2>1, <2>2 DEF WatchStates, FromSeen, Resources
<1>3. CASE r = "nodes"
  <2> DEFINE g == Replaced(h, r, c)
  <2>1. \A n \in Nodes : RelistedNode(h, c, n) = Kept(h.addrs[n], c[n])
    BY <1>0, VersionTypes, NodeRelisted
  <2>2. \A n \in Nodes : Kept(h.addrs[n], c[n]) \in NodeAddrs \cup {Nothing}
    BY <1>0, VersionTypes, NodeRecord
  <2> DEFINE addrs == RelistedNodes(h, c)
             names == {n \in Nodes : c[n] # Nothing}
  <2>3. /\ addrs \in [Nodes -> NodeAddrs \cup {Nothing}]
        /\ \A n \in Nodes : addrs[n] = Kept(h.addrs[n], c[n])
    BY <2>1, <2>2 DEF RelistedNodes
  <2>4. g = [h EXCEPT !.addrs = addrs, !.names = names, !.listed = @ \cup {"nodes"}]
    BY <1>3 DEF Replaced, ReplaceNodes
  <2>5. names \in SUBSET Nodes /\ \A n \in Nodes : n \in names <=> c[n] # Nothing
    OBVIOUS
  <2> HIDE DEF addrs, names, g
  <2>6. /\ g \in WatchStates /\ g.addrs = addrs /\ g.names = names /\ g.service = h.service
        /\ g.slices = h.slices /\ g.listed = h.listed \cup {"nodes"}
    BY <2>3, <2>4, <2>5 DEF WatchStates, Resources
  <2>7. ASSUME NEW n \in Nodes
        PROVE  \E u \in seen[n] : g.addrs[n] = ReportedAddrs(u) /\ (n \in g.names <=> u # Nothing)
    <3>0. c[n] \in seen[n] /\ seen[n] \subseteq Versions[n]
      BY <1>0, VersionTypes
    <3>1. CASE "nodes" \in h.listed
      <4>1. \E u \in seen[n] : h.addrs[n] = ReportedAddrs(u)
        BY <3>1 DEF FromSeen
      <4>2. \E u \in seen[n] : /\ Kept(h.addrs[n], c[n]) = ReportedAddrs(u)
                               /\ u # Nothing <=> c[n] # Nothing
        BY <3>0, <4>1, KeptFromSeen
      <4> QED BY <2>3, <2>5, <2>6, <4>2
    <3>2. CASE "nodes" \notin h.listed
      <4>1. h.addrs[n] = Nothing
        BY <3>2 DEF FromSeen
      <4>2. Kept(Nothing, c[n]) = ReportedAddrs(c[n])
        BY DEF Kept, ReportedAddrs
      <4> QED BY <2>3, <2>5, <2>6, <3>0, <4>1, <4>2
    <3> QED BY <3>1, <3>2
  <2>8. FromSeen(g)
    BY <2>6, <2>7 DEF FromSeen
  <2> QED BY <1>3, <2>6, <2>8 DEF g
<1> QED BY <1>1, <1>2, <1>3 DEF Resources

\* A process that has listed nothing.
LEMMA NothingListed == NoWatchState \in WatchStates /\ FromSeen(NoWatchState)
BY DEF NoWatchState, WatchStates, FromSeen

\* The guards of replace_* refuse every LIST that is empty though objects are
\* held.
LEMMA ImplausibleRefused ==
  ASSUME NEW r \in Resources, Holds(r)
  PROVE  Refuses(held, r, NoObjects)
<1>1. CASE r = "services"
  BY <1>1 DEF Holds, Refuses, RefusesServices
<1>2. CASE r = "slices"
  <2>1. TrackedSlices(held, NoObjects) = {}
    BY VersionTypes DEF TrackedSlices, NoObjects
  <2> QED BY <1>2, <2>1 DEF Holds, Refuses, RefusesSlices
<1>3. CASE r = "nodes"
  <2>1. \A n \in Nodes : RelistedNodes(held, NoObjects)[n] = Nothing
    BY VersionTypes DEF RelistedNodes, RelistedNode, NoObjects
  <2>2. OwnNodes(RelistedNodes(held, NoObjects)) = {}
    BY <2>1 DEF OwnNodes
  <2> QED BY <1>3, <2>2 DEF Holds, Refuses, RefusesNodes
<1> QED BY <1>1, <1>2, <1>3 DEF Resources

\* The endpoints that a WatchState holds.
HeldPods(h) == UNION {sl.endpoints : sl \in OwnSlices(h)}

\* The endpoints of the slices held are endpoints.
LEMMA HeldPodsType ==
  ASSUME NEW h \in WatchStates
  PROVE  OwnSlices(h) \subseteq Slices /\ HeldPods(h) \subseteq Endpoints
<1>1. OwnSlices(h) \subseteq Slices
  BY DEF OwnSlices, WatchStates
<1> QED BY <1>1 DEF HeldPods, Slices

\* Every slot of a desired front names a pod that is held.
LEMMA SlotPods ==
  ASSUME NEW h, NEW front, NEW i \in DOMAIN DesiredFront(h, front).slots
  PROVE  \E e \in HeldPods(h) : DesiredFront(h, front).slots[i].pod = e.ip
<1> DEFINE eps == Eligible(h, Candidates(h, front))
<1>1. eps \subseteq HeldPods(h)
  <2>1. Candidates(h, front) \subseteq HeldPods(h)
    BY DEF Candidates, Resolved, HeldPods
  <2> QED BY <2>1 DEF Eligible, LocalUsable
<1> HIDE DEF eps
<1>2. /\ i \in {SlotOf(h, eps, e) : e \in eps}
      /\ DesiredFront(h, front).slots[i].pod = (CHOOSE e \in eps : SlotOf(h, eps, e) = i).ip
  BY DEF DesiredFront, eps
<1>3. (CHOOSE e \in eps : SlotOf(h, eps, e) = i) \in eps
  BY <1>2
<1> QED BY <1>1, <1>2, <1>3

\* The types of the desired entries.
LEMMA DesiredTypes ==
  ASSUME NEW h \in WatchStates
  PROVE  PodTargets(h) \subseteq Ips /\ NodeAllow(h) \subseteq Ips /\ PodsIn(Fronts(h))
<1>1. PodTargets(h) \subseteq Ips
  BY HeldPodsType DEF PodTargets, Resolved, HeldPods, Endpoints
<1>2. NodeAllow(h) \subseteq Ips
  BY DEF NodeAllow, WatchStates, NodeAddrs
<1>3. PodsIn(Fronts(h))
  <2> SUFFICES ASSUME NEW ip \in Ips, Fronts(h)[ip] # Nothing,
                      NEW i \in DOMAIN Fronts(h)[ip].slots
               PROVE  Fronts(h)[ip].slots[i].pod \in Ips
    BY DEF PodsIn
  <2>1. Fronts(h)[ip] = DesiredFront(h, ip)
    BY DEF Fronts
  <2> QED BY <2>1, SlotPods, HeldPodsType DEF Endpoints
<1> QED BY <1>1, <1>2, <1>3

-----------------------------------------------------------------------------
(* Versions of the objects in any combination.                             *)

\* A mix is one version of every object.
LEMMA MixValues ==
  ASSUME NEW V, NEW c \in Mixes(V), NEW o \in Objects
  PROVE  c[o] \in V[o]
<1> DEFINE Of(S) == {d \in [S -> UNION {V[x] : x \in S}] : \A x \in S : d[x] \in V[x]}
<1>1. PICK v \in V[Svc], s \in Of(SliceNames), n \in Of(Nodes) :
        c = [x \in Objects |-> IF x = Svc THEN v ELSE IF x \in SliceNames THEN s[x] ELSE n[x]]
  BY DEF Mixes
<1> QED BY <1>1, ObjectKinds

\* A Service, slices and Nodes taken from the versions make a combination of them.
LEMMA MixOf ==
  ASSUME NEW V, NEW v \in V[Svc], NEW s, NEW n,
         s = [x \in SliceNames |-> s[x]], \A x \in SliceNames : s[x] \in V[x],
         n = [x \in Nodes |-> n[x]], \A x \in Nodes : n[x] \in V[x]
  PROVE  [x \in Objects |-> IF x = Svc THEN v ELSE IF x \in SliceNames THEN s[x] ELSE n[x]]
           \in Mixes(V)
<1> DEFINE Of(S) == {d \in [S -> UNION {V[x] : x \in S}] : \A x \in S : d[x] \in V[x]}
<1>1. s \in Of(SliceNames) /\ n \in Of(Nodes)
  OBVIOUS
<1> HIDE DEF Of
<1>2. Mixes(V) = {[x \in Objects |-> IF x = Svc THEN a ELSE IF x \in SliceNames THEN b[x] ELSE d[x]] :
                    a \in V[Svc], b \in Of(SliceNames), d \in Of(Nodes)}
  BY DEF Mixes, Of
<1> QED BY <1>1, <1>2

\* What a controller that listed exactly c holds of the Nodes.
LEMMA ListingAddrs ==
  ASSUME NEW c, NEW n \in Nodes, c[n] \in Versions[n]
  PROVE  Listing(c).addrs[n] = ReportedAddrs(c[n])
<1>1. RelistedNode(NoWatchState, c, n) = Kept(NoWatchState.addrs[n], c[n])
  BY NothingListed, NodeRelisted
<1>2. NoWatchState.addrs[n] = Nothing
  BY DEF NoWatchState
<1>3. Kept(Nothing, c[n]) = ReportedAddrs(c[n])
  BY DEF Kept, ReportedAddrs
<1> QED BY <1>1, <1>2, <1>3 DEF Listing, RelistedNodes

(***************************************************************************)
(* A controller that has listed everything holds what it would have listed *)
(* from one combination of versions, however its watches lag.              *)
(***************************************************************************)
LEMMA HeldIsMix ==
  ASSUME EnvOK, NEW h \in WatchStates, FromSeen(h), FullyListed(h)
  PROVE  \E c \in Mixes(seen) : h = Listing(c)
<1>1. PICK v \in seen[Svc] : h.service = ParseService(v)
  BY DEF FullyListed, FromSeen, Resources
<1>2. /\ h.slices = [x \in SliceNames |-> h.slices[x]]
      /\ \A x \in SliceNames : h.slices[x] \in seen[x]
  BY DEF FullyListed, FromSeen, Resources, WatchStates
<1> DEFINE Fits(x, u) == h.addrs[x] = ReportedAddrs(u) /\ (x \in h.names <=> u # Nothing)
           n == [x \in Nodes |-> CHOOSE u \in seen[x] : Fits(x, u)]
<1>3. \A x \in Nodes : \E u \in seen[x] : Fits(x, u)
  BY DEF FullyListed, FromSeen, Resources
<1> HIDE DEF Fits
<1>4. n = [x \in Nodes |-> n[x]] /\ \A x \in Nodes : n[x] \in seen[x] /\ Fits(x, n[x])
  BY <1>3
<1> DEFINE s == h.slices
           c == [x \in Objects |-> IF x = Svc THEN v ELSE IF x \in SliceNames THEN s[x] ELSE n[x]]
<1> HIDE DEF n
<1>5. c \in Mixes(seen)
  BY <1>2, <1>4, MixOf
<1>6. /\ c[Svc] = v
      /\ \A x \in SliceNames : c[x] = h.slices[x]
      /\ \A x \in Nodes : c[x] = n[x]
  BY ObjectKinds, VersionTypes
<1> HIDE DEF c
<1>7. \A x \in Nodes : c[x] \in Versions[x]
  BY <1>5, MixValues, VersionTypes DEF EnvOK
<1>8. Listing(c).service = h.service
  BY <1>1, <1>6 DEF Listing
<1>9. Listing(c).slices = h.slices
  BY <1>2, <1>6 DEF Listing
<1>10. Listing(c).addrs = h.addrs
  <2>1. \A x \in Nodes : Listing(c).addrs[x] = h.addrs[x]
    BY <1>4, <1>6, <1>7, ListingAddrs DEF Fits
  <2>2. Listing(c).addrs = [x \in Nodes |-> Listing(c).addrs[x]]
    BY DEF Listing, RelistedNodes
  <2>3. h.addrs = [x \in Nodes |-> h.addrs[x]]
    BY DEF WatchStates
  <2> QED BY <2>1, <2>2, <2>3
<1>11. Listing(c).names = h.names
  BY <1>4, <1>6 DEF Listing, Fits, WatchStates
<1>12. Listing(c).listed = h.listed
  BY DEF Listing, FullyListed
<1>13. Listing(c) = [service |-> Listing(c).service, slices |-> Listing(c).slices,
                     addrs |-> Listing(c).addrs, names |-> Listing(c).names,
                     listed |-> Listing(c).listed]
  BY DEF Listing
<1>14. h = [service |-> h.service, slices |-> h.slices, addrs |-> h.addrs,
            names |-> h.names, listed |-> h.listed]
  BY DEF WatchStates
<1>15. h = Listing(c)
  BY <1>8, <1>9, <1>10, <1>11, <1>12, <1>13, <1>14
<1> QED BY <1>5, <1>15

-----------------------------------------------------------------------------
(* Types.                                                                  *)

\* The kinds of steps, as far as the process and the maps are concerned.  A pass
\* starts on a WatchState of seen versions that has listed no less.
Starts ==
    \E h \in WatchStates :
        pass.at = "rest" /\ FromSeen(h) /\ held.listed \subseteq h.listed /\ StartPass(h)
WatchStep ==
    /\ UNCHANGED <<cluster, procVars, mapVars, pin, history, changes>>
    /\ mishaps' = mishaps \/ Mishaps(1)

\* Every step is a pass starting, a write of one map, a mint, a crash, a change of
\* the cluster, or a step of the watches that leaves the process and the maps alone.
LEMMA StepCases ==
  ASSUME EnvOK, LogOK, HeldOK, [Next]_vars
  PROVE  \/ Starts \/ WriteFronts \/ WriteNodeAllow \/ WritePodTargets
         \/ Mint \/ Crash \/ (\E o \in Objects : Change(o)) \/ WatchStep
<1>1. CASE RetryTick
  BY <1>1 DEF RetryTick, Starts, HeldOK
<1>2. ASSUME NEW r \in Resources, Deliver(r) PROVE Starts
  <2> DEFINE i == sent[r] + 1
             o == log[r][i].name
             v == log[r][i].object
             h == Applied(held, o, v)
  <2>1. pass.at = "rest" /\ StartPass(h) /\ sent[r] < Len(log[r])
    BY <1>2 DEF Deliver
  <2>2. log[r] \in Seq(Events) /\ sent[r] \in Nat /\ Len(log[r]) \in Nat
    BY DEF LogOK
  <2>3. i \in 1..Len(log[r]) /\ log[r] # <<>>
    BY <2>1, <2>2
  <2>4. log[r][i] \in Events
    BY <2>2, <2>3
  <2>5. o \in Objects /\ v \in seen[o] /\ ResourceOf(o) = r
    BY <2>3, <2>4 DEF LogOK, Events
  <2>6. r \in held.listed
    BY <2>3 DEF LogOK
  <2> HIDE DEF i, o, v
  <2>7. h \in WatchStates /\ FromSeen(h) /\ h.listed = held.listed
    BY <2>5, <2>6, AppliedOK DEF HeldOK
  <2> QED BY <2>1, <2>7 DEF Starts
<1>3. ASSUME NEW r \in Resources, List(r) PROVE Starts \/ WatchStep
  <2>1. CASE Refuses(held, r, cluster)
    <3>1. UNCHANGED vars
      BY <1>3, <2>1 DEF List, Listed
    <3> QED BY <3>1 DEF vars, WatchStep, procVars, mapVars, history, bounds
  <2>2. CASE ~Refuses(held, r, cluster)
    <3> DEFINE h == Replaced(held, r, cluster)
    <3>1. pass.at = "rest" /\ StartPass(h)
      BY <1>3, <2>2 DEF List, Listed
    <3>2. \A o \in Objects : cluster[o] \in seen[o]
      BY DEF EnvOK
    <3>3. h \in WatchStates /\ FromSeen(h) /\ h.listed = held.listed \cup {r}
      BY <3>2, ReplacedOK DEF HeldOK
    <3> QED BY <3>1, <3>3 DEF Starts
  <2> QED BY <2>1, <2>2
<1>4. ASSUME NEW r \in Resources, ImplausibleList(r) PROVE WatchStep
  <2>1. UNCHANGED vars
    BY <1>4, ImplausibleRefused DEF ImplausibleList, Listed
  <2> QED BY <2>1 DEF vars, WatchStep, procVars, mapVars, history, bounds
<1>5. ASSUME NEW r \in Resources, LoseConnection(r) \/ Expired(r) \/ Bookmark(r) PROVE WatchStep
  BY <1>5 DEF LoseConnection, Expired, Bookmark, WatchStep, bounds
<1>6. CASE UNCHANGED vars
  BY <1>6 DEF vars, WatchStep, procVars, mapVars, history, bounds
<1> QED BY <1>1, <1>2, <1>3, <1>4, <1>5, <1>6 DEF Next, Apply

\* Only a change of the cluster moves the cluster and its history.
Quiet == UNCHANGED <<cluster, seen, steady, holder, changes>>

\* Only a change of the cluster touches what the cluster is and was.
LEMMA Surroundings ==
  ASSUME EnvOK, LogOK, HeldOK, [Next]_vars
  PROVE  Quiet \/ \E o \in Objects : Change(o)
<1>1. ASSUME NEW h, StartPass(h) PROVE Quiet
  BY <1>1 DEF StartPass, Quiet, history
<1>2. CASE WriteFronts \/ WriteNodeAllow \/ WritePodTargets
  BY <1>2 DEF WriteFronts, WriteNodeAllow, WritePodTargets, Quiet, history
<1>3. CASE Mint \/ Crash \/ WatchStep
  BY <1>3 DEF Mint, Crash, WatchStep, Quiet, history, bounds
<1> QED BY <1>1, <1>2, <1>3, StepCases DEF Starts

\* The last holder of an address is a uid.
LEMMA HolderType ==
  ASSUME NEW c, \A s \in SliceNames : c[s] \in Versions[s],
         NEW before \in [Ips -> STRING \cup {Nothing}]
  PROVE  LastHolder(c, before) \in [Ips -> STRING \cup {Nothing}]
<1> DEFINE pods == EndpointsOf({c[s] : s \in SliceNames})
<1>1. pods \subseteq Endpoints
  BY VersionTypes DEF EndpointsOf, Slices
<1> HIDE DEF pods
<1>2. LastHolder(c, before) =
        [ip \in Ips |-> IF \E e \in pods : e.ip = ip
                        THEN (CHOOSE e \in pods : e.ip = ip).uid ELSE before[ip]]
  BY DEF LastHolder, pods
<1>3. ASSUME NEW ip \in Ips, \E e \in pods : e.ip = ip
      PROVE  (CHOOSE e \in pods : e.ip = ip).uid \in STRING
  <2>1. (CHOOSE e \in pods : e.ip = ip) \in pods
    BY <1>3
  <2> QED BY <1>1, <2>1 DEF Endpoints
<1> QED BY <1>2, <1>3

\* What a change does to the objects.
LEMMA Changed ==
  ASSUME EnvOK, NEW o \in Objects, Change(o)
  PROVE  /\ \E v \in Versions[o] :
              /\ o \in SliceNames => Returning(v) = {}
              /\ cluster' = [cluster EXCEPT ![o] = v]
              /\ seen' = [seen EXCEPT ![o] = @ \cup {v}]
              /\ steady' = {e \in steady : \A w \in {WantedIn[c] : c \in Mixes([seen EXCEPT ![o] = {v}])} :
                                              e \in w}
              /\ log' = IF ResourceOf(o) \in watching
                        THEN [log EXCEPT ![ResourceOf(o)] = Append(@, [name |-> o, object |-> v])]
                        ELSE log
         /\ \A x \in Objects : seen[x] \subseteq seen'[x]
         /\ UNCHANGED <<sent, watching, procVars, mapVars, pin, mishaps>>
<1>1. PICK v \in Versions[o] :
              /\ o \in SliceNames => Returning(v) = {}
              /\ cluster' = [cluster EXCEPT ![o] = v]
              /\ seen' = [seen EXCEPT ![o] = @ \cup {v}]
              /\ steady' = {e \in steady : \A w \in {WantedIn[c] : c \in Mixes([seen EXCEPT ![o] = {v}])} :
                                              e \in w}
              /\ log' = IF ResourceOf(o) \in watching
                        THEN [log EXCEPT ![ResourceOf(o)] = Append(@, [name |-> o, object |-> v])]
                        ELSE log
  BY DEF Change
<1>2. \A x \in Objects : seen[x] \subseteq seen'[x]
  BY <1>1 DEF EnvOK
<1> QED BY <1>1, <1>2 DEF Change

\* Every step keeps the cluster's types.
LEMMA EnvStep ==
  ASSUME EnvOK, LogOK, HeldOK, [Next]_vars
  PROVE  EnvOK'
<1>1. CASE Quiet
  BY <1>1 DEF Quiet, EnvOK
<1>2. ASSUME NEW o \in Objects, Change(o) PROVE EnvOK'
  <2>1. PICK v \in Versions[o] : cluster' = [cluster EXCEPT ![o] = v]
                                 /\ seen' = [seen EXCEPT ![o] = @ \cup {v}]
    BY <1>2, Changed
  <2>2. v \in AllVersions
    BY DEF AllVersions
  <2>3. /\ cluster' \in [Objects -> AllVersions]
        /\ seen' \in [Objects -> SUBSET AllVersions]
        /\ \A x \in Objects : cluster'[x] \in seen'[x] /\ seen'[x] \subseteq Versions[x]
    BY <2>1, <2>2 DEF EnvOK
  <2>4. holder' = LastHolder(cluster', holder)
    BY <1>2 DEF Change
  <2>5. \A s \in SliceNames : cluster'[s] \in Versions[s]
    BY <2>3, VersionTypes
  <2>6. holder' \in [Ips -> STRING \cup {Nothing}]
    BY <2>4, <2>5, HolderType DEF EnvOK
  <2> QED BY <2>3, <2>6 DEF EnvOK
<1> QED BY <1>1, <1>2, Surroundings

\* Versions that have been seen stay seen.
LEMMA SeenGrows ==
  ASSUME EnvOK, LogOK, HeldOK, [Next]_vars
  PROVE  \A o \in Objects : seen[o] \subseteq seen'[o]
BY Surroundings, Changed DEF Quiet

\* Whatever a watch delivers, what is held stays made of versions seen.
LEMMA HeldStep ==
  ASSUME EnvOK, LogOK, HeldOK, [Next]_vars
  PROVE  HeldOK'
<1>1. CASE Starts
  <2>1. PICK h \in WatchStates : FromSeen(h) /\ StartPass(h)
    BY <1>1 DEF Starts
  <2>2. held' = h /\ seen' = seen
    BY <2>1 DEF StartPass, history
  <2> QED BY <2>1, <2>2 DEF HeldOK, FromSeen
<1>2. CASE Crash
  <2>1. held' = NoWatchState /\ seen' = seen
    BY <1>2 DEF Crash, history
  <2> QED BY <2>1, NothingListed DEF HeldOK, FromSeen
<1>3. CASE held' = held
  <2>1. \A o \in Objects : seen[o] \subseteq seen'[o]
    BY SeenGrows
  <2> QED BY <1>3, <2>1, VersionTypes DEF HeldOK, FromSeen
<1>4. CASE WriteFronts \/ WriteNodeAllow \/ WritePodTargets \/ Mint \/ WatchStep
  <2>1. held' = held
    BY <1>4 DEF WriteFronts, WriteNodeAllow, WritePodTargets, Mint, WatchStep, procVars
  <2> QED BY <2>1, <1>3
<1>5. ASSUME NEW o \in Objects, Change(o) PROVE held' = held
  BY <1>5 DEF Change, procVars
<1> QED BY <1>1, <1>2, <1>3, <1>4, <1>5, StepCases

\* A pass sweeps addresses, and as rows only stale ones.
LEMMA SweepTypes ==
  ASSUME MapsOK, NEW desired, NEW readable \in BOOLEAN, NEW walked \in BOOLEAN
  PROVE  /\ StaleRows(desired, readable) \subseteq podTargets \ desired.podTargets
         /\ SweepSet(desired, readable, walked) \subseteq Ips
<1>1. StaleRows(desired, readable) \subseteq podTargets \ desired.podTargets
  BY DEF StaleRows
<1>2. StaleRows(desired, readable) \subseteq Ips
  BY <1>1 DEF MapsOK
<1>3. Orphans(desired.backends) \subseteq Ips
  BY DEF Orphans
<1>4. Departed(desired.backends) \subseteq Ips /\ ReusedPodIps(desired.backends) \subseteq Ips
  BY DEF Departed, ReusedPodIps
<1> QED BY <1>1, <1>2, <1>3, <1>4 DEF SweepSet

\* What a pass starts with.
LEMMA PassStarted ==
  ASSUME MapsOK, PassOK, HeldOK, Starts
  PROVE  /\ MapsOK' /\ PassOK' /\ held' \in WatchStates
<1>1. PICK h \in WatchStates : /\ pass.at = "rest" /\ FromSeen(h)
                               /\ held.listed \subseteq h.listed /\ StartPass(h)
  BY DEF Starts
<1>2. PICK readable \in BOOLEAN, walked \in BOOLEAN, ok \in BOOLEAN, hit \in BOOLEAN :
        PlanTick(Desired(h), readable, walked, ok, hit)
  BY <1>1 DEF StartPass
<1>0. held' = h /\ UNCHANGED <<everKnown, retry, mapVars>>
  BY <1>1 DEF StartPass
<1> DEFINE desired == Desired(h)
           due   == OrphanSweepDue(desired)
           sweep == SweepSet(desired, readable, due /\ walked)
           rows  == StaleRows(desired, readable)
<1>3. desired.podTargets = PodTargets(h)
  BY DEF Desired
<1>4. due \in BOOLEAN /\ (due /\ walked) \in BOOLEAN
  BY DEF OrphanSweepDue
<1>5. rows \subseteq podTargets /\ rows \cap PodTargets(h) = {} /\ sweep \subseteq Ips
  <2> HIDE DEF desired, due
  <2> QED BY <1>3, <1>4, SweepTypes
<1>6. /\ held' = h
      /\ pass' = [at |-> "fronts", desired |-> desired, pending |-> IF ok THEN {} ELSE sweep,
                  rows |-> IF ok THEN rows ELSE {},
                  readable |-> readable, failed |-> ~(readable /\ walked /\ ok)]
      /\ pin' = Nothing \/ \E by \in Finds : pin' = [pin EXCEPT !.foundBy = by]
      /\ pin = Nothing => pin' = Nothing
      /\ orphansSwept' = (orphansSwept \/ ((due /\ walked) /\ ok))
      /\ UNCHANGED <<everKnown, retry, fronts, podTargets, nodeAllow>>
  <2>1. pin = Nothing \/ FoundBy(desired, known', orphansSwept') \in Finds
    BY DEF FoundBy, Finds, MapsOK, Pins
  <2> QED BY <1>0, <1>2, <2>1 DEF mapVars, OrphansSweptAfter, PlanTick
<1> HIDE DEF desired, due, sweep, rows
<1>7. pin' = Nothing \/ pin' \in Pins
  BY <1>6 DEF MapsOK, Pins
<1>8. MapsOK'
  BY <1>6, <1>7 DEF MapsOK, PodsIn
<1>9. everKnown => FullyListed(h)
  BY <1>1 DEF PassOK, FullyListed, WatchStates
<1>10. PassOK'
  <2>1. pass'.desired = Desired(held')
    BY <1>6 DEF desired
  <2> QED BY <1>4, <1>5, <1>6, <1>9, <2>1 DEF PassOK
<1> QED BY <1>6, <1>8, <1>10

\* The fronts' turn writes what the held state calls for, and nothing before it is
\* fully listed.
LEMMA FrontsWritten ==
  ASSUME MapsOK, PassOK, HeldOK, WriteFronts
  PROVE  /\ MapsOK' /\ PassOK'
         /\ \E skip :
              fronts' = IF FullyListed(held) THEN FrontsAfter(Fronts(held), skip) ELSE fronts
<1>1. PICK skip :
        /\ fronts' = IF pass.desired.frontsKnown
                     THEN FrontsAfter(pass.desired.fronts, skip) ELSE fronts
        /\ pass' = [pass EXCEPT !.at = "allow", !.failed = @ \/ skip # {}]
  BY DEF WriteFronts
<1>2. /\ pass.at = "fronts" /\ everKnown' = (everKnown \/ pass.desired.frontsKnown)
      /\ UNCHANGED <<held, orphansSwept, retry, podTargets, nodeAllow, pin>>
  BY DEF WriteFronts
<1>3. pass.desired = Desired(held)
  BY <1>2 DEF PassOK
<1>4. pass.desired.frontsKnown = FullyListed(held) /\ pass.desired.fronts = Fronts(held)
  BY <1>3 DEF Desired
<1>5. PodsIn(Fronts(held))
  BY DesiredTypes DEF HeldOK
<1>6. PodsIn(fronts')
  BY <1>1, <1>4, <1>5 DEF FrontsAfter, PodsIn, MapsOK
<1>7. MapsOK'
  BY <1>2, <1>6 DEF MapsOK, PodsIn
<1>8. pass' = [at |-> "allow", desired |-> pass.desired, pending |-> pass.pending,
               rows |-> pass.rows, readable |-> pass.readable,
               failed |-> (pass.failed \/ skip # {})]
  BY <1>1 DEF PassOK
<1>9. everKnown' \in BOOLEAN /\ (everKnown' => FullyListed(held))
  BY <1>2, <1>4 DEF PassOK, FullyListed
<1>10. PassOK'
  BY <1>2, <1>3, <1>8, <1>9 DEF PassOK
<1> QED BY <1>1, <1>4, <1>7, <1>10

\* NODE_ALLOW's turn deletes only peers that are not held, once it has ever known
\* them.
LEMMA NodeAllowWritten ==
  ASSUME MapsOK, PassOK, HeldOK, WriteNodeAllow
  PROVE  /\ MapsOK' /\ PassOK'
         /\ \E gone \in SUBSET (IF everKnown THEN nodeAllow \ NodeAllow(held) ELSE {}) :
              nodeAllow \ gone \subseteq nodeAllow'
<1>1. /\ pass.at = "allow"
      /\ UNCHANGED <<held, orphansSwept, everKnown, retry, fronts, podTargets, pin>>
  BY DEF WriteNodeAllow
<1>2. pass.desired = Desired(held) /\ pass.desired.nodeAllow = NodeAllow(held)
  BY <1>1 DEF PassOK, Desired
<1>3. StalePeers = (IF everKnown THEN nodeAllow \ NodeAllow(held) ELSE {})
  BY <1>2 DEF StalePeers
<1>4. PICK gone \in SUBSET StalePeers, new \in SUBSET NodeAllow(held), bad \in BOOLEAN :
        /\ nodeAllow' = (nodeAllow \ gone) \cup new
        /\ pass' = [pass EXCEPT !.at = "targets", !.failed = @ \/ bad]
  <2>1. ASSUME NEW skip, nodeAllow' = (nodeAllow \ (StalePeers \ skip)) \cup (pass.desired.nodeAllow \ skip),
               pass' = [pass EXCEPT !.at = "targets", !.failed = @ \/ skip # {}]
        PROVE  \E gone \in SUBSET StalePeers, new \in SUBSET NodeAllow(held), bad \in BOOLEAN :
                 /\ nodeAllow' = (nodeAllow \ gone) \cup new
                 /\ pass' = [pass EXCEPT !.at = "targets", !.failed = @ \/ bad]
    <3> DEFINE gone == StalePeers \ skip
               new == NodeAllow(held) \ skip
               bad == skip # {}
    <3>1. gone \in SUBSET StalePeers /\ new \in SUBSET NodeAllow(held) /\ bad \in BOOLEAN
      OBVIOUS
    <3>2. nodeAllow' = (nodeAllow \ gone) \cup new
      BY <1>2, <2>1
    <3>3. pass' = [pass EXCEPT !.at = "targets", !.failed = @ \/ bad]
      BY <2>1
    <3> HIDE DEF gone, new, bad
    <3> QED BY <3>1, <3>2, <3>3
  <2>2. ASSUME nodeAllow' = nodeAllow, pass' = [pass EXCEPT !.at = "targets", !.failed = TRUE]
        PROVE  \E gone \in SUBSET StalePeers, new \in SUBSET NodeAllow(held), bad \in BOOLEAN :
                 /\ nodeAllow' = (nodeAllow \ gone) \cup new
                 /\ pass' = [pass EXCEPT !.at = "targets", !.failed = @ \/ bad]
    <3>1. nodeAllow' = (nodeAllow \ {}) \cup {}
      BY <2>2
    <3>2. pass' = [pass EXCEPT !.at = "targets", !.failed = @ \/ TRUE]
      BY <2>2
    <3>3. {} \in SUBSET StalePeers /\ {} \in SUBSET NodeAllow(held) /\ TRUE \in BOOLEAN
      OBVIOUS
    <3> QED BY <3>1, <3>2, <3>3
  <2> QED BY <2>1, <2>2 DEF WriteNodeAllow
<1>5. NodeAllow(held) \subseteq Ips
  BY DesiredTypes DEF HeldOK
<1>6. MapsOK'
  BY <1>1, <1>4, <1>5 DEF MapsOK, PodsIn
<1>7. pass' = [at |-> "targets", desired |-> pass.desired, pending |-> pass.pending,
               rows |-> pass.rows, readable |-> pass.readable,
               failed |-> (pass.failed \/ bad)]
  BY <1>4 DEF PassOK
<1>8. PassOK'
  BY <1>1, <1>2, <1>7 DEF PassOK, FullyListed
<1> QED BY <1>3, <1>4, <1>6, <1>8

\* POD_TARGETS' turn deletes only the rows the pass planned to and adds only pods of
\* the held state, and does neither before that is known.
LEMMA PodTargetsWritten ==
  ASSUME MapsOK, PassOK, HeldOK, WritePodTargets
  PROVE  /\ MapsOK' /\ PassOK'
         /\ \E gone \in SUBSET pass.rows, new \in SUBSET PodTargets(held) :
              /\ podTargets' = (podTargets \ gone) \cup new
              /\ gone \cup new # {} => PodTargetsKnown(held)
<1>1. /\ pass.at = "targets" /\ pass' = Resting
      /\ UNCHANGED <<held, orphansSwept, everKnown, fronts, nodeAllow, pin>>
  BY DEF WritePodTargets
<1>2. /\ pass.desired.podTargets = PodTargets(held)
      /\ pass.desired.podTargetsKnown = PodTargetsKnown(held)
  BY <1>1 DEF PassOK, Desired
<1>3. PICK skip :
        /\ podTargets' = IF pass.desired.podTargetsKnown /\ pass.readable
                         THEN (podTargets \ (pass.rows \ skip))
                                \cup ((pass.desired.podTargets \ pass.pending) \ skip)
                         ELSE podTargets
        /\ retry' = ApplyFailed(skip)
  BY DEF WritePodTargets
<1>4. \E gone \in SUBSET pass.rows, new \in SUBSET PodTargets(held) :
              /\ podTargets' = (podTargets \ gone) \cup new
              /\ gone \cup new # {} => PodTargetsKnown(held)
  <2>1. CASE PodTargetsKnown(held) /\ pass.readable
    <3> DEFINE gone == pass.rows \ skip
               new == (PodTargets(held) \ pass.pending) \ skip
    <3>1. gone \in SUBSET pass.rows /\ new \in SUBSET PodTargets(held)
      OBVIOUS
    <3>2. podTargets' = (podTargets \ gone) \cup new
      BY <1>2, <1>3, <2>1
    <3> HIDE DEF gone, new
    <3> QED BY <2>1, <3>1, <3>2
  <2>2. CASE ~(PodTargetsKnown(held) /\ pass.readable)
    <3>1. podTargets' = (podTargets \ {}) \cup {}
      BY <1>2, <1>3, <2>2
    <3>2. {} \in SUBSET pass.rows /\ {} \in SUBSET PodTargets(held) /\ {} \cup {} = {}
      OBVIOUS
    <3> QED BY <3>1, <3>2
  <2> QED BY <2>1, <2>2
<1>5. PodTargets(held) \subseteq Ips
  BY DesiredTypes DEF HeldOK
<1>6. podTargets' \subseteq Ips
  BY <1>4, <1>5 DEF MapsOK
<1>7. MapsOK'
  BY <1>1, <1>6 DEF MapsOK, PodsIn
<1>8. retry' \in BOOLEAN
  BY <1>3 DEF ApplyFailed, PassOK
<1>9. PassOK'
  BY <1>1, <1>8 DEF PassOK, Resting, FullyListed
<1> QED BY <1>4, <1>7, <1>9

\* A mint pins an address to its last holder.
LEMMA MintTypes ==
  ASSUME EnvOK, MapsOK, PassOK, Mint
  PROVE  /\ MapsOK' /\ PassOK'
         /\ \E pod \in Ips : pin' = [ip |-> pod, owner |-> holder[pod],
                                     foundBy |-> IF known[pod] # Nothing THEN "uid"
                                                ELSE IF orphansSwept THEN "nothing" ELSE "address"]
<1>1. PICK front \in {ip \in Ips : fronts[ip] # Nothing} :
      \E i \in DOMAIN fronts[front].slots :
        pin' = [ip |-> fronts[front].slots[i].pod, owner |-> holder[fronts[front].slots[i].pod],
                foundBy |-> IF known[fronts[front].slots[i].pod] # Nothing THEN "uid"
                            ELSE IF orphansSwept THEN "nothing" ELSE "address"]
  BY DEF Mint
<1>2. PICK i \in DOMAIN fronts[front].slots :
        pin' = [ip |-> fronts[front].slots[i].pod, owner |-> holder[fronts[front].slots[i].pod],
                foundBy |-> IF known[fronts[front].slots[i].pod] # Nothing THEN "uid"
                            ELSE IF orphansSwept THEN "nothing" ELSE "address"]
  BY <1>1
<1> DEFINE pod == fronts[front].slots[i].pod
<1>3. pod \in Ips
  BY <1>1 DEF MapsOK, PodsIn
<1>4. pin' = [ip |-> pod, owner |-> holder[pod], foundBy |-> IF known[pod] # Nothing THEN "uid"
                                                ELSE IF orphansSwept THEN "nothing" ELSE "address"]
  BY <1>2
<1> HIDE DEF pod
<1>5. UNCHANGED <<procVars, mapVars>>
  BY DEF Mint
<1>6. pin' \in Pins
  BY <1>3, <1>4 DEF Pins, EnvOK, PassOK, Finds
<1>7. MapsOK'
  BY <1>5, <1>6 DEF MapsOK, PodsIn, mapVars
<1>8. PassOK'
  BY <1>5 DEF PassOK, procVars, mapVars, FullyListed
<1> QED BY <1>3, <1>4, <1>7, <1>8

\* Steps that leave the maps alone, and the process or all of its state.
LEMMA OtherStep ==
  ASSUME MapsOK, PassOK, UNCHANGED mapVars, UNCHANGED <<procVars, pin>> \/ Crash
  PROVE  MapsOK' /\ PassOK'
<1>1. MapsOK'
  <2>1. pin' = pin \/ (pin # Nothing => pin' = [pin EXCEPT !.foundBy = "address"])
    BY DEF Crash
  <2>2. pin' = Nothing \/ pin' \in Pins
    BY <2>1 DEF MapsOK, Pins, Finds, Crash
  <2> QED BY <2>2 DEF MapsOK, PodsIn, mapVars
<1>2. CASE UNCHANGED procVars
  BY <1>1, <1>2 DEF PassOK, procVars, mapVars, FullyListed
<1>3. CASE Crash
  <2>1. pass' = Resting /\ orphansSwept' = FALSE /\ everKnown' = FALSE /\ retry' = FALSE
    BY <1>3 DEF Crash
  <2> QED BY <1>1, <2>1 DEF PassOK, Resting
<1> QED BY <1>1, <1>2, <1>3

\* Every step keeps the maps' types and the pass's.
LEMMA ProcessStep ==
  ASSUME EnvOK, LogOK, HeldOK, MapsOK, PassOK, [Next]_vars
  PROVE  MapsOK' /\ PassOK'
<1>1. CASE WatchStep
  <2>1. UNCHANGED <<mapVars, pin>> /\ UNCHANGED procVars
    BY <1>1 DEF WatchStep
  <2> QED BY <2>1, OtherStep
<1>2. CASE Crash
  <2>1. UNCHANGED mapVars
    BY <1>2 DEF Crash
  <2> QED BY <1>2, <2>1, OtherStep
<1>3. ASSUME NEW o \in Objects, Change(o) PROVE MapsOK' /\ PassOK'
  <2>1. UNCHANGED <<mapVars, pin>> /\ UNCHANGED procVars
    BY <1>3 DEF Change
  <2> QED BY <2>1, OtherStep
<1>4. CASE Starts
  BY <1>4, PassStarted
<1>5. CASE WriteFronts
  BY <1>5, FrontsWritten
<1>6. CASE WriteNodeAllow
  BY <1>6, NodeAllowWritten
<1>7. CASE WritePodTargets
  BY <1>7, PodTargetsWritten
<1>8. CASE Mint
  BY <1>8, MintTypes
<1> QED BY <1>1, <1>2, <1>3, <1>4, <1>5, <1>6, <1>7, <1>8, StepCases

\* Nothing that has been listed is forgotten but in a crash.
LEMMA ListedGrows ==
  ASSUME EnvOK, LogOK, HeldOK, [Next]_vars
  PROVE  Crash \/ held.listed \subseteq held'.listed
<1>1. CASE Starts
  BY <1>1 DEF Starts, StartPass
<1>2. CASE WriteFronts \/ WriteNodeAllow \/ WritePodTargets \/ Mint \/ WatchStep
  <2>1. held' = held
    BY <1>2 DEF WriteFronts, WriteNodeAllow, WritePodTargets, Mint, WatchStep, procVars
  <2> QED BY <2>1
<1>3. ASSUME NEW o \in Objects, Change(o) PROVE held' = held
  BY <1>3 DEF Change, procVars
<1> QED BY <1>1, <1>2, <1>3, StepCases

\* The part of LogOK about one resource, with log l and s events delivered.
LogOf(r, l, s) ==
    /\ l \in Seq(Events) /\ s \in Nat /\ s <= Len(l)
    /\ r \notin watching => l = <<>>
    /\ \A i \in 1..Len(l) : ResourceOf(l[i].name) = r /\ l[i].object \in seen[l[i].name]

\* LogOK, resource by resource.
LEMMA LogByResource ==
  ASSUME log = [r \in Resources |-> log[r]], sent = [r \in Resources |-> sent[r]]
  PROVE  LogOK <=> watching \subseteq held.listed /\ \A r \in Resources : LogOf(r, log[r], sent[r])
BY DEF LogOK, LogOf

\* A log is not disturbed by the history growing, and may be cut or dropped.
LEMMA LogCut ==
  ASSUME NEW r, NEW l, NEW s, LogOf(r, l, s)
  PROVE  /\ LogOf(r, l, 0)
         /\ LogOf(r, <<>>, 0)
         /\ s < Len(l) => LogOf(r, l, s + 1)
         /\ LogOf(r, SubSeq(l, s + 1, Len(l)), 0)
<1>1. l \in Seq(Events) /\ s \in Nat /\ Len(l) \in Nat /\ s <= Len(l)
  BY DEF LogOf
<1>2. LogOf(r, l, 0) /\ (s < Len(l) => LogOf(r, l, s + 1))
  BY <1>1 DEF LogOf
<1>3. LogOf(r, <<>>, 0)
  BY DEF LogOf
<1> DEFINE t == SubSeq(l, s + 1, Len(l))
<1>4. t \in Seq(Events) /\ Len(t) = Len(l) - s /\ \A i \in 1..Len(t) : t[i] = l[s + i]
  <2>1. t = [i \in 1..(Len(l) - s) |-> l[s + i]] /\ Len(t) = Len(l) - s
    BY <1>1
  <2>2. \A i \in 1..(Len(l) - s) : s + i \in 1..Len(l) /\ l[s + i] \in Events
    BY <1>1
  <2> QED BY <1>1, <2>1, <2>2
<1> HIDE DEF t
<1>5. Len(l) - s \in Nat /\ \A i \in 1..Len(t) : s + i \in 1..Len(l)
  BY <1>1, <1>4
<1>6. r \notin watching => t = <<>>
  <2>1. r \notin watching => Len(l) = 0 /\ s = 0
    BY <1>1 DEF LogOf
  <2>2. r \notin watching => Len(t) = 0
    BY <1>4, <2>1
  <2> QED BY <1>4, <2>2, EmptySeq
<1>7. LogOf(r, t, 0)
  <2>1. 0 <= Len(t)
    BY <1>4, <1>5
  <2>2. \A i \in 1..Len(t) : ResourceOf(t[i].name) = r /\ t[i].object \in seen[t[i].name]
    BY <1>4, <1>5 DEF LogOf
  <2> QED BY <1>4, <1>6, <2>1, <2>2 DEF LogOf
<1> QED BY <1>2, <1>3, <1>7 DEF t

\* The same log in the next state, when the history has grown.
LEMMA LogMoved ==
  ASSUME \A o \in Objects : seen[o] \subseteq seen'[o], NEW r,
         LogOf(r, log'[r], sent'[r]), r \in watching' \/ log'[r] = <<>>
  PROVE  LogOf(r, log[r], sent[r])'
<1>1. log'[r] \in Seq(Events)
  BY DEF LogOf
<1>2. \A i \in 1..Len(log'[r]) : log'[r][i].name \in Objects
  <2>1. \A i \in 1..Len(log'[r]) : log'[r][i] \in Events
    BY <1>1
  <2> QED BY <2>1 DEF Events
<1> QED BY <1>2 DEF LogOf

\* The log of a resource whose object o has become v.
LEMMA LogAppended ==
  ASSUME EnvOK', \A o \in Objects : seen[o] \subseteq seen'[o],
         NEW o \in Objects, NEW v \in AllVersions, v \in seen'[o], ResourceOf(o) \in watching',
         LogOf(ResourceOf(o), log[ResourceOf(o)], sent[ResourceOf(o)]),
         log'[ResourceOf(o)] = Append(log[ResourceOf(o)], [name |-> o, object |-> v]),
         sent' = sent
  PROVE  LogOf(ResourceOf(o), log[ResourceOf(o)], sent[ResourceOf(o)])'
<1> DEFINE r == ResourceOf(o)
           l == log[r]
           e == [name |-> o, object |-> v]
<1>1. l \in Seq(Events) /\ Len(l) \in Nat /\ sent[r] \in Nat /\ sent[r] <= Len(l) /\ e \in Events
  BY DEF LogOf, Events
<1>2. log'[r] = Append(l, e) /\ Append(l, e) \in Seq(Events)
  BY <1>1
<1>3. /\ Len(log'[r]) = Len(l) + 1
      /\ \A i \in 1..(Len(l) + 1) : log'[r][i] = IF i = Len(l) + 1 THEN e ELSE l[i]
  BY <1>1, <1>2
<1>4. \A i \in 1..Len(l) : l[i].name \in Objects
  <2>1. \A i \in 1..Len(l) : l[i] \in Events
    BY <1>1
  <2> QED BY <2>1 DEF Events
<1>5. ASSUME NEW i \in 1..Len(log'[r])
      PROVE  ResourceOf(log'[r][i].name) = r /\ log'[r][i].object \in seen'[log'[r][i].name]
  <2>1. CASE i = Len(l) + 1
    <3>1. log'[r][i].name = o /\ log'[r][i].object = v
      BY <1>1, <1>3, <2>1
    <3> QED BY <3>1
  <2>2. CASE i # Len(l) + 1
    <3>1. i \in 1..Len(l) /\ log'[r][i] = l[i]
      BY <1>1, <1>3, <2>2
    <3>2. l[i].name \in Objects /\ ResourceOf(l[i].name) = r /\ l[i].object \in seen[l[i].name]
      BY <1>4, <3>1 DEF LogOf
    <3> QED BY <3>1, <3>2
  <2> QED BY <2>1, <2>2
<1>6. sent'[r] \in Nat /\ sent'[r] <= Len(log'[r])
  BY <1>1, <1>3
<1> QED BY <1>2, <1>5, <1>6 DEF LogOf

\* The watches' part of the state is kept well typed by every step.
LEMMA LogStep ==
  ASSUME EnvOK, LogOK, HeldOK, EnvOK', HeldOK', [Next]_vars
  PROVE  LogOK'
<1>0. \A o \in Objects : seen[o] \subseteq seen'[o]
  BY SeenGrows
<1>f. log = [r \in Resources |-> log[r]] /\ sent = [r \in Resources |-> sent[r]]
  BY DEF LogOK
<1>a. watching \subseteq held.listed /\ \A r \in Resources : LogOf(r, log[r], sent[r])
  BY <1>f, LogByResource
<1>b. \A r \in Resources : r \in watching \/ log[r] = <<>>
  BY DEF LogOK
<1>c. ASSUME log' = [r \in Resources |-> log'[r]], sent' = [r \in Resources |-> sent'[r]],
             watching' \subseteq held'.listed,
             \A r \in Resources : LogOf(r, log[r], sent[r])'
      PROVE  LogOK'
  BY <1>c DEF LogOK, LogOf
<1>d. ASSUME watching' \subseteq held'.listed,
             log' = [r \in Resources |-> log'[r]], sent' = [r \in Resources |-> sent'[r]],
             \A r \in Resources : LogOf(r, log'[r], sent'[r]) /\ (r \in watching' \/ log'[r] = <<>>)
      PROVE  LogOK'
  <2>1. \A r \in Resources : LogOf(r, log[r], sent[r])'
    BY <1>0, <1>d, LogMoved
  <2> QED BY <1>c, <1>d, <2>1
<1>g. Crash \/ held.listed \subseteq held'.listed
  BY ListedGrows
<1>1. CASE UNCHANGED watchVars /\ ~Crash
  <2>1. log' = log /\ sent' = sent /\ watching' = watching
    BY <1>1 DEF watchVars
  <2> QED BY <1>1, <1>a, <1>b, <1>d, <1>f, <1>g, <2>1
<1>2. ASSUME NEW r \in Resources, Deliver(r), ~Crash PROVE LogOK'
  <2>1. log' = log /\ watching' = watching /\ sent' = [sent EXCEPT ![r] = @ + 1]
        /\ sent[r] < Len(log[r])
    BY <1>2 DEF Deliver
  <2>2. \A q \in Resources : sent'[q] = IF q = r THEN sent[r] + 1 ELSE sent[q]
    BY <1>f, <2>1
  <2>3. \A q \in Resources : LogOf(q, log[q], sent'[q])
    BY <1>a, <2>1, <2>2, LogCut
  <2> QED BY <1>2, <1>a, <1>b, <1>d, <1>f, <1>g, <2>1, <2>3
<1>3. ASSUME NEW r \in Resources, LoseConnection(r) \/ Expired(r) \/ Bookmark(r), ~Crash PROVE LogOK'
  <2>1. /\ sent' = [sent EXCEPT ![r] = 0]
        /\ watching' \in {watching, watching \ {r}}
        /\ r \notin watching' => log'[r] = <<>>
        /\ log' = [log EXCEPT ![r] = log'[r]]
        /\ log'[r] \in {log[r], <<>>, SubSeq(log[r], sent[r] + 1, Len(log[r]))}
    <3>1. CASE LoseConnection(r)
      BY <1>b, <1>f, <3>1 DEF LoseConnection
    <3>2. CASE Expired(r)
      BY <1>f, <3>2 DEF Expired
    <3>3. CASE Bookmark(r)
      <4>1. log' = [log EXCEPT ![r] = SubSeq(log[r], sent[r] + 1, Len(log[r]))] /\ watching' = watching
            /\ sent' = [sent EXCEPT ![r] = 0]
        BY <3>3 DEF Bookmark
      <4>2. log'[r] = SubSeq(log[r], sent[r] + 1, Len(log[r]))
        BY <1>f, <4>1
      <4>3. r \in watching
        <5>1. sent[r] > 0
          BY <3>3 DEF Bookmark
        <5>2. log[r] # <<>>
          BY <1>a, <5>1 DEF LogOf
        <5> QED BY <1>b, <5>2
      <4> QED BY <4>1, <4>2, <4>3
    <3> QED BY <1>3, <3>1, <3>2, <3>3
  <2>2. LogOf(r, log'[r], 0) /\ sent'[r] = 0
    BY <1>a, <1>f, <2>1, LogCut
  <2>3. \A q \in Resources : q # r => log'[q] = log[q] /\ sent'[q] = sent[q]
    BY <1>f, <2>1
  <2>4. \A q \in Resources : LogOf(q, log'[q], sent'[q])
    BY <1>a, <2>2, <2>3
  <2>5. \A q \in Resources : q \in watching' \/ log'[q] = <<>>
    BY <1>b, <2>1, <2>3
  <2>6. watching' \subseteq held'.listed
    BY <1>3, <1>a, <1>g, <2>1
  <2>7. log' = [q \in Resources |-> log'[q]] /\ sent' = [q \in Resources |-> sent'[q]]
    BY <1>f, <2>1
  <2> QED BY <1>d, <2>4, <2>5, <2>6, <2>7
<1>4. ASSUME NEW r \in Resources, List(r), ~Crash PROVE LogOK'
  <2>1. CASE Refuses(held, r, cluster)
    <3>1. UNCHANGED vars
      BY <1>4, <2>1 DEF List, Listed
    <3>2. UNCHANGED watchVars
      BY <3>1 DEF vars
    <3> QED BY <1>1, <1>4, <3>2
  <2>2. CASE ~Refuses(held, r, cluster)
    <3>1. StartPass(Replaced(held, r, cluster)) /\ watching' = watching \cup {r}
          /\ log' = log /\ sent' = sent
      BY <1>4, <2>2 DEF List, Listed
    <3>2. held' = Replaced(held, r, cluster)
      BY <3>1 DEF StartPass
    <3>3. \A o \in Objects : cluster[o] \in seen[o]
      BY DEF EnvOK
    <3>4. held'.listed = held.listed \cup {r}
      BY <3>2, <3>3, ReplacedOK DEF HeldOK
    <3> QED BY <1>a, <1>b, <1>d, <1>f, <3>1, <3>4
  <2> QED BY <2>1, <2>2
<1>5. CASE Crash
  <2>1. /\ watching' = {} /\ log' = [r \in Resources |-> <<>>] /\ sent' = [r \in Resources |-> 0]
    BY <1>5 DEF Crash
  <2>2. \A r \in Resources : LogOf(r, <<>>, 0)
    BY <1>a, LogCut
  <2> QED BY <1>d, <2>1, <2>2
<1>6. ASSUME NEW o \in Objects, Change(o), ~Crash PROVE LogOK'
  <2> DEFINE q == ResourceOf(o)
  <2>1. PICK v \in Versions[o] :
          /\ seen' = [seen EXCEPT ![o] = @ \cup {v}]
          /\ log' = IF q \in watching
                    THEN [log EXCEPT ![q] = Append(@, [name |-> o, object |-> v])] ELSE log
    BY <1>6, Changed
  <2>2. sent' = sent /\ watching' = watching /\ held' = held
    BY <1>6, Changed DEF procVars
  <2>3. CASE q \notin watching
    <3>1. UNCHANGED watchVars
      BY <2>1, <2>2, <2>3 DEF watchVars
    <3> QED BY <1>1, <1>6, <3>1
  <2>4. CASE q \in watching
    <3>1. q \in Resources
      BY ObjectKinds DEF Resources
    <3>2. /\ log'[q] = Append(log[q], [name |-> o, object |-> v])
          /\ \A r \in Resources : r # q => log'[r] = log[r]
          /\ log' = [r \in Resources |-> log'[r]]
      BY <1>f, <2>1, <2>4, <3>1
    <3>3. v \in seen'[o] /\ v \in AllVersions
      BY <2>1 DEF EnvOK, AllVersions
    <3>4. LogOf(q, log[q], sent[q])'
      BY <1>0, <1>a, <2>2, <2>4, <3>1, <3>2, <3>3, LogAppended
    <3>5. \A r \in Resources : r # q => LogOf(r, log[r], sent[r])'
      BY <1>0, <1>a, <1>b, <2>2, <3>2, LogMoved
    <3> QED BY <1>a, <1>c, <1>f, <2>2, <3>2, <3>4, <3>5
  <2> QED BY <2>3, <2>4
<1>7. CASE WriteFronts \/ WriteNodeAllow \/ WritePodTargets \/ RetryTick \/ Mint \/ UNCHANGED vars
  <2>1. UNCHANGED watchVars
    BY <1>7 DEF WriteFronts, WriteNodeAllow, WritePodTargets, RetryTick, Mint, vars
  <2> QED BY <1>1, <1>5, <2>1
<1>8. ASSUME NEW r \in Resources, ImplausibleList(r) PROVE LogOK'
  <2>1. UNCHANGED vars
    BY <1>8, ImplausibleRefused DEF ImplausibleList, Listed
  <2> QED BY <1>7, <2>1
<1> QED BY <1>2, <1>3, <1>4, <1>5, <1>6, <1>7, <1>8 DEF Next, Apply

\* What is counted as mishaps is a number.
LEMMA SkipCounted ==
  ASSUME NEW S, NEW skip \in Skipped(S)
  PROVE  Cardinality(skip) \in Nat
<1>1. CASE skip = {}
  BY <1>1, FS_EmptySet
<1>2. CASE skip # {}
  <2>1. PICK x \in S : skip = {x}
    BY <1>2 DEF Skipped
  <2>2. Cardinality({x}) = 1
    BY FS_Singleton
  <2> QED BY <2>1, <2>2
<1> QED BY <1>1, <1>2

\* What a starting pass counts of its failures is a number.
LEMMA PassCounted ==
  ASSUME NEW b
  PROVE  Cardinality({x \in {1, 2, 3} : b[x]}) \in Nat
<1>1. IsFiniteSet({1, 2, 3})
  <2>1. {1, 2, 3} = 1..3
    OBVIOUS
  <2>2. 1 \in Int /\ 3 \in Int
    OBVIOUS
  <2>3. IsFiniteSet(1..3)
    BY ONLY <2>2, FS_Interval
  <2> QED BY <2>1, <2>3
<1>2. {x \in {1, 2, 3} : b[x]} \subseteq {1, 2, 3}
  OBVIOUS
<1>3. IsFiniteSet({x \in {1, 2, 3} : b[x]})
  BY <1>1, <1>2, FS_Subset
<1> QED BY <1>3, FS_CardinalityType

\* The bounds hold.
LEMMA BoundsStep ==
  ASSUME EnvOK, LogOK, HeldOK, BoundsOK, [Next]_vars
  PROVE  BoundsOK'
<1>0. ASSUME NEW n \in Nat, Mishaps(n), changes' = changes PROVE BoundsOK'
  BY <1>0, ReconcileAssumption DEF BoundsOK, Mishaps
<1>1. ASSUME NEW h, StartPass(h) PROVE BoundsOK'
  <2>1. PICK readable \in BOOLEAN, walked \in BOOLEAN, ok \in BOOLEAN, hit \in BOOLEAN :
          Mishaps(Cardinality({x \in {1, 2, 3} : <<~readable, ~walked, ~ok>>[x]}))
    BY <1>1 DEF StartPass
  <2> DEFINE n == Cardinality({x \in {1, 2, 3} : <<~readable, ~walked, ~ok>>[x]})
  <2>2. n \in Nat
    BY PassCounted
  <2>3. Mishaps(n) /\ changes' = changes
    BY <1>1, <2>1 DEF StartPass
  <2> HIDE DEF n
  <2> QED BY <1>0, <2>2, <2>3
<1>2. CASE WriteFronts
  <2>1. PICK skip \in Skipped(IF pass.desired.frontsKnown THEN Ips ELSE {}) : Mishaps(Cardinality(skip))
    BY <1>2 DEF WriteFronts
  <2>2. changes' = changes
    BY <1>2 DEF WriteFronts
  <2> QED BY <1>0, <2>1, <2>2, SkipCounted
<1>3. CASE WriteNodeAllow
  <2>1. \/ Mishaps(1)
        \/ \E skip \in Skipped(StalePeers \cup pass.desired.nodeAllow) : Mishaps(Cardinality(skip))
    BY <1>3 DEF WriteNodeAllow
  <2>2. changes' = changes
    BY <1>3 DEF WriteNodeAllow
  <2> QED BY <1>0, <2>1, <2>2, SkipCounted
<1>4. CASE WritePodTargets
  <2>1. \E S : \E skip \in Skipped(S) : Mishaps(Cardinality(skip))
    BY <1>4 DEF WritePodTargets
  <2>2. changes' = changes
    BY <1>4 DEF WritePodTargets
  <2> QED BY <1>0, <2>1, <2>2, SkipCounted
<1>5. CASE Mint
  BY <1>5 DEF Mint, bounds, BoundsOK
<1>6. CASE Crash
  <2>1. Mishaps(1) /\ changes' = changes
    BY <1>6 DEF Crash
  <2> QED BY <1>0, <2>1
<1>7. CASE WatchStep
  <2>1. changes' = changes /\ (mishaps' = mishaps \/ Mishaps(1))
    BY <1>7 DEF WatchStep
  <2> QED BY <1>0, <2>1 DEF BoundsOK
<1>8. ASSUME NEW o \in Objects, Change(o) PROVE BoundsOK'
  <2>1. changes < MaxChanges /\ changes' = changes + 1 /\ mishaps' = mishaps
    BY <1>8 DEF Change
  <2> QED BY <2>1, ReconcileAssumption DEF BoundsOK
<1> QED BY <1>1, <1>2, <1>3, <1>4, <1>5, <1>6, <1>7, <1>8, StepCases DEF Starts

\* The cluster as it is at first is one of its combinations of versions.
LEMMA FirstMix == AtFirst \in Mixes([o \in Objects |-> {AtFirst[o]}])
<1> DEFINE V == [o \in Objects |-> {AtFirst[o]}]
           s == [x \in SliceNames |-> AtFirst[x]]
           n == [x \in Nodes |-> AtFirst[x]]
           c == [x \in Objects |-> IF x = Svc THEN AtFirst[Svc] ELSE IF x \in SliceNames THEN s[x] ELSE n[x]]
<1>1. /\ AtFirst[Svc] \in V[Svc]
      /\ s = [x \in SliceNames |-> s[x]] /\ \A x \in SliceNames : s[x] \in V[x]
      /\ n = [x \in Nodes |-> n[x]] /\ \A x \in Nodes : n[x] \in V[x]
  BY VersionTypes
<1>2. c \in Mixes(V)
  <2> HIDE DEF V, s, n
  <2> QED BY <1>1, MixOf
<1>3. AtFirst = [x \in Objects |-> AtFirst[x]]
  BY ReconcileAssumption
<1>4. c = [x \in Objects |-> AtFirst[x]]
  BY ObjectKinds, VersionTypes
<1> QED BY <1>2, <1>3, <1>4

\* The WatchState of a listed cluster is well typed.
LEMMA ListingType ==
  ASSUME NEW c, \A o \in Objects : c[o] \in Versions[o]
  PROVE  Listing(c) \in WatchStates
<1>1. ParseService(c[Svc]) \in Services \cup {Nothing}
  BY VersionTypes, ParsedService
<1>2. [s \in SliceNames |-> c[s]] \in [SliceNames -> Slices \cup {Nothing}]
  BY VersionTypes
<1>3. RelistedNodes(NoWatchState, c) \in [Nodes -> NodeAddrs \cup {Nothing}]
  <2>1. \A n \in Nodes : RelistedNode(NoWatchState, c, n) = Kept(NoWatchState.addrs[n], c[n])
    BY NothingListed, NodeRelisted, VersionTypes
  <2>2. \A n \in Nodes : Kept(NoWatchState.addrs[n], c[n]) \in NodeAddrs \cup {Nothing}
    BY NothingListed, NodeRecord, VersionTypes
  <2> QED BY <2>1, <2>2 DEF RelistedNodes
<1>4. {n \in Nodes : c[n] # Nothing} \in SUBSET Nodes
  OBVIOUS
<1> QED BY <1>1, <1>2, <1>3, <1>4 DEF Listing, WatchStates

\* TypeInv holds at first.
LEMMA TypeInit == Init => TypeInv
<1> SUFFICES ASSUME Init PROVE TypeInv
  OBVIOUS
<1>0. \A o \in Objects : AtFirst[o] \in Versions[o] /\ AtFirst[o] \in AllVersions
  BY ReconcileAssumption DEF AllVersions
<1>1. EnvOK
  <2>1. cluster \in [Objects -> AllVersions]
    BY ReconcileAssumption DEF Init, AllVersions
  <2>2. /\ seen \in [Objects -> SUBSET AllVersions]
        /\ \A o \in Objects : cluster[o] \in seen[o] /\ seen[o] \subseteq Versions[o]
    BY <1>0 DEF Init
  <2>3. NoBackends \in [Ips -> STRING \cup {Nothing}]
    BY DEF NoBackends
  <2>4. holder \in [Ips -> STRING \cup {Nothing}]
    BY <1>0, <2>3, VersionTypes, HolderType DEF Init
  <2> QED BY <2>1, <2>2, <2>4 DEF EnvOK
<1>2. LogOK
  BY DEF Init, LogOK, NoWatchState
<1>3. HeldOK
  BY NothingListed DEF Init, HeldOK
<1>4. Listing(cluster) \in WatchStates
  BY <1>0, ListingType DEF Init
<1>5. MapsOK
  BY <1>4, DesiredTypes DEF Init, MapsOK, PodsIn
<1>6. PassOK
  BY DEF Init, PassOK, Resting
<1>7. BoundsOK
  BY ReconcileAssumption DEF Init, BoundsOK
<1> QED BY <1>1, <1>2, <1>3, <1>5, <1>6, <1>7 DEF TypeInv

\* TypeInv is inductive.
LEMMA TypeStep == TypeInv /\ [Next]_vars => TypeInv'
<1> SUFFICES ASSUME TypeInv, [Next]_vars PROVE TypeInv'
  OBVIOUS
<1>0. EnvOK /\ LogOK /\ HeldOK /\ MapsOK /\ PassOK /\ BoundsOK
  BY DEF TypeInv
<1>1. EnvOK'
  BY <1>0, EnvStep
<1>2. HeldOK'
  BY <1>0, HeldStep
<1>3. LogOK'
  BY <1>0, <1>1, <1>2, LogStep
<1>4. MapsOK' /\ PassOK'
  BY <1>0, ProcessStep
<1>5. BoundsOK'
  BY <1>0, BoundsStep
<1> QED BY <1>1, <1>2, <1>3, <1>4, <1>5 DEF TypeInv

\* The inductive invariant gives the types of Reconcile.
LEMMA TypeInvGives == TypeInv => TypeOK
<1> SUFFICES ASSUME TypeInv PROVE TypeOK
  OBVIOUS
<1>1. \A r \in Resources : sent[r] \in 0..Len(log[r])
  <2> SUFFICES ASSUME NEW r \in Resources PROVE sent[r] \in 0..Len(log[r])
    OBVIOUS
  <2>1. log[r] \in Seq(Events) /\ sent[r] \in Nat /\ sent[r] <= Len(log[r])
    BY DEF TypeInv, LogOK
  <2> QED BY <2>1
<1>2. held.listed \subseteq Resources /\ watching \subseteq held.listed
      /\ \A r \in Resources \ watching : log[r] = <<>>
  BY DEF TypeInv, LogOK, HeldOK, WatchStates
<1>3. pass.at # "rest" => pass.desired.podTargets \subseteq Ips
  BY DesiredTypes DEF TypeInv, HeldOK, PassOK, Desired
<1>4. pin = Nothing \/ pin.ip \in Ips
  BY DEF TypeInv, MapsOK, Pins
<1>5. /\ pass.at \in {"rest", "fronts", "allow", "targets"}
      /\ pass.pending \subseteq Ips /\ pass.rows \subseteq podTargets
      /\ podTargets \subseteq Ips /\ nodeAllow \subseteq Ips
      /\ changes <= MaxChanges /\ mishaps <= MaxMishaps
  BY DEF TypeInv, MapsOK, PassOK, BoundsOK
<1> QED BY <1>1, <1>2, <1>3, <1>4, <1>5 DEF TypeOK

\* TypeInv is an invariant.
LEMMA TypeInvariant == Spec => []TypeInv
BY TypeInit, TypeStep, PTL DEF Spec

(***************************************************************************)
(* Reconcile stays within its types: every log holds what was not yet      *)
(* acknowledged, the rows a pass deletes are in the map, and what it is    *)
(* still to write are addresses.                                           *)
(***************************************************************************)
THEOREM TypeCorrect == Spec => []TypeOK
BY TypeInvariant, TypeInvGives, PTL

-----------------------------------------------------------------------------
(* What every version of the cluster calls for.                            *)

\* A mix is a function of the objects, and any such function is one.
LEMMA MixFunction ==
  ASSUME NEW V, NEW c \in Mixes(V)
  PROVE  c = [x \in Objects |-> c[x]]
<1> DEFINE Of(S) == {d \in [S -> UNION {V[x] : x \in S}] : \A x \in S : d[x] \in V[x]}
<1>1. PICK v \in V[Svc], s \in Of(SliceNames), n \in Of(Nodes) :
        c = [x \in Objects |-> IF x = Svc THEN v ELSE IF x \in SliceNames THEN s[x] ELSE n[x]]
  BY DEF Mixes
<1> QED BY <1>1

\* A function that picks a version of each object is a combination of them.
LEMMA FunctionMixed ==
  ASSUME NEW V, NEW c, c = [x \in Objects |-> c[x]], \A x \in Objects : c[x] \in V[x]
  PROVE  c \in Mixes(V)
<1> DEFINE v == c[Svc]
           s == [x \in SliceNames |-> c[x]]
           n == [x \in Nodes |-> c[x]]
           d == [x \in Objects |-> IF x = Svc THEN v ELSE IF x \in SliceNames THEN s[x] ELSE n[x]]
<1>1. /\ v \in V[Svc]
      /\ s = [x \in SliceNames |-> s[x]] /\ \A x \in SliceNames : s[x] \in V[x]
      /\ n = [x \in Nodes |-> n[x]] /\ \A x \in Nodes : n[x] \in V[x]
  BY VersionTypes
<1>2. \A x \in Objects : d[x] = c[x]
  BY ObjectKinds
<1>3. d = [x \in Objects |-> d[x]]
  OBVIOUS
<1>4. d \in Mixes(V)
  <2> HIDE DEF v, s, n
  <2> QED BY <1>1, MixOf
<1> HIDE DEF d
<1> QED BY <1>2, <1>3, <1>4

\* The mixes after a change: those before, and those with the new version.
LEMMA MixesGrow ==
  ASSUME EnvOK, NEW o \in Objects, NEW v, NEW c \in Mixes([seen EXCEPT ![o] = @ \cup {v}])
  PROVE  c \in Mixes(seen) \/ c \in Mixes([seen EXCEPT ![o] = {v}])
<1> DEFINE V == [seen EXCEPT ![o] = @ \cup {v}]
           W == [seen EXCEPT ![o] = {v}]
<1>1. c = [x \in Objects |-> c[x]] /\ \A x \in Objects : c[x] \in V[x]
  BY MixFunction, MixValues
<1>2. \A x \in Objects : /\ V[x] = IF x = o THEN seen[o] \cup {v} ELSE seen[x]
                         /\ W[x] = IF x = o THEN {v} ELSE seen[x]
  BY DEF EnvOK
<1> HIDE DEF V, W
<1>3. CASE c[o] = v
  <2>1. \A x \in Objects : c[x] \in W[x]
    BY <1>1, <1>2, <1>3
  <2> QED BY <1>1, <2>1, FunctionMixed DEF W
<1>4. CASE c[o] # v
  <2>1. \A x \in Objects : c[x] \in seen[x]
    BY <1>1, <1>2, <1>4
  <2> QED BY <1>1, <2>1, FunctionMixed
<1> QED BY <1>3, <1>4

\* Versions that have been seen are versions.
LEMMA SeenMixes ==
  ASSUME NEW V, \A x \in Objects : V[x] \subseteq Versions[x], NEW c \in Mixes(V)
  PROVE  c \in Mixes(Versions) /\ \A x \in Objects : c[x] \in Versions[x]
<1>1. c = [x \in Objects |-> c[x]] /\ \A x \in Objects : c[x] \in V[x]
  BY MixFunction, MixValues
<1>2. \A x \in Objects : c[x] \in Versions[x]
  BY <1>1
<1> QED BY <1>1, <1>2, FunctionMixed

\* steady is what all mixes want, in every state.
LEMMA SteadyWantedInit == Init => SteadyWanted
<1> SUFFICES ASSUME Init, NEW c \in Mixes(seen) PROVE steady \subseteq Wanted(c)
  BY DEF SteadyWanted
<1>1. c = [x \in Objects |-> c[x]] /\ \A x \in Objects : c[x] \in seen[x]
  BY MixFunction, MixValues
<1>2. AtFirst = [x \in Objects |-> AtFirst[x]]
  BY ReconcileAssumption
<1>3. \A x \in Objects : c[x] = AtFirst[x]
  BY <1>1 DEF Init
<1>4. c = AtFirst
  BY <1>1, <1>2, <1>3
<1> QED BY <1>4 DEF Init

\* A change that a steady entry does not survive takes it out of steady.
LEMMA SteadyWantedStep ==
  ASSUME TypeInv, SteadyWanted, [Next]_vars
  PROVE  SteadyWanted' /\ steady' \subseteq steady
<1>0. EnvOK /\ LogOK /\ HeldOK
  BY DEF TypeInv
<1>1. CASE Quiet
  BY <1>1 DEF Quiet, SteadyWanted
<1>2. ASSUME NEW o \in Objects, Change(o) PROVE SteadyWanted' /\ steady' \subseteq steady
  <2>1. PICK v \in Versions[o] :
          /\ seen' = [seen EXCEPT ![o] = @ \cup {v}]
          /\ steady' = {e \in steady : \A w \in {WantedIn[c] : c \in Mixes([seen EXCEPT ![o] = {v}])} :
                                          e \in w}
    BY <1>0, <1>2, Changed
  <2> DEFINE W == [seen EXCEPT ![o] = {v}]
  <2>2. \A x \in Objects : W[x] \subseteq Versions[x]
    BY <1>0 DEF EnvOK
  <2>3. steady' \subseteq steady /\ \A c \in Mixes(W) : steady' \subseteq WantedIn[c]
    BY <2>1
  <2> HIDE DEF W
  <2>4. \A c \in Mixes(W) : WantedIn[c] = Wanted(c)
    BY <2>2, SeenMixes DEF WantedIn
  <2>5. ASSUME NEW c \in Mixes(seen') PROVE steady' \subseteq Wanted(c)
    <3>1. c \in Mixes(seen) \/ c \in Mixes(W)
      BY <1>0, <2>1, MixesGrow DEF W
    <3>2. c \in Mixes(seen) => steady \subseteq Wanted(c)
      BY DEF SteadyWanted
    <3> QED BY <2>3, <2>4, <3>1, <3>2
  <2>6. \A c \in Mixes(seen') : steady' \subseteq Wanted(c)
    BY <2>5
  <2> QED BY <2>3, <2>6 DEF SteadyWanted
<1> QED BY <1>0, <1>1, <1>2, Surroundings

-----------------------------------------------------------------------------
(* The entries of the maps.                                                *)

\* The three kinds of entries.
LEMMA EntryKinds ==
  ASSUME NEW f, NEW targets, NEW allow, NEW e
  PROVE  e \in Entries(f, targets, allow) <=>
           \/ \E ip \in Ips : e = <<"pod", ip>> /\ ip \in targets
           \/ \E ip \in Ips : e = <<"peer", ip>> /\ ip \in allow
           \/ \E ip \in Ips : \E pod : e = <<"slot", ip, pod>> /\ Leads(f, ip, pod)
<1>1. {x \in Ips : DecapForwardPodAdmission(targets, x) = "Deliver"} = Ips \cap targets
  BY DEF DecapForwardPodAdmission
<1>2. {x \in Ips : PeerNodeAdmission(allow, x) = "Continue"} = Ips \cap allow
  BY DEF PeerNodeAdmission
<1> DEFINE slots == UNION {{<<"slot", ip, f[ip].slots[i].pod>> : i \in DOMAIN f[ip].slots} :
                             ip \in {x \in Ips : f[x] # Nothing}}
<1>3. e \in slots <=> \E ip \in Ips : \E pod : e = <<"slot", ip, pod>> /\ Leads(f, ip, pod)
  BY DEF Leads
<1>4. Entries(f, targets, allow) =
        {<<"pod", ip>> : ip \in Ips \cap targets} \cup {<<"peer", ip>> : ip \in Ips \cap allow} \cup slots
  BY <1>1, <1>2 DEF Entries
<1> HIDE DEF slots
<1> QED BY <1>3, <1>4

\* An entry that is not a backend is wanted of the maps.
LEMMA WantedEntries ==
  ASSUME NEW c, NEW e \in Wanted(c), e[1] # "backend"
  PROVE  e \in Entries(Fronts(Listing(c)), PodTargets(Listing(c)), NodeAllow(Listing(c)))
<1>1. e \notin {<<"backend", x.ip, x.uid>> : x \in Backends(c)}
  OBVIOUS
<1> QED BY <1>1 DEF Wanted

\* Once everything is listed the process wants every steady entry.
LEMMA SteadyHeld ==
  ASSUME EnvOK, HeldOK, SteadyWanted, FullyListed(held), NEW e \in steady, e[1] # "backend"
  PROVE  e \in Entries(Fronts(held), PodTargets(held), NodeAllow(held))
<1>1. PICK c \in Mixes(seen) : held = Listing(c)
  BY HeldIsMix DEF HeldOK
<1> QED BY <1>1, WantedEntries DEF SteadyWanted

\* An entry in both the old maps and the wanted ones survives a write.
LEMMA EntrySurvives ==
  ASSUME NEW f, NEW targets, NEW allow, NEW g, NEW wtargets, NEW wallow,
         NEW f2, NEW targets2, NEW allow2,
         NEW e \in Entries(f, targets, allow), e \in Entries(g, wtargets, wallow),
         \A ip \in Ips : f2[ip] = f[ip] \/ f2[ip] = g[ip],
         (targets \cap wtargets) \subseteq targets2, (allow \cap wallow) \subseteq allow2
  PROVE  e \in Entries(f2, targets2, allow2)
<1>1. CASE \E ip \in Ips : e = <<"pod", ip>>
  BY <1>1, EntryKinds
<1>2. CASE \E ip \in Ips : e = <<"peer", ip>>
  BY <1>2, EntryKinds
<1>3. CASE \E ip \in Ips : \E pod : e = <<"slot", ip, pod>>
  <2>0. PICK ip \in Ips : \E pod : e = <<"slot", ip, pod>>
    BY <1>3
  <2>1. PICK pod : e = <<"slot", ip, pod>>
    BY <2>0
  <2>2. Leads(f, ip, pod) /\ Leads(g, ip, pod)
    BY <2>1, EntryKinds
  <2>3. Leads(f2, ip, pod)
    BY <2>2 DEF Leads
  <2> QED BY <2>1, <2>3, EntryKinds
<1> QED BY <1>1, <1>2, <1>3, EntryKinds

\* The steady entries are in the maps from the start, and stay.
LEMMA SteadyEntriesInit ==
  ASSUME Init
  PROVE  SteadyEntriesStay
<1>1. \A e \in steady : e[1] # "backend" =>
        e \in Entries(Fronts(Listing(cluster)), PodTargets(Listing(cluster)), NodeAllow(Listing(cluster)))
  BY WantedEntries DEF Init
<1>2. /\ fronts = Fronts(Listing(cluster)) /\ podTargets = PodTargets(Listing(cluster))
      /\ nodeAllow = NodeAllow(Listing(cluster))
  BY DEF Init
<1> QED BY <1>1, <1>2 DEF SteadyEntriesStay

\* No step takes a steady entry out of a map.
LEMMA SteadyEntriesStep ==
  ASSUME TypeInv, SteadyWanted, SteadyEntriesStay, [Next]_vars
  PROVE  SteadyEntriesStay'
<1>0. EnvOK /\ LogOK /\ HeldOK /\ MapsOK /\ PassOK
  BY DEF TypeInv
<1>1. SUFFICES ASSUME NEW e \in steady, e[1] # "backend"
               PROVE  e \in Entries(fronts', podTargets', nodeAllow')
  <2>1. steady' \subseteq steady
    BY SteadyWantedStep
  <2> QED BY <1>1, <2>1 DEF SteadyEntriesStay
<1>2. e \in Entries(fronts, podTargets, nodeAllow)
  BY <1>1 DEF SteadyEntriesStay
<1>3. FullyListed(held) => e \in Entries(Fronts(held), PodTargets(held), NodeAllow(held))
  BY <1>0, <1>1, SteadyHeld
<1>4. CASE UNCHANGED mapVars
  BY <1>2, <1>4 DEF mapVars
<1>5. CASE WriteFronts
  <2>1. PICK skip : fronts' = IF FullyListed(held) THEN FrontsAfter(Fronts(held), skip) ELSE fronts
    BY <1>0, <1>5, FrontsWritten
  <2>2. podTargets' = podTargets /\ nodeAllow' = nodeAllow
    BY <1>5 DEF WriteFronts
  <2>3. CASE FullyListed(held)
    <3>1. \A ip \in Ips : fronts'[ip] = fronts[ip] \/ fronts'[ip] = Fronts(held)[ip]
      BY <2>1, <2>3 DEF FrontsAfter
    <3> QED BY <1>2, <1>3, <2>2, <2>3, <3>1, EntrySurvives
  <2>4. CASE ~FullyListed(held)
    <3>1. fronts' = fronts
      BY <2>1, <2>4
    <3> QED BY <1>2, <2>2, <3>1
  <2> QED BY <2>3, <2>4
<1>6. CASE WriteNodeAllow
  <2>1. PICK gone \in SUBSET (IF everKnown THEN nodeAllow \ NodeAllow(held) ELSE {}) :
              nodeAllow \ gone \subseteq nodeAllow'
    BY <1>0, <1>6, NodeAllowWritten
  <2>2. podTargets' = podTargets /\ fronts' = fronts
    BY <1>6 DEF WriteNodeAllow
  <2>3. CASE everKnown
    <3>1. FullyListed(held)
      BY <1>0, <2>3 DEF PassOK
    <3>2. nodeAllow \cap NodeAllow(held) \subseteq nodeAllow'
      BY <2>1, <2>3
    <3> QED BY <1>2, <1>3, <2>2, <3>1, <3>2, EntrySurvives
  <2>4. CASE ~everKnown
    <3>1. nodeAllow \subseteq nodeAllow'
      BY <2>1, <2>4
    <3> QED BY <1>2, <2>2, <3>1, EntrySurvives
  <2> QED BY <2>3, <2>4
<1>7. CASE WritePodTargets
  <2>1. PICK gone \in SUBSET pass.rows, new \in SUBSET PodTargets(held) :
              /\ podTargets' = (podTargets \ gone) \cup new
              /\ gone \cup new # {} => PodTargetsKnown(held)
    BY <1>0, <1>7, PodTargetsWritten
  <2>2. nodeAllow' = nodeAllow /\ fronts' = fronts
    BY <1>7 DEF WritePodTargets
  <2>3. CASE gone \cup new # {}
    <3>1. FullyListed(held)
      BY <2>1, <2>3 DEF PodTargetsKnown
    <3>2. pass.at = "targets"
      BY <1>7 DEF WritePodTargets
    <3>3. pass.rows \cap PodTargets(held) = {}
      BY <1>0, <3>2 DEF PassOK
    <3>4. podTargets \cap PodTargets(held) \subseteq podTargets'
      BY <2>1, <3>3
    <3> QED BY <1>2, <1>3, <2>2, <3>1, <3>4, EntrySurvives
  <2>4. CASE gone \cup new = {}
    <3>1. podTargets' = podTargets
      BY <2>1, <2>4
    <3> QED BY <1>2, <2>2, <3>1
  <2> QED BY <2>3, <2>4
<1>8. ASSUME NEW h, StartPass(h) PROVE UNCHANGED mapVars
  BY <1>8 DEF StartPass
<1>9. CASE Mint \/ Crash \/ WatchStep
  BY <1>4, <1>9 DEF Mint, Crash, WatchStep
<1>10. ASSUME NEW o \in Objects, Change(o) PROVE UNCHANGED mapVars
  BY <1>10 DEF Change
<1> QED BY <1>0, <1>4, <1>5, <1>6, <1>7, <1>8, <1>9, <1>10, StepCases DEF Starts

\* SteadyInv is an invariant.
LEMMA SteadyInvariant == Spec => []SteadyInv
<1>1. Init => SteadyInv
  BY SteadyWantedInit, SteadyEntriesInit DEF SteadyInv
<1>2. TypeInv /\ SteadyInv /\ [Next]_vars => SteadyInv'
  BY SteadyWantedStep, SteadyEntriesStep DEF SteadyInv
<1> QED BY <1>1, <1>2, TypeInvariant, PTL DEF Spec

(***************************************************************************)
(* A pod, a peer or a front's endpoint that every version of the cluster   *)
(* has called for is never out of the maps: whatever the order in which    *)
(* the three watches list, fall behind, are cut off and replay; for any    *)
(* objects and any versions of them.                                       *)
(***************************************************************************)
THEOREM SteadyEntriesKept == Spec => []SteadyEntriesStay
<1>1. SteadyInv => SteadyEntriesStay
  BY DEF SteadyInv
<1> QED BY <1>1, SteadyInvariant, PTL

-----------------------------------------------------------------------------
(* A watch that is caught up holds what is in the cluster.                 *)

\* Delivering an event, replaying and cutting a log.
LEMMA LogDelivered ==
  ASSUME NEW l \in Seq(Events), NEW s \in Nat, s < Len(l), NEW o, NEW x,
         NoneAfter(l, s + 1, o)
  PROVE  /\ l[s + 1].name # o => NoneAfter(l, s, o)
         /\ l[s + 1].name = o /\ LastIs(l, o, x) => l[s + 1].object = x
<1>1. Len(l) \in Nat /\ s + 1 \in 1..Len(l)
  OBVIOUS
<1>2. l[s + 1].name # o => NoneAfter(l, s, o)
  <2>1. \A i \in (s + 1)..Len(l) : i = s + 1 \/ i \in ((s + 1) + 1)..Len(l)
    BY <1>1
  <2> QED BY <2>1 DEF NoneAfter
<1>3. l[s + 1].name = o /\ LastIs(l, o, x) => l[s + 1].object = x
  BY <1>1 DEF LastIs, NoneAfter
<1> QED BY <1>2, <1>3

\* A log without an event of o has none in its unsent part.
LEMMA LogReplayed ==
  ASSUME NEW l \in Seq(Events), NEW s \in Nat, NEW o, NoneAfter(l, 0, o)
  PROVE  NoneAfter(l, s, o)
<1>1. Len(l) \in Nat
  OBVIOUS
<1> QED BY <1>1 DEF NoneAfter

\* Acknowledging the first s events loses only what has been applied.
LEMMA LogAcknowledged ==
  ASSUME NEW l \in Seq(Events), NEW s \in Nat, s <= Len(l), NEW o, NEW x, LastIs(l, o, x)
  PROVE  /\ LastIs(SubSeq(l, s + 1, Len(l)), o, x)
         /\ NoneAfter(SubSeq(l, s + 1, Len(l)), 0, o) => NoneAfter(l, s, o)
<1> DEFINE t == SubSeq(l, s + 1, Len(l))
<1>1. Len(l) \in Nat
  OBVIOUS
<1>2. Len(t) = Len(l) - s /\ Len(l) - s \in Nat /\ \A i \in 1..(Len(l) - s) : t[i] = l[s + i]
  BY <1>1
<1> HIDE DEF t
<1>3. ASSUME NEW i \in 1..Len(t), t[i].name = o, \A j \in (i + 1)..Len(t) : t[j].name # o
      PROVE  t[i].object = x
  <2>1. s + i \in 1..Len(l) /\ t[i] = l[s + i]
    BY <1>1, <1>2
  <2>2. ASSUME NEW j \in ((s + i) + 1)..Len(l) PROVE l[j].name # o
    <3>1. j - s \in (i + 1)..Len(t) /\ j - s \in 1..(Len(l) - s) /\ s + (j - s) = j
      BY <1>1, <1>2
    <3> QED BY <1>2, <1>3, <3>1
  <2> QED BY <1>3, <2>1, <2>2 DEF LastIs
<1>4. ASSUME NoneAfter(t, 0, o), NEW i \in (s + 1)..Len(l) PROVE l[i].name # o
  <2>1. i - s \in (0 + 1)..Len(t) /\ i - s \in 1..(Len(l) - s) /\ s + (i - s) = i
    BY <1>1, <1>2
  <2> QED BY <1>2, <1>4, <2>1 DEF NoneAfter
<1> QED BY <1>3, <1>4 DEF LastIs, NoneAfter, t

\* Appending an event about o, and about another object.
LEMMA LogExtended ==
  ASSUME NEW l \in Seq(Events), NEW s \in Nat, s <= Len(l), NEW e \in Events, NEW o, NEW x
  PROVE  /\ e.name = o => LastIs(Append(l, e), o, e.object) /\ ~NoneAfter(Append(l, e), s, o)
         /\ e.name # o /\ LastIs(l, o, x) => LastIs(Append(l, e), o, x)
         /\ NoneAfter(Append(l, e), s, o) => NoneAfter(l, s, o)
<1> DEFINE t == Append(l, e)
           n == Len(l)
<1>1. /\ n \in Nat /\ Len(t) = n + 1 /\ t[n + 1] = e
      /\ \A i \in 1..n : t[i] = l[i]
  OBVIOUS
<1> HIDE DEF t, n
<1>2. CASE e.name = o
  <2>1. ~NoneAfter(t, s, o)
    <3>1. n + 1 \in (s + 1)..Len(t)
      BY <1>1 DEF n
    <3> QED BY <1>1, <1>2, <3>1 DEF NoneAfter
  <2>2. ASSUME NEW i \in 1..Len(t), \A j \in (i + 1)..Len(t) : t[j].name # o
        PROVE  i = n + 1
    <3>1. i # n + 1 => n + 1 \in (i + 1)..Len(t)
      BY <1>1
    <3> QED BY <1>1, <1>2, <2>2, <3>1
  <2>3. LastIs(t, o, e.object)
    BY <1>1, <2>2 DEF LastIs
  <2> QED BY <1>2, <2>1, <2>3 DEF t
<1>3. CASE e.name # o
  <2>1. ASSUME LastIs(l, o, x), NEW i \in 1..Len(t), t[i].name = o,
               \A j \in (i + 1)..Len(t) : t[j].name # o
        PROVE  t[i].object = x
    <3>1. i \in 1..n /\ t[i] = l[i]
      BY <1>1, <1>3, <2>1
    <3>2. \A j \in (i + 1)..n : j \in (i + 1)..Len(t) /\ j \in 1..n
      BY <1>1, <3>1
    <3>3. \A j \in (i + 1)..n : l[j].name # o
      BY <1>1, <2>1, <3>2
    <3> QED BY <2>1, <3>1, <3>3 DEF LastIs, n
  <2>2. LastIs(l, o, x) => LastIs(t, o, x)
    BY <2>1 DEF LastIs
  <2>3. ASSUME NoneAfter(t, s, o), NEW i \in (s + 1)..n PROVE l[i].name # o
    <3>1. i \in (s + 1)..Len(t) /\ i \in 1..n
      BY <1>1
    <3> QED BY <1>1, <2>3, <3>1 DEF NoneAfter
  <2> QED BY <1>3, <2>2, <2>3 DEF NoneAfter, t, n
<1> QED BY <1>2, <1>3 DEF t

\* An event leaves its object as the event has it, and the others alone.
LEMMA AppliedAgrees ==
  ASSUME NEW h \in WatchStates, NEW o \in Objects, NEW v \in Versions[o], NEW p \in Objects, NEW x
  PROVE  /\ Agrees(Applied(h, o, v), o, v)
         /\ p # o /\ Agrees(h, p, x) => Agrees(Applied(h, o, v), p, x)
<1>1. CASE o = Svc
  <2>1. Applied(h, o, v) = [h EXCEPT !.service = ParseService(v)]
    BY <1>1, ObjectKinds DEF Applied, ApplyService
  <2> QED BY <1>1, <2>1, ObjectKinds DEF Agrees, WatchStates
<1>2. CASE o \in SliceNames
  <2>1. Applied(h, o, v) = [h EXCEPT !.slices[o] = v]
    BY <1>2, ObjectKinds DEF Applied, ApplySlice
  <2> QED BY <1>2, <2>1, ObjectKinds DEF Agrees, WatchStates
<1>3. CASE o \in Nodes
  <2> DEFINE g == ApplyNode(h, o, v)
  <2>1. Applied(h, o, v) = g
    BY <1>3, ObjectKinds DEF Applied
  <2>2. g.service = h.service /\ g.slices = h.slices
    BY <1>3, NodeApplied
  <2>3. \A m \in Nodes : m \in g.names <=> IF m = o THEN v # Nothing ELSE m \in h.names
    BY <1>3, NodeNamesApplied
  <2> HIDE DEF g
  <2> QED BY <1>3, <2>1, <2>2, <2>3, ObjectKinds DEF Agrees
<1> QED BY <1>1, <1>2, <1>3, ObjectKinds

\* So does a LIST for the objects of its resource.
LEMMA ReplacedAgrees ==
  ASSUME NEW h \in WatchStates, NEW r \in Resources, NEW c, NEW o \in Objects, NEW x
  PROVE  /\ ResourceOf(o) = r => Agrees(Replaced(h, r, c), o, c[o])
         /\ ResourceOf(o) # r /\ Agrees(h, o, x) => Agrees(Replaced(h, r, c), o, x)
<1> DEFINE g == Replaced(h, r, c)
<1>1. CASE r = "services"
  <2>1. g = [h EXCEPT !.service = ParseService(c[Svc]), !.listed = @ \cup {"services"}]
    BY <1>1 DEF Replaced, ReplaceServices, ApplyService, WatchStates
  <2>2. g.service = ParseService(c[Svc]) /\ g.slices = h.slices /\ g.names = h.names
    BY <2>1 DEF WatchStates
  <2> HIDE DEF g
  <2> QED BY <1>1, <2>2, ObjectKinds DEF Agrees, g
<1>2. CASE r = "slices"
  <2>1. g = [h EXCEPT !.slices = [s \in SliceNames |-> c[s]], !.listed = @ \cup {"slices"}]
    BY <1>2 DEF Replaced, ReplaceSlices
  <2>2. g.service = h.service /\ g.slices = [s \in SliceNames |-> c[s]] /\ g.names = h.names
    BY <2>1 DEF WatchStates
  <2> HIDE DEF g
  <2> QED BY <1>2, <2>2, ObjectKinds DEF Agrees, g
<1>3. CASE r = "nodes"
  <2>1. g = [h EXCEPT !.addrs = RelistedNodes(h, c), !.names = {n \in Nodes : c[n] # Nothing},
                      !.listed = @ \cup {"nodes"}]
    BY <1>3 DEF Replaced, ReplaceNodes
  <2>2. g.service = h.service /\ g.slices = h.slices /\ g.names = {n \in Nodes : c[n] # Nothing}
    BY <2>1 DEF WatchStates
  <2> HIDE DEF g
  <2> QED BY <1>3, <2>2, ObjectKinds DEF Agrees, g
<1> QED BY <1>1, <1>2, <1>3 DEF Resources

\* The last event of an object is its current version, and what is held agrees with
\* it once no event of it is left to deliver: every step keeps this.
LEMMA SyncStep ==
  ASSUME TypeInv, SyncInv, [Next]_vars
  PROVE  SyncInv'
<1>0. EnvOK /\ LogOK /\ HeldOK
  BY DEF TypeInv
<1>f. /\ log = [r \in Resources |-> log[r]] /\ sent = [r \in Resources |-> sent[r]]
      /\ \A r \in Resources : /\ log[r] \in Seq(Events) /\ sent[r] \in Nat /\ sent[r] <= Len(log[r])
                              /\ r \notin watching => log[r] = <<>>
  BY <1>0 DEF LogOK
<1>h. held \in WatchStates /\ \A o \in Objects : cluster[o] \in seen[o] /\ seen[o] \subseteq Versions[o]
  BY <1>0 DEF HeldOK, EnvOK
<1>r. \A o \in Objects : ResourceOf(o) \in Resources
  BY ObjectKinds DEF Resources
<1>u. ASSUME UNCHANGED <<cluster, watchVars, held>> PROVE SyncInv'
  BY <1>u DEF SyncInv, Synced, watchVars, Agrees, LastIs, NoneAfter
<1>s. SUFFICES ASSUME NEW o \in Objects, ResourceOf(o) \in watching',
                      ~(UNCHANGED <<cluster, watchVars, held>>)
               PROVE  /\ LastIs(log'[ResourceOf(o)], o, cluster'[o])
                      /\ NoneAfter(log'[ResourceOf(o)], sent'[ResourceOf(o)], o)
                           => Agrees(held', o, cluster'[o])
  <2>1. CASE UNCHANGED <<cluster, watchVars, held>>
    BY <1>u, <2>1
  <2>2. CASE ~(UNCHANGED <<cluster, watchVars, held>>)
    <3>1. \A o \in Objects : ResourceOf(o) \in watching' =>
            /\ LastIs(log'[ResourceOf(o)], o, cluster'[o])
            /\ NoneAfter(log'[ResourceOf(o)], sent'[ResourceOf(o)], o) => Agrees(held', o, cluster'[o])
      BY <1>s, <2>2
    <3> QED BY <3>1 DEF SyncInv, Synced
  <2> QED BY <2>1, <2>2
<1> DEFINE q == ResourceOf(o)
<1>q. q \in Resources
  BY <1>r
<1>v. q \in watching => /\ LastIs(log[q], o, cluster[o])
                        /\ NoneAfter(log[q], sent[q], o) => Agrees(held, o, cluster[o])
  BY DEF SyncInv, Synced
<1> DEFINE Goal == /\ LastIs(log'[q], o, cluster'[o])
                   /\ NoneAfter(log'[q], sent'[q], o) => Agrees(held', o, cluster'[o])
<1>1. ASSUME NEW r \in Resources, Deliver(r) PROVE Goal
  <2> DEFINE i == sent[r] + 1
             p == log[r][i].name
             v == log[r][i].object
  <2>1. /\ sent[r] < Len(log[r]) /\ sent' = [sent EXCEPT ![r] = @ + 1]
        /\ log' = log /\ watching' = watching /\ StartPass(Applied(held, p, v))
    BY <1>1 DEF Deliver
  <2>2. held' = Applied(held, p, v) /\ cluster' = cluster
    BY <2>1 DEF StartPass
  <2>3. log[r] \in Seq(Events) /\ sent[r] \in Nat /\ i \in 1..Len(log[r])
    <3>1. log[r] \in Seq(Events) /\ sent[r] \in Nat
      BY <1>f
    <3> QED BY <2>1, <3>1
  <2>4. log[r][i] \in Events
    BY <2>3
  <2>5. p \in Objects /\ v \in Versions[p] /\ ResourceOf(p) = r
    BY <1>0, <1>h, <2>3, <2>4 DEF LogOK, Events
  <2>6. sent'[q] = IF q = r THEN sent[r] + 1 ELSE sent[q]
    BY <1>f, <1>q, <2>1
  <2>7. q \in watching
    BY <1>s, <2>1
  <2>8. ASSUME NoneAfter(log[q], sent'[q], o) PROVE Agrees(held', o, cluster[o])
    <3>1. CASE p = o
      <4>1. NoneAfter(log[r], sent[r] + 1, o) /\ LastIs(log[r], o, cluster[o])
        BY <1>v, <2>5, <2>6, <2>7, <2>8, <3>1
      <4>2. log[r][sent[r] + 1].object = cluster[o]
        BY <2>1, <2>3, <3>1, <4>1, LogDelivered
      <4>3. v = cluster[o]
        BY <4>2
      <4> HIDE DEF v, p
      <4>4. Agrees(Applied(held, p, v), p, v)
        BY <1>h, <2>5, AppliedAgrees
      <4> QED BY <2>2, <3>1, <4>3, <4>4
    <3>2. CASE p # o
      <4>1. NoneAfter(log[q], sent[q], o)
        <5>1. CASE q = r
          <6>1. NoneAfter(log[r], sent[r] + 1, o) /\ log[r][sent[r] + 1].name # o
            BY <2>6, <2>8, <3>2, <5>1
          <6>2. NoneAfter(log[r], sent[r], o)
            BY <2>1, <2>3, <6>1, LogDelivered
          <6> QED BY <5>1, <6>2
        <5>2. CASE q # r
          BY <2>6, <2>8, <5>2
        <5> QED BY <5>1, <5>2
      <4>2. Agrees(held, o, cluster[o])
        BY <1>v, <2>7, <4>1
      <4> HIDE DEF v, p
      <4>3. Agrees(Applied(held, p, v), o, cluster[o])
        BY <1>h, <2>5, <3>2, <4>2, AppliedAgrees
      <4> QED BY <2>2, <4>3
    <3> QED BY <3>1, <3>2
  <2> QED BY <1>v, <2>1, <2>2, <2>7, <2>8
<1>2. ASSUME NEW r \in Resources, List(r) PROVE Goal
  <2>1. ~Refuses(held, r, cluster)
    <3>1. CASE Refuses(held, r, cluster)
      <4>1. UNCHANGED vars
        BY <1>2, <3>1 DEF List, Listed
      <4> QED BY <1>s, <4>1 DEF vars, watchVars, procVars
    <3> QED BY <3>1
  <2>2. /\ StartPass(Replaced(held, r, cluster)) /\ watching' = watching \cup {r} /\ r \notin watching
        /\ log' = log /\ sent' = sent
    BY <1>2, <2>1 DEF List, Listed
  <2>3. held' = Replaced(held, r, cluster) /\ cluster' = cluster
    BY <2>2 DEF StartPass
  <2>4. CASE q = r
    <3>1. log[q] = <<>>
      BY <1>f, <1>q, <2>2, <2>4
    <3>2. LastIs(log[q], o, cluster[o])
      BY <3>1 DEF LastIs
    <3>3. Agrees(held', o, cluster[o])
      BY <1>h, <2>3, <2>4, ReplacedAgrees
    <3> QED BY <2>2, <2>3, <3>2, <3>3
  <2>5. CASE q # r
    <3>1. q \in watching
      BY <1>s, <2>2, <2>5
    <3>2. NoneAfter(log[q], sent[q], o) => Agrees(held', o, cluster[o])
      BY <1>h, <1>v, <2>3, <2>5, <3>1, ReplacedAgrees
    <3> QED BY <1>v, <2>2, <2>3, <3>1, <3>2
  <2> QED BY <2>4, <2>5
<1>3. ASSUME NEW r \in Resources, LoseConnection(r) PROVE Goal
  <2>1. /\ sent' = [sent EXCEPT ![r] = 0] /\ log' = log /\ watching' = watching
        /\ cluster' = cluster /\ held' = held
    BY <1>3 DEF LoseConnection, procVars
  <2>2. sent'[q] = IF q = r THEN 0 ELSE sent[q]
    BY <1>f, <1>q, <2>1
  <2>3. NoneAfter(log[q], sent'[q], o) => NoneAfter(log[q], sent[q], o)
    BY <1>f, <1>q, <2>2, LogReplayed
  <2> QED BY <1>s, <1>v, <2>1, <2>3
<1>4. ASSUME NEW r \in Resources, Expired(r) PROVE Goal
  <2>1. /\ sent' = [sent EXCEPT ![r] = 0] /\ log' = [log EXCEPT ![r] = <<>>]
        /\ watching' = watching \ {r} /\ cluster' = cluster /\ held' = held
    BY <1>4 DEF Expired, procVars
  <2>2. q # r /\ q \in watching
    BY <1>s, <2>1
  <2>3. sent'[q] = sent[q] /\ log'[q] = log[q]
    BY <1>f, <1>q, <2>1, <2>2
  <2> QED BY <1>v, <2>1, <2>2, <2>3
<1>5. ASSUME NEW r \in Resources, Bookmark(r) PROVE Goal
  <2>1. /\ sent' = [sent EXCEPT ![r] = 0] /\ watching' = watching
        /\ log' = [log EXCEPT ![r] = SubSeq(log[r], sent[r] + 1, Len(log[r]))]
        /\ cluster' = cluster /\ held' = held
    BY <1>5 DEF Bookmark, procVars
  <2>2. q \in watching
    BY <1>s, <2>1
  <2>3. CASE q # r
    <3>1. sent'[q] = sent[q] /\ log'[q] = log[q]
      BY <1>f, <1>q, <2>1, <2>3
    <3> QED BY <1>v, <2>1, <2>2, <3>1
  <2>4. CASE q = r
    <3>1. sent'[q] = 0 /\ log'[q] = SubSeq(log[q], sent[q] + 1, Len(log[q]))
      BY <1>f, <1>q, <2>1, <2>4
    <3>2. log[q] \in Seq(Events) /\ sent[q] \in Nat /\ sent[q] <= Len(log[q])
      BY <1>f, <1>q
    <3>3. LastIs(log[q], o, cluster[o])
      BY <1>v, <2>2
    <3>4. /\ LastIs(log'[q], o, cluster[o])
          /\ NoneAfter(log'[q], 0, o) => NoneAfter(log[q], sent[q], o)
      BY <3>1, <3>2, <3>3, LogAcknowledged
    <3> QED BY <1>v, <2>1, <2>2, <3>1, <3>4
  <2> QED BY <2>3, <2>4
<1>6. ASSUME NEW p \in Objects, Change(p) PROVE Goal
  <2> DEFINE r == ResourceOf(p)
  <2>1. PICK v \in Versions[p] :
          /\ cluster' = [cluster EXCEPT ![p] = v]
          /\ log' = IF r \in watching
                    THEN [log EXCEPT ![r] = Append(@, [name |-> p, object |-> v])] ELSE log
    BY <1>0, <1>6, Changed
  <2>2. sent' = sent /\ watching' = watching /\ held' = held
    BY <1>0, <1>6, Changed DEF procVars
  <2>3. cluster'[o] = IF o = p THEN v ELSE cluster[o]
    BY <1>0, <2>1 DEF EnvOK
  <2>4. q \in watching
    BY <1>s, <2>2
  <2>5. CASE q # r
    <3>1. log'[q] = log[q] /\ o # p
      BY <1>f, <1>q, <2>1, <2>5
    <3> QED BY <1>v, <2>2, <2>3, <2>4, <3>1
  <2>6. CASE q = r
    <3> DEFINE e == [name |-> p, object |-> v]
    <3>1. e \in Events /\ e.name = p /\ e.object = v
      BY DEF Events, AllVersions
    <3>2. log'[q] = Append(log[q], e)
      BY <1>f, <1>q, <2>1, <2>4, <2>6
    <3>3. log[q] \in Seq(Events) /\ sent[q] \in Nat /\ sent[q] <= Len(log[q])
      BY <1>f, <1>q
    <3> HIDE DEF e
    <3>4. CASE p = o
      <4>1. LastIs(log'[q], o, v) /\ ~NoneAfter(log'[q], sent[q], o)
        BY <3>1, <3>2, <3>3, <3>4, LogExtended
      <4> QED BY <2>2, <2>3, <3>4, <4>1
    <3>5. CASE p # o
      <4>1. LastIs(log[q], o, cluster[o])
        BY <1>v, <2>4
      <4>2. LastIs(log'[q], o, cluster[o])
        BY <3>1, <3>2, <3>3, <3>5, <4>1, LogExtended
      <4>3. NoneAfter(log'[q], sent[q], o) => NoneAfter(log[q], sent[q], o)
        BY <3>1, <3>2, <3>3, LogExtended
      <4> QED BY <1>v, <2>2, <2>3, <2>4, <3>5, <4>2, <4>3
    <3> QED BY <3>4, <3>5
  <2> QED BY <2>5, <2>6
<1>7. CASE Crash
  <2>1. watching' = {}
    BY <1>7 DEF Crash
  <2> QED BY <1>s, <2>1
<1>8. CASE WriteFronts \/ WriteNodeAllow \/ WritePodTargets \/ RetryTick \/ Mint \/ UNCHANGED vars
  <2>1. UNCHANGED <<cluster, watchVars, held>>
    BY <1>8 DEF WriteFronts, WriteNodeAllow, WritePodTargets, RetryTick, StartPass, Mint, vars, procVars
  <2> QED BY <1>s, <2>1
<1>9. ASSUME NEW r \in Resources, ImplausibleList(r) PROVE Goal
  <2>1. UNCHANGED vars
    BY <1>9, ImplausibleRefused DEF ImplausibleList, Listed
  <2> QED BY <1>8, <2>1
<1> QED BY <1>1, <1>2, <1>3, <1>4, <1>5, <1>6, <1>7, <1>8, <1>9 DEF Next, Apply

-----------------------------------------------------------------------------
(* Pods and their owners.                                                  *)

\* The pods that versions of the cluster have, and have had.
LEMMA PodTypes ==
  ASSUME EnvOK
  PROVE  /\ CurrentPods \subseteq SeenPods /\ SeenPods \subseteq VersionPods
         /\ VersionPods \subseteq Endpoints
         /\ \A e \in VersionPods : e.ip \in Ips /\ e.uid \in STRING /\ e.uid # Nothing
<1>1. CurrentPods \subseteq SeenPods
  BY VersionTypes DEF CurrentPods, SeenPods, EndpointsOf, EnvOK
<1>2. SeenPods \subseteq VersionPods
  BY VersionTypes DEF SeenPods, VersionPods, EndpointsOf, EnvOK
<1>3. \A e \in VersionPods : e \in Endpoints /\ e.uid # Nothing
  <2> SUFFICES ASSUME NEW e \in VersionPods PROVE e \in Endpoints /\ e.uid # Nothing
    OBVIOUS
  <2>1. PICK s \in SliceNames : \E v \in Versions[s] : v # Nothing /\ e \in v.endpoints
    BY DEF VersionPods, EndpointsOf
  <2>2. PICK v \in Versions[s] : v # Nothing /\ e \in v.endpoints
    BY <2>1
  <2>3. v \in Slices /\ e.uid # Nothing
    BY <2>2, ReconcileAssumption DEF ReconcileAssumption
  <2> QED BY <2>2, <2>3 DEF Slices
<1> QED BY <1>1, <1>2, <1>3 DEF Endpoints

\* Endpoints of the slices of a cluster c.
LEMMA PodsOf ==
  ASSUME NEW c, NEW e
  PROVE  e \in EndpointsOf({c[s] : s \in SliceNames})
           <=> \E s \in SliceNames : c[s] # Nothing /\ e \in c[s].endpoints
BY DEF EndpointsOf

\* What is held of the slices has been seen.
LEMMA HeldSeen ==
  ASSUME EnvOK, NEW h \in WatchStates, FromSeen(h), "slices" \in h.listed
  PROVE  HeldPods(h) \subseteq SeenPods
BY DEF HeldPods, OwnSlices, FromSeen, SeenPods, EndpointsOf

\* A desired front leads to pods that are held.
LEMMA LeadsHeld ==
  ASSUME NEW h, NEW ip \in Ips, NEW pod, Leads(Fronts(h), ip, pod)
  PROVE  FullyListed(h) /\ \E e \in HeldPods(h) : e.ip = pod
<1>1. Fronts(h)[ip] = DesiredFront(h, ip) /\ FullyListed(h)
  BY DEF Fronts, Leads
<1>2. PICK i \in DOMAIN DesiredFront(h, ip).slots : DesiredFront(h, ip).slots[i].pod = pod
  BY <1>1 DEF Leads
<1> QED BY <1>1, <1>2, SlotPods

\* cluster_backends: the uid of a tracked endpoint, if there is one.
LEMMA BackendsNamed ==
  ASSUME NEW h \in WatchStates, NEW ip \in Ips
  PROVE  /\ ClusterBackends(h)[ip] \in STRING \cup {Nothing}
         /\ ClusterBackends(h)[ip] # Nothing =>
              \E e \in TrackedEndpoints(h) : e.ip = ip /\ e.uid = ClusterBackends(h)[ip]
         /\ \A e \in TrackedEndpoints(h) : e.ip = ip =>
              \E f \in TrackedEndpoints(h) : f.ip = ip /\ f.uid = ClusterBackends(h)[ip]
<1> DEFINE uids == {e.uid : e \in {x \in TrackedEndpoints(h) : x.ip = ip}}
           b == ClusterBackends(h)[ip]
<1>1. b = IF uids = {} THEN Nothing ELSE IF uids = {"none"} THEN "none"
          ELSE CHOOSE u \in uids : u # "none"
  BY DEF ClusterBackends
<1>2. \A u \in uids : \E e \in TrackedEndpoints(h) : e.ip = ip /\ e.uid = u
  OBVIOUS
<1>3. \A e \in TrackedEndpoints(h) : e.ip = ip => uids # {}
  OBVIOUS
<1>4. uids \subseteq STRING
  BY HeldPodsType DEF TrackedEndpoints, HeldPods, Endpoints
<1> HIDE DEF uids, b
<1>5. uids # {} => b \in uids
  BY <1>1
<1>6. uids = {} => b = Nothing
  BY <1>1
<1> QED BY <1>2, <1>3, <1>4, <1>5, <1>6 DEF b

\* The last holder of an address is its present one, if there is one.
LEMMA HolderNamed ==
  ASSUME NEW c, \A s \in SliceNames : c[s] \in Versions[s], NEW before, NEW ip \in Ips
  PROVE  /\ before[ip] # Nothing => LastHolder(c, before)[ip] # Nothing
         /\ \A e \in EndpointsOf({c[s] : s \in SliceNames}) : e.ip = ip =>
              /\ LastHolder(c, before)[ip] # Nothing
              /\ \E f \in EndpointsOf({c[s] : s \in SliceNames}) :
                    f.ip = ip /\ f.uid = LastHolder(c, before)[ip]
<1> DEFINE pods == EndpointsOf({c[s] : s \in SliceNames})
<1>1. \A e \in pods : e.uid # Nothing
  <2> SUFFICES ASSUME NEW e \in pods PROVE e.uid # Nothing
    OBVIOUS
  <2>1. PICK s \in SliceNames : c[s] # Nothing /\ e \in c[s].endpoints
    BY PodsOf
  <2> QED BY <2>1, ReconcileAssumption DEF ReconcileAssumption
<1>2. LastHolder(c, before)[ip] = IF \E e \in pods : e.ip = ip
                                  THEN (CHOOSE e \in pods : e.ip = ip).uid ELSE before[ip]
  BY DEF LastHolder
<1> HIDE DEF pods
<1>3. (\E e \in pods : e.ip = ip) =>
        LET f == CHOOSE e \in pods : e.ip = ip IN f \in pods /\ f.ip = ip
  OBVIOUS
<1> QED BY <1>1, <1>2, <1>3 DEF pods

\* HolderInv holds at first.
LEMMA HolderInit ==
  ASSUME Init, OneHolder
  PROVE  HolderInv
<1>1. holder = LastHolder(cluster, NoBackends) /\ \A s \in SliceNames : cluster[s] \in Versions[s]
  BY ReconcileAssumption, VersionTypes DEF Init
<1>2. EnvOK
  BY TypeInit DEF TypeInv
<1> SUFFICES ASSUME NEW e \in CurrentPods PROVE holder[e.ip] = e.uid
  BY DEF HolderInv
<1>3. e.ip \in Ips
  BY <1>2, PodTypes
<1>4. \E f \in CurrentPods : f.ip = e.ip /\ f.uid = holder[e.ip]
  BY <1>1, <1>3, HolderNamed DEF CurrentPods
<1> QED BY <1>4 DEF OneHolder

\* HolderInv is inductive while no two pods share an address.
LEMMA HolderStep ==
  ASSUME TypeInv, TypeInv', OneHolder', HolderInv, [Next]_vars
  PROVE  HolderInv'
<1>0. EnvOK /\ LogOK /\ HeldOK /\ EnvOK'
  BY DEF TypeInv
<1>1. CASE Quiet
  BY <1>1 DEF Quiet, HolderInv, CurrentPods
<1>2. ASSUME NEW o \in Objects, Change(o) PROVE HolderInv'
  <2>1. holder' = LastHolder(cluster', holder)
    BY <1>2 DEF Change
  <2>2. \A s \in SliceNames : cluster'[s] \in Versions[s]
    BY <1>0, VersionTypes DEF EnvOK
  <2> SUFFICES ASSUME NEW e \in CurrentPods' PROVE holder'[e.ip] = e.uid
    BY DEF HolderInv
  <2>3. CurrentPods' \subseteq Endpoints
    BY <2>2, VersionTypes DEF CurrentPods, EndpointsOf, Slices
  <2>4. e.ip \in Ips
    BY <2>3 DEF Endpoints
  <2>5. \E f \in CurrentPods' : f.ip = e.ip /\ f.uid = holder'[e.ip]
    BY <2>1, <2>2, <2>4, HolderNamed DEF CurrentPods
  <2> QED BY <2>5 DEF OneHolder
<1> QED BY <1>0, <1>1, <1>2, Surroundings

\* After a change the pods that have been seen are the earlier ones and those
\* there are now.
LEMMA SeenPodsGrow ==
  ASSUME EnvOK, EnvOK', NEW o \in Objects, Change(o)
  PROVE  SeenPods \subseteq SeenPods' /\ SeenPods' \subseteq SeenPods \cup CurrentPods'
<1>1. PICK v \in Versions[o] : cluster' = [cluster EXCEPT ![o] = v]
                               /\ seen' = [seen EXCEPT ![o] = @ \cup {v}]
  BY Changed
<1>2. \A x \in Objects : /\ seen'[x] = IF x = o THEN seen[o] \cup {v} ELSE seen[x]
                         /\ cluster'[x] = IF x = o THEN v ELSE cluster[x]
  BY <1>1 DEF EnvOK
<1>3. ASSUME NEW e PROVE /\ e \in SeenPods <=> \E s \in SliceNames : \E w \in seen[s] :
                                                  w # Nothing /\ e \in w.endpoints
                         /\ e \in SeenPods' <=> \E s \in SliceNames : \E w \in seen'[s] :
                                                  w # Nothing /\ e \in w.endpoints
                         /\ e \in CurrentPods' <=> \E s \in SliceNames :
                                                  cluster'[s] # Nothing /\ e \in cluster'[s].endpoints
  BY DEF SeenPods, CurrentPods, EndpointsOf
<1>4. SeenPods \subseteq SeenPods'
  BY <1>2, <1>3, VersionTypes
<1>5. ASSUME NEW e \in SeenPods' PROVE e \in SeenPods \cup CurrentPods'
  <2>1. PICK s \in SliceNames : \E w \in seen'[s] : w # Nothing /\ e \in w.endpoints
    BY <1>3
  <2>2. PICK w \in seen'[s] : w # Nothing /\ e \in w.endpoints
    BY <2>1
  <2>3. w \in seen[s] \/ (s = o /\ w = v)
    BY <1>2, <2>2, VersionTypes
  <2>4. CASE w \in seen[s]
    BY <1>3, <2>2, <2>4
  <2>5. CASE s = o /\ w = v
    <3>1. cluster'[s] = w
      BY <1>2, <2>5, VersionTypes
    <3> QED BY <1>3, <2>2, <3>1
  <2> QED BY <2>3, <2>4, <2>5
<1> QED BY <1>4, <1>5

\* A pod with a uid that is gone stays gone.
LEMMA GoneStaysGone ==
  ASSUME EnvOK, EnvOK', NEW o \in Objects, Change(o), NEW ip, NEW u, u # "none",
         Has(SeenPods, ip, u), ~Has(CurrentPods, ip, u)
  PROVE  ~Has(CurrentPods', ip, u)
<1>1. PICK v \in Versions[o] : /\ o \in SliceNames => Returning(v) = {}
                               /\ cluster' = [cluster EXCEPT ![o] = v]
  BY Changed
<1>2. \A x \in Objects : cluster'[x] = IF x = o THEN v ELSE cluster[x]
  BY <1>1 DEF EnvOK
<1> SUFFICES ASSUME NEW e \in CurrentPods', e.ip = ip, e.uid = u PROVE FALSE
  BY DEF Has
<1>3. PICK s \in SliceNames : cluster'[s] # Nothing /\ e \in cluster'[s].endpoints
  BY DEF CurrentPods, EndpointsOf
<1>4. CASE s # o
  <2>1. cluster'[s] = cluster[s]
    BY <1>2, <1>4, VersionTypes
  <2>2. e \in CurrentPods
    BY <1>3, <2>1, PodsOf DEF CurrentPods
  <2> QED BY <2>2 DEF Has
<1>5. CASE s = o
  <2>1. v # Nothing /\ e \in v.endpoints
    BY <1>2, <1>3, <1>5, VersionTypes
  <2>2. e \in EndpointsOf({v})
    BY <2>1 DEF EndpointsOf
  <2>3. /\ \E f \in SeenPods : f.ip = e.ip /\ f.uid = e.uid
        /\ \A f \in CurrentPods : f.ip # e.ip \/ f.uid # e.uid
    BY DEF Has
  <2>4. e \in Returning(v)
    BY <2>2, <2>3 DEF Returning, SeenPods, CurrentPods
  <2> QED BY <1>1, <1>5, <2>4
<1> QED BY <1>4, <1>5

\* OwnerInv holds at first.
LEMMA OwnerInit ==
  ASSUME Init
  PROVE  OwnerInv
<1>0. TypeInv /\ EnvOK
  BY TypeInit DEF TypeInv
<1>1. holder = LastHolder(cluster, NoBackends) /\ \A s \in SliceNames : cluster[s] \in Versions[s]
  BY ReconcileAssumption, VersionTypes DEF Init
<1>2. SeenPods = CurrentPods
  BY VersionTypes DEF Init, SeenPods, CurrentPods, EndpointsOf
<1>3. \A e \in CurrentPods : e.ip \in Ips
  BY <1>0, PodTypes
<1>4. \A e \in SeenPods : holder[e.ip] # Nothing
  BY <1>1, <1>2, <1>3, HolderNamed DEF CurrentPods
<1>5. ASSUME NEW ip \in Ips, NEW pod \in Ips, Leads(fronts, ip, pod) PROVE holder[pod] # Nothing
  <2>1. Leads(Fronts(Listing(cluster)), ip, pod)
    BY <1>5 DEF Init
  <2>2. PICK e \in HeldPods(Listing(cluster)) : e.ip = pod
    BY <2>1, LeadsHeld
  <2>3. \A s \in SliceNames : Listing(cluster).slices[s] = cluster[s]
    BY DEF Listing
  <2>4. e \in CurrentPods
    BY <2>3, PodsOf DEF HeldPods, OwnSlices, CurrentPods
  <2> QED BY <1>2, <1>4, <2>2, <2>4
<1>6. pin = Nothing
  BY DEF Init
<1> QED BY <1>4, <1>5, <1>6 DEF OwnerInv

\* OwnerInv is inductive.
LEMMA OwnerStep ==
  ASSUME TypeInv, TypeInv', OwnerInv, [Next]_vars
  PROVE  OwnerInv'
<1>0. EnvOK /\ LogOK /\ HeldOK /\ MapsOK /\ PassOK /\ EnvOK'
  BY DEF TypeInv
<1>1. ASSUME NEW o \in Objects, Change(o) PROVE OwnerInv'
  <2>1. holder' = LastHolder(cluster', holder) /\ fronts' = fronts /\ pin' = pin
    BY <1>1 DEF Change, mapVars
  <2>2. \A s \in SliceNames : cluster'[s] \in Versions[s]
    BY <1>0, VersionTypes DEF EnvOK
  <2>3. \A ip \in Ips : holder[ip] # Nothing => holder'[ip] # Nothing
    BY <2>1, <2>2, HolderNamed
  <2>4. CurrentPods' \subseteq Endpoints
    BY <2>2, VersionTypes DEF CurrentPods, EndpointsOf, Slices
  <2>5. \A e \in CurrentPods' : holder'[e.ip] # Nothing
    BY <2>1, <2>2, <2>4, HolderNamed DEF CurrentPods, Endpoints
  <2>6. \A e \in SeenPods : e.ip \in Ips
    BY <1>0, PodTypes
  <2>7. \A e \in SeenPods' : holder'[e.ip] # Nothing
    BY <1>0, <1>1, <2>3, <2>5, <2>6, SeenPodsGrow DEF OwnerInv
  <2>8. \A ip \in Ips : \A pod \in Ips : Leads(fronts', ip, pod) => holder'[pod] # Nothing
    BY <2>1, <2>3 DEF OwnerInv
  <2> QED BY <2>1, <2>7, <2>8 DEF OwnerInv, Leads
<1>q. ASSUME Quiet, fronts' = fronts, pin' # Nothing => pin'.owner # Nothing PROVE OwnerInv'
  BY <1>q DEF Quiet, OwnerInv, SeenPods, Leads
<1>2. CASE Starts
  <2>1. PICK h : StartPass(h)
    BY <1>2 DEF Starts
  <2>2. PICK readable \in BOOLEAN, walked \in BOOLEAN, ok \in BOOLEAN, hit \in BOOLEAN :
          PlanTick(Desired(h), readable, walked, ok, hit)
    BY <2>1 DEF StartPass
  <2>3. pin' = Nothing \/ (pin # Nothing /\ \E by : pin' = [pin EXCEPT !.foundBy = by])
    BY <2>2 DEF PlanTick
  <2>4. pin' # Nothing => pin'.owner # Nothing
    BY <1>0, <2>3 DEF MapsOK, Pins, OwnerInv
  <2>5. Quiet /\ fronts' = fronts
    BY <2>1 DEF StartPass, Quiet, history, mapVars
  <2> QED BY <1>q, <2>4, <2>5
<1>3. CASE WriteFronts
  <2>1. PICK skip : fronts' = IF FullyListed(held) THEN FrontsAfter(Fronts(held), skip) ELSE fronts
    BY <1>0, <1>3, FrontsWritten
  <2>2. Quiet /\ pin' = pin
    BY <1>3 DEF WriteFronts, Quiet, history
  <2>3. ASSUME NEW ip \in Ips, NEW pod \in Ips, Leads(fronts', ip, pod) PROVE holder[pod] # Nothing
    <3>1. fronts'[ip] = fronts[ip] \/ fronts'[ip] = Fronts(held)[ip]
      BY <2>1 DEF FrontsAfter
    <3>2. CASE Leads(fronts, ip, pod)
      BY <3>2 DEF OwnerInv
    <3>3. CASE Leads(Fronts(held), ip, pod)
      <4>1. PICK e \in HeldPods(held) : e.ip = pod /\ FullyListed(held)
        BY <3>3, LeadsHeld
      <4>2. e \in SeenPods
        BY <1>0, <4>1, HeldSeen DEF HeldOK, FullyListed, Resources
      <4> QED BY <4>1, <4>2 DEF OwnerInv
    <3> QED BY <2>3, <3>1, <3>2, <3>3 DEF Leads
  <2>4. SeenPods' = SeenPods /\ holder' = holder
    BY <2>2 DEF Quiet, SeenPods
  <2> QED BY <2>2, <2>3, <2>4 DEF OwnerInv, Leads
<1>4. CASE WriteNodeAllow \/ WritePodTargets \/ WatchStep
  <2>1. Quiet /\ fronts' = fronts /\ pin' = pin
    BY <1>4 DEF WriteNodeAllow, WritePodTargets, WatchStep, Quiet, history, mapVars
  <2> QED BY <1>q, <2>1 DEF OwnerInv
<1>5. CASE Mint
  <2>1. PICK front \in {ip \in Ips : fronts[ip] # Nothing} :
        \E i \in DOMAIN fronts[front].slots :
          pin' = [ip |-> fronts[front].slots[i].pod, owner |-> holder[fronts[front].slots[i].pod],
                  foundBy |-> IF known[fronts[front].slots[i].pod] # Nothing THEN "uid"
                            ELSE IF orphansSwept THEN "nothing" ELSE "address"]
    BY <1>5 DEF Mint
  <2>2. PICK i \in DOMAIN fronts[front].slots : pin'.owner = holder[fronts[front].slots[i].pod]
    BY <2>1
  <2>3. fronts[front].slots[i].pod \in Ips /\ Leads(fronts, front, fronts[front].slots[i].pod)
    BY <1>0, <2>1, <2>2 DEF MapsOK, PodsIn, Leads
  <2>4. pin'.owner # Nothing
    BY <2>1, <2>2, <2>3 DEF OwnerInv
  <2>5. Quiet /\ fronts' = fronts
    BY <1>5 DEF Mint, Quiet, history, mapVars, bounds
  <2> QED BY <1>q, <2>4, <2>5
<1>6. CASE Crash
  <2>1. /\ Quiet /\ fronts' = fronts
        /\ pin' = IF pin = Nothing THEN Nothing ELSE [pin EXCEPT !.foundBy = "address"]
    BY <1>6 DEF Crash, Quiet, history, mapVars
  <2>2. pin' # Nothing => pin'.owner # Nothing
    BY <1>0, <2>1 DEF MapsOK, Pins, OwnerInv
  <2> QED BY <1>q, <2>1, <2>2
<1> QED BY <1>0, <1>1, <1>2, <1>3, <1>4, <1>5, <1>6, StepCases

-----------------------------------------------------------------------------
(* known_backends.                                                         *)

\* A pass that has failed stays failed until the retry it arms.
LEMMA WritesOwe ==
  ASSUME PassOK, WriteFronts \/ WriteNodeAllow \/ WritePodTargets
  PROVE  /\ Owes => Owes'
         /\ Quiet /\ UNCHANGED <<held, known, orphansSwept, pin>>
<1>1. Quiet /\ UNCHANGED <<held, known, orphansSwept, pin>>
  BY DEF WriteFronts, WriteNodeAllow, WritePodTargets, Quiet, history
<1>2. CASE WriteFronts
  <2>1. PICK skip : pass' = [pass EXCEPT !.at = "allow", !.failed = @ \/ skip # {}]
    BY <1>2 DEF WriteFronts
  <2>2. pass'.at = "allow" /\ (pass.failed => pass'.failed) /\ pass.at = "fronts"
    BY <1>2, <2>1 DEF PassOK, WriteFronts
  <2> QED BY <1>1, <2>2 DEF Owes
<1>3. CASE WriteNodeAllow
  <2>1. PICK bad \in BOOLEAN : pass' = [pass EXCEPT !.at = "targets", !.failed = @ \/ bad]
    <3>1. CASE \E skip : pass' = [pass EXCEPT !.at = "targets", !.failed = @ \/ skip # {}]
      <4>1. PICK skip : pass' = [pass EXCEPT !.at = "targets", !.failed = @ \/ skip # {}]
        BY <3>1
      <4> DEFINE b == skip # {}
      <4>2. b \in BOOLEAN /\ pass' = [pass EXCEPT !.at = "targets", !.failed = @ \/ b]
        BY <4>1
      <4> HIDE DEF b
      <4> QED BY <4>2
    <3>2. CASE pass' = [pass EXCEPT !.at = "targets", !.failed = TRUE]
      <4>1. pass' = [pass EXCEPT !.at = "targets", !.failed = @ \/ TRUE]
        BY <3>2
      <4> QED BY <4>1
    <3> QED BY <1>3, <3>1, <3>2 DEF WriteNodeAllow
  <2>2. pass'.at = "targets" /\ (pass.failed => pass'.failed) /\ pass.at = "allow"
    BY <1>3, <2>1 DEF PassOK, WriteNodeAllow
  <2> QED BY <1>1, <2>2 DEF Owes
<1>4. CASE WritePodTargets
  <2>1. pass.failed => retry'
    BY <1>4 DEF WritePodTargets, ApplyFailed
  <2>2. pass.at = "targets" /\ pass'.at = "rest"
    BY <1>4 DEF WritePodTargets, Resting
  <2> QED BY <1>1, <2>1, <2>2 DEF Owes
<1> QED BY <1>2, <1>3, <1>4

\* What the process knows of an address.
KnownUid(k, pods, ip) ==
    k[ip] \in STRING \cup {Nothing} /\ (k[ip] = Nothing \/ Has(pods, ip, k[ip]))

\* The desired backends of a WatchState that has listed everything are pods
\* that have been seen.
LEMMA BackendsSeen ==
  ASSUME EnvOK, NEW h \in WatchStates, FromSeen(h), FullyListed(h), NEW ip \in Ips
  PROVE  KnownUid(ClusterBackends(h), SeenPods, ip)
<1>1. HeldPods(h) \subseteq SeenPods
  BY HeldSeen DEF FullyListed, Resources
<1>2. TrackedEndpoints(h) \subseteq SeenPods
  BY <1>1 DEF TrackedEndpoints, HeldPods
<1> QED BY <1>2, BackendsNamed DEF KnownUid, Has

\* KnownInv is inductive.
LEMMA KnownStep ==
  ASSUME TypeInv, TypeInv', KnownInv, [Next]_vars
  PROVE  KnownInv'
<1>0. EnvOK /\ LogOK /\ HeldOK /\ MapsOK /\ PassOK /\ EnvOK'
  BY DEF TypeInv
<1>k. known = [ip \in Ips |-> known[ip]] /\ \A ip \in Ips : KnownUid(known, SeenPods, ip)
  BY DEF KnownInv, KnownUid
<1>n. ASSUME known' = [ip \in Ips |-> known'[ip]], \A ip \in Ips : KnownUid(known', SeenPods', ip),
             PodTargetsKnown(held') => Owes' \/ known' = ClusterBackends(held')
      PROVE  KnownInv'
  BY <1>n DEF KnownInv, KnownUid
<1>1. CASE WriteFronts \/ WriteNodeAllow \/ WritePodTargets
  <2>1. /\ Owes => Owes'
        /\ Quiet /\ UNCHANGED <<held, known>>
    BY <1>0, <1>1, WritesOwe
  <2>2. SeenPods' = SeenPods
    BY <2>1 DEF Quiet, SeenPods
  <2> QED BY <1>k, <1>n, <2>1, <2>2 DEF KnownInv
<1>2. CASE Starts
  <2>1. PICK h \in WatchStates : FromSeen(h) /\ StartPass(h)
    BY <1>2 DEF Starts
  <2>2. PICK readable \in BOOLEAN, walked \in BOOLEAN, ok \in BOOLEAN, hit \in BOOLEAN :
          PlanTick(Desired(h), readable, walked, ok, hit)
    BY <2>1 DEF StartPass
  <2>3. held' = h /\ SeenPods' = SeenPods
    BY <2>1 DEF StartPass, history, SeenPods
  <2>4. PICK sweep : known' = KnownAfter(Desired(h), sweep, ok)
    BY <2>2 DEF PlanTick
  <2>5. pass'.at = "fronts" /\ pass'.failed = ~(readable /\ walked /\ ok)
    BY <2>2 DEF PlanTick
  <2>6. Desired(h).podTargetsKnown = PodTargetsKnown(h) /\ Desired(h).backends = ClusterBackends(h)
    BY DEF Desired
  <2>7. CASE PodTargetsKnown(h)
    <3>1. known' = [ip \in Ips |-> IF ~ok /\ ip \in sweep THEN known[ip] ELSE ClusterBackends(h)[ip]]
      BY <2>4, <2>6, <2>7 DEF KnownAfter
    <3>2. \A ip \in Ips : KnownUid(ClusterBackends(h), SeenPods, ip)
      BY <1>0, <2>1, <2>7, BackendsSeen DEF PodTargetsKnown
    <3>3. known' = [ip \in Ips |-> known'[ip]]
      BY <3>1
    <3>4. \A ip \in Ips : known'[ip] = known[ip] \/ known'[ip] = ClusterBackends(h)[ip]
      BY <3>1
    <3>5. \A ip \in Ips : KnownUid(known', SeenPods, ip)
      BY <1>k, <3>2, <3>4 DEF KnownUid
    <3>6. CASE ok
      <4>1. known' = [ip \in Ips |-> ClusterBackends(h)[ip]]
        BY <3>1, <3>6
      <4>2. ClusterBackends(h) = [ip \in Ips |-> ClusterBackends(h)[ip]]
        BY DEF ClusterBackends
      <4> QED BY <1>n, <2>3, <3>3, <3>5, <4>1, <4>2
    <3>7. CASE ~ok
      <4>1. Owes'
        BY <2>5, <3>7 DEF Owes
      <4> QED BY <1>n, <2>3, <3>3, <3>5, <4>1
    <3> QED BY <3>6, <3>7
  <2>8. CASE ~PodTargetsKnown(h)
    <3>1. known' = known
      BY <2>4, <2>6, <2>8 DEF KnownAfter
    <3> QED BY <1>k, <1>n, <2>3, <2>8, <3>1
  <2> QED BY <2>7, <2>8
<1>3. CASE Crash
  <2>1. known' = NoBackends /\ held' = NoWatchState
    BY <1>3 DEF Crash
  <2>2. ~PodTargetsKnown(held')
    BY <2>1 DEF PodTargetsKnown, FullyListed, NoWatchState, Resources
  <2>3. known' = [ip \in Ips |-> known'[ip]] /\ \A ip \in Ips : KnownUid(known', SeenPods', ip)
    BY <2>1 DEF NoBackends, KnownUid
  <2> QED BY <1>n, <2>2, <2>3
<1>4. CASE Mint \/ WatchStep
  <2>1. UNCHANGED procVars /\ Quiet
    BY <1>4 DEF Mint, WatchStep, Quiet, history, bounds
  <2>2. SeenPods' = SeenPods /\ Owes' = Owes
    BY <2>1 DEF Quiet, SeenPods, Owes, procVars
  <2> QED BY <1>k, <1>n, <2>1, <2>2 DEF KnownInv, procVars
<1>5. ASSUME NEW o \in Objects, Change(o) PROVE KnownInv'
  <2>1. UNCHANGED procVars
    BY <1>5 DEF Change
  <2>2. SeenPods \subseteq SeenPods' /\ Owes' = Owes /\ known' = known /\ held' = held
    BY <1>0, <1>5, <2>1, SeenPodsGrow DEF Owes, procVars
  <2>3. \A ip \in Ips : KnownUid(known', SeenPods', ip)
    BY <1>k, <2>2 DEF KnownUid, Has
  <2> QED BY <1>k, <1>n, <2>2, <2>3 DEF KnownInv
<1> QED BY <1>0, <1>1, <1>2, <1>3, <1>4, <1>5, StepCases

\* KnownInv holds at first.
LEMMA KnownInit == Init => KnownInv
BY DEF Init, KnownInv, NoBackends, PodTargetsKnown, FullyListed, NoWatchState, Resources

-----------------------------------------------------------------------------
(* Pins and the sweeps.                                                    *)

\* A pass either takes the pin, or cannot find it any more, or leaves it for
\* the owner that it knows, or for the retry.
LEMMA PinSwept ==
  ASSUME TypeInv, Identified, KnownInv, OwnerInv, PinInv, Starts
  PROVE  PinInv'
<1>0. EnvOK /\ LogOK /\ HeldOK /\ MapsOK /\ PassOK
  BY DEF TypeInv
<1>1. PICK h \in WatchStates : FromSeen(h) /\ StartPass(h)
  BY DEF Starts
<1>2. PICK readable \in BOOLEAN, walked \in BOOLEAN, ok \in BOOLEAN, hit \in BOOLEAN :
        PlanTick(Desired(h), readable, walked, ok, hit)
  BY <1>1 DEF StartPass
<1> DEFINE desired == Desired(h)
           due   == OrphanSweepDue(desired)
           sweep == SweepSet(desired, readable, due /\ walked)
           b == ClusterBackends(h)
           ip == pin.ip
<1>3. /\ desired.podTargetsKnown = PodTargetsKnown(h) /\ desired.backends = b
      /\ held' = h /\ CurrentPods' = CurrentPods
  BY <1>1 DEF Desired, StartPass, CurrentPods
<1>4. /\ known' = KnownAfter(desired, sweep, ok)
      /\ orphansSwept' = OrphansSweptAfter(due /\ walked, ok)
      /\ pin' = IF (pin # Nothing /\ pin.ip \in sweep /\ (ok \/ hit)) \/ pin = Nothing THEN Nothing
                ELSE [pin EXCEPT !.foundBy = FoundBy(desired, known', orphansSwept')]
  BY <1>2 DEF PlanTick
<1> HIDE DEF desired, due, sweep, b
<1>6. SUFFICES ASSUME pin' # Nothing
      PROVE  /\ pin'.foundBy = "uid" =>
                   /\ known'[pin'.ip] # Nothing
                   /\ known'[pin'.ip] = pin'.owner \/ ~Has(CurrentPods', pin'.ip, known'[pin'.ip])
             /\ pin'.foundBy = "address" /\ orphansSwept' => known'[pin'.ip] # Nothing
  BY DEF PinInv
<1> DEFINE by == FoundBy(desired, known', orphansSwept')
<1>7. pin # Nothing /\ pin \in Pins /\ ~(ip \in sweep /\ (ok \/ hit)) /\ pin' = [pin EXCEPT !.foundBy = by]
  BY <1>0, <1>4, <1>6 DEF MapsOK
<1>8. /\ ip \in Ips /\ pin.owner # Nothing
      /\ pin'.ip = ip /\ pin'.owner = pin.owner /\ pin'.foundBy = by
  BY <1>7 DEF Pins, OwnerInv
<1>9. /\ pin.foundBy = "uid" =>
           known[ip] # Nothing /\ (known[ip] = pin.owner \/ ~Has(CurrentPods, ip, known[ip]))
      /\ pin.foundBy = "address" /\ orphansSwept => known[ip] # Nothing
  BY <1>7 DEF PinInv
<1>b. /\ by = IF known'[ip] = pin.owner THEN "uid"
              ELSE IF /\ pin.foundBy = "address" /\ known'[ip] = Nothing
                      /\ orphansSwept' /\ ~PodTargetsKnown(h)
                   THEN "nothing" ELSE pin.foundBy
  BY <1>3 DEF FoundBy
<1> HIDE DEF by
<1>g. SUFFICES ASSUME known'[ip] # pin.owner
      PROVE  /\ pin.foundBy = "uid" =>
                   known'[ip] # Nothing /\ ~Has(CurrentPods, ip, known'[ip])
             /\ pin.foundBy = "address" /\ orphansSwept' /\ PodTargetsKnown(h)
                   => known'[ip] # Nothing
  BY <1>3, <1>8, <1>b
<1>10. CASE ~PodTargetsKnown(h)
  <2>1. known' = known
    BY <1>3, <1>4, <1>10 DEF KnownAfter
  <2> QED BY <1>9, <1>10, <1>g, <2>1
<1>11. CASE PodTargetsKnown(h) /\ ~ok /\ ip \in sweep
  <2>1. known'[ip] = known[ip]
    BY <1>3, <1>4, <1>8, <1>11 DEF KnownAfter
  <2>2. orphansSwept' = orphansSwept
    BY <1>0, <1>4, <1>11 DEF OrphansSweptAfter, PassOK
  <2> QED BY <1>9, <1>g, <2>1, <2>2
<1>12. CASE PodTargetsKnown(h) /\ (ok \/ ip \notin sweep)
  <2>1. known'[ip] = b[ip] /\ ip \notin sweep
    BY <1>3, <1>4, <1>7, <1>8, <1>12 DEF KnownAfter
  <2>2. ip \notin Departed(b) /\ ip \notin ReusedPodIps(b)
    BY <1>3, <1>12, <2>1 DEF SweepSet, sweep
  <2>3. (due /\ walked) => ip \notin Orphans(b)
    BY <1>3, <2>1 DEF SweepSet, sweep
  <2>4. KnownUid(b, SeenPods, ip) /\ KnownUid(known, SeenPods, ip)
    BY <1>0, <1>1, <1>8, <1>12, BackendsSeen DEF PodTargetsKnown, b, KnownInv, KnownUid
  <2>5. CASE known[ip] = Nothing
    <3>1. pin.foundBy # "uid" /\ (pin.foundBy = "address" => ~orphansSwept)
      BY <1>9, <2>5
    <3>2. orphansSwept' /\ ~orphansSwept => ip \notin Orphans(b)
      BY <1>4, <2>3 DEF OrphansSweptAfter
    <3>3. ip \notin Orphans(b) => b[ip] # Nothing
      BY <1>7, <1>8 DEF Orphans
    <3> QED BY <2>1, <3>1, <3>2, <3>3
  <2>6. CASE known[ip] # Nothing
    <3>1. b[ip] # Nothing
      BY <1>8, <2>2, <2>6 DEF Departed
    <3>2. \A e \in SeenPods : e.uid # "none"
      BY <1>0, PodTypes DEF Identified
    <3>3. known[ip] # "none" /\ b[ip] # "none"
      BY <2>4, <2>6, <3>1, <3>2 DEF KnownUid, Has
    <3>4. known[ip] = b[ip]
      BY <1>8, <2>2, <2>6, <3>1, <3>3 DEF ReusedPodIps
    <3> QED BY <1>9, <1>g, <2>1, <3>1, <3>4
  <2> QED BY <2>5, <2>6
<1> QED BY <1>10, <1>11, <1>12

\* PinInv is inductive.
LEMMA PinStep ==
  ASSUME TypeInv, TypeInv', Identified, KnownInv, HolderInv, OwnerInv, PinInv, [Next]_vars
  PROVE  PinInv'
<1>0. EnvOK /\ LogOK /\ HeldOK /\ MapsOK /\ PassOK /\ EnvOK'
  BY DEF TypeInv
<1>1. CASE Starts
  BY <1>1, PinSwept
<1>2. CASE WriteFronts \/ WriteNodeAllow \/ WritePodTargets
  <2>1. Quiet /\ UNCHANGED <<known, orphansSwept, pin>>
    BY <1>0, <1>2, WritesOwe
  <2>2. CurrentPods' = CurrentPods
    BY <2>1 DEF Quiet, CurrentPods
  <2> QED BY <2>1, <2>2 DEF PinInv, Has
<1>3. CASE Crash
  <2>1. /\ orphansSwept' = FALSE
        /\ pin' = IF pin = Nothing THEN Nothing ELSE [pin EXCEPT !.foundBy = "address"]
    BY <1>3 DEF Crash
  <2>2. pin' # Nothing => pin'.foundBy = "address"
    BY <1>0, <2>1 DEF MapsOK, Pins
  <2> QED BY <2>1, <2>2 DEF PinInv
<1>4. CASE WatchStep
  <2>1. UNCHANGED procVars /\ pin' = pin /\ CurrentPods' = CurrentPods
    BY <1>4 DEF WatchStep, CurrentPods
  <2> QED BY <2>1 DEF PinInv, procVars, Has
<1>5. CASE Mint
  <2>1. PICK pod \in Ips : pin' = [ip |-> pod, owner |-> holder[pod],
                                   foundBy |-> IF known[pod] # Nothing THEN "uid"
                                                ELSE IF orphansSwept THEN "nothing" ELSE "address"]
    BY <1>0, <1>5, MintTypes
  <2>2. UNCHANGED procVars /\ CurrentPods' = CurrentPods
    BY <1>5 DEF Mint, CurrentPods
  <2>3. Has(CurrentPods, pod, known[pod]) => holder[pod] = known[pod]
    BY DEF Has, HolderInv
  <2>4. /\ pin'.ip = pod /\ pin'.owner = holder[pod]
        /\ pin'.foundBy = "uid" <=> known[pod] # Nothing
        /\ pin'.foundBy = "address" => ~orphansSwept
    BY <2>1
  <2>5. known' = known /\ orphansSwept' = orphansSwept
    BY <2>2 DEF procVars
  <2>6. known'[pin'.ip] = pin'.owner \/ ~Has(CurrentPods', pin'.ip, known'[pin'.ip])
    BY <2>2, <2>3, <2>4, <2>5
  <2> QED BY <2>4, <2>5, <2>6 DEF PinInv
<1>6. ASSUME NEW o \in Objects, Change(o) PROVE PinInv'
  <2>1. UNCHANGED procVars /\ pin' = pin
    BY <1>6 DEF Change
  <2>2. known' = known /\ orphansSwept' = orphansSwept
    BY <2>1 DEF procVars
  <2>3. ASSUME pin # Nothing, pin.foundBy = "uid", known[pin.ip] # pin.owner
        PROVE  ~Has(CurrentPods', pin.ip, known[pin.ip])
    <3>1. ~Has(CurrentPods, pin.ip, known[pin.ip])
      BY <2>3 DEF PinInv
    <3>2. pin.ip \in Ips
      BY <1>0, <2>3 DEF MapsOK, Pins
    <3>3. Has(SeenPods, pin.ip, known[pin.ip])
      BY <2>3, <3>2 DEF KnownInv, PinInv
    <3>4. known[pin.ip] # "none"
      BY <1>0, <3>3, PodTypes DEF Identified, Has
    <3> QED BY <1>0, <1>6, <3>1, <3>3, <3>4, GoneStaysGone
  <2> QED BY <2>1, <2>2, <2>3 DEF PinInv
<1> QED BY <1>0, <1>1, <1>2, <1>3, <1>4, <1>5, <1>6, StepCases

\* At first there is no pin and no log.
LEMMA PinInit == Init => PinInv /\ SyncInv
BY DEF Init, PinInv, SyncInv, Synced

\* Together they are what a controller that has caught up needs.
LEMMA CaughtUpFollows ==
  ASSUME TypeInv, SyncInv, KnownInv, PinInv
  PROVE  PinsFollowPods
<1>0. EnvOK /\ HeldOK /\ MapsOK /\ LogOK
  BY DEF TypeInv
<1> SUFFICES ASSUME CaughtUp, PodTargetsKnown(held), orphansSwept,
                    pin # Nothing, pin.foundBy # "nothing"
             PROVE  \E e \in Backends(cluster) :
                       e.ip = pin.ip /\ (pin.foundBy = "uid" => e.uid = pin.owner)
  BY DEF PinsFollowPods, WalkedAndCaughtUp
<1>1. ~Owes
  BY DEF CaughtUp, Owes
<1>2. known = ClusterBackends(held)
  BY <1>1 DEF KnownInv
<1>3. pin.ip \in Ips
  BY <1>0 DEF MapsOK, Pins
<1>4. known[pin.ip] # Nothing
  BY <1>0 DEF PinInv, MapsOK, Pins, Finds
<1>5. PICK e \in TrackedEndpoints(held) : e.ip = pin.ip /\ e.uid = known[pin.ip]
  BY <1>0, <1>2, <1>3, <1>4, BackendsNamed DEF HeldOK
<1>6. \A o \in Objects : Agrees(held, o, cluster[o])
  <2> SUFFICES ASSUME NEW o \in Objects PROVE Agrees(held, o, cluster[o])
    OBVIOUS
  <2> DEFINE q == ResourceOf(o)
  <2>1. q \in Resources /\ q \in watching
    BY ObjectKinds DEF Resources, CaughtUp
  <2>2. log[q] \in Seq(Events) /\ sent[q] = Len(log[q])
    BY <1>0, <2>1 DEF LogOK, CaughtUp
  <2>3. NoneAfter(log[q], sent[q], o)
    <3>1. Len(log[q]) \in Nat
      BY <2>2
    <3> QED BY <2>2, <3>1 DEF NoneAfter
  <2> QED BY <2>1, <2>3 DEF SyncInv, Synced
<1>7. PICK s \in SliceNames : held.slices[s] # Nothing /\ e \in held.slices[s].endpoints
  BY DEF TrackedEndpoints, OwnSlices
<1>8. held.service # Nothing
  BY DEF TrackedEndpoints, OwnSlices
<1>9. cluster[s] # Nothing /\ e \in cluster[s].endpoints
  BY <1>6, <1>7, VersionTypes DEF Agrees
<1>10. ParseService(cluster[Svc]) # Nothing
  BY <1>6, <1>8, VersionTypes DEF Agrees
<1>11. e.node \in Nodes
  BY <1>0, HeldPodsType DEF HeldOK, TrackedEndpoints, HeldPods, Endpoints
<1>12. e.node \in held.names
  BY DEF TrackedEndpoints, PodTargetsKnown, FullyListed, Resources
<1>13. cluster[e.node] # Nothing
  BY <1>6, <1>11, <1>12, VersionTypes DEF Agrees
<1>14. e \in CurrentPods
  BY <1>9, PodsOf DEF CurrentPods
<1>15. e \in Backends(cluster)
  BY <1>10, <1>13, <1>14 DEF Backends, CurrentPods
<1>16. pin.foundBy = "uid" => known[pin.ip] = pin.owner
  BY <1>4, <1>5, <1>14 DEF PinInv, Has
<1> QED BY <1>5, <1>15, <1>16

(***************************************************************************)
(* However pods leave and watches fail, a controller that has caught up    *)
(* after its walk leaves no pin to an address that is no backend's, nor a  *)
(* pin to an earlier owner of the address if the process has known that    *)
(* owner, for any objects and versions.  Excepted are pins to pods it did  *)
(* not know when the walk was over.  Provided that endpoints carry a       *)
(* targetRef (reused_pod_ips ignores those without) and that no two pods   *)
(* have an address at the same time.                                       *)
(***************************************************************************)
THEOREM PinsFollow ==
  ASSUME Identified
  PROVE  Spec /\ []OneHolder => []PinsFollowPods
<1> DEFINE Inv == SyncInv /\ KnownInv /\ HolderInv /\ OwnerInv /\ PinInv
<1>1. Init /\ OneHolder => Inv
  BY PinInit, KnownInit, HolderInit, OwnerInit
<1>2. TypeInv /\ TypeInv' /\ OneHolder' /\ Inv /\ [Next]_vars => Inv'
  BY SyncStep, KnownStep, HolderStep, OwnerStep, PinStep
<1>3. TypeInv /\ Inv => PinsFollowPods
  BY CaughtUpFollows
<1> HIDE DEF Inv
<1> QED BY <1>1, <1>2, <1>3, TypeInvariant, PTL DEF Spec

-----------------------------------------------------------------------------
(* The pins of steady backends.                                            *)

\* The cluster is itself one of the mixes.
LEMMA ClusterMixed ==
  ASSUME EnvOK
  PROVE  cluster \in Mixes(seen)
<1>1. cluster = [x \in Objects |-> cluster[x]] /\ \A x \in Objects : cluster[x] \in seen[x]
  BY DEF EnvOK
<1> QED BY <1>1, FunctionMixed

\* A steady backend is a backend of every mix.
LEMMA SteadyBackend ==
  ASSUME SteadyWanted, NEW c \in Mixes(seen), NEW ip, NEW u, <<"backend", ip, u>> \in steady
  PROVE  \E e \in Backends(c) : e.ip = ip /\ e.uid = u
<1> DEFINE b == <<"backend", ip, u>>
<1>1. b \in Wanted(c)
  BY DEF SteadyWanted
<1>2. b \notin Entries(Fronts(Listing(c)), PodTargets(Listing(c)), NodeAllow(Listing(c)))
  <2>1. b[1] = "backend"
    OBVIOUS
  <2> HIDE DEF b
  <2> QED BY <2>1, EntryKinds
<1>3. b \in {<<"backend", e.ip, e.uid>> : e \in Backends(c)}
  BY <1>1, <1>2 DEF Wanted
<1> QED BY <1>3

\* The backends of a mix are tracked by a controller that has listed it.
LEMMA BackendTracked ==
  ASSUME NEW c, NEW e \in Backends(c), e.node \in Nodes
  PROVE  e \in TrackedEndpoints(Listing(c))
<1>1. e \in EndpointsOf({c[s] : s \in SliceNames}) /\ ParseService(c[Svc]) # Nothing
      /\ c[e.node] # Nothing
  BY DEF Backends
<1>2. PICK s \in SliceNames : c[s] # Nothing /\ e \in c[s].endpoints
  BY <1>1, PodsOf
<1>3. Listing(c).service # Nothing /\ Listing(c).slices[s] = c[s] /\ e.node \in Listing(c).names
  BY <1>1 DEF Listing
<1> QED BY <1>2, <1>3 DEF TrackedEndpoints, OwnSlices

\* SteadyPods holds at first.
LEMMA SteadyPodsInit ==
  ASSUME Init, OneHolder
  PROVE  SteadyPods
<1>0. EnvOK /\ SteadyWanted
  BY TypeInit, SteadyWantedInit DEF TypeInv
<1>1. SeenPods = CurrentPods
  BY VersionTypes DEF Init, SeenPods, CurrentPods, EndpointsOf
<1>2. ASSUME NEW e \in CurrentPods, NEW b \in steady, b[1] = "backend", b[2] = e.ip
      PROVE  b[3] = e.uid
  <2>1. b \in Wanted(cluster)
    BY DEF Init
  <2>2. b \in {<<"backend", x.ip, x.uid>> : x \in Backends(cluster)}
    BY <1>2, <2>1, EntryKinds DEF Wanted
  <2>3. PICK x \in Backends(cluster) : b = <<"backend", x.ip, x.uid>>
    BY <2>2
  <2>4. x \in CurrentPods /\ x.ip = e.ip /\ b[3] = x.uid
    BY <1>2, <2>3 DEF Backends, CurrentPods
  <2> QED BY <2>4 DEF OneHolder
<1> QED BY <1>1, <1>2 DEF SteadyPods

\* A pod that takes the address of a steady backend ends its being steady.
LEMMA SteadyPodsStep ==
  ASSUME TypeInv, TypeInv', SteadyWanted, SteadyWanted', OneHolder', SteadyPods, [Next]_vars
  PROVE  SteadyPods'
<1>0. EnvOK /\ LogOK /\ HeldOK /\ EnvOK'
  BY DEF TypeInv
<1>1. CASE Quiet
  BY <1>1 DEF Quiet, SteadyPods, SeenPods
<1>2. ASSUME NEW o \in Objects, Change(o) PROVE SteadyPods'
  <2>1. steady' \subseteq steady
    BY SteadyWantedStep
  <2>2. cluster' \in Mixes(seen')
    <3>1. /\ cluster' = [x \in Objects |-> cluster'[x]]
          /\ \A x \in Objects : cluster'[x] \in seen'[x]
      BY <1>0 DEF EnvOK
    <3> QED BY <3>1, FunctionMixed
  <2>3. ASSUME NEW e \in CurrentPods', NEW b \in steady', b[1] = "backend", b[2] = e.ip
        PROVE  b[3] = e.uid
    <3>1. b \in Wanted(cluster')
      BY <2>2 DEF SteadyWanted
    <3>2. b \in {<<"backend", x.ip, x.uid>> : x \in Backends(cluster')}
      BY <2>3, <3>1, EntryKinds DEF Wanted
    <3>3. PICK x \in Backends(cluster') : b = <<"backend", x.ip, x.uid>>
      BY <3>2
    <3>4. x \in CurrentPods' /\ x.ip = e.ip /\ b[3] = x.uid
      BY <2>3, <3>3 DEF Backends, CurrentPods
    <3> QED BY <3>4 DEF OneHolder
  <2>4. SeenPods' \subseteq SeenPods \cup CurrentPods'
    BY <1>0, <1>2, SeenPodsGrow
  <2> QED BY <2>1, <2>3, <2>4 DEF SteadyPods
<1> QED BY <1>0, <1>1, <1>2, Surroundings

\* The addresses held of a Node are those of one of its reports.
LEMMA HeldReport ==
  ASSUME EnvOK, NEW h \in WatchStates, FromSeen(h), NEW n \in Nodes, h.addrs[n] # Nothing
  PROVE  h.addrs[n].underlay \cup h.addrs[n].fronts \in Reports(n)
<1>1. "nodes" \in h.listed
  BY DEF FromSeen
<1>2. PICK v \in seen[n] : h.addrs[n] = ReportedAddrs(v)
  BY <1>1 DEF FromSeen
<1>3. v \in Versions[n]
  BY <1>2, VersionTypes DEF EnvOK
<1>4. v # Nothing /\ h.addrs[n] = ParseNodeAddrs(v) /\ ParseNodeAddrs(v).underlay # {}
  BY <1>2 DEF ReportedAddrs
<1>5. v.internal \cup v.external \subseteq Ips
  BY <1>3, <1>4, VersionTypes
<1>6. ParseNodeAddrs(v).underlay \cup ParseNodeAddrs(v).fronts = v.internal \cup v.external
  BY <1>5 DEF ParseNodeAddrs, PreferPerFamily
<1>7. v.internal \cup v.external # {}
  BY <1>4, <1>6
<1> QED BY <1>3, <1>4, <1>6, <1>7 DEF Reports

\* A Node that is held with --node-ip reports it.
LEMMA OwnReports ==
  ASSUME EnvOK, NEW h \in WatchStates, FromSeen(h), NEW n \in Nodes, h.addrs[n] # Nothing,
         NodeIp \in h.addrs[n].underlay \cup h.addrs[n].fronts
  PROVE  ReportsNodeIp(n)
<1>1. "nodes" \in h.listed
  BY DEF FromSeen
<1>2. PICK v \in seen[n] : h.addrs[n] = ReportedAddrs(v)
  BY <1>1 DEF FromSeen
<1>3. v \in Versions[n]
  BY <1>2, VersionTypes DEF EnvOK
<1>4. v # Nothing /\ h.addrs[n] = ParseNodeAddrs(v)
  BY <1>2 DEF ReportedAddrs
<1>5. v.internal \cup v.external \subseteq Ips
  BY <1>3, <1>4, VersionTypes
<1>6. NodeIp \in v.internal \cup v.external
  BY <1>4, <1>5, ParsedAddrs
<1> QED BY <1>3, <1>4, <1>6 DEF ReportsNodeIp

\* The pods this node wants in POD_TARGETS are of a Node that reports --node-ip.
LEMMA LocalTargets ==
  ASSUME EnvOK, NEW h \in WatchStates, FromSeen(h), "slices" \in h.listed, NEW ip \in PodTargets(h)
  PROVE  \E e \in SeenPods : e.ip = ip /\ LocalRow(e)
<1>1. PICK e \in Resolved(h) : e.ip = ip /\ IsLocal(h, e) /\ IsAdmitted(h, e)
  BY DEF PodTargets
<1>2. e \in HeldPods(h) /\ h.addrs[e.node] # Nothing
  BY DEF Resolved, HeldPods
<1>3. e.node \in Nodes
  BY <1>2, HeldPodsType DEF Endpoints
<1>4. ReportsNodeIp(e.node)
  BY <1>1, <1>2, <1>3, OwnReports DEF IsLocal, AddrsOf
<1>5. Admissible(e)
  <2>1. CASE e.ip \in PodCidr
    BY <2>1 DEF Admissible
  <2>2. CASE e.ip \in AddrsOf(h, e)
    <3>1. PICK r \in Reports(e.node) : AddrsOf(h, e) = r
      BY <1>2, <1>3, HeldReport DEF AddrsOf
    <3> QED BY <2>2, <3>1 DEF Admissible
  <2> QED BY <1>1, <2>1, <2>2 DEF IsAdmitted, InPodCidr
<1> QED BY <1>1, <1>2, <1>4, <1>5, HeldSeen DEF LocalRow

\* A listing of versions that have been seen.
LEMMA ListingSeen ==
  ASSUME EnvOK, NEW c \in Mixes(seen)
  PROVE  Listing(c) \in WatchStates /\ FromSeen(Listing(c)) /\ FullyListed(Listing(c))
<1>1. \A x \in Objects : c[x] \in seen[x] /\ c[x] \in Versions[x]
  BY MixValues DEF EnvOK
<1>2. Listing(c) \in WatchStates
  BY <1>1, ListingType
<1>3. \A n \in Nodes : /\ Listing(c).addrs[n] = ReportedAddrs(c[n])
                       /\ n \in Listing(c).names <=> c[n] # Nothing
  BY <1>1, ListingAddrs, VersionTypes DEF Listing
<1>4. /\ Listing(c).service = ParseService(c[Svc]) /\ Listing(c).listed = Resources
      /\ \A s \in SliceNames : Listing(c).slices[s] = c[s]
  BY DEF Listing
<1>5. FromSeen(Listing(c))
  BY <1>1, <1>3, <1>4, VersionTypes DEF FromSeen, Resources
<1> QED BY <1>2, <1>4, <1>5 DEF FullyListed

\* LocalRows holds at first.
LEMMA LocalRowsInit ==
  ASSUME Init
  PROVE  LocalRows
<1>1. EnvOK
  BY TypeInit DEF TypeInv
<1>2. /\ Listing(cluster) \in WatchStates /\ FromSeen(Listing(cluster))
      /\ FullyListed(Listing(cluster))
  BY <1>1, ClusterMixed, ListingSeen
<1>3. podTargets = PodTargets(Listing(cluster)) /\ "slices" \in Listing(cluster).listed
  BY <1>2 DEF Init, FullyListed, Resources
<1>4. \A ip \in PodTargets(Listing(cluster)) : \E e \in SeenPods : e.ip = ip /\ LocalRow(e)
  BY <1>1, <1>2, <1>3, LocalTargets
<1> QED BY <1>3, <1>4 DEF LocalRows

\* LocalRows is inductive.
LEMMA LocalRowsStep ==
  ASSUME TypeInv, TypeInv', LocalRows, [Next]_vars
  PROVE  LocalRows'
<1>0. EnvOK /\ LogOK /\ HeldOK /\ MapsOK /\ PassOK /\ EnvOK'
  BY DEF TypeInv
<1>n. ASSUME \A ip \in podTargets' : \E e \in SeenPods' : e.ip = ip /\ LocalRow(e)
      PROVE  LocalRows'
  BY <1>n DEF LocalRows, LocalRow, ReportsNodeIp, Admissible, Reports
<1>1. CASE WritePodTargets
  <2>1. PICK gone \in SUBSET pass.rows, new \in SUBSET PodTargets(held) :
              /\ podTargets' = (podTargets \ gone) \cup new
              /\ gone \cup new # {} => PodTargetsKnown(held)
    BY <1>0, <1>1, PodTargetsWritten
  <2>2. SeenPods' = SeenPods
    BY <1>1 DEF WritePodTargets, history, SeenPods
  <2>3. ASSUME NEW ip \in new PROVE \E e \in SeenPods : e.ip = ip /\ LocalRow(e)
    <3>1. "slices" \in held.listed
      BY <2>1, <2>3 DEF PodTargetsKnown, FullyListed, Resources
    <3> QED BY <1>0, <2>3, <3>1, LocalTargets DEF HeldOK
  <2> QED BY <1>n, <2>1, <2>2, <2>3 DEF LocalRows
<1>2. ASSUME NEW o \in Objects, Change(o) PROVE LocalRows'
  <2>1. podTargets' = podTargets /\ SeenPods \subseteq SeenPods'
    BY <1>0, <1>2, SeenPodsGrow DEF Change, mapVars
  <2> QED BY <1>n, <2>1 DEF LocalRows
<1>3. ASSUME podTargets' = podTargets, Quiet PROVE LocalRows'
  BY <1>n, <1>3 DEF Quiet, SeenPods, LocalRows
<1>4. ASSUME NEW h, StartPass(h) PROVE LocalRows'
  BY <1>3, <1>4 DEF StartPass, Quiet, history, mapVars
<1>5. CASE WriteFronts \/ WriteNodeAllow \/ Mint \/ Crash \/ WatchStep
  BY <1>3, <1>5 DEF WriteFronts, WriteNodeAllow, Mint, Crash, WatchStep, Quiet, history, mapVars, bounds
<1> QED BY <1>0, <1>1, <1>2, <1>4, <1>5, StepCases DEF Starts

\* No sweep of a pass on h takes the address of a steady backend.
LEMMA SteadySpared ==
  ASSUME TypeInv, OneOwnNode, PodsStayPut, AdmissionSteady, SteadyWanted, SteadyPods, LocalRows, KnownInv,
         NEW h \in WatchStates, FromSeen(h), NEW ip \in Ips, NEW u, <<"backend", ip, u>> \in steady,
         NEW readable \in BOOLEAN, NEW walked \in BOOLEAN, walked => FullyListed(h)
  PROVE  ip \notin SweepSet(Desired(h), readable, walked)
<1>0. EnvOK
  BY DEF TypeInv
<1> DEFINE desired == Desired(h)
           b == ClusterBackends(h)
<1>1. /\ desired.podTargetsKnown = PodTargetsKnown(h) /\ desired.backends = b
      /\ desired.podTargets = PodTargets(h)
  BY DEF Desired
<1> HIDE DEF desired, b
<1>2. CASE ~FullyListed(h)
  <2>1. ~PodTargetsKnown(h) /\ ~walked
    BY <1>2 DEF PodTargetsKnown
  <2>2. SweepSet(desired, readable, walked) = {}
    BY <1>1, <2>1 DEF SweepSet, StaleRows
  <2> QED BY <2>2 DEF desired
<1>3. CASE FullyListed(h)
  <2>1. PICK c \in Mixes(seen) : h = Listing(c)
    BY <1>0, <1>3, HeldIsMix
  <2>2. PICK e \in Backends(c) : e.ip = ip /\ e.uid = u
    BY SteadyBackend
  <2>3. e \in SeenPods
    <3>1. PICK s \in SliceNames : c[s] # Nothing /\ e \in c[s].endpoints
      BY PodsOf DEF Backends
    <3>2. c[s] \in seen[s]
      BY MixValues, VersionTypes
    <3> QED BY <3>1, <3>2 DEF SeenPods, EndpointsOf
  <2>4. e \in VersionPods /\ e \in Endpoints /\ e.node \in Nodes
    BY <1>0, <2>3, PodTypes DEF Endpoints
  <2>5. e \in TrackedEndpoints(h)
    BY <2>1, <2>2, <2>4, BackendTracked
  <2>6. \A f \in SeenPods : f.ip = ip => f.uid = u
    <3> DEFINE x == <<"backend", ip, u>>
    <3>1. x \in steady /\ x[1] = "backend" /\ x[2] = ip /\ x[3] = u
      OBVIOUS
    <3> HIDE DEF x
    <3> QED BY <3>1 DEF SteadyPods
  <2>7. b[ip] = u /\ u # Nothing
    <3>1. PICK f \in TrackedEndpoints(h) : f.ip = ip /\ f.uid = b[ip]
      BY <2>2, <2>5, BackendsNamed DEF b
    <3>2. f \in SeenPods
      BY <1>0, <1>3, <3>1, HeldSeen DEF TrackedEndpoints, HeldPods, FullyListed, Resources
    <3>3. u # Nothing
      BY <1>0, <2>2, <2>3, PodTypes
    <3> QED BY <2>6, <3>1, <3>2, <3>3
  <2>8. ip \notin Orphans(b) /\ ip \notin Departed(b)
    BY <2>7 DEF Orphans, Departed
  <2>9. ip \notin ReusedPodIps(b)
    <3>1. known[ip] = Nothing \/ known[ip] = u
      BY <2>6 DEF KnownInv, Has
    <3> QED BY <2>7, <3>1 DEF ReusedPodIps
  <2>10. ip \notin StaleRows(desired, readable)
    <3> SUFFICES ASSUME PodTargetsKnown(h), ip \in podTargets PROVE ip \in PodTargets(h)
      BY <1>1 DEF StaleRows
    <3>1. PICK f \in SeenPods : f.ip = ip /\ ReportsNodeIp(f.node) /\ Admissible(f)
      BY DEF LocalRows, LocalRow
    <3>2. f.uid = e.uid /\ f.ip = e.ip /\ f \in VersionPods
      BY <1>0, <2>2, <2>6, <3>1, PodTypes
    <3>3. f.node = e.node
      BY <2>4, <3>2 DEF PodsStayPut
    <3>4. PICK n \in Nodes : h.addrs[n] # Nothing /\ NodeIp \in h.addrs[n].underlay \cup h.addrs[n].fronts
      BY DEF PodTargetsKnown, OwnNodes
    <3>5. ReportsNodeIp(n)
      BY <1>0, <3>4, OwnReports
    <3>6. n = e.node
      BY <2>4, <3>1, <3>3, <3>5 DEF OneOwnNode
    <3>7. e \in Resolved(h) /\ IsLocal(h, e)
      BY <2>5, <3>4, <3>6 DEF Resolved, TrackedEndpoints, IsLocal, AddrsOf
    <3>8. IsAdmitted(h, e)
      <4>1. CASE e.ip \in PodCidr
        BY <4>1 DEF IsAdmitted, InPodCidr
      <4>2. CASE e.ip \notin PodCidr
        <5>1. PICK r \in Reports(e.node) : e.ip \in r
          BY <3>1, <3>2, <3>3, <4>2 DEF Admissible
        <5>2. AddrsOf(h, e) \in Reports(e.node)
          BY <1>0, <2>4, <3>4, <3>6, HeldReport DEF AddrsOf
        <5>3. e.ip \in AddrsOf(h, e)
          BY <2>4, <4>2, <5>1, <5>2 DEF AdmissionSteady
        <5> QED BY <5>3 DEF IsAdmitted
      <4> QED BY <4>1, <4>2
    <3> QED BY <2>2, <3>7, <3>8 DEF PodTargets
  <2>11. ip \notin SweepSet(desired, readable, walked)
    BY <1>1, <2>8, <2>9, <2>10 DEF SweepSet
  <2> QED BY <2>11 DEF desired
<1> QED BY <1>2, <1>3

\* Only a sweep takes a pin, so a steady backend keeps its own.
LEMMA SteadyPinKept ==
  ASSUME TypeInv, OneOwnNode, PodsStayPut, AdmissionSteady, SteadyWanted, SteadyPods, LocalRows, KnownInv,
         [Next]_vars, pin # Nothing, <<"backend", pin.ip, pin.owner>> \in steady
  PROVE  pin' # Nothing
<1>0. EnvOK /\ LogOK /\ HeldOK /\ MapsOK /\ PassOK
  BY DEF TypeInv
<1>p. pin \in Pins /\ pin.ip \in Ips
  BY <1>0 DEF MapsOK, Pins
<1>z. Nothing \notin Pins
  BY ReconcileAssumption DEF ReconcileAssumption, Pins
<1>1. CASE Starts
  <2>1. PICK h \in WatchStates : FromSeen(h) /\ StartPass(h)
    BY <1>1 DEF Starts
  <2>2. PICK readable \in BOOLEAN, walked \in BOOLEAN, ok \in BOOLEAN, hit \in BOOLEAN :
          PlanTick(Desired(h), readable, walked, ok, hit)
    BY <2>1 DEF StartPass
  <2> DEFINE due == OrphanSweepDue(Desired(h))
             walks == due /\ walked
  <2>3. walks \in BOOLEAN /\ (walks => FullyListed(h))
    BY DEF OrphanSweepDue, Desired
  <2>4. /\ FoundBy(Desired(h), known', orphansSwept') \in Finds
        /\ pin.ip \notin SweepSet(Desired(h), readable, walks) =>
              pin' = [pin EXCEPT !.foundBy = FoundBy(Desired(h), known', orphansSwept')]
    <3>1. FoundBy(Desired(h), known', orphansSwept') \in Finds
      BY <1>p DEF FoundBy, Pins, Finds
    <3> QED BY <2>2, <3>1 DEF PlanTick
  <2> HIDE DEF due, walks
  <2>5. pin.ip \notin SweepSet(Desired(h), readable, walks)
    BY <1>p, <2>1, <2>3, SteadySpared
  <2>6. pin' \in Pins
    BY <1>p, <2>4, <2>5 DEF Pins
  <2> QED BY <1>z, <2>6
<1>2. CASE WriteFronts \/ WriteNodeAllow \/ WritePodTargets \/ WatchStep
  BY <1>2 DEF WriteFronts, WriteNodeAllow, WritePodTargets, WatchStep
<1>3. CASE Mint
  BY <1>3 DEF Mint
<1>4. ASSUME NEW o \in Objects, Change(o) PROVE pin' = pin
  BY <1>4 DEF Change
<1>5. CASE Crash
  <2>1. pin' \in Pins
    BY <1>p, <1>5 DEF Crash, Pins, Finds
  <2> QED BY <1>z, <2>1
<1> QED BY <1>0, <1>1, <1>2, <1>3, <1>4, <1>5, StepCases

(***************************************************************************)
(* The sweep takes no pin of a pod that was a backend in every version of  *)
(* the cluster, for any objects and versions: provided that no two pods    *)
(* have an address at the same time, a pod does not change Nodes, one Node *)
(* reports --node-ip, and the reports of a Node agree on which pods have   *)
(* one of its addresses.  Pods may be in --pod-cidr, on the host network   *)
(* or neither.                                                             *)
(***************************************************************************)
THEOREM SteadyPinsKept ==
  ASSUME OneOwnNode, PodsStayPut, AdmissionSteady
  PROVE  Spec /\ []OneHolder => SteadyPinsStay
<1> DEFINE Inv == KnownInv /\ SteadyPods /\ LocalRows
           A == pin # Nothing /\ <<"backend", pin.ip, pin.owner>> \in steady => pin' # Nothing
<1>1. Init /\ OneHolder => Inv
  BY KnownInit, SteadyPodsInit, LocalRowsInit
<1>2. TypeInv /\ TypeInv' /\ SteadyInv /\ SteadyInv' /\ OneHolder' /\ Inv /\ [Next]_vars => Inv'
  BY KnownStep, SteadyPodsStep, LocalRowsStep DEF SteadyInv
<1>3. TypeInv /\ SteadyInv /\ Inv /\ [Next]_vars => A
  BY SteadyPinKept DEF SteadyInv
<1>4. SteadyPinsStay <=> [][A]_vars
  BY DEF SteadyPinsStay
<1> HIDE DEF Inv, A
<1> QED BY <1>1, <1>2, <1>3, <1>4, TypeInvariant, SteadyInvariant, PTL DEF Spec

=============================================================================
