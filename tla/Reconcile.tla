----------------------------- MODULE Reconcile ------------------------------
(***************************************************************************)
(* One node's controller from the API to the maps: three list-watches      *)
(* (controller/src/watch.rs, run_list_watch) fold LISTs and events into a  *)
(* WatchState, and every one of them runs PinnedMaps::apply                *)
(* (controller/src/apply.rs), which evicts the pins of departed pods, then *)
(* writes the fronts, NODE_ALLOW and POD_TARGETS.  The watches share one   *)
(* thread, so a pass is never interrupted by an event; packets, changes of *)
(* the cluster and a crash do fall between its writes.                     *)
(*                                                                         *)
(* A watch resumes at the resourceVersion of its LIST or of its last       *)
(* BOOKMARK: log[r] holds the events since then and sent[r] counts the     *)
(* ones delivered, so a connection that is merely lost replays them.       *)
(***************************************************************************)
EXTENDS WatchState

CONSTANTS
    Svc,         \* the Service's name among the objects
    Versions,    \* Versions[o]: what object o may be in the cluster
    AtFirst,     \* AtFirst[o]: and what it is at first
    MaxChanges,  \* changes of the cluster
    MaxMishaps   \* lost connections, 410s, failing map operations and crashes

Objects == {Svc} \cup SliceNames \cup Nodes

\* What can tell the process that a pin is stale (history): the uid it knows the
\* pod by; or only the address, in the orphan walk, for a pin older than what the
\* process knows; or nothing, for a pod it did not know when the walk was over.
Finds == {"uid", "address", "nothing"}

ASSUME ReconcileAssumption ==
    /\ Svc \notin SliceNames \cup Nodes /\ SliceNames \cap Nodes = {}
    /\ AtFirst \in [Objects -> UNION {Versions[o] : o \in Objects}]
    /\ \A o \in Objects : AtFirst[o] \in Versions[o]
    /\ Nothing \notin [ip : Ips, owner : STRING \cup {Nothing}, foundBy : Finds]
    /\ Versions[Svc] \subseteq Services \cup {Nothing}
    /\ \A s \in SliceNames : \A v \in Versions[s] :
          v = Nothing \/ (v \in Slices /\ \A e \in v.endpoints : e.uid # Nothing)
    /\ \A n \in Nodes : \A v \in Versions[n] :
          v = Nothing \/ v.internal \cup v.external \subseteq Ips
    /\ MaxChanges \in Nat /\ MaxMishaps \in Nat

VARIABLES
    cluster,      \* the objects of the API server
    log, sent,    \* events since the watch's resourceVersion, and how many arrived
    watching,     \* resources with a valid resourceVersion
    held,         \* its WatchState
    known,        \* known_backends: address -> uid
    orphansSwept, \* orphans_swept
    everKnown,    \* fronts_ever_known
    pass,         \* the pass of PinnedMaps::apply under way
    retry,        \* RetryBackoff is armed
    fronts, podTargets, nodeAllow,  \* the pinned maps
    pin,          \* the conntrack pin of some flow
    seen, steady, \* history: the versions of each object, and what they all call for
    holder,       \* history: the uid that last had an address
    changes, mishaps

watchVars == <<log, sent, watching>>
procVars  == <<held, known, orphansSwept, everKnown, pass, retry>>
mapVars   == <<fronts, podTargets, nodeAllow>>
history   == <<seen, steady, holder>>
bounds    == <<changes, mishaps>>
vars == <<cluster, watchVars, procVars, mapVars, pin, history, bounds>>

ResourceOf(o) ==
    CASE o = Svc -> "services" [] o \in SliceNames -> "slices" [] OTHER -> "nodes"

\* The WatchState of a controller that has listed exactly the objects c.
Listing(c) ==
    [service |-> ParseService(c[Svc]),
     slices  |-> [s \in SliceNames |-> c[s]],
     addrs   |-> RelistedNodes(NoWatchState, c),
     names   |-> {n \in Nodes : c[n] # Nothing},
     listed  |-> Resources]

NoBackends == [ip \in Ips |-> Nothing]
Resting == [at |-> "rest", desired |-> Nothing, pending |-> {}, rows |-> {},
            readable |-> TRUE, failed |-> FALSE]

\* DesiredEntries
Desired(h) ==
    [fronts |-> Fronts(h), podTargets |-> PodTargets(h), nodeAllow |-> NodeAllow(h),
     backends |-> ClusterBackends(h), frontsKnown |-> FullyListed(h),
     podTargetsKnown |-> PodTargetsKnown(h)]

Mishaps(n) == mishaps + n <= MaxMishaps /\ mishaps' = mishaps + n

\* The pods of some slices, and those that serve in the cluster c: in a slice of
\* the LoadBalancer, on a Node that exists.
EndpointsOf(slices) == UNION {slice.endpoints : slice \in slices \ {Nothing}}
Backends(c) ==
    {e \in EndpointsOf({c[s] : s \in SliceNames}) :
        ParseService(c[Svc]) # Nothing /\ c[e.node] # Nothing}

\* The gates of a packet that arrives through the tunnel: its sender's against
\* NODE_ALLOW, its pod's against POD_TARGETS.
PeerNodeAdmission(allow, ip) == IF ip \in allow THEN "Continue" ELSE "Drop"
DecapForwardPodAdmission(targets, ip) == IF ip \in targets THEN "Deliver" ELSE "Drop"

\* What the maps let through and steer to, and what the cluster c calls for.
Entries(f, targets, allow) ==
    {<<"pod", ip>> : ip \in {x \in Ips : DecapForwardPodAdmission(targets, x) = "Deliver"}} \cup
    {<<"peer", ip>> : ip \in {x \in Ips : PeerNodeAdmission(allow, x) = "Continue"}} \cup
    UNION {{<<"slot", ip, f[ip].slots[i].pod>> : i \in DOMAIN f[ip].slots} :
              ip \in {x \in Ips : f[x] # Nothing}}
Wanted(c) ==
    LET h == Listing(c) IN
    Entries(Fronts(h), PodTargets(h), NodeAllow(h)) \cup
    {<<"backend", e.ip, e.uid>> : e \in Backends(c)}

LastHolder(c, before) ==
    LET pods == EndpointsOf({c[s] : s \in SliceNames}) IN
    [ip \in Ips |-> IF \E e \in pods : e.ip = ip
                    THEN (CHOOSE e \in pods : e.ip = ip).uid ELSE before[ip]]

\* Every way to combine versions of the objects that the cluster has had: the
\* three watches lag independently.
Mixes(versions) ==
    LET Of(S) == {c \in [S -> UNION {versions[o] : o \in S}] : \A o \in S : c[o] \in versions[o]}
    IN {[o \in Objects |-> IF o = Svc THEN v ELSE IF o \in SliceNames THEN s[o] ELSE n[o]] :
           v \in versions[Svc], s \in Of(SliceNames), n \in Of(Nodes)}

\* What each cluster calls for, tabulated.
WantedIn == [c \in Mixes(Versions) |-> Wanted(c)]

-----------------------------------------------------------------------------
(* The pinned maps survive the process: a controller starts on the maps a  *)
(* predecessor left for the same cluster.                                  *)

Init ==
    /\ cluster = AtFirst
    /\ log = [r \in Resources |-> <<>>] /\ sent = [r \in Resources |-> 0]
    /\ watching = {}
    /\ held = NoWatchState /\ known = NoBackends
    /\ orphansSwept = FALSE /\ everKnown = FALSE
    /\ pass = Resting /\ retry = FALSE
    /\ fronts = Fronts(Listing(cluster))
    /\ podTargets = PodTargets(Listing(cluster))
    /\ nodeAllow = NodeAllow(Listing(cluster))
    /\ steady = Wanted(cluster)
    /\ pin = Nothing
    /\ seen = [o \in Objects |-> {cluster[o]}]
    /\ holder = LastHolder(cluster, NoBackends)
    /\ changes = 0 /\ mishaps = 0

-----------------------------------------------------------------------------
(* PinnedMaps::apply, first part: read POD_TARGETS, walk the pins for      *)
(* orphans, sweep (plan_tick).                                             *)

\* orphan_sweep_due
OrphanSweepDue(desired) ==
    desired.frontsKnown /\ ~orphansSwept /\ desired.backends # NoBackends

Departed(backends) == {ip \in Ips : known[ip] # Nothing /\ backends[ip] = Nothing}

\* Faulty: a new owner of an address is not noticed.
NoneReused(backends) == {}

\* reused_pod_ips: known under another uid; without a uid it is unknown.
ReusedPodIps(backends) ==
    {ip \in Ips : /\ {known[ip], backends[ip]} \cap {Nothing, "none"} = {}
                  /\ known[ip] # backends[ip]}

\* orphaned_pin_backends
Orphans(backends) ==
    IF pin = Nothing THEN {} ELSE {pin.ip} \cap {ip \in Ips : backends[ip] = Nothing}

\* stale_pod_targets over the rows that could be read.
StaleRows(desired, readable) ==
    IF desired.podTargetsKnown /\ readable THEN podTargets \ desired.podTargets ELSE {}

SweepSet(desired, readable, walked) ==
    UNION {IF walked THEN Orphans(desired.backends) ELSE {},
           StaleRows(desired, readable),
           IF desired.podTargetsKnown
           THEN Departed(desired.backends) \cup ReusedPodIps(desired.backends) ELSE {}}

\* known_backends after the sweep: swept addresses stay pending on failure.
KnownAfter(desired, sweep, ok) ==
    IF ~desired.podTargetsKnown THEN known
    ELSE [ip \in Ips |-> IF ~ok /\ ip \in sweep THEN known[ip] ELSE desired.backends[ip]]

\* orphans_swept_after: latched by a walk whose sweep succeeded.
OrphansSweptAfter(walked, ok) == orphansSwept \/ (walked /\ ok)

\* What finds the pin after the tick.  The walk may end while this node's own
\* Node is unresolved: then known_backends is not filled in yet.
FoundBy(desired, knows, walkOver) ==
    IF knows[pin.ip] = pin.owner THEN "uid"
    ELSE IF /\ pin.foundBy = "address" /\ knows[pin.ip] = Nothing
            /\ walkOver /\ ~desired.podTargetsKnown
         THEN "nothing" ELSE pin.foundBy

\* plan_tick on what is desired: whether POD_TARGETS could be read, the walk for
\* orphans and the sweep succeeded, and a sweep that failed had taken the pin.
PlanTick(desired, readable, walked, ok, hit) ==
    LET due   == OrphanSweepDue(desired)
        sweep == SweepSet(desired, readable, due /\ walked)
        gone  == pin # Nothing /\ pin.ip \in sweep /\ (ok \/ hit) IN
    /\ hit => ~ok
    /\ ~readable => desired.podTargetsKnown
    /\ ~walked => due
    /\ ~ok => sweep # {}
    /\ known' = KnownAfter(desired, sweep, ok)
    /\ orphansSwept' = OrphansSweptAfter(due /\ walked, ok)
    /\ pin' = IF gone \/ pin = Nothing THEN Nothing
              ELSE [pin EXCEPT !.foundBy = FoundBy(desired, known', orphansSwept')]
    /\ pass' = [at |-> "fronts", desired |-> desired, pending |-> IF ok THEN {} ELSE sweep,
                rows |-> IF ok THEN StaleRows(desired, readable) ELSE {},
                readable |-> readable, failed |-> ~(readable /\ walked /\ ok)]

StartPass(h) ==
    /\ \E readable, walked, ok, hit \in BOOLEAN :
        /\ Mishaps(Cardinality({x \in {1, 2, 3} : <<~readable, ~walked, ~ok>>[x]}))
        /\ \E desired \in {Desired(h)} : PlanTick(desired, readable, walked, ok, hit)
    /\ held' = h
    /\ UNCHANGED <<cluster, everKnown, retry, mapVars, history, changes>>

-----------------------------------------------------------------------------
(* PinnedMaps::apply, second part: the maps, one after the other.          *)

\* Operations on the entries of S, of which one may fail.
Skipped(S) == {{}} \cup {{x} : x \in S}

\* TickPlan.fronts: a front naming a pending address is held back, and then
\* no front is pruned.
HeldBack(wanted) ==
    {ip \in Ips : /\ wanted[ip] # Nothing
                  /\ \E i \in DOMAIN wanted[ip].slots : wanted[ip].slots[i].pod \in pass.pending}
FrontsAfter(wanted, skip) ==
    [ip \in Ips |->
        IF \/ ip \in HeldBack(wanted) \cup skip
           \/ wanted[ip] = Nothing /\ HeldBack(wanted) # {}
        THEN fronts[ip] ELSE wanted[ip]]

\* apply_front_maps; the latch of NODE_ALLOW follows it.
WriteFronts ==
    /\ pass.at = "fronts"
    /\ \E skip \in Skipped(IF pass.desired.frontsKnown THEN Ips ELSE {}) :
        /\ Mishaps(Cardinality(skip))
        /\ fronts' = IF pass.desired.frontsKnown
                     THEN FrontsAfter(pass.desired.fronts, skip) ELSE fronts
        /\ pass' = [pass EXCEPT !.at = "allow", !.failed = @ \/ skip # {}]
    /\ everKnown' = (everKnown \/ pass.desired.frontsKnown)
    /\ UNCHANGED <<cluster, watchVars, held, known, orphansSwept, retry, podTargets, nodeAllow,
                   pin, history, changes>>

\* Faulty: stale peers are deleted from the first pass on.
StalePeersAlways == nodeAllow \ pass.desired.nodeAllow

\* node_allow_stale_peers, guarded by node_allow_may_delete.
StalePeers == IF everKnown THEN nodeAllow \ pass.desired.nodeAllow ELSE {}

\* apply_node_allow: an unreadable map ends it before any write.
WriteNodeAllow ==
    /\ pass.at = "allow"
    /\ \/ \E skip \in Skipped(StalePeers \cup pass.desired.nodeAllow) :
            /\ Mishaps(Cardinality(skip))
            /\ nodeAllow' = (nodeAllow \ (StalePeers \ skip)) \cup (pass.desired.nodeAllow \ skip)
            /\ pass' = [pass EXCEPT !.at = "targets", !.failed = @ \/ skip # {}]
       \/ /\ everKnown
          /\ Mishaps(1)
          /\ pass' = [pass EXCEPT !.at = "targets", !.failed = TRUE]
          /\ UNCHANGED nodeAllow
    /\ UNCHANGED <<cluster, watchVars, held, known, orphansSwept, everKnown, retry, fronts,
                   podTargets, pin, history, changes>>

\* Faulty: only the last map's outcome counts.
LastFailed(skip) == skip # {}

\* apply's result: any of its parts failed.
ApplyFailed(skip) == pass.failed \/ skip # {}

\* apply_pod_targets; reconcile_once then arms or clears the retry.
WritePodTargets ==
    /\ pass.at = "targets"
    /\ LET writes == pass.desired.podTargetsKnown /\ pass.readable
           install == pass.desired.podTargets \ pass.pending IN
       \E skip \in Skipped(IF writes THEN pass.rows \cup install ELSE {}) :
        /\ Mishaps(Cardinality(skip))
        /\ podTargets' = IF writes THEN (podTargets \ (pass.rows \ skip)) \cup (install \ skip)
                         ELSE podTargets
        /\ retry' = ApplyFailed(skip)
    /\ pass' = Resting
    /\ UNCHANGED <<cluster, watchVars, held, known, orphansSwept, everKnown, fronts, nodeAllow,
                   pin, history, changes>>

\* run_retry_loop
RetryTick ==
    /\ pass.at = "rest" /\ retry
    /\ StartPass(held)
    /\ UNCHANGED watchVars

-----------------------------------------------------------------------------
(* run_list_watch.                                                         *)

Applied(h, o, obj) ==
    CASE o = Svc -> ApplyService(h, obj)
      [] o \in SliceNames -> ApplySlice(h, o, obj)
      [] OTHER -> ApplyNode(h, o, obj)

\* on_service, on_endpoint_slice, on_node
Deliver(r) ==
    /\ pass.at = "rest" /\ sent[r] < Len(log[r])
    /\ LET event == log[r][sent[r] + 1] IN StartPass(Applied(held, event.name, event.object))
    /\ sent' = [sent EXCEPT ![r] = @ + 1]
    /\ UNCHANGED <<log, watching>>

NoObjects == [o \in Objects |-> Nothing]

Refuses(h, r, c) ==
    CASE r = "services" -> RefusesServices(h, c = NoObjects)
      [] r = "slices" -> RefusesSlices(h, c)
      [] r = "nodes" -> RefusesNodes(h, c)
Replaced(h, r, c) ==
    CASE r = "services" -> ReplaceServices(h, c[Svc])
      [] r = "slices" -> ReplaceSlices(h, [s \in SliceNames |-> c[s]])
      [] r = "nodes" -> ReplaceNodes(h, c)

\* A complete LIST of c: a refused one is tried again.
Listed(r, c) ==
    /\ pass.at = "rest" /\ r \notin watching
    /\ IF Refuses(held, r, c)
       THEN UNCHANGED vars
       ELSE /\ StartPass(Replaced(held, r, c))
            /\ watching' = watching \cup {r}
            /\ UNCHANGED <<log, sent>>

List(r) == Listed(r, cluster)

\* A LIST that is empty though it succeeded, while objects of the resource
\* are held (the guards have nothing to compare a first LIST with).
Holds(r) ==
    CASE r = "services" -> held.service # Nothing
      [] r = "slices" -> TrackedSlices(held, held.slices) # {}
      [] r = "nodes" -> held.names # {}
ImplausibleList(r) == Holds(r) /\ Listed(r, NoObjects)

\* The connection is lost: the watch resumes at its resourceVersion.
LoseConnection(r) ==
    /\ sent[r] > 0
    /\ sent' = [sent EXCEPT ![r] = 0]
    /\ Mishaps(1)
    /\ UNCHANGED <<cluster, log, watching, procVars, mapVars, pin, history, changes>>

\* 410 Gone: the resourceVersion is dropped and the resource listed again.
Expired(r) ==
    /\ r \in watching
    /\ watching' = watching \ {r}
    /\ log' = [log EXCEPT ![r] = <<>>]
    /\ sent' = [sent EXCEPT ![r] = 0]
    /\ Mishaps(1)
    /\ UNCHANGED <<cluster, procVars, mapVars, pin, history, changes>>

\* A BOOKMARK moves the resourceVersion past what was delivered.
Bookmark(r) ==
    /\ sent[r] > 0
    /\ log' = [log EXCEPT ![r] = SubSeq(@, sent[r] + 1, Len(@))]
    /\ sent' = [sent EXCEPT ![r] = 0]
    /\ UNCHANGED <<cluster, watching, procVars, mapVars, pin, history, bounds>>

-----------------------------------------------------------------------------
(* The surroundings: the cluster, packets and the process.                 *)

\* The uid of a pod that is gone does not come back.
Returning(v) ==
    {e \in EndpointsOf({v}) :
        /\ e.uid # "none"
        /\ \E f \in EndpointsOf(UNION {seen[s] : s \in SliceNames}) : f.ip = e.ip /\ f.uid = e.uid
        /\ \A f \in EndpointsOf({cluster[s] : s \in SliceNames}) : f.ip # e.ip \/ f.uid # e.uid}

\* An object changes.
Change(o) ==
    /\ changes < MaxChanges
    /\ \E v \in Versions[o] \ {cluster[o]} :
        /\ o \in SliceNames => Returning(v) = {}
        /\ cluster' = [cluster EXCEPT ![o] = v]
        /\ seen' = [seen EXCEPT ![o] = @ \cup {v}]
        /\ LET wants == {WantedIn[c] : c \in Mixes([seen EXCEPT ![o] = {v}])} IN
           steady' = {e \in steady : \A w \in wants : e \in w}
        /\ log' = IF ResourceOf(o) \in watching
                  THEN [log EXCEPT ![ResourceOf(o)] = Append(@, [name |-> o, object |-> v])]
                  ELSE log
    /\ holder' = LastHolder(cluster', holder)
    /\ changes' = changes + 1
    /\ UNCHANGED <<sent, watching, procVars, mapVars, pin, mishaps>>

\* A first packet is pinned to a pod of an installed front.
Mint ==
    /\ pin = Nothing
    /\ \E front \in {ip \in Ips : fronts[ip] # Nothing} :
       \E i \in DOMAIN fronts[front].slots :
        LET pod == fronts[front].slots[i].pod IN
        pin' = [ip |-> pod, owner |-> holder[pod],
                foundBy |-> IF known[pod] # Nothing THEN "uid"
                            ELSE IF orphansSwept THEN "nothing" ELSE "address"]
    /\ UNCHANGED <<cluster, watchVars, procVars, mapVars, history, bounds>>

\* The process dies and is restarted: it has listed nothing.
Crash ==
    /\ held' = NoWatchState /\ known' = NoBackends
    /\ orphansSwept' = FALSE /\ everKnown' = FALSE
    /\ pass' = Resting /\ retry' = FALSE
    /\ watching' = {}
    /\ log' = [r \in Resources |-> <<>>] /\ sent' = [r \in Resources |-> 0]
    /\ pin' = IF pin = Nothing THEN Nothing ELSE [pin EXCEPT !.foundBy = "address"]
    /\ Mishaps(1)
    /\ UNCHANGED <<cluster, mapVars, history, changes>>

Apply == WriteFronts \/ WriteNodeAllow \/ WritePodTargets

Next ==
    \/ Apply \/ RetryTick \/ Mint \/ Crash
    \/ \E r \in Resources : \/ Deliver(r) \/ List(r) \/ ImplausibleList(r)
                            \/ LoseConnection(r) \/ Expired(r) \/ Bookmark(r)
    \/ \E o \in Objects : Change(o)

Spec == Init /\ [][Next]_vars

\* The controller's one thread keeps running: it delivers, lists, retries and
\* ends its passes.
Progress ==
    Apply \/ RetryTick \/ \E r \in Resources : Deliver(r) \/ List(r)

FairSpec == Spec /\ WF_vars(Progress)

-----------------------------------------------------------------------------
(* Properties.                                                             *)

TypeOK ==
    /\ watching \subseteq Resources
    /\ \A r \in Resources : sent[r] \in 0..Len(log[r])
    /\ \A r \in Resources \ watching : log[r] = <<>>
    /\ held.listed \subseteq Resources /\ watching \subseteq held.listed
    /\ pass.at \in {"rest", "fronts", "allow", "targets"}
    /\ pass.pending \subseteq Ips /\ pass.rows \subseteq podTargets
    /\ podTargets \subseteq Ips /\ nodeAllow \subseteq Ips
    /\ pass.at # "rest" => pass.desired.podTargets \subseteq Ips
    /\ pin = Nothing \/ pin.ip \in Ips
    /\ changes <= MaxChanges /\ mishaps <= MaxMishaps

\* A pod, peer or front endpoint that every version of the cluster has called
\* for since the maps were written stays in them, whatever the order of the
\* LISTs of a restarted controller, the events it lost or is sent again, the
\* LISTs it should refuse and the writes that fail (fully_listed, the guards
\* of replace_*, node_allow_may_delete).
SteadyEntriesStay ==
    {e \in steady : e[1] # "backend"} \subseteq Entries(fronts, podTargets, nodeAllow)

\* The sweep takes no pin of a pod that was a backend in every version of the
\* cluster: a Node without addresses or an incomplete view is no departure
\* (cluster_backends, orphan_sweep_due).
SteadyPinsStay ==
    [][pin # Nothing /\ <<"backend", pin.ip, pin.owner>> \in steady => pin' # Nothing]_vars

\* The controller has caught up and owes nothing.
CaughtUp ==
    /\ pass.at = "rest" /\ ~retry
    /\ watching = Resources
    /\ \A r \in Resources : sent[r] = Len(log[r])

\* The controller has caught up after its walk of the pins.
WalkedAndCaughtUp == CaughtUp /\ PodTargetsKnown(held) /\ orphansSwept

\* A pin names a backend of the cluster once the controller has walked the pins
\* and caught up, and the very pod the flow began with if the process has known
\* that pod: however the pod left, by an event, in a gap of the watch or while no
\* controller ran, and though a sweep failed halfway (plan_tick, known_backends,
\* orphans_swept).  Of a pin older than what the process knows only the address
\* is certain, and nothing of one made for a pod unknown after the walk.
PinsFollowPods ==
    WalkedAndCaughtUp /\ pin # Nothing /\ pin.foundBy # "nothing" =>
        \E e \in Backends(cluster) :
            e.ip = pin.ip /\ (pin.foundBy = "uid" => e.uid = pin.owner)

\* "Once listed, a one-time sweep removes pins to backends that left while the
\* controller was down", and known_backends "cannot see a pod that departed while
\* the controller was down; orphans_swept covers that": after the walk, also a pin
\* that is older than the process leads to the pod the flow began with.
WalkCoversDowntime ==
    WalkedAndCaughtUp /\ pin # Nothing /\ pin.foundBy # "nothing" =>
        \E e \in Backends(cluster) : e.ip = pin.ip /\ e.uid = pin.owner

\* An address that the node publishes is one it forwards for, with pods of its
\* own under externalTrafficPolicy Local unless no node has any (ips_to_publish
\* and desired decide independently).
ForwardsWhatItPublishes ==
    \A ip \in IpsToPublish(held) : PortResolved(held) =>
        /\ fronts[ip] # Nothing
        /\ Policy(held.service) = "OnlyLocal" =>
              \A i \in DOMAIN fronts[ip].slots : fronts[ip].slots[i].local

\* The maps hold what the cluster calls for; a Node that reports no address
\* counts with the addresses it had.
Settled ==
    /\ CaughtUp
    /\ held.service = ParseService(cluster[Svc])
    /\ \A s \in SliceNames : held.slices[s] = cluster[s]
    /\ \A n \in Nodes : Listing(cluster).addrs[n] \in {Nothing, held.addrs[n]}
    /\ fronts = Fronts(held)
    /\ podTargets = PodTargets(held) /\ nodeAllow = NodeAllow(held)
    /\ ForwardsWhatItPublishes

\* When this node's Node reports --node-ip for good, the maps end up with
\* what the cluster calls for, after any losses, failures and restarts.
Converges == <>[](OwnNodes(Listing(cluster).addrs) # {}) => <>[]Settled
=============================================================================
