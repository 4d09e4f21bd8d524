# Verification of beep

beep is a Kubernetes service load balancer for bare nodes. A tc/eBPF dataplane on
every node accepts client packets for a *front* (address, protocol, port), picks a
pod, pins the flow to it, carries the packet in Geneve to the pod's node and
brings the replies back through the node the client talked to. A controller on
every node watches the API server and keeps the dataplane's pinned maps equal to
what the Services, EndpointSlices and Nodes ask for. This directory models the
parts of that system whose correctness depends on orderings: of packets on several
CPUs, of map writes that can fail, of controller crashes, of timers.

## Inventory

| Component | Source | State | Operations | Interacts with |
|---|---|---|---|---|
| Front writer | `src/front_swap.rs`, `controller/src/apply.rs` | `FRONT_META`, `FRONT_ENDPOINTS` (pinned); `RecentSwaps` (memory) | plan, capacity preflight, run plan, grace | read by packets between writes; driven by passes |
| Reconcile pass | `controller/src/apply.rs`, `main.rs` | `known_backends`, `orphans_swept`, `fronts_ever_known`, `RetryBackoff` | apply on event, retry, grace follow-up | evicts pins, then fronts, then `POD_TARGETS`, `NODE_ALLOW` |
| Ingress pins | `ebpf/src/main.rs` (`ingress_backend`, `try_geneve_decap_return`) | `FWD_PENDING`, Forward rows of `FLOW_TABLE` | mint, reuse, touch, promote | LRU, idle sweep, pod eviction |
| Backend ports | `ebpf/src/main.rs` (`try_geneve_decap_forward`, `commit_reverse_row`, `try_uplink_egress_return`) | Reverse and PortMemo rows of `FLOW_TABLE` | resolve, memo, commit, touch | LRU, idle sweep |
| Idle sweep | `src/lib.rs`, `controller/src/main.rs` | parity bits in `CONFIG` | scan, re-read, delete, flip | all `FLOW_TABLE` rows |
| Pod eviction | `src/lib.rs` (`evict_pod_flows`, `orphaned_pin_backends`) | none | walk, delete | both pin tables |
| Watch state | `controller/src/watch.rs`, `reconcile.rs` | listed objects, latches | list, watch, reconnect, desired set | triggers passes and publishes |
| Leases and pruning | `controller/src/lease.rs`, `main.rs` | one Lease per node; tracker, suspects | renew, withdraw, observe, prune | writes the shared ingress list |
| Ingress status | `controller/src/status.rs`, `main.rs` | `status.loadBalancer.ingress` (shared by all nodes), `PublishRetry` | publish, clear, retry | optimistic concurrency with every node |
| Flow-hash seed | `controller/src/seed.rs` | a Secret, `CONFIG` | create or read, poll, write | every node must hash alike |
| Pin migration | `src/pin_migrate.rs`, `src/lib.rs` | pinned maps, `_migrating` pins | decide, park, recreate, restore, unpark | crash windows at loader start; old classifiers keep the old maps |
| Loader start | `src/lib.rs`, `controller/src/main.rs` | links, `UPLINK_CONFIG`, `CONFIG`, Geneve device | load, seed, configure, attach hook by hook | runs the migration and the seed before it serves |

What is hard in it: a packet's several lookups are not atomic against the
controller or against other CPUs; a pass is a sequence of map writes any of which
may fail, in a process that may die; rows are written back whole from stale
copies; the kernel's LRU takes rows at any time; generations and port offsets
wrap; what a timer must clean up has no event to remind anybody of it. Each such
place is an entry of `hazards` in `PROJECT.json`, at its line.

What makes each component correct:

- *Front writer*: a packet sees one published endpoint list, complete; one swap
  costs no packet; a front that does not fit is refused whole; the maps converge.
- *Ingress pins*: a pinned flow keeps its pod while any pin of it exists; only
  answered flows reach `FLOW_TABLE`.
- *Backend ports*: a live row is not taken from its flow; a remapped flow keeps
  its port while it is remembered; memos do not outlive their rows.
- *Idle sweep*: rows in use are spared, idle rows are reclaimed.
- *Ingress status*: a node touches only its own address, and is never at rest
  with that address missing or wrongly advertised.
- *Watch state and pass*: what the cluster wanted all along is never removed from
  a map, also not by a controller that has just started and knows half; pins of
  pods that went are evicted; the maps converge.
- *Leases*: a stopped node leaves the ingress list in time, a healthy one is never
  pruned, a withdrawal is final.
- *Seed*: no node hashes with a seed of its own, and all end with the Secret's.
- *Start and migration*: fronts are carried over whole or not at all, an
  interrupted start never blocks the next, every classifier that a running controller
  admits traffic to uses the maps it writes.

## Modules

| Module | Models |
|---|---|
| `DesiredFronts` | the `DesiredFront` values and `local_count` |
| `FrontRegister` | abstract: each front is an atomic register of a published list |
| `FrontSwap` | the generation-swap writer, the passes that drive it, a packet's two lookups |
| `FlowRow` | the flag word of a `FLOW_TABLE` row, `flow_step`, sweep classes |
| `FlowPins` | one front's flow pins on the ingress node, with sweep and eviction |
| `BackendPorts` | source ports towards one pod on the backend node, with sweep |
| `IngressStatus` | one Service's ingress list: a node's attempts, retries and watches |
| `WatchState` | no variables: what LISTs and events make of the held objects, and the desired entries derived from them |
| `Reconcile` | extends `WatchState`: the three list-watches, the pass from held objects to pinned maps, the pin of a flow |
| `NodeLeases` | Leases on a clock, withdrawal, and the pruning of the ingress list |
| `PinMigration` | `load_ebpf` on the pinned maps, pin operation by pin operation |
| `FlowSeed` | the seed Secret and each node's `CONFIG` row |
| `Startup` | composes `PinMigration` and `FlowSeed` into a controller's start, with uplinks, links and hooks |
| `FrontSwapProofs` | theorems about the writer of `FrontSwap` and about its packet |
| `FlowRowProofs` | lemmas about `FlowRow` that the next two share |
| `FlowPinsProofs`, `BackendPortsProofs`, `IngressStatusProofs`, `ReconcileProofs`, `NodeLeasesProofs`, `StartupProofs` | theorems about the module in the name |
| `MCFrontSwap`, `MCFlowPins`, `MCBackendPorts`, `MCReconcile`, `MCStartup` | constants of the runs |
| `MCFlowPinsFocus`, `MCIngressStatus` | two kinds of behaviours of one module, chosen at the start, each with its own part of the bounds |

Operators whose comment says "Faulty" are variants of the definition that follows
them, each with a plausible mistake in it; substituting one must violate the
property `PROJECT.json` (`mutants`) names for it.

### FrontSwap

`meta` and `rows` are the two pinned maps, `pc`, `todo`, `cur`, `work` the
position of the running pass (`apply_front_maps`, `run_front_plans`,
`run_front_plan`), `used` the `FrontUsage` of the capacity preflight, `recent`
the `RecentSwaps` grace, `retry` the armed `RetryBackoff`. Every map write is one
action (`DeleteMeta`, `DeleteEndpoint`, `PutEndpoint`, `PutMeta`) that succeeds, or
fails while `faults` lasts; a full map fails by itself. `Crash` may happen between
any two and loses everything but the maps. `BeginPass` stands for the part of
`PinnedMaps::apply` before the front maps, where a failed sweep of departed pods
withholds fronts; it is run by `WatchEvent`, `RetryTick`, `FollowUpTick` or
`Restart`. A packet is `ReadMeta` and then `ReadSlot` or `ReadEmpty`; the record
`rd` remembers, for the properties only, the list that was live at the first
lookup and how many swaps ran since.

Plans are computed when a front's turn comes and not for all fronts at once as
`plan_front_writes` does. The two are equal: only the controller writes these
maps, its runtime is single-threaded, and a plan touches no other front's rows.

The grace (`SWAP_GRACE`) and a restart are long against a packet's two lookups:
`Expire` and `Restart` wait for no packet to be between them. This is the code's
own argument for the grace, and it is the only timing assumption of the module.

### FlowRow, FlowPins

A client packet is `ClientPacket` (the front's list, then the `FLOW_TABLE`
lookup), then `TouchForwardRow`, or `ClientPending` (the `FWD_PENDING` lookup) and
`MintPending`. A return packet is `ReturnPacket`, then `TouchForwardRow` or
`ReturnPending`, `Promote`, `RemovePending`. Each is one map operation; between
them the CPU's record `cpu[c]` keeps what was read, stale or not. The controller
is one thread: a sweep (`SweepScan`, `StillIdle`, `SweepDelete`, `SweepEnd` with
the parity flip) or a pass (`BeginTick`, `EvictWalk`, `EvictPending`, `EvictMain`,
`EvictEnd`, `CommitFront`) at a time. The front's list is one variable, which
`FrontSwap`'s refinement of `FrontRegister` justifies. `bound` and `fresh` are
history variables for the properties.

### BackendPorts

`rev` and `memo` are the Reverse and PortMemo rows for one client and one pod.
`ClientPacket` resolves the port (`Memoized`, `NoRemap`, `Remap`, `Exhausted`),
`WriteMemo` and `CommitReverseRow` write, `PodPacket` and `TouchReturnRow` are the
reply's side, and the sweep works on both kinds of key.

### IngressStatus

`log` is the Service in the API server, version by version; its index is the
`resourceVersion`. A controller's watch is at version `at` and resumes, after a
reconnect, anywhere between the last LIST and there (`mark`), because only
bookmarks move the resume point (`run_list_watch`). `ServiceEvent`,
`ServicesRelist`, `OthersListed`, `LocalityEvent` and `RetryDue` are the callbacks
and the retry loop; each starts the attempts the code would `tokio::spawn`, with
the addresses known at that moment. An attempt in `tasks` is the loop of
`update_ingress`: `Get`, then `Patch` or `PatchRefused`, one request at a time, each of
which may fail, also after it has taken effect; `Record` is the report to
`PublishRetry`. `PeerWrite` is any other node's successful write, a prune of the
node's own address included. A request still under way when its controller dies
is taken to be lost. The module is written for any set of nodes; `MCIngressStatus`
has one, to which the others are `PeerWrite`, or two that answer each other.

### WatchState, Reconcile

`held` is the controller's `WatchState`; the operators of `WatchState` are its
methods (`apply_*_event`, `replace_*` with their guards against implausible LISTs,
`fully_listed`, `desired`) for one Service, its EndpointSlices and the Nodes.
`cluster` is the API server's truth. Each resource has a watch: `log[r]` are the
events since its resume point and `sent[r]` those delivered, so a lost connection
replays them, a `Bookmark` moves the point and `Expired` (410) forces a LIST. Every
LIST and event runs a pass: `StartPass` (read `POD_TARGETS`, orphan walk, eviction,
`known_backends`), `WriteFronts`, `WriteNodeAllow`, `WritePodTargets`, with one failing
operation anywhere, then the retry. The front list of `WriteFronts` is one
write, which the refinement in `FrontSwap` justifies. `pin` is one flow's pin, the
pod that owned its address, and what would find it when that pod goes (`foundBy`): the `"uid"`, once
`known_backends` has had that pod; the `"address"` only, if the pin is older than what the process
knows, as the orphan walk goes by addresses; or `"nothing"`, if it was made for a pod that was
not known when the walk was over. `Mint` creates it between any two steps. `holder` is the pod
that an address belongs to or last did. A pod that has left does not come back under
its uid (`Returning`), as Kubernetes never reuses one. `steady` is, for the
properties only, what every combination of object versions seen so far asks for:
the three watches lag independently, so the controller may legitimately act on any
such combination, but must keep what all of them want.

### NodeLeases

A tick is 5 s. `lease`, `sending` and `renewIn` are a peer's Lease, its `PUT`s in
flight with their `resourceVersion`, and its renewal timer; `seen`, `news`, `uptime`,
`suspects`, `pruneIn` are the pruner's `LeaseTracker`, warm-up and `PruneSuspects`.
`Tick` waits for whatever is due (`Urgent`), so timers fire on time and requests take
less than a tick; the order within a tick is free. `since` is the age the latency bound
speaks of. `Older` stops clocks at the largest value a comparison needs.

### PinMigration, FlowSeed, Startup

`maps[name][id]` are the kernel's maps, `pin` and `parked` the two pin names, `program[h]`
the maps that hook `h`'s classifier was loaded with: after a start has replaced
a pin, the predecessor's classifiers go on with (and write) the old map. A start
is `StartLoad` (fates settled for all maps first), then `Park`, `GiveUp` and `Unpin` per
map, `CreatePin`, `PlanRestore`, one `RestoreWrite` per entry, `EndRestore`, `Unpark`;
then in `Startup` `EnsureGeneve`, the seed requests, `PopulateConfig`, `PutUplink` and
`DropUplink`, `AttachUplink` and `Attach`, and the running controller's front writes. `Crash` is
possible between any two. `lossy`
records what the migration gave up with a message. `FLOW_TABLE` stands for all maps
that are not front maps. `FlowSeed` is `create_or_read`, `seed_tick` and `write_config_seed`
for any set of nodes.

`attach_and_pin` keeps one pinned link per hook and interface, and so does `link`: it is live with
a classifier on the pinned maps, outdated with one on older maps, severed, or not there. Replacing a pin
makes every live link outdated; only the links of the configured interfaces are brought up to date,
and those of a dropped uplink stay as they are. The maps themselves are followed (`program`) for the Geneve
device and for one uplink, `Followed`, that every configuration has and that is the last of its list.
`starts` is a history of the starts since all fronts were last known to be whole: the configurations that were tried
and whether one of them found an interrupted migration. `FrontsWhole` needs it to say what its
exceptions are: not that a front is incomplete, but that the operator changed `--endpoints-per-front`
alone around an interruption (`Resized`), or that `FRONT_ENDPOINTS` could not be read (`Unread`).

## Runs

| Run | Instance | Shows |
|---|---|---|
| `front_swap_reader` | 1 front, lists of up to 2 endpoints, generations mod 4 starting at 3, 2 events, 1 failed write, 1 crash, fairness | types, `LiveWhole`, `NeverMixed`, `OneSwapNoMiss`, `TwoGenerations`, `SizedNeverRefuses`, refinement of `FrontRegister`, `Converges` |
| `front_swap_capacity` | 2 fronts, room for 5 rows, 1 event, 1 fault | `RefusedWhole` |
| `flow_pins` | 1 TCP flow, 2 pods, 3 packets, fairness; either 1 CPU, 3 lists and any two of a change, an LRU eviction, a fault and a crash, or client and return packets on two CPUs, FIN and RST, 1 fault, 1 crash | `StrictAffinity`, `Admission`, `SweepSparesLive`, `Reclaimed` |
| `flow_pins_race` | 1 UDP flow, 2 pods, 3 lists, two CPUs | `StrictAffinity` is violated |
| `backend_ports` | 3 flows of 2 fronts, 1 CPU, 3 packets, 1 LRU eviction, 1 fault, fairness | `ProbeNeverSteals`, `RemapStable`, `MemosReclaimed` |
| `backend_ports_memo` | the same, 4 packets | `LiveRowKept` is violated |
| `ingress_status` | 2 attempts at once, 2 rounds, fairness; either 1 node, 1 peer address and 2 troubles of any kind, or 2 nodes | `AddressSettles`, `OwnEntriesOnly`, `WorkEnds` |
| `ingress_status_retry` | 1 node, 1 peer address, 2 troubles | `RetriedUntilDone` is violated |
| `reconcile` | 1 dual-stack Service, 2 slices, 2 nodes, 2 changes of the cluster, 1 mishap of any kind, fairness | `SteadyEntriesStay`, `SteadyPinsStay`, `PinsFollowPods`, `Converges` |
| `reconcile_downtime` | the same | `WalkCoversDowntime` is violated |
| `node_leases` | 1 peer and the pruner, the real constants (40 s, 10 s, 5 s of jitter), up to 3 renewals missed in a row, 2 stops or crashes, 1 failing request of the pruner, fairness | `GoneInTime`, `HealthyKept`, `WithdrawFinal`, `Tracks` |
| `startup` | 5 configurations (base, other flags, smaller, other layout, fewer endpoints per front), uplinks {1, 2} or {1}, 2 fronts, 2 flows, 2 nodes for the seed, 2 mishaps, fairness | `FrontsWhole`, `CarriedOver`, `RunsOnPins`, `Recovers`, `SharedSeed`, `SeedsAgree` |

Why the bounds are enough. Fronts do not share rows, so one front shows every
interleaving of its writes with a packet; two are needed only for the shared
capacity. Generations mod 4 starting at 3 wrap at the first swap and still leave
`g-1`, `g` and `g+1` different. Two events give the two swaps within one packet
that `OneSwapNoMiss` excepts. Flows of one front share nothing but the LRU, which
takes any row at any time; the lists are chosen so that a change moves the flow's
hash to another pod while the old one stays a member. Three packets are one that
mints the pin, its answer and one that uses the row; the safety properties of `flow_pins` are
also theorems. The three flows of
`backend_ports` are the smallest set with a conflict on the natural port and one
on the first synthetic port. In `ingress_status` two attempts are what it takes
for one to overtake the other, the two rounds make a second conflict the last one,
and the troubles (a change of the Service, a peer's write, a locality
event, a reconnect, a relist, a failed request, a crash) come in any pair; the
controller also starts from nothing with any list found. Its safety properties
also hold of one node with three troubles (3 029 612 states). Two nodes without troubles are
enough for `WorkEnds` between controllers: both write at the start, each write is an event for the other,
and the second of two patches from one version is refused and tried again.

In `reconcile` the address of the local pod can pass to another pod, the node has two
families and can lose its addresses, the peer node can go, the Service can change
policy and families or go; two changes make a relist find what the watch has not
delivered, and the mishap is a crash, a lost connection, a 410, a failed read, walk,
eviction or write. A controller starts on the maps of its predecessor. In
`node_leases` peers do not interact, so one is enough; two stops are a stop and a
restart of the pruner, or two lives of the peer. In `startup` the two mishaps
are two crashes, or a failure and a crash, at any two steps: an interruption of the
recovery from an interruption. A behaviour concentrates either on the maps or on
the seed, because the two share nothing but the process that dies. The `small`
configuration fits one front of the two, `layout` changes one of the coupled
front maps, and `fewer` changes the size of one of them alone; three of the five drop an uplink, whose
link is then outdated when a later one has it again.

Runs end when their packets, events and changes are used up, hence `CHECK_DEADLOCK
FALSE`, except in `node_leases`, where time goes on and deadlock is checked.

Fairness. A tc program runs to its end without sleeping, so a packet in progress
takes its next step (WF on `Proceed`, `ReadSlot`, `ReadEmpty`). The controller runs
what it has started and polls its timers (WF on `Pass`, `Controller`, `Sweep`, the
retry and follow-up ticks). `Expire`, `Restart` and `SweepScan` are enabled
again and again rather than for good, because they wait for a packet or another
job; time passes and the kubelet restarts the process all the same (SF). Nothing
is assumed of packets arriving, of events, of faults or of crashes. In
`IngressStatus` the API server answers every request and the watch delivers (WF
per attempt); `ServiceEvent` and `RetryDue` get SF only because the bound on attempts
at once, which the code does not have, switches them off and on. In `Reconcile` the
controller's one thread keeps delivering, listing, retrying and finishing passes (WF
on `Progress`); bookmarks, packets and changes need not come. In `NodeLeases` time
passes, loops wake up and requests are answered, well or badly (WF), and nobody need
restart a node. In `Startup` the kubelet restarts the process and it takes
its next step (WF per node).

## Findings

- `ingress_status_retry`: `PublishRetry` has one entry per Service, whichever attempt
  reports. An older attempt that ends well removes the retry of a younger one
  that failed, and the list stays wrong until the next event.
  `ingress_status` shows that such an overtaking is the only way.
- `backend_ports_memo`: the memo key leaves out the front. A flow on its natural
  port takes over the memo of a flow from the same client port to the same pod
  through another front, and overwrites its live reverse row.
- `flow_pins_race`: a client packet looks in `FLOW_TABLE`, then in `FWD_PENDING`;
  promotion moves the pin the other way. A packet that straddles it sees neither
  and hashes again, which after a change of the list picks another pod.
  `flow_pins` and `AffinityStrict` show that this overlap is the only way: with one
  packet at a time affinity is strict.
- `reconcile_downtime`: the walk of the pins after a restart goes by addresses, and a new process has no
  uid to compare with. A pin stays when its pod's address went to another pod before the process
  listed the slices. `PinsFollowPods` shows what does hold: such a pin's address is a backend's, and a
  pod that the process has known takes its pins with it.

Five more configurations beside the runs each reproduce a place where the code does not do what a
comment says; the properties of the runs and the theorems except exactly these places. They are run
like the others, on `MCBackendPorts`, `NodeLeases` and `MCStartup`.

- `BackendPortsChurn.cfg` (`RemapOutlivesChurn`, against `common/src/lib.rs:450`): the memo that is to outlast LRU churn is a row of the same LRU. When
  it goes and the flow's row stays, the next packet probes again and the flow changes its
  source port, in mid-connection. `RemapStable` shows that a flow keeps its port while both exist.
- `BackendPortsRace.cfg` (`ProbeNeverSteals`, against `ebpf/src/main.rs:1122`): two CPUs find the same reverse key free and both insert it; a live row is
  taken from its owner. `ProbeSparesLiveRows` shows that this overlap is the only way.
- `NodeLeasesFour.cfg` (`HealthyKept`, against `controller/src/lease.rs:12`): with four renewals missed the Lease expires at 40 s, and the passes at 40 s and
  50 s can both run before the renewal due at 50 s. `HealthyNodesKept` gives the exact condition,
  `(MaxMissed + 1) * LeaseRenew <= LeaseDuration`, which three satisfy.
- `StartupResize.cfg` (`WholeThoughResized`, against `src/pin_migrate.rs:67` and `:85`): `--endpoints-per-front` changes the shape of
  `FRONT_ENDPOINTS` and not that of `FRONT_META` (`front_map_max_entries`), but the two are migrated
  together. `repin` pins the second name and then removes the first; a process that dies
  between the two leaves the old `FRONT_META` under both. The next start takes the plain pin, which has
  the wanted shape, for the interrupted run's new map and reuses it with all its rows, while
  `plan_restore` admits the fronts that fit the smaller `FRONT_ENDPOINTS`. The others
  are resolved without endpoint rows until the controller's first pass. `Resized`
  excepts a raise as well as this lowering, as the flag is one that `capacity_hint` advises to raise and
  an operator may take back.
- `StartupUnread.cfg` (`WholeThoughUnread`, against `src/pin_migrate.rs:67`): after an interrupted migration `FRONT_META` is reused with its rows; when now
  the snapshot of `FRONT_ENDPOINTS` fails, that map alone is recreated empty. `FrontsWhole`
  shows that these two are the only ways to resolve a front without its rows.

## Proofs

A theorem holds for every value of the constants that satisfies the assumption
of its module (`DesiredAssumption` and `SwapAssumption`, `PinsAssumption`,
`PortsAssumption`, `IngressAssumption`, `WatchAssumption` and `ReconcileAssumption`,
`LeaseAssumption`, and for the start `NodesAssumption`, `UplinksAssumption`, `MapsAssumption`,
`BaseAssumption` and `SeedsAssumption`):
any number of fronts, endpoints, pods, flows, ports, nodes and CPUs, any versions of
the watched objects, any bounds on
events, faults and crashes. The fronts are finitely many numbers, as the capacity
argument counts rows. The two nodes of `Startup` are different, every configuration has the followed uplink, its maps have room for
something, the kernel has a map identity to spare beside the ones in use, and the
configuration that the stopped predecessor ran with had room for the fronts it had written. Every inductive
invariant below was first checked by TLC on an instance of its module. Seven theorems
have a hypothesis of their own; each says where the code's promise ends.

*The front writer* (`FrontSwapProofs`).
- `TypeCorrect`, `LiveAlwaysWhole`, `Refinement`. `LiveWhole` is
  not inductive: a running plan could commit over missing rows or delete live
  ones. The invariant `IInv` adds `PlanSafe`, what the rest of the running plan
  may still do: if a commit of a new generation is pending and not blocked, the
  slots before the cursor are already written (`CommitSafe`); rows of the live
  generation are in the delete set only behind a withdrawal of the meta
  (`WithdrawSafe`); and the plan writes no live row (`LiveSafe`). The refinement
  follows: the only steps that change a register's value are the meta commit and
  the meta delete, and each gives the register the wanted value.
- `TwoGenerationsAtMost`, `RefusedWholeOrNotAtAll`, `SizedMapsSuffice`. While no write
  has failed (`Orderly`, part of `CInv`) a front's rows are of the live generation and
  one other; what a plan deletes is there; and during a pass `FrontUsage` is exact, with
  room left for what the running plan still adds (`Counted`). So a plan that
  passed `capacity_shortfall` never meets a full map, and two generations per front are
  what `front_map_max_entries` has room for. The counting rests on lemmas
  about cardinalities under insertion and deletion.

*The packet between its lookups* (`FrontSwapProofs`).
- `OneSwapCostsNothing`. `RInv` says that until a second swap starts the generation
  the packet has read is the live one with nothing pending (`InLive`), or the one before it
  and spared (`InPrevious`): by the `SWAP_GRACE`, by its front's turn being over, or
  by the controller being down. Its rows are still what they were.
- `PacketsUnmixed`, if `MaxEvents + 1 < GenMod`: each commit answers a watch event, so the live
  generation is at most one more ahead of the packet's than there were events
  (`Unaliased`), and a row of the packet's generation is the old one or gone. In the
  code `GenMod` is 2^32: nothing is excluded but a full turn of the counter within a
  packet's life.

*Flow pins* (`FlowPinsProofs`).
- `TypeCorrect`, `AdmissionHolds`, `SweepSparesFresh`. Admission
  needs to know that whoever is about to write a forward row holds a copy from a
  time when the flow had been answered (`WriterAnswered`). Sparing needs that a
  row counted as fresh carries the current parity of its class (`FreshMarked`).
- `AffinityStrict`, under `[]OneAtATime`: no two packets of one flow are handled at once, on
  any number of CPUs. Without it `flow_pins_race` is a counterexample. `AffinityInv`
  relates three things: the pods a flow's packets went to are the one its pins name, a packet's
  copy agrees with both tables, and a packet about to mint has seen both empty.
  The theorem shows that the finding's overlap is the only way to lose affinity.

*Backend ports* (`BackendPortsProofs`).
- `TypeCorrect`: a remap probe ends on a port of the range (`CandidateType`, `ResolutionFree`; the
  smallest free offset exists by well-foundedness, `LeastNatural`).
- `ProbeSparesLiveRows`, under `[]PortsApart`: no two CPUs handle packets of one source port towards
  the pod at once. The lookup and the insert of `resolve_reverse_port` are not atomic
  together, so without it two CPUs may commit one key (`BackendPortsRace.cfg`). The invariant says that a port found free stays free for its packet.
- `RemappedFlowsStay`, under `[]ClientsApart`: no two CPUs resolve one client port at once, for the
  same reason. A flow holds the port of its memo (`HeldMemos`), and who is about to write a
  memo found none (`MemosAwaited`).

*Ingress status* (`IngressStatusProofs`).
- `TypeCorrect`, and `OthersEntriesKept` (`OwnEntriesOnly`): a PATCH that goes through was
  made from the latest version, so it differs from it in the node's own address only.
- `AddressesSettle` (`AddressSettles`). `StatusInv` says, of a node that has seen the latest version
  and finds its address wrong, that its youngest attempt is the right one and not done, or that a
  retry is due that will start one and every attempt under way is marked as overtaken (`AtWork`);
  of a watch at the latest version, that it tracks the Service as it is
  (`Follows`); and before all LISTs are in, that a clear the latest version calls
  for has been deferred (`PutOff`). Together with `ingress_status_retry` this settles the
  retry: the recorded overtaking is its one flaw.

*The reconcile tick* (`ReconcileProofs`).
- `TypeCorrect`. `TypeInv` says that what is held was made of versions the cluster has had
  (`FromSeen`), that a watch's log holds such versions of its own objects, that the rows a pass
  will delete are installed and not wanted, and that only a process that has listed everything
  has ever known the peers.
- `SteadyEntriesKept` (`SteadyEntriesStay`), without a further hypothesis. The key is `HeldIsMix`: however the three
  watches lag, a controller that has listed everything holds exactly what it
  would have listed from some combination of versions seen, one per object. `steady` is what all
  combinations call for (`SteadyWanted`), so what is held calls for it; a map is only deleted from
  when everything is listed, and then only what is not called for.
- `PinsFollow` (`PinsFollowPods`), under `Identified` and `[]OneHolder`: endpoints carry a
  `targetRef.uid` (`reused_pod_ips` ignores those without), and no two current pods have one
  address. `SyncInv` is about a watch: the last event of an object in its log is the object's
  current version, and once none is left to deliver, what is held agrees with it. `KnownInv`: `known_backends` are the
  backends held unless a pass is owed. `PinInv`: behind the address of a pin found by its uid `known_backends` has
  the pin's owner, or somebody who has left in the meantime, and then a sweep is still to come; once the walk is over, the address
  of an older pin is known. The theorem claims no more of an older pin, as `reconcile_downtime` is the counterexample.
  `OwnerInv` and `HolderInv` relate the pin's owner to the pods.
- `SteadyPinsKept` (`SteadyPinsStay`), under `OneOwnNode`, `PodsStayPut`, `AdmissionSteady` and `[]OneHolder`:
  one Node reports `--node-ip`, a pod does not change its Node, and all reports of a Node that name any address agree on
  which pods outside `--pod-cidr` have one of its addresses. Pods on the host network, which `is_admitted` lets in by that rule, are
  covered, and so are pods that it rejects. A steady backend is always among the tracked endpoints, under the same uid, and its row of
  `POD_TARGETS`, if it has one, is wanted (`SteadyPods`, `LocalRows`): so no part of the sweep names it. A
  Node that stops reporting the address of a host-network pod takes that pod's row out of the desired entries, and
  the sweep of stale rows takes its pins, steady or not.

*Leases* (`NodeLeasesProofs`).
- `TypeCorrect`, and `WithdrawalFinal`: nothing of a process that withdrew is left to land.
- `HealthyNodesKept`, if `(MaxMissed + 1) * LeaseRenew <= LeaseDuration`: the pruner takes the Lease for
  no older than the peer's last write, a peer is suspected only at its last chance to renew, and
  it has renewed by the second pass (`Healthy`).
- `GoneNodesLeaveInTime`: `InTime` splits `max_prune_latency` into the wait for the next listing,
  the time the Lease looks live, and two passes, for each of the ways to go.

*The start* (`StartupProofs`).
- `SeedShared`: the Secret, what a controller got and what it wrote were all issued (`SeedInv`).
- `TypeCorrect` and `ClassifiersUsePins` from `PinInv`, which says what each phase of a start has
  done: a map in use has a configured shape and every other one is free (`MapsOK`), so a new map is
  never one that a classifier still reads; the pins that `recreate_mismatched_pins` is done with have
  the wanted shape (`ShapeInv`); a map that waits for its turn has a source, a taken one is parked
  with its snapshot, one given up is reported and starts empty (`RecreateInv`); a new map beside a
  parked one is used by no classifier yet (`ParkInv`); a hook already attached uses the pins
  (`AttachInv`). `UplinkInv` does the same for the uplinks: what `UPLINK_CONFIG` holds while it is filled and
  pruned, and that the links of a hook already done are live for every configured uplink. The theorem
  does not speak of a dropped uplink's classifier, which stays on its old maps, but shows that its row of
  `UPLINK_CONFIG` is gone, without which neither uplink classifier acts on a packet.
- `FrontsStayWhole` (`FrontsWhole`), for any configurations, with no hypothesis on their capacities. That the ingress classifier's fronts are whole says nothing of the maps it
  will be given. `FrontInv` adds, as long as neither exception applies, that the maps a migration starts from are whole, and fit a
  configuration that was tried (`SourceInv`); that a restore, unless a write failed, has or will write every row of the fronts it has or will
  write (`RestoreInv`); and, for starts that die in a restore, that an unfinished new `FRONT_META`
  holds only fronts which `plan_restore` admits from the parked maps under a configuration that was tried
  (`LeftInv`), while a migration that was not resumed finds its new `FRONT_META` empty (`ResumeInv`). Where all configurations
  tried pair their capacities (`PairedCaps`), the plan of one is the plan of any other that reuses the map; where they do not,
  nothing was resumed. The plan is the set `Admitted`, defined by what it satisfies: `PlanExists` shows
  that there is one by taking the least front up to which there is none.
- `NothingLost` (`CarriedOver`). For the fronts, `CarryInv`: those of every classifier are in the map that a migration
  starts from, and in the new one once it is restored. Flows need more, as the old classifier goes on
  admitting them and a full LRU map evicts: by `RoomInv` a new `FLOW_TABLE` holds only flows of the parked one
  and has room for all that is to be written, so that the restore evicts nothing (`NoEviction`); by `FlowInv` every flow that is
  not late is in the source, in its snapshot, and in the new map from the end of the restore on.

Only model-checked is liveness (`Converges`, `Reclaimed`, `MemosReclaimed`, `WorkEnds`, `Tracks`,
`Recovers`, `SeedsAgree`), which is out of the prover's reach together with everything about
`ENABLED`. Every invariant and every action property that a passing run checks is a theorem.

## Not modelled

Packet parsing, checksums, Geneve, VLAN and MSS handling keep no state between
packets. The loader's command line, netlink calls, sysctl files, the build scripts and
Kubernetes Events are I/O. The IPv6 paths of the classifiers are the same code over
wider addresses; families matter in `WatchState`, which has both. In `FlowPins` the
withdrawal of the whole front is left out (a reused pod address is in `Reconcile`); in
`BackendPorts`, the eviction of a departed pod's rows.

`Reconcile`: a pin that is made after the walk for a pod that the process does not know (its own Node was
unresolved during the walk, or an older front still led there) is excepted from
`PinsFollowPods`: the code leaves it to the LRU and the idle sweep. A replay after
a reconnect can evict the pins of a pod that was added since; it comes back without
its flows. `SteadyPinsStay` says this never happens to a pod that was there all
along. The relist guard for slices has nothing to compare with before the Services are listed.

`NodeLeases`: the pruner's own Lease is live or not by choice. A withdrawal that meets
a renewal in flight gets a 409 and is not tried again; the node then leaves the list
by expiry, within the other bound.

`Startup`: attaching to one interface and pinning the link is one step; of an uplink that is not the
followed one only the state of its links is kept, so `FrontsWhole` and `CarriedOver` are about the followed
classifiers. An uplink that is added again is admitted by `PutUplink` some steps before its outdated
classifiers are replaced, and until then they answer from the old maps; `RunsOnPins` is about the
time after the start. Left out are legacy pins, ARRAY maps, the capacity and link-type
checks on uplinks, and malformed Secrets. A Geneve device deleted while the controller runs is noticed at the next start; the code does
nothing about it before. While old classifiers write into a parked map between two interrupted
restores, a value restored first is older than the one parked now, which the comment
on `BPF_NOEXIST` (`src/pin_migrate.rs:250`) denies; rows have no values in the model.

## Plan

What would extend the project next: values of restored rows in `PinMigration` (the `BPF_NOEXIST`
comment above), the eviction of a departed pod's reverse rows in `BackendPorts`, and the withdrawal of
a whole front in `FlowPins`.
