------------------------------ MODULE FlowPins ------------------------------
(***************************************************************************)
(* The ingress node's half of the dataplane for one front: which pod a     *)
(* flow is pinned to.  Packets of the client and of the pod run on the     *)
(* node's CPUs (ebpf/src/main.rs: ingress_backend, touch_forward_row,      *)
(* try_geneve_decap_return), one map operation at a time, over two tables  *)
(* they share with the controller's idle sweep and pod eviction            *)
(* (src/lib.rs: sweep_idle_flows, evict_pod_flows; controller/src/apply.rs:*)
(* plan_tick; controller/src/main.rs: run_idle_sweep_loop).  The           *)
(* controller's runtime is single-threaded: it does one thing at a time.   *)
(*                                                                         *)
(* The front maps appear here as the register FrontSwap implements: a      *)
(* packet sees one endpoint list, the one committed at its first lookup.   *)
(***************************************************************************)
EXTENDS Naturals, Sequences, FiniteSets, FlowRow

CONSTANTS
    Flows,           \* client address, port and front
    Proto,           \* the protocol of each flow
    Hash,            \* front_flow_hash of each flow
    HashMod,         \* 2^32
    Pods,            \* backend pod addresses
    Pools,           \* endpoint lists the front can have
    ClientCpus,      \* CPUs that receive the flows' client packets
    ReturnCpus,      \* CPUs that receive their return packets
    Tcp,             \* TCP flag sets of the packets
    Nothing,         \* no value
    MaxPackets,      \* bound on packets
    MaxChanges,      \* bound on changes of the backends
    MaxLru,          \* bound on rows the kernel's LRU takes
    MaxFaults,       \* bound on failed map writes
    MaxCrashes       \* bound on controller crashes

ASSUME PinsAssumption ==
    /\ Proto \in [Flows -> Protos]
    /\ HashMod \in Nat /\ HashMod > 0
    /\ Hash \in [Flows -> 0..(HashMod - 1)]
    /\ \A w \in Pools : w \in Seq(Pods)
    /\ Tcp \subseteq Segments
    /\ Nothing \notin Pods /\ Nothing \notin Flows
    /\ Nothing \notin [pod : Pods, flags : Flags]

Cpus == ClientCpus \cup ReturnCpus

Rows == [pod : Pods, flags : Flags]

\* A packet between two of its map operations, with what it has read so far.
InFlight == [at : {"touch", "unpinned", "mint", "promote", "unpend"},
             flow : Flows, side : Sides, tcp : Segments,
             row : Rows \cup {Nothing}, pool : Pools, parity : GcParity]

\* What the controller is doing: a sweep of one class, the eviction of pods, or
\* the front's commit after it.
Jobs == [at : {"rest"}]
        \cup [at : {"sweep"}, class : Protos, doomed : SUBSET Flows,
              victim : Flows \cup {Nothing}, fresh : BOOLEAN, failed : BOOLEAN]
        \cup [at : {"walk", "evict"}, pods : SUBSET Pods, latch : BOOLEAN,
              stalePending : SUBSET Flows, staleMain : SUBSET Flows, failed : BOOLEAN]
        \cup [at : {"front"}, failed : BOOLEAN]

VARIABLES
    \* The maps.
    pool,       \* the front's endpoint list
    parity,     \* the parities in CONFIG
    main,       \* FLOW_TABLE forward rows
    pending,    \* FWD_PENDING: the pod a flow is pinned to before an answer
    \* A packet in progress on each CPU.
    cpu,
    \* The controller process.
    ctl,        \* what it is doing
    live,       \* cluster_backends: pods named by some EndpointSlice
    nextPool,   \* the endpoint list it wants
    known,      \* known_backends
    latched,    \* orphans_swept
    retry,      \* RetryBackoff armed
    \* The network, and history for the properties.
    reached,    \* some packet of the flow has reached a pod, which may answer
    answered,   \* a return packet of the flow has arrived
    bound,      \* pods the flow's packets went to since it last had no pin
    fresh,      \* the row was refreshed since the last flip of its class, and
                \* not written since from an older copy or with an older parity
    \* Bounds.
    packets, changes, lru, faults, crashes

tables  == <<main, pending>>
process == <<ctl, live, nextPool, known, latched, retry>>
network == <<reached, answered>>
bounds  == <<packets, changes, lru, faults, crashes>>
vars    == <<pool, parity, main, pending, cpu, ctl, live, nextPool, known, latched,
             retry, reached, answered, bound, fresh,
             packets, changes, lru, faults, crashes>>

-----------------------------------------------------------------------------
\* slot_in_range and select_endpoint_slot.
Pick(f, list) == list[((Hash[f] * Len(list)) \div HashMod) + 1]

\* Faulty: a pending pin is overlooked.
NoPin(f) == Nothing

\* fwd_pending_affinity_pin: the pin of a flow that was not answered yet.
FwdPendingPin(f) == pending[f]

\* Faulty: a new flow goes straight into FLOW_TABLE.
AdmitMain(f, pod) ==
    /\ main' = [main EXCEPT ![f] = [pod |-> pod, flags |-> NoFlags]]
    /\ UNCHANGED pending

\* forward_admission: a new flow is written to FWD_PENDING only.
Admit(f, pod) ==
    /\ pending' = [pending EXCEPT ![f] = pod]
    /\ UNCHANGED main

\* Faulty: every return packet is let through.
AlwaysAuthorized(f) == TRUE

\* return_authorization, for a flow without a row.
Authorized(f) == pending[f] # Nothing

\* Keeps bound: sent is the set of <<flow, pod>> this step forwards.
Track(sent) ==
    bound' = [f \in Flows |->
                IF main'[f] = Nothing /\ pending'[f] = Nothing THEN {}
                ELSE bound[f] \cup {p \in Pods : <<f, p>> \in sent}]

Reach(f) == reached' = [reached EXCEPT ![f] = TRUE]

-----------------------------------------------------------------------------
(* Packets.                                                                *)

Idle == [at |-> "idle"]

Done(c) == cpu' = [cpu EXCEPT ![c] = Idle]

\* Looks the flow up in FLOW_TABLE; the front's list and CONFIG are read too.
Lookup(c, f, side, tcp) ==
    /\ cpu[c].at = "idle"
    /\ packets < MaxPackets
    /\ packets' = packets + 1
    /\ cpu' = [cpu EXCEPT ![c] =
                 [at |-> IF main[f] = Nothing THEN "unpinned" ELSE "touch",
                  flow |-> f, side |-> side, tcp |-> tcp,
                  row |-> main[f], pool |-> pool, parity |-> parity]]
    /\ UNCHANGED <<pool, parity, tables, process, bound, fresh,
                   changes, lru, faults, crashes>>

\* ingress_backend.
ClientPacket(c, f, tcp) ==
    /\ c \in ClientCpus
    /\ Lookup(c, f, "Client", tcp)
    /\ UNCHANGED network

\* try_geneve_decap_return: a pod that got a packet of the flow answers.
ReturnPacket(c, f, tcp) ==
    /\ c \in ReturnCpus
    /\ reached[f]
    /\ Lookup(c, f, "Pod", tcp)
    /\ answered' = [answered EXCEPT ![f] = TRUE]
    /\ UNCHANGED reached

\* touch_forward_row.  The whole row is written back from the packet's own copy,
\* with a parity read at some moment since the lookup.  A failed write is ignored.
TouchForwardRow(c) ==
    LET p == cpu[c]
        f == p.flow
    IN  /\ p.at = "touch"
        /\ \E par \in {p.parity, parity} :
              LET flags == Stepped(p.row.flags, Proto[f], p.tcp, p.side, par)
                  class == SweepClass(flags, Proto[f])
                  row   == [p.row EXCEPT !.flags = flags]
              IN  /\ \/ row = p.row /\ UNCHANGED <<main, faults>>
                     \/ row # p.row /\ main' = [main EXCEPT ![f] = row] /\ UNCHANGED faults
                     \/ /\ row # p.row /\ UNCHANGED main
                        /\ faults < MaxFaults /\ faults' = faults + 1
                  /\ fresh' = [fresh EXCEPT ![f] =
                                 \/ par[class] = parity[class] /\ main[f] = p.row /\ main'[f] = row
                                 \/ @ /\ main' = main]
        /\ UNCHANGED <<pool, parity, pending, process, answered,
                       packets, changes, lru, crashes>>
        /\ Done(c)
        /\ IF p.side = "Client"
           THEN Track({<<f, p.row.pod>>}) /\ Reach(f)
           ELSE Track({}) /\ UNCHANGED reached

\* No row: a pending pin wins over the hash; a front without endpoints drops.
ClientPending(c) ==
    LET p == cpu[c]
        f == p.flow
    IN  /\ p.at = "unpinned" /\ p.side = "Client"
        /\ UNCHANGED <<pool, parity, tables, process, answered, fresh, bounds>>
        /\ \/ /\ FwdPendingPin(f) # Nothing
              /\ Done(c)
              /\ Track({<<f, FwdPendingPin(f)>>})
              /\ Reach(f)
           \/ /\ FwdPendingPin(f) = Nothing /\ p.pool = <<>>
              /\ Done(c)
              /\ UNCHANGED <<bound, reached>>
           \/ /\ FwdPendingPin(f) = Nothing /\ p.pool # <<>>
              /\ cpu' = [cpu EXCEPT ![c].at = "mint"]
              /\ UNCHANGED <<bound, reached>>

\* If FWD_PENDING cannot be written the packet is left to the host.
MintPending(c) ==
    LET p == cpu[c]
        f == p.flow
        pod == Pick(f, p.pool)
    IN  /\ p.at = "mint"
        /\ Done(c)
        /\ \/ /\ Admit(f, pod)
              /\ UNCHANGED faults
              /\ Track({<<f, pod>>})
              /\ Reach(f)
           \/ /\ faults < MaxFaults /\ faults' = faults + 1
              /\ UNCHANGED <<tables, bound, reached>>
        /\ UNCHANGED <<pool, parity, process, answered, fresh,
                       packets, changes, lru, crashes>>

\* The return leg of a flow without a row: FWD_PENDING authorizes it, or it is
\* dropped.
ReturnPending(c) ==
    LET p == cpu[c]
    IN  /\ p.at = "unpinned" /\ p.side = "Pod"
        /\ cpu' = [cpu EXCEPT ![c] =
                     IF ~Authorized(p.flow) THEN Idle
                     ELSE [p EXCEPT !.at = "promote",
                                    !.row = [pod |-> pending[p.flow], flags |-> NoFlags]]]
        /\ UNCHANGED <<pool, parity, tables, process, network, bound, fresh, bounds>>

\* Promotion writes the row; an RST writes none.  If the write fails the packet
\* is dropped and the pin stays pending.
Promote(c) ==
    LET p == cpu[c]
        f == p.flow
    IN  /\ p.at = "promote"
        /\ UNCHANGED <<pool, parity, pending, process, network,
                       packets, changes, lru, crashes>>
        /\ \/ /\ SkipsRow(FALSE, Proto[f], p.tcp)
              /\ cpu' = [cpu EXCEPT ![c].at = "unpend"]
              /\ UNCHANGED <<main, bound, fresh, faults>>
           \/ /\ ~SkipsRow(FALSE, Proto[f], p.tcp)
              /\ \E par \in {p.parity, parity} :
                    LET flags == Stepped(NoFlags, Proto[f], p.tcp, "Pod", par)
                        class == SweepClass(flags, Proto[f])
                    IN  /\ main' = [main EXCEPT ![f] = [pod |-> p.row.pod, flags |-> flags]]
                        /\ fresh' = [fresh EXCEPT ![f] =
                                       par[class] = parity[class] /\ main[f] = Nothing]
              /\ cpu' = [cpu EXCEPT ![c].at = "unpend"]
              /\ UNCHANGED faults
              /\ Track({})
           \/ /\ ~SkipsRow(FALSE, Proto[f], p.tcp)
              /\ faults < MaxFaults /\ faults' = faults + 1
              /\ Done(c)
              /\ UNCHANGED <<main, bound, fresh>>

RemovePending(c) ==
    /\ cpu[c].at = "unpend"
    /\ pending' = [pending EXCEPT ![cpu[c].flow] = Nothing]
    /\ Done(c)
    /\ UNCHANGED main
    /\ Track({})
    /\ UNCHANGED <<pool, parity, process, network, fresh, bounds>>

\* Both tables are LRU hashes: room for a new row is made by taking an old one.
LruTakes(f) ==
    /\ lru < MaxLru
    /\ lru' = lru + 1
    /\ \/ main[f] # Nothing /\ main' = [main EXCEPT ![f] = Nothing] /\ UNCHANGED pending
       \/ pending[f] # Nothing /\ pending' = [pending EXCEPT ![f] = Nothing] /\ UNCHANGED main
    /\ Track({})
    /\ UNCHANGED <<pool, parity, cpu, process, network, fresh,
                   packets, changes, faults, crashes>>

-----------------------------------------------------------------------------
(* The controller's idle sweep.                                            *)

Resting == [at |-> "rest"]

\* row_swept
RowSwept(f, class) ==
    /\ main[f] # Nothing
    /\ SweepClass(main[f].flags, Proto[f]) = class
    /\ ParitySweepDeletes(main[f].flags, Proto[f], parity)

Quiet == UNCHANGED <<pool, cpu, live, nextPool, known, latched, retry, network,
                     packets, changes, lru, crashes>>

SweepScan(class) ==
    /\ ctl.at = "rest"
    /\ ctl' = [at |-> "sweep", class |-> class,
               doomed |-> {f \in Flows : RowSwept(f, class)},
               victim |-> Nothing, fresh |-> FALSE, failed |-> FALSE]
    /\ Quiet /\ UNCHANGED <<parity, tables, bound, fresh, faults>>

\* still_idle: the row is read again right before its deletion.
StillIdle(f) ==
    /\ ctl.at = "sweep" /\ ctl.victim = Nothing
    /\ f \in ctl.doomed
    /\ ctl' = [ctl EXCEPT
                 !.doomed = @ \ {f},
                 !.victim = IF RowSwept(f, ctl.class) THEN f ELSE Nothing,
                 !.fresh = RowSwept(f, ctl.class) /\ fresh[f]]
    /\ Quiet /\ UNCHANGED <<parity, tables, bound, fresh, faults>>

\* Deleting a row that is gone by now counts as a failure.
SweepDelete ==
    /\ ctl.at = "sweep" /\ ctl.victim # Nothing
    /\ main' = [main EXCEPT ![ctl.victim] = Nothing]
    /\ ctl' = [ctl EXCEPT !.victim = Nothing, !.fresh = FALSE,
                          !.failed = @ \/ main[ctl.victim] = Nothing]
    /\ UNCHANGED pending
    /\ Track({})
    /\ Quiet /\ UNCHANGED <<parity, fresh, faults>>

\* Faulty: the flip is forgotten.
Unflipped(class) == parity

Flipped(class) == [parity EXCEPT ![class] = ~@]

\* The parity is flipped only after a sweep without failures.
SweepEnd ==
    /\ ctl.at = "sweep" /\ ctl.victim = Nothing /\ ctl.doomed = {}
    /\ ctl' = Resting
    /\ \/ /\ ctl.failed
          /\ UNCHANGED <<parity, fresh, faults>>
       \/ /\ ~ctl.failed
          /\ parity' = Flipped(ctl.class)
          /\ fresh' = [f \in Flows |->
                         fresh[f] /\ main[f] # Nothing
                           /\ SweepClass(main[f].flags, Proto[f]) # ctl.class]
          /\ UNCHANGED faults
       \/ /\ ~ctl.failed
          /\ faults < MaxFaults /\ faults' = faults + 1
          /\ UNCHANGED <<parity, fresh>>
    /\ Quiet /\ UNCHANGED <<tables, bound>>

-----------------------------------------------------------------------------
(* The controller's reconcile tick, as far as it concerns pins: the pods   *)
(* that left are swept from both tables, then the front's new list is      *)
(* committed.                                                              *)

Pinned(p) ==
    \E f \in Flows : pending[f] = p \/ (main[f] # Nothing /\ main[f].pod = p)

\* orphan_sweep_due
OrphanSweepDue(backends) == ~latched /\ backends # {}

Departed(backends) ==
    (known \ backends)
        \cup {p \in Pods \ backends : OrphanSweepDue(backends) /\ Pinned(p)}

\* evict_pod_flows first walks FWD_PENDING.
BeginTick(backends, list) ==
    /\ ctl.at = "rest"
    /\ live' = backends
    /\ nextPool' = list
    /\ ctl' = [at |-> "walk", pods |-> Departed(backends),
               latch |-> OrphanSweepDue(backends),
               stalePending |-> {f \in Flows : pending[f] \in Departed(backends)},
               staleMain |-> {}, failed |-> FALSE]
    /\ UNCHANGED <<pool, parity, tables, cpu, known, latched, retry, network, bound,
                   fresh, packets, lru, faults, crashes>>

\* A pod in the front's list is named by an EndpointSlice.
Named(list) == {list[i] : i \in DOMAIN list}

WatchEvent ==
    /\ changes < MaxChanges
    /\ changes' = changes + 1
    /\ \E list \in Pools : \E backends \in SUBSET Pods :
          Named(list) \subseteq backends /\ BeginTick(backends, list)

RetryTick == retry /\ BeginTick(live, nextPool) /\ UNCHANGED changes

\* Then FLOW_TABLE, and only then deletes.
EvictWalk ==
    /\ ctl.at = "walk"
    /\ ctl' = [ctl EXCEPT
                 !.at = "evict",
                 !.staleMain = {f \in Flows : main[f] # Nothing /\ main[f].pod \in ctl.pods}]
    /\ Quiet /\ UNCHANGED <<parity, tables, bound, fresh, faults>>

EvictPending(f) ==
    /\ ctl.at = "evict" /\ f \in ctl.stalePending
    /\ pending' = [pending EXCEPT ![f] = Nothing]
    /\ ctl' = [ctl EXCEPT !.stalePending = @ \ {f}, !.failed = @ \/ pending[f] = Nothing]
    /\ UNCHANGED main
    /\ Track({})
    /\ Quiet /\ UNCHANGED <<parity, fresh, faults>>

EvictMain(f) ==
    /\ ctl.at = "evict" /\ ctl.stalePending = {} /\ f \in ctl.staleMain
    /\ main' = [main EXCEPT ![f] = Nothing]
    /\ ctl' = [ctl EXCEPT !.staleMain = @ \ {f}, !.failed = @ \/ main[f] = Nothing]
    /\ UNCHANGED pending
    /\ Track({})
    /\ Quiet /\ UNCHANGED <<parity, fresh, faults>>

\* plan_tick: pods whose sweep failed stay known; the orphan latch is set only by
\* a clean sweep.
EvictEnd ==
    /\ ctl.at = "evict" /\ ctl.stalePending = {} /\ ctl.staleMain = {}
    /\ ctl' = [at |-> "front", failed |-> ctl.failed]
    /\ known' = IF ctl.failed THEN (known \cap ctl.pods) \cup (live \ ctl.pods) ELSE live
    /\ latched' = (latched \/ (ctl.latch /\ ~ctl.failed))
    /\ UNCHANGED <<pool, parity, tables, cpu, live, nextPool, retry, network, bound,
                   fresh, bounds>>

CommitFront ==
    /\ ctl.at = "front"
    /\ pool' = nextPool
    /\ retry' = ctl.failed
    /\ ctl' = Resting
    /\ UNCHANGED <<parity, tables, cpu, live, nextPool, known, latched, network, bound,
                   fresh, bounds>>

\* The process dies and starts again with its first tick still to come; tables,
\* front and parity are pinned.
Crash ==
    /\ crashes < MaxCrashes
    /\ crashes' = crashes + 1
    /\ ctl' = Resting
    /\ known' = {}
    /\ latched' = FALSE
    /\ retry' = TRUE
    /\ UNCHANGED <<pool, parity, tables, cpu, live, nextPool, network, bound, fresh,
                   packets, changes, lru, faults>>

-----------------------------------------------------------------------------
\* A controller that has swept and published the pods it knows, and no flow yet.
Init ==
    /\ pool \in Pools
    /\ parity \in GcParity
    /\ main = [f \in Flows |-> Nothing]
    /\ pending = [f \in Flows |-> Nothing]
    /\ cpu = [c \in Cpus |-> Idle]
    /\ ctl = Resting
    /\ live = Named(pool)
    /\ nextPool = pool
    /\ known = live
    /\ latched = (live # {})
    /\ retry = FALSE
    /\ reached = [f \in Flows |-> FALSE]
    /\ answered = [f \in Flows |-> FALSE]
    /\ bound = [f \in Flows |-> {}]
    /\ fresh = [f \in Flows |-> FALSE]
    /\ packets = 0 /\ changes = 0 /\ lru = 0 /\ faults = 0 /\ crashes = 0

Arrive ==
    \E c \in Cpus, f \in Flows, tcp \in Tcp : ClientPacket(c, f, tcp) \/ ReturnPacket(c, f, tcp)

Proceed(c) ==
    \/ TouchForwardRow(c)
    \/ ClientPending(c)
    \/ MintPending(c)
    \/ ReturnPending(c)
    \/ Promote(c)
    \/ RemovePending(c)

Controller ==
    \/ \E f \in Flows : StillIdle(f)
    \/ SweepDelete
    \/ SweepEnd
    \/ EvictWalk
    \/ \E f \in Flows : EvictPending(f) \/ EvictMain(f)
    \/ EvictEnd
    \/ CommitFront

Next ==
    \/ Arrive
    \/ \E c \in Cpus : Proceed(c)
    \/ \E f \in Flows : LruTakes(f)
    \/ \E class \in Protos : SweepScan(class)
    \/ Controller
    \/ WatchEvent
    \/ RetryTick
    \/ Crash

Spec == Init /\ [][Next]_vars

\* A tc program runs to its end; the controller's runtime runs what it started
\* and polls its timers, so each class is swept again and again.
Fairness ==
    /\ \A c \in Cpus : WF_vars(Proceed(c))
    /\ WF_vars(Controller)
    /\ WF_vars(RetryTick)
    /\ \A class \in Protos : SF_vars(SweepScan(class))

FairSpec == Spec /\ Fairness

-----------------------------------------------------------------------------
(* Properties.                                                             *)

\* A packet about to write a row has one, and one about to hash has endpoints.
Ready(p) ==
    /\ p.at \in {"touch", "promote"} => p.row \in Rows
    /\ p.at = "mint" => p.pool # <<>>

(***************************************************************************)
(* Types.  A packet between two map operations has what its next one       *)
(* needs: touch_forward_row and the promotion a row, the hash of a new     *)
(* flow a list that is not empty.                                          *)
(***************************************************************************)
TypeOK ==
    /\ pool \in Pools
    /\ parity \in GcParity
    /\ main \in [Flows -> Rows \cup {Nothing}]
    /\ pending \in [Flows -> Pods \cup {Nothing}]
    /\ cpu \in [Cpus -> InFlight \cup {Idle}]
    /\ \A c \in Cpus : Ready(cpu[c])
    /\ answered \in [Flows -> BOOLEAN] /\ fresh \in [Flows -> BOOLEAN]
    /\ ctl \in Jobs
    /\ live \subseteq Pods /\ known \subseteq Pods /\ nextPool \in Pools
    /\ latched \in BOOLEAN

(***************************************************************************)
(* "A backend-set change disturbs only flows pinned to a departed          *)
(* endpoint": as long as a flow keeps some pin, all its packets go to one  *)
(* pod, whatever the front's list becomes.                                 *)
(***************************************************************************)
StrictAffinity == \A f \in Flows : Cardinality(bound[f]) <= 1

(***************************************************************************)
(* FLOW_TABLE is out of reach of packets nobody answers: a forward row     *)
(* exists only for a flow whose return leg has been seen, although rows    *)
(* are written back from stale copies by several CPUs.                     *)
(***************************************************************************)
Admission == \A f \in Flows : main[f] # Nothing => answered[f]

(***************************************************************************)
(* The idle sweep spares what is in use: a row chosen for deletion by the  *)
(* second read has not been refreshed since the last flip of its class,    *)
(* unless a writer with an older copy or an older parity overwrote it.     *)
(***************************************************************************)
SweepSparesLive == ctl.at = "sweep" => ~ctl.fresh

(***************************************************************************)
(* Once packets stop, every forward row is reclaimed, also the closed ones *)
(* that changed class, although a flip may fail and the controller may die *)
(* in the middle of a sweep.                                               *)
(***************************************************************************)
Reclaimed == <>[](\A f \in Flows : main[f] = Nothing)
=============================================================================
