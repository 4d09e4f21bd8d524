---------------------------- MODULE BackendPorts ----------------------------
(***************************************************************************)
(* The backend node's half of the dataplane, for one client address and    *)
(* one pod and target port: which source port each flow has towards the    *)
(* pod, and the FLOW_TABLE rows that lead the pod's replies back           *)
(* (ebpf/src/main.rs: try_geneve_decap_forward, commit_reverse_row,        *)
(* try_uplink_egress_return; common/src/lib.rs: resolve_backend_src_port,  *)
(* backend_port_resolution).  Flows of several fronts share the pod, and a *)
(* client may use one source port towards all of them.  The controller's   *)
(* idle sweep works on the same rows (src/lib.rs: idle_flow_keys,          *)
(* still_idle).                                                            *)
(*                                                                         *)
(* The gates before this code (NODE_ALLOW, the Geneve option, POD_TARGETS) *)
(* change no state: a packet they drop is no step here.  The ingress node  *)
(* a row records is left out: it always follows the flow's last packet.    *)
(***************************************************************************)
EXTENDS Naturals, FiniteSets, FlowRow

CONSTANTS
    Flows,           \* <<front, client port>>
    Seed,            \* synthetic_port_seed of each front
    Proto,           \* protocol of all these flows
    PortMod,         \* 2^16: ports are u16
    RemapBase,       \* 49152
    RemapRange,      \* 16384
    ProbeLimit,      \* 16
    Cpus,            \* CPUs of the node
    Tcp,             \* TCP flag sets of the packets
    Nothing,         \* no value
    MaxPackets,      \* bound on packets
    MaxLru,          \* bound on rows the kernel's LRU takes
    MaxFaults        \* bound on failed map writes

ASSUME PortsAssumption ==
    /\ PortMod \in Nat
    /\ \A f \in Flows : f[2] \in 0..(PortMod - 1) /\ Seed[f[1]] \in 0..(RemapRange - 1)
    /\ Proto \in Protos
    /\ RemapBase \in Nat /\ RemapRange \in Nat \ {0} /\ RemapBase + RemapRange <= PortMod
    /\ ProbeLimit \in Nat
    /\ Tcp \subseteq Segments
    /\ Nothing \notin Flows /\ Nothing \notin Nat /\ Nothing \notin STRING \X Nat
    /\ Nothing \notin [flow : Flows, flags : Flags]

ClientPorts == {f[2] : f \in Flows}
RemapPorts == RemapBase..(RemapBase + RemapRange - 1)
Ports == 0..(PortMod - 1)
Rows  == [flow : Flows, flags : Flags]

VARIABLES
    rev,        \* FLOW_TABLE Reverse rows, by source port towards the pod
    memo,       \* FLOW_TABLE PortMemo rows, by client port
    parity,     \* the parities in CONFIG
    cpu,        \* a packet in progress on each CPU
    ctl,        \* the controller's sweep
    \* The network, and history for the properties.
    opened,     \* source ports the pod has seen, and so may reply to
    stolen,     \* how live rows were taken from other flows: "probe", "memo"
    held,       \* the synthetic port a flow holds
    moved,      \* a flow left a synthetic port it held
    \* Bounds.
    packets, lru, faults

vars == <<rev, memo, parity, cpu, ctl, opened, stolen, held, moved, packets, lru, faults>>

-----------------------------------------------------------------------------
(* Which port.                                                             *)

\* Faulty: only the front tells two flows apart.
TakenByFront(port, f) ==
    rev[port] # Nothing /\ ~rev[port].flags.closed /\ rev[port].flow[1] # f[1]

\* reverse_occupant, occupant_conflicts: a closed row is free.
Taken(port, f) ==
    /\ rev[port] # Nothing
    /\ ~rev[port].flags.closed
    /\ rev[port].flow # f

\* Faulty: the offset runs out of the range.
CandidateUnwrapped(f, i) == (RemapBase + Seed[f[1]] + i) % PortMod

Candidate(f, i) == (RemapBase + ((Seed[f[1]] + i) % RemapRange)) % PortMod

\* Probe indexes that offer a port; the probe takes the first.
Offers(f) ==
    {i \in 0..(ProbeLimit - 1) : Candidate(f, i) # f[2] /\ ~Taken(Candidate(f, i), f)}

First(S) == CHOOSE i \in S : \A j \in S : i <= j

\* resolve_backend_src_port
Resolution(f) ==
    IF ~Taken(f[2], f) THEN [kind |-> "NoRemap", port |-> f[2]]
    ELSE IF Offers(f) # {} THEN [kind |-> "Remap", port |-> Candidate(f, First(Offers(f)))]
    ELSE [kind |-> "Exhausted", port |-> f[2]]

\* backend_port_resolution: a memo is used without a probe.
BackendPort(f) ==
    IF memo[f[2]] # Nothing THEN [kind |-> "Memoized", port |-> memo[f[2]]]
    ELSE Resolution(f)

-----------------------------------------------------------------------------
(* Packets.                                                                *)

Idle == [at |-> "idle"]
Done(c) == cpu' = [cpu EXCEPT ![c] = Idle]

\* A flow given a synthetic port, with a row and a memo under it, holds the port
\* until either is deleted, and only while the row is its own.
Holds(f) == held[f] # Nothing /\ rev[held[f]] # Nothing /\ rev[held[f]].flow = f

ForgetPort(port) ==
    held' = [f \in Flows |-> IF held[f] = port THEN Nothing ELSE held[f]]

ForgetMemo(cp) ==
    held' = [f \in Flows |-> IF f[2] = cp THEN Nothing ELSE held[f]]

Arrive(c) ==
    /\ cpu[c].at = "idle"
    /\ packets < MaxPackets
    /\ packets' = packets + 1

\* try_geneve_decap_forward: the port is resolved, or the packet dropped.
ClientPacket(c, f, tcp) ==
    LET port == BackendPort(f)
    IN  /\ Arrive(c)
        /\ cpu' = [cpu EXCEPT ![c] =
                     IF port.kind = "Exhausted" THEN Idle
                     ELSE [at |-> IF port.kind = "Remap" THEN "memo" ELSE "commit",
                           flow |-> f, tcp |-> tcp, port |-> port.port, kind |-> port.kind]]
        /\ moved' = (moved \/ (Holds(f) /\ port.port # held[f]))
        /\ UNCHANGED <<rev, memo, parity, ctl, opened, stolen, held, lru, faults>>

Fails == faults < MaxFaults /\ faults' = faults + 1

\* A remapped flow persists its port before anything else, or is dropped.
WriteMemo(c) ==
    LET p == cpu[c]
    IN  /\ p.at = "memo"
        /\ \/ /\ memo' = [memo EXCEPT ![p.flow[2]] = p.port]
              /\ cpu' = [cpu EXCEPT ![c].at = "commit"]
              /\ UNCHANGED faults
           \/ Fails /\ Done(c) /\ UNCHANGED memo
        /\ UNCHANGED <<rev, parity, ctl, opened, stolen, held, moved, packets, lru>>

\* commit_reverse_row, then the packet goes to the pod.  It is dropped if the row
\* cannot be written.
CommitReverseRow(c) ==
    LET p == cpu[c]
        stored == rev[p.port]
        mine == stored # Nothing /\ stored.flow = p.flow
        old == IF mine THEN stored.flags ELSE NoFlags
        skip == SkipsRow(mine, Proto, p.tcp)
        row == [flow |-> p.flow, flags |-> Stepped(old, Proto, p.tcp, "Client", parity)]
        takes == stored # Nothing /\ ~stored.flags.closed /\ ~mine
    IN  /\ p.at = "commit"
        /\ Done(c)
        /\ \/ /\ skip
              /\ opened' = opened \cup {p.port}
              /\ UNCHANGED <<rev, stolen, held, faults>>
           \/ /\ ~skip
              /\ rev' = [rev EXCEPT ![p.port] = row]
              /\ stolen' = IF takes
                           THEN stolen \cup {IF p.kind = "Memoized" THEN "memo" ELSE "probe"}
                           ELSE stolen
              /\ held' = IF p.kind = "Remap" /\ memo[p.flow[2]] = p.port
                         THEN [held EXCEPT ![p.flow] = p.port] ELSE held
              /\ opened' = opened \cup {p.port}
              /\ UNCHANGED faults
           \/ /\ ~skip /\ stored # row
              /\ Fails
              /\ UNCHANGED <<rev, stolen, held, opened>>
        /\ UNCHANGED <<memo, parity, ctl, moved, packets, lru>>

\* egress_return_outcome: only a Reverse row identifies a reply to a client.
EgressReturnOutcome(hasRow) == IF hasRow THEN "Forward" ELSE "PassThrough"

\* try_uplink_egress_return: a reply without a row passes; one with a row goes
\* back to the flow the row names.
PodPacket(c, port, tcp) ==
    /\ port \in opened
    /\ Arrive(c)
    /\ cpu' = [cpu EXCEPT ![c] =
                 IF EgressReturnOutcome(rev[port] # Nothing) = "PassThrough" THEN Idle
                 ELSE [at |-> "touch", port |-> port, tcp |-> tcp, row |-> rev[port]]]
    /\ UNCHANGED <<rev, memo, parity, ctl, opened, stolen, held, moved, lru, faults>>

\* touch_return_row, from the packet's copy of the row.  A failed write is ignored.
TouchReturnRow(c) ==
    LET p == cpu[c]
        row == [p.row EXCEPT !.flags = Stepped(@, Proto, p.tcp, "Pod", parity)]
    IN  /\ p.at = "touch"
        /\ Done(c)
        /\ \/ row = p.row /\ UNCHANGED <<rev, faults>>
           \/ row # p.row /\ rev' = [rev EXCEPT ![p.port] = row] /\ UNCHANGED faults
           \/ row # p.row /\ Fails /\ UNCHANGED rev
        /\ UNCHANGED <<memo, parity, ctl, opened, stolen, held, moved, packets, lru>>

\* FLOW_TABLE is an LRU hash.
LruTakes ==
    /\ lru < MaxLru
    /\ lru' = lru + 1
    /\ \/ \E port \in Ports :
             /\ rev[port] # Nothing
             /\ rev' = [rev EXCEPT ![port] = Nothing]
             /\ ForgetPort(port)
             /\ UNCHANGED memo
       \/ \E cp \in ClientPorts :
             /\ memo[cp] # Nothing
             /\ memo' = [memo EXCEPT ![cp] = Nothing]
             /\ ForgetMemo(cp)
             /\ UNCHANGED rev
    /\ UNCHANGED <<parity, cpu, ctl, opened, stolen, moved, packets, faults>>

-----------------------------------------------------------------------------
(* The controller's idle sweep of one class: rows first, then memos.       *)

RowSwept(port, class) ==
    /\ rev[port] # Nothing
    /\ SweepClass(rev[port].flags, Proto) = class
    /\ ParitySweepDeletes(rev[port].flags, Proto, parity)

\* Faulty: memos are left to the LRU.
MemoAlwaysWanted(cp, class) == TRUE

\* port_memo_wanted
MemoWanted(cp, class) ==
    LET port == memo[cp]
    IN  rev[port] # Nothing /\ ~RowSwept(port, class) /\ rev[port].flow[2] = cp

MemoSwept(cp, class) == memo[cp] # Nothing /\ ~MemoWanted(cp, class)

Resting == [at |-> "rest"]

Sweeping == UNCHANGED <<cpu, opened, stolen, moved, packets, lru>>

\* Keys of FLOW_TABLE: <<"row", port>> and <<"memo", client port>>.
Keys == ({"row"} \X Ports) \cup ({"memo"} \X ClientPorts)

Swept(k, class) ==
    IF k[1] = "row" THEN RowSwept(k[2], class) ELSE MemoSwept(k[2], class)

Present(k) == IF k[1] = "row" THEN rev[k[2]] # Nothing ELSE memo[k[2]] # Nothing

\* idle_flow_keys
SweepScan(class) ==
    /\ ctl.at = "rest"
    /\ ctl' = [at |-> "sweep", class |-> class, doomed |-> {k \in Keys : Swept(k, class)},
               victim |-> Nothing, failed |-> FALSE]
    /\ Sweeping /\ UNCHANGED <<rev, memo, parity, held, faults>>

\* still_idle; a memo's turn comes after all rows.
StillIdle(k) ==
    /\ ctl.at = "sweep" /\ ctl.victim = Nothing
    /\ k \in ctl.doomed
    /\ k[1] = "memo" => \A j \in ctl.doomed : j[1] = "memo"
    /\ ctl' = [ctl EXCEPT !.doomed = @ \ {k},
                          !.victim = IF Swept(k, ctl.class) THEN k ELSE Nothing]
    /\ Sweeping /\ UNCHANGED <<rev, memo, parity, held, faults>>

\* Deleting a key that is gone by now counts as a failure.
SweepDelete ==
    LET k == ctl.victim
    IN  /\ ctl.at = "sweep" /\ k # Nothing
        /\ ctl' = [ctl EXCEPT !.victim = Nothing, !.failed = @ \/ ~Present(k)]
        /\ \/ k[1] = "row" /\ rev' = [rev EXCEPT ![k[2]] = Nothing]
                 /\ ForgetPort(k[2]) /\ UNCHANGED memo
           \/ k[1] = "memo" /\ memo' = [memo EXCEPT ![k[2]] = Nothing]
                 /\ ForgetMemo(k[2]) /\ UNCHANGED rev
        /\ Sweeping /\ UNCHANGED <<parity, faults>>

SweepEnd ==
    /\ ctl.at = "sweep" /\ ctl.victim = Nothing /\ ctl.doomed = {}
    /\ ctl' = Resting
    /\ \/ ctl.failed /\ UNCHANGED <<parity, faults>>
       \/ ~ctl.failed /\ parity' = [parity EXCEPT ![ctl.class] = ~@] /\ UNCHANGED faults
       \/ ~ctl.failed /\ Fails /\ UNCHANGED parity
    /\ Sweeping /\ UNCHANGED <<rev, memo, held>>

-----------------------------------------------------------------------------
Init ==
    /\ rev = [port \in Ports |-> Nothing]
    /\ memo = [cp \in ClientPorts |-> Nothing]
    /\ parity \in GcParity
    /\ cpu = [c \in Cpus |-> Idle]
    /\ ctl = Resting
    /\ opened = {} /\ stolen = {} /\ moved = FALSE
    /\ held = [f \in Flows |-> Nothing]
    /\ packets = 0 /\ lru = 0 /\ faults = 0

Packet ==
    \E c \in Cpus, tcp \in Tcp :
        \/ \E f \in Flows : ClientPacket(c, f, tcp)
        \/ \E port \in Ports : PodPacket(c, port, tcp)

Proceed(c) == WriteMemo(c) \/ CommitReverseRow(c) \/ TouchReturnRow(c)

Sweep ==
    \/ \E k \in Keys : StillIdle(k)
    \/ SweepDelete
    \/ SweepEnd

Next ==
    \/ Packet
    \/ \E c \in Cpus : Proceed(c)
    \/ LruTakes
    \/ \E class \in Protos : SweepScan(class)
    \/ Sweep

Spec == Init /\ [][Next]_vars

Fairness ==
    /\ \A c \in Cpus : WF_vars(Proceed(c))
    /\ WF_vars(Sweep)
    /\ \A class \in Protos : SF_vars(SweepScan(class))

FairSpec == Spec /\ Fairness

-----------------------------------------------------------------------------
(* Properties.                                                             *)

(***************************************************************************)
(* Types.  A memo always names a port of the synthetic range, however far  *)
(* resolve_backend_src_port had to probe.                                  *)
(***************************************************************************)
TypeOK ==
    /\ rev \in [Ports -> Rows \cup {Nothing}]
    /\ memo \in [ClientPorts -> RemapPorts \cup {Nothing}]
    /\ parity \in GcParity
    /\ \A c \in Cpus :
          \/ cpu[c].at = "idle"
          \/ /\ cpu[c].at \in {"memo", "commit"}
             /\ cpu[c].flow \in Flows /\ cpu[c].port \in Ports /\ cpu[c].tcp \in Segments
          \/ /\ cpu[c].at = "touch"
             /\ cpu[c].port \in Ports /\ cpu[c].row \in Rows /\ cpu[c].tcp \in Segments

(***************************************************************************)
(* "A live row held by a different (front, original port) identity is      *)
(* never taken from under its owner; a closed one is replaced."            *)
(***************************************************************************)
LiveRowKept == stolen = {}

(***************************************************************************)
(* The probe never takes a live row: whatever the other flows, the LRU and *)
(* the sweep do between the packets of a flow, a row resolved by           *)
(* resolve_backend_src_port is free, closed or the flow's own.  It is what *)
(* LiveRowKept says of all but memoized ports.                             *)
(***************************************************************************)
ProbeNeverSteals == "probe" \notin stolen

(***************************************************************************)
(* A remapped flow keeps its port for as long as both its row and its memo *)
(* exist, whatever candidates before it become free meanwhile and whoever  *)
(* else uses the client port: backend_port_resolution takes the memo, and  *)
(* no packet on one CPU replaces the memo of a live row.                   *)
(***************************************************************************)
RemapStable == ~moved

(***************************************************************************)
(* "port_memo persists a backend-src-port remap decision so it survives    *)
(* unrelated LRU churn instead of being re-derived per packet": a packet   *)
(* of a flow whose row sits live under a synthetic port is given that port *)
(* again.  It says of the row's life what RemapStable says of the memo's;  *)
(* rows stolen through another front's memo (LiveRowKept) are set aside.   *)
(***************************************************************************)
RemapOutlivesChurn ==
    [][\A c \in Cpus, port \in RemapPorts :
          (/\ stolen = {}
           /\ cpu[c].at = "idle" /\ cpu'[c].at \in {"memo", "commit"}
           /\ cpu'[c].flow[2] # port
           /\ rev[port] # Nothing /\ ~rev[port].flags.closed
           /\ rev[port].flow = cpu'[c].flow) => cpu'[c].port = port]_vars

(***************************************************************************)
(* Once packets stop, all rows are reclaimed, and no memo outlives the row *)
(* it leads to, also one whose row the LRU or another flow took.           *)
(***************************************************************************)
MemosReclaimed ==
    <>[](/\ \A port \in Ports : rev[port] = Nothing
         /\ \A cp \in ClientPorts : memo[cp] = Nothing)
=============================================================================
