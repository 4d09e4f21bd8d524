--------------------------- MODULE FlowPinsProofs ---------------------------
(***************************************************************************)
(* Proofs about FlowPins, for any number of flows, pods, CPUs and packets: *)
(* its types, that only answered flows get a row of FLOW_TABLE, that the   *)
(* idle sweep does not choose a row refreshed since the last flip, and     *)
(* that affinity is strict while packets of one flow do not overlap.       *)
(***************************************************************************)
EXTENDS FlowPins, FlowRowProofs, Integers, FiniteSetTheorems, TLAPS

-----------------------------------------------------------------------------
(* The slot a flow hashes to.                                              *)

\* Multiplying keeps an order.
LEMMA TimesMonotone ==
  ASSUME NEW x \in Nat, NEW y \in Nat, NEW k \in Nat, x >= y
  PROVE  x * k >= y * k
OBVIOUS

(***************************************************************************)
(* slot_in_range: a hash scaled to a range of n slots falls inside it, for *)
(* any hash and any n.                                                     *)
(***************************************************************************)
LEMMA SlotInRange ==
  ASSUME NEW m \in Nat, NEW h \in 0..(m - 1), NEW n \in Nat \ {0}
  PROVE  (h * n) \div m \in 0..(n - 1)
<1> DEFINE scaled == h * n
           slot == scaled \div m
<1>1. scaled \in Nat /\ m > 0
  OBVIOUS
<1>2. scaled < m * n
  BY SMT
<1> HIDE DEF scaled
<1>3. slot \in Int /\ slot >= 0 /\ slot * m <= scaled
  BY <1>1
<1>4. slot < n
  <2> HIDE DEF slot
  <2>1. slot \in Nat
    BY <1>3
  <2>2. ASSUME slot >= n PROVE FALSE
    <3>1. slot * m >= n * m
      BY <2>1, <2>2, TimesMonotone
    <3>2. n * m = m * n
      OBVIOUS
    <3> QED BY <1>1, <1>2, <1>3, <3>1, <3>2
  <2> QED BY <2>1, <2>2
<1> QED BY <1>3, <1>4 DEF scaled

\* So a flow is given an endpoint of a list that has one (select_endpoint_slot).
LEMMA PickType ==
  ASSUME NEW f \in Flows, NEW list \in Pools, list # <<>>
  PROVE  Pick(f, list) \in Pods
<1> DEFINE n == Len(list)
           slot == (Hash[f] * n) \div HashMod
<1>1. list \in Seq(Pods) /\ HashMod \in Nat /\ Hash[f] \in 0..(HashMod - 1)
  BY PinsAssumption DEF PinsAssumption
<1>2. n \in Nat \ {0}
  BY <1>1
<1> HIDE DEF n
<1>3. slot \in 0..(n - 1)
  BY <1>1, <1>2, SlotInRange
<1> HIDE DEF slot
<1>4. slot + 1 \in 1..n
  BY <1>2, <1>3
<1>5. list[slot + 1] \in Pods
  BY <1>1, <1>4 DEF n
<1> QED BY <1>5 DEF Pick, slot, n

-----------------------------------------------------------------------------
(* Types: TypeOK in two halves, what packets write and what only the       *)
(* controller does.                                                        *)

\* What the controller writes outside the tables.
ControllerTypes ==
    /\ pool \in Pools /\ parity \in GcParity
    /\ ctl \in Jobs
    /\ live \subseteq Pods /\ known \subseteq Pods /\ nextPool \in Pools
    /\ latched \in BOOLEAN

\* Packets in flight and what they leave in the tables.
PacketTypes ==
    /\ main \in [Flows -> Rows \cup {Nothing}]
    /\ pending \in [Flows -> Pods \cup {Nothing}]
    /\ cpu \in [Cpus -> InFlight \cup {Idle}]
    /\ \A c \in Cpus : Ready(cpu[c])
    /\ answered \in [Flows -> BOOLEAN] /\ fresh \in [Flows -> BOOLEAN]

\* The sweep and the eviction among the controller's jobs.
Sweeps == [at : {"sweep"}, class : Protos, doomed : SUBSET Flows,
           victim : Flows \cup {Nothing}, fresh : BOOLEAN, failed : BOOLEAN]
Ticks == [at : {"walk", "evict"}, pods : SUBSET Pods, latch : BOOLEAN,
          stalePending : SUBSET Flows, staleMain : SUBSET Flows, failed : BOOLEAN]

\* A job that is a sweep is typed as one, and the other way round.
LEMMA SweepJob == /\ \A j \in Jobs : j.at = "sweep" => j \in Sweeps
                  /\ Sweeps \subseteq Jobs
BY DEF Jobs, Sweeps

\* So is an eviction.
LEMMA TickJob == /\ \A j \in Jobs : j.at \in {"walk", "evict"} => j \in Ticks
                 /\ Ticks \subseteq Jobs
BY DEF Jobs, Ticks

\* A busy CPU has a packet, whose parts are typed.
LEMMA BusyCpu ==
  ASSUME PacketTypes, NEW c \in Cpus, cpu[c].at # "idle"
  PROVE  /\ cpu[c] \in InFlight
         /\ cpu[c].flow \in Flows /\ cpu[c].parity \in GcParity /\ cpu[c].pool \in Pools
<1>1. cpu[c] \in InFlight
  BY DEF PacketTypes, Idle
<1> QED BY <1>1 DEF InFlight

\* A CPU that becomes idle or goes on with a typed packet keeps the types.
LEMMA CpuType ==
  ASSUME PacketTypes, NEW c \in Cpus, NEW p \in InFlight \cup {Idle},
         Ready(p),
         cpu' = [cpu EXCEPT ![c] = p]
  PROVE  /\ cpu' \in [Cpus -> InFlight \cup {Idle}]
         /\ \A d \in Cpus : Ready(cpu'[d])
BY DEF PacketTypes

\* A packet that goes on to its next map operation, with its copy of the row.
LEMMA AtPart ==
  ASSUME NEW p \in InFlight, NEW a \in {"touch", "unpinned", "mint", "promote", "unpend"}
  PROVE  /\ [p EXCEPT !.at = a] \in InFlight
         /\ [p EXCEPT !.at = a].at = a
         /\ [p EXCEPT !.at = a].flow = p.flow
         /\ [p EXCEPT !.at = a].side = p.side
         /\ [p EXCEPT !.at = a].pool = p.pool
         /\ [p EXCEPT !.at = a].row = p.row
BY DEF InFlight

\* The first lookup of a packet.
LEMMA LookupTypes ==
  ASSUME PacketTypes, ControllerTypes, NEW c \in Cpus, NEW f \in Flows, NEW side \in Sides,
         NEW tcp \in Tcp, Lookup(c, f, side, tcp), answered' \in [Flows -> BOOLEAN]
  PROVE  PacketTypes'
<1> DEFINE p == [at |-> IF main[f] = Nothing THEN "unpinned" ELSE "touch",
                 flow |-> f, side |-> side, tcp |-> tcp,
                 row |-> main[f], pool |-> pool, parity |-> parity]
<1>1. p \in InFlight
  BY PinsAssumption DEF PinsAssumption, InFlight, PacketTypes, ControllerTypes
<1>2. Ready(p)
  BY DEF PacketTypes, Ready
<1>3. cpu' = [cpu EXCEPT ![c] = p]
  BY DEF Lookup
<1> HIDE DEF p
<1>4. UNCHANGED <<main, pending, fresh>>
  BY DEF Lookup, tables
<1> QED BY <1>1, <1>2, <1>3, <1>4, CpuType DEF PacketTypes
\* Every map operation of a packet keeps the types.
LEMMA ProceedTypes ==
  ASSUME PacketTypes, ControllerTypes, NEW c \in Cpus, Proceed(c)
  PROVE  PacketTypes'
<1>0. cpu[c].at # "idle"
  BY DEF Proceed, TouchForwardRow, ClientPending, MintPending, ReturnPending, Promote,
         RemovePending
<1>1. /\ cpu[c] \in InFlight /\ cpu[c].flow \in Flows
      /\ cpu[c].parity \in GcParity /\ cpu[c].pool \in Pools
      /\ Proto[cpu[c].flow] \in Protos
  BY <1>0, BusyCpu, PinsAssumption DEF PinsAssumption
<1>2. ASSUME Done(c)
      PROVE  /\ cpu' \in [Cpus -> InFlight \cup {Idle}]
             /\ \A d \in Cpus : Ready(cpu'[d])
  <2>1. Ready(Idle)
    BY DEF Idle, Ready
  <2> QED BY <1>2, <2>1, CpuType DEF Done
<1>3. ASSUME NEW a \in {"mint", "unpend"}, cpu' = [cpu EXCEPT ![c].at = a],
             a = "mint" => cpu[c].pool # <<>>
      PROVE  /\ cpu' \in [Cpus -> InFlight \cup {Idle}]
             /\ \A d \in Cpus : Ready(cpu'[d])
  <2> DEFINE q == [cpu[c] EXCEPT !.at = a]
  <2>0. a \in {"touch", "unpinned", "mint", "promote", "unpend"}
    BY <1>3
  <2>1. q \in InFlight /\ q.at = a /\ q.pool = cpu[c].pool
    BY <1>1, <2>0, AtPart
  <2>2. cpu' = [cpu EXCEPT ![c] = q]
    BY <1>3
  <2> HIDE DEF q
  <2>3. Ready(q)
    BY <1>3, <2>1 DEF Ready
  <2> QED BY <2>1, <2>2, <2>3, CpuType
<1>4. CASE TouchForwardRow(c)
  <2> DEFINE p == cpu[c]
             f == p.flow
  <2>1. p.row \in Rows
    BY <1>4 DEF TouchForwardRow, PacketTypes, Ready
  <2>2. PICK par \in {p.parity, parity} :
           LET flags == Stepped(p.row.flags, Proto[f], p.tcp, p.side, par)
               class == SweepClass(flags, Proto[f])
               row   == [p.row EXCEPT !.flags = flags]
           IN  /\ main' = main \/ main' = [main EXCEPT ![f] = row]
               /\ fresh' = [fresh EXCEPT ![f] =
                              \/ par[class] = parity[class] /\ main[f] = p.row /\ main'[f] = row
                              \/ @ /\ main' = main]
    BY <1>4 DEF TouchForwardRow
  <2>3. Stepped(p.row.flags, Proto[f], p.tcp, p.side, par) \in Flags
    <3>1. par \in GcParity /\ p.row.flags \in Flags
      BY <1>1, <2>1, <2>2 DEF ControllerTypes, Rows
    <3> QED BY <1>1, <3>1, SteppedMarked
  <2>4. main' \in [Flows -> Rows \cup {Nothing}]
    <3>1. ASSUME NEW flags \in Flags PROVE [p.row EXCEPT !.flags = flags] \in Rows
      BY <2>1 DEF Rows
    <3> QED BY <1>1, <2>2, <2>3, <3>1 DEF PacketTypes
  <2>5. fresh' \in [Flows -> BOOLEAN]
    BY <2>2 DEF PacketTypes
  <2>6. Done(c) /\ UNCHANGED <<pending, answered>>
    BY <1>4 DEF TouchForwardRow
  <2> QED BY <1>2, <2>4, <2>5, <2>6 DEF PacketTypes
<1>5. CASE ClientPending(c)
  <2>1. UNCHANGED <<main, pending, answered, fresh>>
    BY <1>5 DEF ClientPending, tables
  <2>2. Done(c) \/ (cpu' = [cpu EXCEPT ![c].at = "mint"] /\ cpu[c].pool # <<>>)
    BY <1>5 DEF ClientPending
  <2> QED BY <1>2, <1>3, <2>1, <2>2 DEF PacketTypes
<1>6. CASE MintPending(c)
  <2>1. Done(c) /\ UNCHANGED <<main, answered, fresh>>
    BY <1>6 DEF MintPending, Admit, tables
  <2>2. pending' \in [Flows -> Pods \cup {Nothing}]
    <3>1. CASE pending' = pending
      BY <3>1 DEF PacketTypes
    <3>2. CASE Admit(cpu[c].flow, Pick(cpu[c].flow, cpu[c].pool))
      <4>1. Pick(cpu[c].flow, cpu[c].pool) \in Pods
        BY <1>1, <1>6, PickType DEF MintPending, PacketTypes, Ready
      <4> QED BY <1>1, <3>2, <4>1 DEF Admit, PacketTypes
    <3> QED BY <1>6, <3>1, <3>2 DEF MintPending, tables
  <2> QED BY <1>2, <2>1, <2>2 DEF PacketTypes
<1>7. CASE ReturnPending(c)
  <2> DEFINE p == cpu[c]
             q == [p EXCEPT !.at = "promote",
                            !.row = [pod |-> pending[p.flow], flags |-> NoFlags]]
  <2>1. UNCHANGED <<main, pending, answered, fresh>>
    BY <1>7 DEF ReturnPending, tables, network
  <2>2. CASE ~Authorized(p.flow)
    <3>1. Done(c)
      BY <1>7, <2>2 DEF ReturnPending, Done
    <3> QED BY <1>2, <2>1, <3>1 DEF PacketTypes
  <2>3. CASE Authorized(p.flow)
    <3>1. [pod |-> pending[p.flow], flags |-> NoFlags] \in Rows
      BY <1>1, <2>3, NoFlagsType DEF Authorized, PacketTypes, Rows
    <3>2. q \in InFlight /\ Ready(q)
      BY <1>1, <3>1 DEF InFlight, Ready
    <3>3. cpu' = [cpu EXCEPT ![c] = q]
      BY <1>7, <2>3 DEF ReturnPending
    <3> HIDE DEF q
    <3> QED BY <2>1, <3>2, <3>3, CpuType DEF PacketTypes
  <2> QED BY <2>2, <2>3
<1>8. CASE Promote(c)
  <2> DEFINE p == cpu[c]
             f == p.flow
  <2>1. UNCHANGED <<pending, answered>>
    BY <1>8 DEF Promote, network
  <2>2. Done(c) \/ cpu' = [cpu EXCEPT ![c].at = "unpend"]
    BY <1>8 DEF Promote
  <2>3. CASE UNCHANGED <<main, fresh>>
    BY <1>2, <1>3, <2>1, <2>2, <2>3 DEF PacketTypes
  <2>4. CASE \E par \in {p.parity, parity} :
               LET flags == Stepped(NoFlags, Proto[f], p.tcp, "Pod", par)
                   class == SweepClass(flags, Proto[f])
               IN  /\ main' = [main EXCEPT ![f] = [pod |-> p.row.pod, flags |-> flags]]
                   /\ fresh' = [fresh EXCEPT ![f] =
                                  par[class] = parity[class] /\ main[f] = Nothing]
    <3>1. PICK par \in {p.parity, parity} :
             LET flags == Stepped(NoFlags, Proto[f], p.tcp, "Pod", par)
                 class == SweepClass(flags, Proto[f])
             IN  /\ main' = [main EXCEPT ![f] = [pod |-> p.row.pod, flags |-> flags]]
                 /\ fresh' = [fresh EXCEPT ![f] =
                                par[class] = parity[class] /\ main[f] = Nothing]
      BY <2>4
    <3>2. Stepped(NoFlags, Proto[f], p.tcp, "Pod", par) \in Flags
      <4>1. par \in GcParity
        BY <1>1, <3>1 DEF ControllerTypes
      <4> QED BY <1>1, <4>1, NoFlagsType, SteppedMarked
    <3>3. p.row.pod \in Pods
      BY <1>8 DEF Promote, PacketTypes, Ready, Rows
    <3>4. main' \in [Flows -> Rows \cup {Nothing}]
      <4>1. ASSUME NEW flags \in Flags PROVE [pod |-> p.row.pod, flags |-> flags] \in Rows
        BY <3>3 DEF Rows
      <4> QED BY <1>1, <3>1, <3>2, <4>1 DEF PacketTypes
    <3>5. fresh' \in [Flows -> BOOLEAN]
      BY <3>1 DEF PacketTypes
    <3> QED BY <1>2, <1>3, <2>1, <2>2, <3>4, <3>5 DEF PacketTypes
  <2> QED BY <1>8, <2>3, <2>4 DEF Promote
<1>9. CASE RemovePending(c)
  <2>1. Done(c) /\ UNCHANGED <<main, answered, fresh>>
    BY <1>9 DEF RemovePending, network
  <2>2. pending' \in [Flows -> Pods \cup {Nothing}]
    BY <1>9 DEF RemovePending, PacketTypes
  <2> QED BY <1>2, <2>1, <2>2 DEF PacketTypes
<1> QED BY <1>4, <1>5, <1>6, <1>7, <1>8, <1>9 DEF Proceed
\* What the controller or the LRU takes from the tables.
LEMMA DeletesType ==
  ASSUME PacketTypes, NEW f,
         \/ main' = [main EXCEPT ![f] = Nothing] /\ pending' = pending
         \/ pending' = [pending EXCEPT ![f] = Nothing] /\ main' = main
         \/ main' = main /\ pending' = pending,
         fresh' \in [Flows -> BOOLEAN], UNCHANGED <<cpu, answered>>
  PROVE  PacketTypes'
<1>1. main' \in [Flows -> Rows \cup {Nothing}] /\ pending' \in [Flows -> Pods \cup {Nothing}]
  BY DEF PacketTypes
<1> QED BY <1>1 DEF PacketTypes

\* Every step keeps the types.
LEMMA TypeStep == TypeOK /\ [Next]_vars => TypeOK'
<1> SUFFICES ASSUME PacketTypes, ControllerTypes, [Next]_vars
             PROVE  PacketTypes' /\ ControllerTypes'
  BY DEF TypeOK, PacketTypes, ControllerTypes
<1>0. fresh \in [Flows -> BOOLEAN]
  BY DEF PacketTypes
<1>1. ASSUME NEW c \in Cpus, NEW f \in Flows, NEW tcp \in Tcp,
             ClientPacket(c, f, tcp) \/ ReturnPacket(c, f, tcp)
      PROVE  PacketTypes' /\ ControllerTypes'
  <2>1. PICK side \in Sides : Lookup(c, f, side, tcp)
    BY <1>1 DEF ClientPacket, ReturnPacket, Sides
  <2>2. answered' \in [Flows -> BOOLEAN]
    BY <1>1 DEF ClientPacket, ReturnPacket, network, PacketTypes
  <2>3. ControllerTypes'
    BY <2>1 DEF Lookup, process, ControllerTypes
  <2> QED BY <2>1, <2>2, <2>3, LookupTypes
<1>2. ASSUME NEW c \in Cpus, Proceed(c) PROVE PacketTypes' /\ ControllerTypes'
  <2>1. UNCHANGED <<pool, parity, process>>
    BY <1>2 DEF Proceed, TouchForwardRow, ClientPending, MintPending, ReturnPending, Promote,
               RemovePending
  <2>2. ControllerTypes'
    BY <2>1 DEF process, ControllerTypes
  <2> QED BY <1>2, <2>2, ProceedTypes
<1>3. ASSUME NEW f \in Flows, LruTakes(f) PROVE PacketTypes' /\ ControllerTypes'
  <2>1. UNCHANGED <<pool, parity, process, cpu, answered, fresh>>
    BY <1>3 DEF LruTakes, network
  <2>2. \/ main' = [main EXCEPT ![f] = Nothing] /\ pending' = pending
        \/ pending' = [pending EXCEPT ![f] = Nothing] /\ main' = main
    BY <1>3 DEF LruTakes
  <2> QED BY <1>0, <2>1, <2>2, DeletesType DEF process, ControllerTypes
<1>4. ASSUME NEW class \in Protos, SweepScan(class) PROVE PacketTypes' /\ ControllerTypes'
  <2>1. ctl' \in Jobs
    BY <1>4 DEF SweepScan, Jobs
  <2> QED BY <1>4, <2>1 DEF SweepScan, Quiet, tables, network, PacketTypes, ControllerTypes
<1>5. ASSUME NEW f \in Flows, StillIdle(f) PROVE PacketTypes' /\ ControllerTypes'
  <2>1. ctl \in Sweeps
    BY <1>5, SweepJob DEF StillIdle, ControllerTypes
  <2>2. (RowSwept(f, ctl.class) /\ fresh[f]) \in BOOLEAN
    BY <1>0 DEF RowSwept
  <2>3. ctl' \in Sweeps
    BY <1>5, <2>1, <2>2 DEF StillIdle, Sweeps
  <2> QED BY <1>5, <2>3, SweepJob DEF StillIdle, Quiet, tables, network, PacketTypes, ControllerTypes
<1>6. CASE SweepDelete
  <2>1. /\ main' = [main EXCEPT ![ctl.victim] = Nothing] /\ pending' = pending
        /\ UNCHANGED <<pool, parity, cpu, live, nextPool, known, latched, answered, fresh>>
    BY <1>6 DEF SweepDelete, Quiet, network
  <2>2. ctl \in Sweeps
    BY <1>6, SweepJob DEF SweepDelete, ControllerTypes
  <2>3. ctl' \in Jobs
    BY <1>6, <2>2, SweepJob DEF SweepDelete, Sweeps
  <2> QED BY <1>0, <2>1, <2>3, DeletesType DEF ControllerTypes
<1>7. CASE SweepEnd
  <2>1. /\ UNCHANGED <<main, pending, pool, cpu, live, nextPool, known, latched, answered>>
        /\ ctl' \in Jobs
    BY <1>7 DEF SweepEnd, Resting, Jobs, Quiet, tables, network
  <2>2. parity' \in GcParity
    BY <1>7 DEF SweepEnd, Flipped, ControllerTypes, GcParity
  <2>3. fresh' \in [Flows -> BOOLEAN]
    BY <1>0, <1>7 DEF SweepEnd
  <2> QED BY <2>1, <2>2, <2>3 DEF PacketTypes, ControllerTypes
<1>8. CASE EvictWalk
  <2>1. ctl' \in Jobs
    BY <1>8, TickJob DEF EvictWalk, Ticks, ControllerTypes
  <2> QED BY <1>8, <2>1 DEF EvictWalk, Quiet, tables, network, PacketTypes, ControllerTypes
<1>9. ASSUME NEW f \in Flows, EvictPending(f) \/ EvictMain(f)
      PROVE  PacketTypes' /\ ControllerTypes'
  <2>1. /\ \/ main' = [main EXCEPT ![f] = Nothing] /\ pending' = pending
           \/ pending' = [pending EXCEPT ![f] = Nothing] /\ main' = main
        /\ UNCHANGED <<pool, parity, cpu, live, nextPool, known, latched, answered, fresh>>
    BY <1>9 DEF EvictPending, EvictMain, Quiet, network
  <2>2. ctl \in Ticks
    BY <1>9, TickJob DEF EvictPending, EvictMain, ControllerTypes
  <2>3. ctl' \in Jobs
    BY <1>9, <2>2, TickJob DEF EvictPending, EvictMain, Ticks
  <2> QED BY <1>0, <2>1, <2>3, DeletesType DEF ControllerTypes
<1>10. CASE EvictEnd
  <2>1. UNCHANGED <<main, pending, cpu, answered, fresh, pool, parity, live, nextPool>>
    BY <1>10 DEF EvictEnd, tables, network
  <2>2. known' \subseteq Pods
    BY <1>10 DEF EvictEnd, ControllerTypes
  <2>3. ctl \in Ticks
    BY <1>10, TickJob DEF EvictEnd, ControllerTypes
  <2>4. ctl' \in Jobs
    BY <1>10, <2>3 DEF EvictEnd, Ticks, Jobs
  <2>5. latched' \in BOOLEAN
    BY <1>10, Zenon DEF EvictEnd
  <2> QED BY <2>1, <2>2, <2>4, <2>5 DEF PacketTypes, ControllerTypes
<1>11. CASE CommitFront
  BY <1>11 DEF CommitFront, Resting, Jobs, tables, network, PacketTypes, ControllerTypes
<1>12. ASSUME NEW backends \in SUBSET Pods, NEW list \in Pools, BeginTick(backends, list)
       PROVE  PacketTypes' /\ ControllerTypes'
  <2>1. Departed(backends) \subseteq Pods
    BY DEF Departed, ControllerTypes
  <2>2. OrphanSweepDue(backends) \in BOOLEAN
    BY DEF OrphanSweepDue
  <2>3. ctl' \in Ticks
    BY <1>12, <2>1, <2>2 DEF BeginTick, Ticks
  <2> QED BY <1>12, <2>3, TickJob DEF BeginTick, tables, network, PacketTypes, ControllerTypes
<1>13. CASE WatchEvent
  BY <1>12, <1>13 DEF WatchEvent
<1>14. CASE RetryTick
  BY <1>12, <1>14 DEF RetryTick, ControllerTypes
<1>15. CASE Crash
  BY <1>15 DEF Crash, Resting, Jobs, tables, network, PacketTypes, ControllerTypes
<1>16. CASE UNCHANGED vars
  BY <1>16 DEF vars, PacketTypes, ControllerTypes
<1> QED BY <1>1, <1>2, <1>3, <1>4, <1>5, <1>6, <1>7, <1>8, <1>9, <1>10, <1>11, <1>13, <1>14,
           <1>15, <1>16 DEF Next, Arrive, Controller

\* A node without flows has the types.
LEMMA TypeInit == Init => TypeOK
<1> SUFFICES ASSUME Init PROVE PacketTypes /\ ControllerTypes
  BY DEF TypeOK, PacketTypes, ControllerTypes
<1>1. Ready(Idle)
  BY DEF Ready, Idle
<1>2. pool \in Seq(Pods)
  BY PinsAssumption DEF PinsAssumption, Init
<1>3. Named(pool) \subseteq Pods
  BY <1>2 DEF Named
<1>4. latched \in BOOLEAN /\ ctl \in Jobs
  BY DEF Init, Resting, Jobs
<1> QED BY <1>1, <1>3, <1>4 DEF Init, PacketTypes, ControllerTypes

(***************************************************************************)
(* The types of the tables and of the packets in flight.  A packet about   *)
(* to write a row always has one, whatever was deleted since it read it,   *)
(* and every pin names a pod of the list it was hashed over.               *)
(***************************************************************************)
THEOREM TypeCorrect == Spec => []TypeOK
BY TypeInit, TypeStep, PTL DEF Spec
-----------------------------------------------------------------------------
(***************************************************************************)
(* What makes Admission inductive: a packet that may still write a row, on *)
(* any CPU, belongs to a flow that has been answered.  A client packet     *)
(* writes a row only from a copy of one; a return packet is an answer.     *)
(***************************************************************************)
WriterAnswered(p) ==
    /\ p.at \in {"touch", "promote", "unpend"} => answered[p.flow]
    /\ p.at = "unpinned" /\ p.side = "Pod" => answered[p.flow]

AdmissionInv == TypeOK /\ Admission /\ \A c \in Cpus : WriterAnswered(cpu[c])

\* Every step keeps it.
LEMMA AdmissionStep == AdmissionInv /\ [Next]_vars => AdmissionInv'
<1> SUFFICES ASSUME AdmissionInv, [Next]_vars
             PROVE  Admission' /\ (\A d \in Cpus : WriterAnswered(cpu[d]))'
  BY TypeStep DEF AdmissionInv
<1>0. /\ main \in [Flows -> Rows \cup {Nothing}] /\ cpu \in [Cpus -> InFlight \cup {Idle}]
      /\ answered \in [Flows -> BOOLEAN] /\ Admission
      /\ \A c \in Cpus : WriterAnswered(cpu[c])
  BY DEF AdmissionInv, TypeOK
<1>1. ASSUME NEW c \in Cpus, NEW f \in Flows, NEW tcp \in Tcp,
             ClientPacket(c, f, tcp) \/ ReturnPacket(c, f, tcp)
      PROVE  Admission' /\ (\A d \in Cpus : WriterAnswered(cpu[d]))'
  <2>1. PICK side \in Sides :
           /\ Lookup(c, f, side, tcp)
           /\ side = "Pod" => answered' = [answered EXCEPT ![f] = TRUE]
           /\ side = "Client" => answered' = answered
    BY <1>1 DEF ClientPacket, ReturnPacket, Sides, network
  <2>2. \A g \in Flows : answered[g] => answered'[g]
    BY <1>0, <2>1 DEF Sides
  <2>3. main' = main /\ cpu' = [cpu EXCEPT ![c] =
                 [at |-> IF main[f] = Nothing THEN "unpinned" ELSE "touch",
                  flow |-> f, side |-> side, tcp |-> tcp,
                  row |-> main[f], pool |-> pool, parity |-> parity]]
    BY <2>1 DEF Lookup, tables
  <2>4. Admission'
    BY <1>0, <2>2, <2>3 DEF Admission
  <2>5. ASSUME NEW d \in Cpus PROVE WriterAnswered(cpu[d])'
    <3>1. CASE d = c
      <4>1. cpu'[c] = [at |-> IF main[f] = Nothing THEN "unpinned" ELSE "touch",
                       flow |-> f, side |-> side, tcp |-> tcp,
                       row |-> main[f], pool |-> pool, parity |-> parity]
        BY <1>0, <2>3
      <4>2. main[f] # Nothing => answered'[f]
        BY <1>0, <2>2 DEF Admission
      <4>3. side = "Pod" => answered'[f]
        BY <1>0, <2>1
      <4> QED BY <3>1, <4>1, <4>2, <4>3 DEF WriterAnswered
    <3>2. CASE d # c
      <4>1. cpu'[d] = cpu[d]
        BY <1>0, <2>3, <3>2
      <4>2. cpu[d].at # "idle" => cpu[d].flow \in Flows
        BY <1>0 DEF InFlight, Idle
      <4> QED BY <1>0, <2>2, <4>1, <4>2 DEF WriterAnswered
    <3> QED BY <3>1, <3>2
  <2> QED BY <2>4, <2>5
<1>2. ASSUME NEW c \in Cpus, Proceed(c)
      PROVE  Admission' /\ (\A d \in Cpus : WriterAnswered(cpu[d]))'
  <2>1. answered' = answered
    BY <1>2 DEF Proceed, TouchForwardRow, ClientPending, MintPending, ReturnPending, Promote,
               RemovePending, network
  <2>2. cpu[c].at # "idle"
    BY <1>2 DEF Proceed, TouchForwardRow, ClientPending, MintPending, ReturnPending, Promote,
               RemovePending
  <2>3. cpu[c] \in InFlight /\ cpu[c].flow \in Flows
    BY <1>0, <2>2 DEF InFlight, Idle
  <2>4. \/ main' = main
        \/ /\ cpu[c].at \in {"touch", "promote"}
           /\ \A g \in Flows : g # cpu[c].flow => main'[g] = main[g]
    <3>1. CASE TouchForwardRow(c)
      BY <1>0, <3>1 DEF TouchForwardRow
    <3>2. CASE Promote(c)
      BY <1>0, <3>2 DEF Promote
    <3>3. CASE ClientPending(c) \/ MintPending(c) \/ ReturnPending(c) \/ RemovePending(c)
      BY <3>3 DEF ClientPending, MintPending, Admit, ReturnPending, RemovePending, tables
    <3> QED BY <1>2, <3>1, <3>2, <3>3 DEF Proceed
  <2>5. Admission'
    <3>1. cpu[c].at \in {"touch", "promote"} => answered[cpu[c].flow]
      BY <1>0 DEF WriterAnswered
    <3> QED BY <1>0, <2>1, <2>4, <3>1 DEF Admission
  <2>6. \E p : cpu' = [cpu EXCEPT ![c] = p] /\ WriterAnswered(p)
    <3>1. CASE Done(c)
      <4>1. WriterAnswered(Idle)
        BY DEF Idle, WriterAnswered
      <4> QED BY <3>1, <4>1 DEF Done
    <3>2. CASE ClientPending(c) /\ cpu' = [cpu EXCEPT ![c].at = "mint"]
      <4>1. [cpu[c] EXCEPT !.at = "mint"].at = "mint"
        BY <2>3, AtPart
      <4> QED BY <3>2, <4>1 DEF WriterAnswered
    <3>3. CASE ReturnPending(c)
      <4> DEFINE q == [cpu[c] EXCEPT !.at = "promote",
                         !.row = [pod |-> pending[cpu[c].flow], flags |-> NoFlags]]
      <4>1. q.flow = cpu[c].flow /\ q.at = "promote"
        BY <2>3 DEF InFlight
      <4>2. answered[cpu[c].flow]
        BY <1>0, <3>3 DEF ReturnPending, WriterAnswered
      <4>3. CASE cpu' = [cpu EXCEPT ![c] = q]
        BY <4>1, <4>2, <4>3 DEF WriterAnswered
      <4>4. CASE cpu' = [cpu EXCEPT ![c] = Idle]
        BY <3>1, <4>4 DEF Done
      <4> QED BY <3>3, <4>3, <4>4 DEF ReturnPending
    <3>4. CASE Promote(c) /\ cpu' = [cpu EXCEPT ![c].at = "unpend"]
      <4>1. /\ [cpu[c] EXCEPT !.at = "unpend"].at = "unpend"
            /\ [cpu[c] EXCEPT !.at = "unpend"].flow = cpu[c].flow
        BY <2>3, AtPart
      <4>2. answered[cpu[c].flow]
        BY <1>0, <3>4 DEF Promote, WriterAnswered
      <4> QED BY <3>4, <4>1, <4>2 DEF WriterAnswered
    <3> QED BY <1>2, <3>1, <3>2, <3>3, <3>4
            DEF Proceed, TouchForwardRow, ClientPending, MintPending, Promote, RemovePending
  <2>7. ASSUME NEW d \in Cpus PROVE WriterAnswered(cpu[d])'
    <3>1. PICK p : cpu' = [cpu EXCEPT ![c] = p] /\ WriterAnswered(p)
      BY <2>6
    <3>2. cpu'[d] = p \/ cpu'[d] = cpu[d]
      BY <1>0, <3>1
    <3> QED BY <1>0, <2>1, <3>1, <3>2 DEF WriterAnswered
  <2> QED BY <2>5, <2>7
<1>3. ASSUME UNCHANGED <<cpu, answered>>, \A g \in Flows : main'[g] \in {main[g], Nothing}
      PROVE  Admission' /\ (\A d \in Cpus : WriterAnswered(cpu[d]))'
  BY <1>0, <1>3 DEF Admission, WriterAnswered
<1>4. CASE (\E f \in Flows : LruTakes(f)) \/ Controller
  <2>1. UNCHANGED <<cpu, answered>>
    BY <1>4 DEF LruTakes, Controller, StillIdle, SweepDelete, SweepEnd, EvictWalk, EvictPending,
               EvictMain, EvictEnd, CommitFront, Quiet, network
  <2>2. main' = main \/ \E f : main' = [main EXCEPT ![f] = Nothing]
    BY <1>4 DEF LruTakes, Controller, StillIdle, SweepDelete, SweepEnd, EvictWalk, EvictPending,
               EvictMain, EvictEnd, CommitFront, tables
  <2> QED BY <1>0, <1>3, <2>1, <2>2
<1>5. CASE (\E class \in Protos : SweepScan(class)) \/ WatchEvent \/ RetryTick \/ Crash
             \/ UNCHANGED vars
  <2>1. UNCHANGED <<cpu, answered, main>>
    BY <1>5 DEF SweepScan, WatchEvent, RetryTick, BeginTick, Crash, Quiet, tables, network, vars
  <2> QED BY <1>3, <2>1
<1> QED BY <1>1, <1>2, <1>4, <1>5 DEF Next, Arrive

(***************************************************************************)
(* Packets nobody answers never reach FLOW_TABLE: with any number of CPUs  *)
(* writing rows back from stale copies, while the LRU, the idle sweep and  *)
(* evictions delete them, a forward row exists only for an answered flow.  *)
(***************************************************************************)
THEOREM AdmissionHolds == Spec => []Admission
<1>1. Init => AdmissionInv
  BY TypeInit DEF Init, AdmissionInv, Admission, WriterAnswered, Idle
<1>2. AdmissionInv => Admission
  BY DEF AdmissionInv
<1> QED BY <1>1, <1>2, AdmissionStep, PTL DEF Spec
-----------------------------------------------------------------------------
(***************************************************************************)
(* What makes SweepSparesLive inductive: a refreshed row carries the       *)
(* current parity of its own class.                                        *)
(***************************************************************************)
FreshMarked ==
    \A f \in Flows : fresh[f] /\ main[f] # Nothing =>
        ~ParitySweepDeletes(main[f].flags, Proto[f], parity)

SpareInv == TypeOK /\ SweepSparesLive /\ FreshMarked

\* Map operations of packets keep refreshed rows marked.
LEMMA ProceedMarks ==
  ASSUME TypeOK, FreshMarked, NEW c \in Cpus, Proceed(c)
  PROVE  FreshMarked'
<1>0. /\ main \in [Flows -> Rows \cup {Nothing}] /\ fresh \in [Flows -> BOOLEAN]
      /\ parity \in GcParity /\ Nothing \notin Rows
  BY PinsAssumption DEF PinsAssumption, TypeOK, Rows
<1>1. parity' = parity
  BY DEF Proceed, TouchForwardRow, ClientPending, MintPending, ReturnPending, Promote,
         RemovePending
<1>2. cpu[c].at # "idle"
  BY DEF Proceed, TouchForwardRow, ClientPending, MintPending, ReturnPending, Promote,
         RemovePending
<1>3. /\ cpu[c].flow \in Flows /\ cpu[c].parity \in GcParity
      /\ Proto[cpu[c].flow] \in Protos /\ Ready(cpu[c])
  BY <1>2, PinsAssumption DEF PinsAssumption, TypeOK, InFlight, Idle
<1>4. ASSUME NEW new \in Flags, NEW par \in GcParity, NEW f \in Flows,
             new.parity[SweepClass(new, Proto[f])] = par[SweepClass(new, Proto[f])],
             par[SweepClass(new, Proto[f])] = parity[SweepClass(new, Proto[f])]
      PROVE  ~ParitySweepDeletes(new, Proto[f], parity)
  BY <1>4 DEF ParitySweepDeletes
<1>5. CASE TouchForwardRow(c)
  <2> DEFINE p == cpu[c]
             f == p.flow
  <2>1. p.row \in Rows
    BY <1>3, <1>5 DEF TouchForwardRow, Ready
  <2>2. PICK par \in {p.parity, parity} :
           LET flags == Stepped(p.row.flags, Proto[f], p.tcp, p.side, par)
               class == SweepClass(flags, Proto[f])
               row   == [p.row EXCEPT !.flags = flags]
           IN  /\ main' = main \/ main' = [main EXCEPT ![f] = row]
               /\ fresh' = [fresh EXCEPT ![f] =
                              \/ par[class] = parity[class] /\ main[f] = p.row /\ main'[f] = row
                              \/ @ /\ main' = main]
    BY <1>5 DEF TouchForwardRow
  <2> DEFINE flags == Stepped(p.row.flags, Proto[f], p.tcp, p.side, par)
             class == SweepClass(flags, Proto[f])
  <2>3. par \in GcParity /\ p.row.flags \in Flags
    BY <1>0, <1>3, <2>1, <2>2 DEF Rows
  <2>4. flags \in Flags /\ flags.parity[class] = par[class]
    BY <1>3, <2>3, SteppedMarked
  <2> HIDE DEF flags
  <2>5. ASSUME NEW g \in Flows, fresh'[g], main'[g] # Nothing
        PROVE  ~ParitySweepDeletes(main'[g].flags, Proto[g], parity)
    <3>1. CASE g # f
      <4>1. main'[g] = main[g] /\ fresh'[g] = fresh[g]
        BY <1>0, <2>2, <3>1 DEF flags
      <4> QED BY <2>5, <4>1 DEF FreshMarked
    <3>2. CASE /\ g = f /\ par[class] = parity[class]
               /\ main'[f] = [p.row EXCEPT !.flags = flags]
      <4>1. main'[f].flags = flags
        BY <2>1, <3>2 DEF Rows
      <4> QED BY <1>3, <1>4, <2>3, <2>4, <3>2, <4>1
    <3>3. CASE g = f /\ fresh[f] /\ main' = main
      BY <2>5, <3>3 DEF FreshMarked
    <3> QED BY <1>0, <1>3, <2>2, <2>5, <3>1, <3>2, <3>3 DEF flags
  <2> QED BY <1>1, <2>5 DEF FreshMarked
<1>6. CASE Promote(c)
  <2> DEFINE p == cpu[c]
             f == p.flow
  <2>1. CASE UNCHANGED <<main, fresh>>
    BY <1>1, <2>1 DEF FreshMarked
  <2>2. CASE \E par \in {p.parity, parity} :
               LET flags == Stepped(NoFlags, Proto[f], p.tcp, "Pod", par)
                   class == SweepClass(flags, Proto[f])
               IN  /\ main' = [main EXCEPT ![f] = [pod |-> p.row.pod, flags |-> flags]]
                   /\ fresh' = [fresh EXCEPT ![f] =
                                  par[class] = parity[class] /\ main[f] = Nothing]
    <3>1. PICK par \in {p.parity, parity} :
             LET flags == Stepped(NoFlags, Proto[f], p.tcp, "Pod", par)
                 class == SweepClass(flags, Proto[f])
             IN  /\ main' = [main EXCEPT ![f] = [pod |-> p.row.pod, flags |-> flags]]
                 /\ fresh' = [fresh EXCEPT ![f] =
                                par[class] = parity[class] /\ main[f] = Nothing]
      BY <2>2
    <3> DEFINE flags == Stepped(NoFlags, Proto[f], p.tcp, "Pod", par)
               class == SweepClass(flags, Proto[f])
    <3>2. par \in GcParity
      BY <1>0, <1>3, <3>1
    <3>3. flags \in Flags /\ flags.parity[class] = par[class]
      BY <1>3, <3>2, NoFlagsType, SteppedMarked
    <3> HIDE DEF flags
    <3>4. ASSUME NEW g \in Flows, fresh'[g], main'[g] # Nothing
          PROVE  ~ParitySweepDeletes(main'[g].flags, Proto[g], parity)
      <4>1. CASE g # f
        <5>1. main'[g] = main[g] /\ fresh'[g] = fresh[g]
          BY <1>0, <3>1, <4>1
        <5> QED BY <3>4, <5>1 DEF FreshMarked
      <4>2. CASE g = f
        <5>1. main'[f].flags = flags /\ par[class] = parity[class]
          BY <1>0, <1>3, <3>1, <3>4, <4>2 DEF flags
        <5> QED BY <1>3, <1>4, <3>2, <3>3, <4>2, <5>1
      <4> QED BY <4>1, <4>2
    <3> QED BY <1>1, <3>4 DEF FreshMarked
  <2> QED BY <1>6, <2>1, <2>2 DEF Promote
<1>7. CASE ClientPending(c) \/ MintPending(c) \/ ReturnPending(c) \/ RemovePending(c)
  <2>1. UNCHANGED <<main, fresh>>
    BY <1>7 DEF ClientPending, MintPending, Admit, ReturnPending, RemovePending, tables
  <2> QED BY <1>1, <2>1 DEF FreshMarked
<1> QED BY <1>5, <1>6, <1>7 DEF Proceed

\* Every step keeps the invariant: a flip takes the mark from its class only.
LEMMA SpareStep == SpareInv /\ [Next]_vars => SpareInv'
<1> SUFFICES ASSUME SpareInv, [Next]_vars PROVE SweepSparesLive' /\ FreshMarked'
  BY TypeStep DEF SpareInv
<1>0. /\ main \in [Flows -> Rows \cup {Nothing}] /\ fresh \in [Flows -> BOOLEAN]
      /\ parity \in GcParity /\ ctl \in Jobs /\ SweepSparesLive /\ FreshMarked
  BY DEF SpareInv, TypeOK
<1>1. ASSUME ctl' = ctl PROVE SweepSparesLive'
  BY <1>0, <1>1 DEF SweepSparesLive
<1>2. ASSUME UNCHANGED <<parity, fresh>>, \A g \in Flows : main'[g] \in {main[g], Nothing}
      PROVE  FreshMarked'
  BY <1>0, <1>2 DEF FreshMarked
<1>3. CASE Arrive
  <2>1. UNCHANGED <<ctl, parity, fresh, main>>
    BY <1>3 DEF Arrive, ClientPacket, ReturnPacket, Lookup, tables, process
  <2> QED BY <1>1, <1>2, <2>1
<1>4. ASSUME NEW c \in Cpus, Proceed(c) PROVE SweepSparesLive' /\ FreshMarked'
  <2>1. ctl' = ctl
    BY <1>4 DEF Proceed, TouchForwardRow, ClientPending, MintPending, ReturnPending, Promote,
               RemovePending, process
  <2> QED BY <1>1, <1>4, <2>1, ProceedMarks DEF SpareInv
<1>5. ASSUME NEW f \in Flows, LruTakes(f) PROVE SweepSparesLive' /\ FreshMarked'
  <2>1. UNCHANGED <<ctl, parity, fresh>> /\ \A g \in Flows : main'[g] \in {main[g], Nothing}
    BY <1>0, <1>5 DEF LruTakes, process
  <2> QED BY <1>1, <1>2, <2>1
<1>6. ASSUME NEW class \in Protos, SweepScan(class) PROVE SweepSparesLive' /\ FreshMarked'
  <2>1. ctl'.fresh = FALSE /\ UNCHANGED <<parity, fresh, main>>
    BY <1>6 DEF SweepScan, tables
  <2> QED BY <1>2, <2>1 DEF SweepSparesLive
<1>7. ASSUME NEW f \in Flows, StillIdle(f) PROVE SweepSparesLive' /\ FreshMarked'
  <2>1. ctl \in Sweeps
    BY <1>0, <1>7, SweepJob DEF StillIdle
  <2>2. ctl'.fresh = (RowSwept(f, ctl.class) /\ fresh[f])
    BY <1>7, <2>1 DEF StillIdle, Sweeps
  <2>3. ~(RowSwept(f, ctl.class) /\ fresh[f])
    BY <1>0, <1>7 DEF RowSwept, FreshMarked
  <2>4. UNCHANGED <<parity, fresh, main>>
    BY <1>7 DEF StillIdle, tables
  <2> QED BY <1>2, <2>2, <2>3, <2>4 DEF SweepSparesLive
<1>8. CASE SweepDelete
  <2>1. ctl \in Sweeps
    BY <1>0, <1>8, SweepJob DEF SweepDelete
  <2>2. ctl'.fresh = FALSE
    BY <1>8, <2>1 DEF SweepDelete, Sweeps
  <2>3. UNCHANGED <<parity, fresh>> /\ \A g \in Flows : main'[g] \in {main[g], Nothing}
    BY <1>0, <1>8 DEF SweepDelete
  <2> QED BY <1>2, <2>2, <2>3 DEF SweepSparesLive
<1>9. CASE SweepEnd
  <2>1. ctl'.at = "rest" /\ main' = main
    BY <1>9 DEF SweepEnd, Resting, tables
  <2>2. CASE UNCHANGED <<parity, fresh>>
    BY <1>2, <2>1, <2>2 DEF SweepSparesLive
  <2>3. CASE /\ parity' = Flipped(ctl.class)
             /\ fresh' = [f \in Flows |->
                            fresh[f] /\ main[f] # Nothing
                              /\ SweepClass(main[f].flags, Proto[f]) # ctl.class]
    <3>1. ASSUME NEW f \in Flows, fresh'[f], main'[f] # Nothing
          PROVE  ~ParitySweepDeletes(main'[f].flags, Proto[f], parity')
      <4>1. fresh[f] /\ SweepClass(main[f].flags, Proto[f]) # ctl.class
        BY <2>3, <3>1
      <4>2. ~ParitySweepDeletes(main[f].flags, Proto[f], parity)
        BY <1>0, <2>1, <3>1, <4>1 DEF FreshMarked
      <4>3. SweepClass(main[f].flags, Proto[f]) \in Protos
        BY SweepClassType, PinsAssumption DEF PinsAssumption
      <4>4. parity'[SweepClass(main[f].flags, Proto[f])]
              = parity[SweepClass(main[f].flags, Proto[f])]
        BY <1>0, <2>3, <4>1, <4>3 DEF Flipped, GcParity
      <4> QED BY <2>1, <4>2, <4>4 DEF ParitySweepDeletes
    <3> QED BY <2>1, <3>1 DEF SweepSparesLive, FreshMarked
  <2> QED BY <1>9, <2>2, <2>3 DEF SweepEnd
<1>10. CASE EvictWalk \/ \E f \in Flows : EvictPending(f) \/ EvictMain(f)
  <2>1. ctl \in Ticks
    BY <1>0, <1>10, TickJob DEF EvictWalk, EvictPending, EvictMain
  <2>2. ctl'.at # "sweep"
    BY <1>10, <2>1 DEF EvictWalk, EvictPending, EvictMain, Ticks
  <2>3. UNCHANGED <<parity, fresh>> /\ \A g \in Flows : main'[g] \in {main[g], Nothing}
    BY <1>0, <1>10 DEF EvictWalk, EvictPending, EvictMain, tables
  <2> QED BY <1>2, <2>2, <2>3 DEF SweepSparesLive
<1>11. CASE EvictEnd \/ CommitFront \/ WatchEvent \/ RetryTick \/ Crash
  <2>1. ctl'.at # "sweep" /\ UNCHANGED <<parity, fresh, main>>
    BY <1>11 DEF EvictEnd, CommitFront, WatchEvent, RetryTick, BeginTick, Crash, Resting, tables
  <2> QED BY <1>2, <2>1 DEF SweepSparesLive
<1>12. CASE UNCHANGED vars
  BY <1>1, <1>2, <1>12 DEF vars
<1> QED BY <1>3, <1>4, <1>5, <1>6, <1>7, <1>8, <1>9, <1>10, <1>11, <1>12 DEF Next, Controller

(***************************************************************************)
(* The second read of still_idle never chooses a row that was refreshed    *)
(* since the last flip of its class, for any flows, CPUs and interleaving  *)
(* of packets, sweeps, failed flips and restarts, unless a writer with an  *)
(* older copy or parity overwrote it.                                      *)
(***************************************************************************)
THEOREM SweepSparesFresh == Spec => []SweepSparesLive
<1>1. Init => SpareInv
  BY TypeInit DEF Init, SpareInv, SweepSparesLive, FreshMarked, Resting
<1>2. SpareInv => SweepSparesLive
  BY DEF SpareInv
<1> QED BY <1>1, <1>2, SpareStep, PTL DEF Spec
-----------------------------------------------------------------------------
(***************************************************************************)
(* No two packets of one flow are handled at the same time: the overlap    *)
(* that the violation of StrictAffinity with two CPUs needs.               *)
(***************************************************************************)
OneAtATime ==
    \A c, d \in Cpus : c # d /\ cpu[c].at # "idle" /\ cpu[d].at # "idle" =>
        cpu[c].flow # cpu[d].flow

\* What the tables say of a flow agrees with a pod.
AgreesOn(f, pod) ==
    /\ main[f] # Nothing => main[f].pod = pod
    /\ pending[f] # Nothing => pending[f] = pod

\* The pod a flow's packets went to is the one its pins name, and a flow without
\* a pin has none.
BoundAgrees(f) ==
    /\ \A pod \in bound[f] : AgreesOn(f, pod)
    /\ main[f] # Nothing => AgreesOn(f, main[f].pod)
    /\ main[f] = Nothing /\ pending[f] = Nothing => bound[f] = {}

\* A packet's copy still agrees with the tables, and one that found no pin would
\* find none now.
PacketAgrees(p) ==
    /\ p.at \in {"touch", "promote"} => AgreesOn(p.flow, p.row.pod)
    /\ p.at \in {"unpinned", "mint"} => main[p.flow] = Nothing
    /\ p.at = "mint" => pending[p.flow] = Nothing

(***************************************************************************)
(* StrictAffinity is not inductive: a packet about to write back or to     *)
(* promote its copy could bring another pod in, and one about to mint      *)
(* could do so beside an existing pin.                                     *)
(***************************************************************************)
AffinityInv ==
    /\ TypeOK
    /\ bound \in [Flows -> SUBSET Pods]
    /\ \A f \in Flows : BoundAgrees(f)
    /\ \A c \in Cpus : cpu[c].at # "idle" => PacketAgrees(cpu[c])

\* Pins that agree with a pod leave no other one to the flow's packets.
LEMMA OnePod ==
  ASSUME NEW f \in Flows, NEW pod, BoundAgrees(f), AgreesOn(f, pod)
  PROVE  bound[f] \subseteq {pod}
BY DEF BoundAgrees, AgreesOn

\* How the step of an action that keeps bound changes it.
LEMMA TrackBound ==
  ASSUME NEW sent, Track(sent), NEW f \in Flows
  PROVE  /\ main'[f] = Nothing /\ pending'[f] = Nothing => bound'[f] = {}
         /\ bound'[f] \subseteq bound[f] \cup {p \in Pods : <<f, p>> \in sent}
BY DEF Track

\* ... and that it stays a set of pods.
LEMMA TrackType ==
  ASSUME NEW sent, bound \in [Flows -> SUBSET Pods], Track(sent)
  PROVE  bound' \in [Flows -> SUBSET Pods]
BY DEF Track

\* After a step the flow's packets went to one pod, with which its pins agree.
LEMMA SettledOn ==
  ASSUME NEW f \in Flows, NEW pod, bound'[f] \subseteq {pod}, AgreesOn(f, pod)',
         main'[f] = Nothing /\ pending'[f] = Nothing => bound'[f] = {}
  PROVE  BoundAgrees(f)'
BY DEF BoundAgrees, AgreesOn

\* A flow that the step does not concern.
LEMMA FlowSpared ==
  ASSUME NEW f \in Flows, BoundAgrees(f), main'[f] = main[f], pending'[f] = pending[f],
         bound'[f] \subseteq bound[f]
  PROVE  BoundAgrees(f)'
BY DEF BoundAgrees, AgreesOn

\* Taking pins away disturbs neither flows nor packets.
LEMMA ShrunkAgrees ==
  ASSUME AffinityInv, NEW f \in Flows,
         main'[f] \in {main[f], Nothing}, pending'[f] \in {pending[f], Nothing},
         bound'[f] \subseteq bound[f],
         main'[f] = Nothing /\ pending'[f] = Nothing => bound'[f] = {}
  PROVE  /\ BoundAgrees(f)'
         /\ \A p : p.flow = f /\ PacketAgrees(p) => PacketAgrees(p)'
<1>1. BoundAgrees(f)
  BY DEF AffinityInv
<1>2. BoundAgrees(f)'
  BY <1>1 DEF BoundAgrees, AgreesOn
<1>3. ASSUME NEW p, p.flow = f, PacketAgrees(p) PROVE PacketAgrees(p)'
  BY <1>3 DEF PacketAgrees, AgreesOn
<1> QED BY <1>2, <1>3

\* A step that only takes pins away.
LEMMA ShrinkKeeps ==
  ASSUME AffinityInv, UNCHANGED cpu, Track({}),
         \A g \in Flows : main'[g] \in {main[g], Nothing} /\ pending'[g] \in {pending[g], Nothing}
  PROVE  /\ bound' \in [Flows -> SUBSET Pods]
         /\ \A f \in Flows : BoundAgrees(f)'
         /\ \A c \in Cpus : cpu'[c].at # "idle" => PacketAgrees(cpu[c])'
<1>1. bound' \in [Flows -> SUBSET Pods]
  BY TrackType DEF AffinityInv
<1>2. ASSUME NEW f \in Flows
      PROVE  /\ BoundAgrees(f)'
             /\ \A p : p.flow = f /\ PacketAgrees(p) => PacketAgrees(p)'
  <2>1. /\ main'[f] = Nothing /\ pending'[f] = Nothing => bound'[f] = {}
        /\ bound'[f] \subseteq bound[f] \cup {p \in Pods : <<f, p>> \in {}}
    BY TrackBound
  <2> QED BY <2>1, ShrunkAgrees
<1>3. ASSUME NEW c \in Cpus, cpu'[c].at # "idle" PROVE PacketAgrees(cpu[c])'
  <2>1. cpu[c].at # "idle" /\ PacketAgrees(cpu[c])
    BY <1>3 DEF AffinityInv
  <2>2. cpu[c].flow \in Flows
    BY <2>1 DEF AffinityInv, TypeOK, InFlight, Idle
  <2>3. \A p : p.flow = cpu[c].flow /\ PacketAgrees(p) => PacketAgrees(p)'
    BY <1>2, <2>2
  <2>4. cpu'[c] = cpu[c]
    OBVIOUS
  <2> QED BY <2>1, <2>3, <2>4 DEF PacketAgrees, AgreesOn
<1> QED BY <1>1, <1>2, <1>3

\* The only packet of a flow: what its CPU does leaves the others' packets and
\* flows as they are.
LEMMA ProceedKeeps ==
  ASSUME AffinityInv, OneAtATime, NEW c \in Cpus, Proceed(c)
  PROVE  /\ bound' \in [Flows -> SUBSET Pods]
         /\ \A f \in Flows : BoundAgrees(f)'
         /\ \A d \in Cpus : cpu'[d].at # "idle" => PacketAgrees(cpu[d])'
<1>a. PICK p, f : p = cpu[c] /\ f = p.flow
  OBVIOUS
<1>0. p.at # "idle"
  BY <1>a DEF Proceed, TouchForwardRow, ClientPending, MintPending, ReturnPending, Promote,
         RemovePending
<1>1. /\ p \in InFlight /\ f \in Flows /\ PacketAgrees(p) /\ BoundAgrees(f) /\ Ready(p)
      /\ main \in [Flows -> Rows \cup {Nothing}] /\ pending \in [Flows -> Pods \cup {Nothing}]
      /\ cpu \in [Cpus -> InFlight \cup {Idle}] /\ bound \in [Flows -> SUBSET Pods]
  BY <1>a, <1>0 DEF AffinityInv, TypeOK, InFlight, Idle
<1>2. \A g \in Flows \ {f} : main'[g] = main[g] /\ pending'[g] = pending[g]
  BY <1>a, <1>1 DEF Proceed, TouchForwardRow, ClientPending, MintPending, Admit, ReturnPending, Promote,
              RemovePending, tables
<1>3. \/ UNCHANGED <<main, pending, bound>>
      \/ \E pod : Track({<<f, pod>>})
      \/ Track({})
  BY <1>a DEF Proceed, TouchForwardRow, ClientPending, MintPending, ReturnPending, Promote,
         RemovePending, tables
<1>4. bound' \in [Flows -> SUBSET Pods]
  BY <1>1, <1>3, TrackType
<1>5. ASSUME NEW g \in Flows \ {f} PROVE BoundAgrees(g)'
  <2>1. ASSUME NEW sent, Track(sent), \A pod : <<g, pod>> \notin sent
        PROVE  bound'[g] \subseteq bound[g]
    BY <2>1, TrackBound
  <2>2. bound'[g] \subseteq bound[g]
    BY <1>3, <2>1
  <2> QED BY <1>2, <2>2, FlowSpared DEF AffinityInv
<1>6. ASSUME NEW d \in Cpus \ {c}, cpu'[d].at # "idle" PROVE PacketAgrees(cpu[d])'
  <2>1. cpu'[d] = cpu[d]
    BY <1>1 DEF Proceed, TouchForwardRow, ClientPending, MintPending, ReturnPending, Promote,
                RemovePending, Done
  <2>2. cpu[d].flow \in Flows \ {f} /\ PacketAgrees(cpu[d])
    BY <1>a, <1>0, <1>6, <2>1 DEF OneAtATime, AffinityInv, TypeOK, InFlight, Idle
  <2> QED BY <1>2, <2>1, <2>2 DEF PacketAgrees, AgreesOn
<1>7. BoundAgrees(f)' /\ (cpu'[c].at # "idle" => PacketAgrees(cpu[c])')
  <2>1. ASSUME Done(c) PROVE cpu'[c].at = "idle"
    BY <1>a, <1>1, <2>1 DEF Done, Idle
  <2>2. ASSUME UNCHANGED <<main, pending, bound>> PROVE BoundAgrees(f)'
    BY <1>a, <1>1, <2>2, FlowSpared
  <2>3. ASSUME NEW pod, NEW sent, Track(sent), sent \subseteq {<<f, pod>>},
               AgreesOn(f, pod), AgreesOn(f, pod)'
        PROVE  BoundAgrees(f)'
    <3>1. bound[f] \subseteq {pod}
      BY <1>a, <1>1, <2>3, OnePod
    <3>2. /\ main'[f] = Nothing /\ pending'[f] = Nothing => bound'[f] = {}
          /\ bound'[f] \subseteq bound[f] \cup {q \in Pods : <<f, q>> \in sent}
      BY <1>a, <1>1, <2>3, TrackBound
    <3>3. bound'[f] \subseteq {pod}
      BY <1>a, <2>3, <3>1, <3>2
    <3> QED BY <1>a, <1>1, <2>3, <3>2, <3>3, SettledOn
  <2>4. CASE TouchForwardRow(c)
    <3>1. p.row \in Rows /\ AgreesOn(f, p.row.pod)
      BY <1>a, <1>1, <2>4 DEF TouchForwardRow, Ready, PacketAgrees
    <3>2. PICK flags : main' = main \/ main' = [main EXCEPT ![f] = [p.row EXCEPT !.flags = flags]]
      BY <1>a, <2>4 DEF TouchForwardRow
    <3>3. pending' = pending /\ Done(c)
      BY <1>a, <2>4 DEF TouchForwardRow
    <3>4. [p.row EXCEPT !.flags = flags].pod = p.row.pod
      BY <1>a, <3>1 DEF Rows
    <3>5. AgreesOn(f, p.row.pod)'
      <4>1. AgreesOn(f, p.row.pod) /\ (main'[f] = main[f] \/ main'[f].pod = p.row.pod)
        BY <1>a, <1>1, <3>1, <3>2, <3>4
      <4> QED BY <1>a, <3>3, <4>1 DEF AgreesOn
    <3>6. PICK sent : Track(sent) /\ sent \subseteq {<<f, p.row.pod>>}
      BY <1>a, <2>4 DEF TouchForwardRow
    <3> QED BY <1>a, <2>1, <2>3, <3>1, <3>3, <3>5, <3>6
  <2>5. CASE ClientPending(c)
    <3>1. main[f] = Nothing /\ UNCHANGED <<main, pending>>
      BY <1>a, <1>1, <2>5 DEF ClientPending, PacketAgrees, tables
    <3>2. CASE pending[f] # Nothing
      <4>1. PICK pod : pod = pending[f]
        OBVIOUS
      <4>2. Done(c) /\ Track({<<f, pod>>})
        BY <1>a, <2>5, <3>2, <4>1 DEF ClientPending, FwdPendingPin
      <4>3. AgreesOn(f, pod) /\ AgreesOn(f, pod)'
        BY <3>1, <4>1 DEF AgreesOn
      <4> QED BY <2>1, <2>3, <4>2, <4>3
    <3>3. CASE pending[f] = Nothing
      <4>1. UNCHANGED bound /\ (Done(c) \/ cpu' = [cpu EXCEPT ![c].at = "mint"])
        BY <1>a, <2>5, <3>3 DEF ClientPending, FwdPendingPin
      <4>2. ASSUME cpu' = [cpu EXCEPT ![c].at = "mint"] PROVE PacketAgrees(cpu[c])'
        <5>1. cpu'[c] = [p EXCEPT !.at = "mint"]
          BY <1>a, <1>1, <4>2
        <5>2. cpu'[c].at = "mint" /\ cpu'[c].flow = f
          BY <1>a, <1>1, <5>1, AtPart
        <5> QED BY <1>a, <3>1, <3>3, <5>2 DEF PacketAgrees
      <4> QED BY <1>a, <2>1, <2>2, <3>1, <4>1, <4>2
    <3> QED BY <1>a, <3>2, <3>3
  <2>6. CASE MintPending(c)
    <3>1. main[f] = Nothing /\ pending[f] = Nothing /\ Done(c)
      BY <1>a, <1>1, <2>6 DEF MintPending, PacketAgrees
    <3>2. CASE UNCHANGED <<main, pending, bound>>
      BY <1>a, <2>1, <2>2, <3>1, <3>2
    <3>3. CASE Admit(f, Pick(f, p.pool)) /\ Track({<<f, Pick(f, p.pool)>>})
      <4>1. main'[f] = Nothing /\ pending'[f] = Pick(f, p.pool)
        BY <1>a, <1>1, <3>1, <3>3 DEF Admit
      <4>2. AgreesOn(f, Pick(f, p.pool))
        BY <3>1 DEF AgreesOn
      <4>3. bound[f] \subseteq {Pick(f, p.pool)}
        BY <1>a, <1>1, <4>2, OnePod
      <4>4. /\ main'[f] = Nothing /\ pending'[f] = Nothing => bound'[f] = {}
            /\ bound'[f] \subseteq bound[f] \cup {q \in Pods : <<f, q>> \in {<<f, Pick(f, p.pool)>>}}
        BY <1>a, <1>1, <3>3, TrackBound
      <4>5. bound'[f] \subseteq {pending'[f]}
        BY <1>a, <4>1, <4>3, <4>4
      <4>6. BoundAgrees(f)'
        BY <1>a, <4>1, <4>4, <4>5 DEF BoundAgrees, AgreesOn
      <4> QED BY <1>a, <2>1, <3>1, <4>6
    <3> QED BY <1>a, <2>6, <3>2, <3>3 DEF MintPending, tables
  <2>7. CASE ReturnPending(c)
    <3>1. main[f] = Nothing /\ UNCHANGED <<main, pending, bound>>
      BY <1>a, <1>1, <2>7 DEF ReturnPending, PacketAgrees, tables
    <3>2. CASE ~Authorized(f)
      BY <1>a, <2>1, <2>2, <2>7, <3>1, <3>2 DEF ReturnPending, Done
    <3>3. CASE Authorized(f)
      <4>1. cpu'[c] = [p EXCEPT !.at = "promote", !.row = [pod |-> pending[f], flags |-> NoFlags]]
        BY <1>a, <1>1, <2>7, <3>3 DEF ReturnPending
      <4>2. cpu'[c].at = "promote" /\ cpu'[c].flow = f /\ cpu'[c].row.pod = pending[f]
        BY <1>a, <1>1, <4>1 DEF InFlight
      <4>3. PacketAgrees(cpu[c])'
        BY <1>a, <3>1, <4>2 DEF PacketAgrees, AgreesOn
      <4> QED BY <1>a, <2>2, <3>1, <4>3
    <3> QED BY <1>a, <3>2, <3>3
  <2>8. CASE Promote(c)
    <3>1. AgreesOn(f, p.row.pod) /\ pending' = pending
      BY <1>a, <1>1, <2>8 DEF Promote, PacketAgrees
    <3>2. cpu'[c].at = "idle" \/ cpu'[c].at = "unpend"
      <4>1. CASE Done(c)
        BY <1>a, <2>1, <4>1
      <4>2. CASE cpu' = [cpu EXCEPT ![c].at = "unpend"]
        <5>1. cpu'[c] = [p EXCEPT !.at = "unpend"]
          BY <1>a, <1>1, <4>2
        <5> QED BY <1>a, <1>1, <5>1, AtPart
      <4> QED BY <1>a, <2>8, <4>1, <4>2 DEF Promote
    <3>3. cpu'[c].at # "idle" => PacketAgrees(cpu[c])'
      BY <1>a, <3>2 DEF PacketAgrees
    <3>4. CASE UNCHANGED <<main, bound>>
      BY <1>a, <2>2, <3>1, <3>3, <3>4
    <3>5. CASE Track({}) /\ \E flags : main' = [main EXCEPT ![f] = [pod |-> p.row.pod, flags |-> flags]]
      <4>1. main'[f].pod = p.row.pod
        BY <1>a, <1>1, <3>5
      <4>2. AgreesOn(f, p.row.pod)'
        <5>1. AgreesOn(f, p.row.pod)
          BY <1>a, <3>1
        <5> QED BY <1>a, <3>1, <4>1, <5>1 DEF AgreesOn
      <4> QED BY <1>a, <2>3, <3>1, <3>3, <3>5, <4>2
    <3> QED BY <1>a, <2>8, <3>4, <3>5 DEF Promote
  <2>9. CASE RemovePending(c)
    <3>1. Done(c) /\ Track({}) /\ main' = main /\ pending' = [pending EXCEPT ![f] = Nothing]
      BY <1>a, <2>9 DEF RemovePending
    <3>2. /\ main'[f] = Nothing /\ pending'[f] = Nothing => bound'[f] = {}
          /\ bound'[f] \subseteq bound[f] \cup {q \in Pods : <<f, q>> \in {}}
      BY <1>a, <1>1, <3>1, TrackBound
    <3>3. BoundAgrees(f)'
      BY <1>a, <1>1, <3>1, <3>2, ShrunkAgrees
    <3> QED BY <1>a, <2>1, <3>1, <3>3
  <2> QED BY <1>a, <2>4, <2>5, <2>6, <2>7, <2>8, <2>9 DEF Proceed
<1> QED BY <1>4, <1>5, <1>6, <1>7

\* Every step keeps it as long as packets of one flow do not overlap.
LEMMA AffinityStep == AffinityInv /\ OneAtATime /\ [Next]_vars => AffinityInv'
<1> SUFFICES ASSUME AffinityInv, OneAtATime, [Next]_vars
             PROVE  /\ bound' \in [Flows -> SUBSET Pods]
                    /\ \A f \in Flows : BoundAgrees(f)'
                    /\ \A c \in Cpus : cpu'[c].at # "idle" => PacketAgrees(cpu[c])'
  BY TypeStep DEF AffinityInv
<1>0. /\ main \in [Flows -> Rows \cup {Nothing}] /\ pending \in [Flows -> Pods \cup {Nothing}]
      /\ cpu \in [Cpus -> InFlight \cup {Idle}] /\ bound \in [Flows -> SUBSET Pods]
  BY DEF AffinityInv, TypeOK
<1>1. CASE Arrive
  <2>1. PICK c \in Cpus, f \in Flows : \E side, tcp : Lookup(c, f, side, tcp)
    BY <1>1 DEF Arrive, ClientPacket, ReturnPacket
  <2>2. UNCHANGED <<main, pending, bound>>
    BY <2>1 DEF Lookup, tables
  <2>3. \A g \in Flows : BoundAgrees(g)'
    BY <2>2, FlowSpared DEF AffinityInv
  <2>4. ASSUME NEW d \in Cpus, cpu'[d].at # "idle" PROVE PacketAgrees(cpu[d])'
    <3>1. CASE d = c
      <4>1. /\ cpu'[c].at = IF main[f] = Nothing THEN "unpinned" ELSE "touch"
            /\ cpu'[c].flow = f /\ cpu'[c].row = main[f]
        BY <1>0, <2>1 DEF Lookup
      <4>2. main[f] # Nothing => AgreesOn(f, main[f].pod)
        BY DEF AffinityInv, BoundAgrees
      <4> QED BY <2>2, <3>1, <4>1, <4>2 DEF PacketAgrees, AgreesOn
    <3>2. CASE d # c
      <4>1. cpu'[d] = cpu[d]
        BY <1>0, <2>1, <3>2 DEF Lookup
      <4>2. PacketAgrees(cpu[d])
        BY <2>4, <4>1 DEF AffinityInv
      <4> QED BY <2>2, <4>1, <4>2 DEF PacketAgrees, AgreesOn
    <3> QED BY <3>1, <3>2
  <2> QED BY <1>0, <2>2, <2>3, <2>4
<1>2. CASE \E c \in Cpus : Proceed(c)
  BY <1>2, ProceedKeeps
<1>3. CASE \/ \E f \in Flows : LruTakes(f) \/ EvictPending(f) \/ EvictMain(f)
           \/ SweepDelete
  <2>1. UNCHANGED cpu /\ Track({})
    BY <1>3 DEF LruTakes, EvictPending, EvictMain, SweepDelete, Quiet
  <2>2. \A g \in Flows : main'[g] \in {main[g], Nothing} /\ pending'[g] \in {pending[g], Nothing}
    BY <1>0, <1>3 DEF LruTakes, EvictPending, EvictMain, SweepDelete
  <2> QED BY <2>1, <2>2, ShrinkKeeps
<1>4. CASE \/ (\E class \in Protos : SweepScan(class)) \/ (\E f \in Flows : StillIdle(f))
           \/ SweepEnd \/ EvictWalk \/ EvictEnd \/ CommitFront
           \/ WatchEvent \/ RetryTick \/ Crash \/ UNCHANGED vars
  <2>1. UNCHANGED <<cpu, main, pending, bound>>
    BY <1>4 DEF SweepScan, StillIdle, SweepEnd, EvictWalk, EvictEnd, CommitFront, WatchEvent,
                RetryTick, BeginTick, Crash, Quiet, tables, vars
  <2>2. \A g \in Flows : BoundAgrees(g)'
    BY <2>1, FlowSpared DEF AffinityInv
  <2>3. ASSUME NEW c \in Cpus, cpu'[c].at # "idle" PROVE PacketAgrees(cpu[c])'
    <3>1. PacketAgrees(cpu[c]) /\ cpu'[c] = cpu[c]
      BY <2>1, <2>3 DEF AffinityInv
    <3> QED BY <2>1, <3>1 DEF PacketAgrees, AgreesOn
  <2> QED BY <1>0, <2>1, <2>2, <2>3
<1> QED BY <1>1, <1>2, <1>3, <1>4 DEF Next, Controller

\* Pins that agree leave one pod at most.
LEMMA AffinityImplied == AffinityInv => StrictAffinity
<1> SUFFICES ASSUME AffinityInv, NEW f \in Flows PROVE Cardinality(bound[f]) <= 1
  BY DEF StrictAffinity
<1>1. BoundAgrees(f)
  BY DEF AffinityInv
<1>2. bound[f] = {} \/ \E pod : bound[f] = {pod}
  <2>1. CASE main[f] # Nothing
    <3>1. bound[f] \subseteq {main[f].pod}
      BY <1>1, <2>1 DEF BoundAgrees, AgreesOn
    <3> QED BY <3>1
  <2>2. CASE pending[f] # Nothing
    <3>1. bound[f] \subseteq {pending[f]}
      BY <1>1, <2>2 DEF BoundAgrees, AgreesOn
    <3> QED BY <3>1
  <2> QED BY <1>1, <2>1, <2>2 DEF BoundAgrees
<1>3. CASE bound[f] = {}
  <2>1. Cardinality(bound[f]) = 0
    BY <1>3, FS_EmptySet
  <2> QED BY <2>1
<1>4. CASE \E pod : bound[f] = {pod}
  <2>1. PICK pod : bound[f] = {pod}
    BY <1>4
  <2>2. Cardinality(bound[f]) = 1
    BY <2>1, FS_Singleton
  <2> QED BY <2>2
<1> QED BY <1>2, <1>3, <1>4

(***************************************************************************)
(* Affinity is strict, for any flows, pods, lists, CPUs and protocols, as  *)
(* long as no two packets of one flow are handled at once: a flow that     *)
(* keeps a pin keeps its pod through list changes, failed writes and       *)
(* evictions, LRU, sweeps and restarts, also where they fall between two   *)
(* map operations of its packet.                                           *)
(***************************************************************************)
THEOREM AffinityStrict == Spec /\ []OneAtATime => []StrictAffinity
<1>1. Init => AffinityInv
  <2> SUFFICES ASSUME Init PROVE AffinityInv
    OBVIOUS
  <2>1. TypeOK
    BY TypeInit
  <2>2. \A c \in Cpus : cpu[c].at = "idle"
    BY DEF Init, Idle
  <2>3. bound \in [Flows -> SUBSET Pods] /\ \A f \in Flows : BoundAgrees(f)
    BY DEF Init, BoundAgrees, AgreesOn
  <2> QED BY <2>1, <2>2, <2>3 DEF AffinityInv
<1> QED BY <1>1, AffinityStep, AffinityImplied, PTL DEF Spec
=============================================================================
