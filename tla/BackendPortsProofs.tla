------------------------- MODULE BackendPortsProofs -------------------------
(***************************************************************************)
(* Proofs about BackendPorts, for any flows, fronts, port ranges and CPUs: *)
(* its types, that the probe takes no live row from another flow, and that *)
(* a remapped flow keeps its port.  The last two need packets that do not  *)
(* overlap on one port or one client port: the map operations of two CPUs  *)
(* are not atomic together, see README.                                    *)
(***************************************************************************)
EXTENDS BackendPorts, FlowRowProofs, FiniteSetTheorems, TLAPS

\* A packet of a client whose port is resolved.
Resolved(c) == cpu[c].at \in {"memo", "commit"}

\* No two CPUs handle packets of one source port towards the pod at once.
PortsApart ==
    \A c, d \in Cpus : c # d /\ cpu[c].at # "idle" /\ cpu[d].at # "idle" =>
        cpu[c].port # cpu[d].port

\* No two CPUs handle packets of one client port at once.
ClientsApart ==
    \A c, d \in Cpus : c # d /\ Resolved(c) /\ Resolved(d) =>
        cpu[c].flow[2] # cpu[d].flow[2]

\* A packet about to write a memo has a synthetic port.
MemoPackets ==
    [at : {"memo"}, flow : Flows, tcp : Segments, port : RemapPorts, kind : {"Remap"}]

TypeInv ==
    /\ TypeOK
    /\ cpu = [c \in Cpus |-> cpu[c]]
    /\ \A c \in Cpus : cpu[c].at = "memo" => cpu[c] \in MemoPackets

\* A row that was probed for a packet is still free for it.
ProbeInv ==
    /\ TypeInv
    /\ ProbeNeverSteals
    /\ \A c \in Cpus : Resolved(c) /\ cpu[c].kind # "Memoized" =>
         ~Taken(cpu[c].port, cpu[c].flow)

\* A flow holds the port of its memo.
HeldMemos ==
    /\ held = [f \in Flows |-> held[f]]
    /\ \A f \in Flows : held[f] # Nothing => memo[f[2]] = held[f]

\* A packet about to write a memo found none, so that no flow with that client
\* port holds a port.
MemosAwaited == \A c \in Cpus : cpu[c].at = "memo" => memo[cpu[c].flow[2]] = Nothing

HeldInv == TypeInv /\ RemapStable /\ HeldMemos /\ MemosAwaited

-----------------------------------------------------------------------------
(* The probe.                                                              *)

\* A set of naturals has a smallest one.
LEMMA LeastNatural ==
  ASSUME NEW S \in SUBSET Nat, S # {}
  PROVE  \E n \in S : \A m \in S : n <= m
<1> DEFINE T == {0 .. (n - 1) : n \in S}
           R == StrictSubsetOrdering(Nat)
<1>1. T \subseteq FiniteSubsetsOf(Nat)
  <2> SUFFICES ASSUME NEW n \in S PROVE 0 .. (n - 1) \in FiniteSubsetsOf(Nat)
    OBVIOUS
  <2>1. 0 .. (n - 1) \in SUBSET Nat
    OBVIOUS
  <2>2. IsFiniteSet(0 .. (n - 1))
    BY FS_Interval
  <2> QED BY <2>1, <2>2 DEF FiniteSubsetsOf
<1>2. T # {}
  OBVIOUS
<1>3. IsWellFoundedOn(R, FiniteSubsetsOf(Nat))
  BY FS_StrictSubsetOrderingWellFounded
<1> HIDE DEF R, T
<1>4. PICK x \in T : \A y \in T : <<y, x>> \notin R
  BY <1>1, <1>2, <1>3, WFMin
<1>5. PICK n \in S : x = 0 .. (n - 1)
  BY <1>4 DEF T
<1>6. ASSUME NEW m \in S, ~(n <= m) PROVE FALSE
  <2>1. 0 .. (m - 1) \in T
    BY DEF T
  <2>2. 0 .. (m - 1) \subseteq 0 .. (n - 1) /\ m \in 0 .. (n - 1) /\ m \notin 0 .. (m - 1)
    BY <1>6
  <2>3. <<0 .. (m - 1), 0 .. (n - 1)>> \in R
    BY <2>2 DEF R, StrictSubsetOrdering
  <2> QED BY <1>4, <1>5, <2>1, <2>3
<1> QED BY <1>6

\* ... which is the one that First chooses.
LEMMA FirstChosen ==
  ASSUME NEW S \in SUBSET Nat, S # {}
  PROVE  First(S) \in S
BY LeastNatural DEF First

\* Synthetic ports do not wrap around.
LEMMA RemapPortsFit == RemapPorts \subseteq Ports
BY PortsAssumption DEF PortsAssumption, RemapPorts, Ports

\* The remainder of a natural.
LEMMA RemainderRange ==
  ASSUME NEW x \in Nat, NEW m \in Nat \ {0}
  PROVE  x % m \in 0 .. (m - 1) /\ (x < m => x % m = x)
OBVIOUS

\* However far the probe goes, it stays in the synthetic range.
LEMMA CandidateType ==
  ASSUME NEW f \in Flows, NEW i \in Nat
  PROVE  Candidate(f, i) \in RemapPorts
<1> DEFINE off == (Seed[f[1]] + i) % RemapRange
<1>1. Seed[f[1]] + i \in Nat
  BY PortsAssumption DEF PortsAssumption
<1>2. off \in 0 .. (RemapRange - 1)
  BY <1>1, RemainderRange, PortsAssumption DEF PortsAssumption
<1> HIDE DEF off
<1>3. RemapBase + off \in RemapPorts /\ RemapBase + off \in Nat /\ RemapBase + off < PortMod
        /\ PortMod \in Nat \ {0}
  BY <1>2, PortsAssumption DEF PortsAssumption, RemapPorts
<1>4. (RemapBase + off) % PortMod = RemapBase + off
  BY <1>3, RemainderRange
<1> QED BY <1>3, <1>4 DEF Candidate, off

(***************************************************************************)
(* resolve_backend_src_port gives a flow its own port if that is free, or  *)
(* else a synthetic one that is free; only a flow that gets none is        *)
(* dropped.                                                                *)
(***************************************************************************)
LEMMA ResolutionFree ==
  ASSUME NEW f \in Flows
  PROVE  /\ Resolution(f).port \in Ports
         /\ Resolution(f).kind \in {"NoRemap", "Remap", "Exhausted"}
         /\ Resolution(f).kind = "Remap" => Resolution(f).port \in RemapPorts
         /\ Resolution(f).kind # "Exhausted" => ~Taken(Resolution(f).port, f)
<1>1. f[2] \in Ports
  BY PortsAssumption DEF PortsAssumption, Ports
<1>2. CASE ~Taken(f[2], f)
  BY <1>1, <1>2 DEF Resolution
<1>3. CASE Taken(f[2], f) /\ Offers(f) # {}
  <2>1. Offers(f) \in SUBSET Nat
    BY PortsAssumption DEF PortsAssumption, Offers
  <2>2. PICK i \in Offers(f) : i = First(Offers(f))
    BY <1>3, <2>1, FirstChosen
  <2>3. ~Taken(Candidate(f, i), f) /\ i \in Nat
    BY <2>1, <2>2 DEF Offers
  <2>4. Candidate(f, i) \in RemapPorts
    BY <2>3, CandidateType
  <2>5. Resolution(f) = [kind |-> "Remap", port |-> Candidate(f, i)]
    BY <1>3, <2>2 DEF Resolution
  <2> QED BY <2>3, <2>4, <2>5, RemapPortsFit
<1>4. CASE Taken(f[2], f) /\ Offers(f) = {}
  BY <1>1, <1>4 DEF Resolution
<1> QED BY <1>2, <1>3, <1>4

\* With the memo, the port is one of the node's in any case.
LEMMA BackendPortType ==
  ASSUME TypeOK, NEW f \in Flows
  PROVE  /\ BackendPort(f).port \in Ports
         /\ BackendPort(f).kind = "Remap" => BackendPort(f).port \in RemapPorts
         /\ BackendPort(f).kind = "Remap" => memo[f[2]] = Nothing
         /\ BackendPort(f).kind \notin {"Memoized", "Exhausted"} => ~Taken(BackendPort(f).port, f)
<1>1. CASE memo[f[2]] # Nothing
  <2>1. memo[f[2]] \in RemapPorts
    BY <1>1 DEF TypeOK, ClientPorts
  <2> QED BY <1>1, <2>1, RemapPortsFit DEF BackendPort
<1>2. CASE memo[f[2]] = Nothing
  BY <1>2, ResolutionFree DEF BackendPort
<1> QED BY <1>1, <1>2

-----------------------------------------------------------------------------
(* Types.                                                                  *)

\* A packet between two map operations.
PacketOK(p) ==
    \/ p.at = "idle"
    \/ p.at \in {"memo", "commit"} /\ p.flow \in Flows /\ p.port \in Ports /\ p.tcp \in Segments
    \/ p.at = "touch" /\ p.port \in Ports /\ p.row \in Rows /\ p.tcp \in Segments

\* The next one on a CPU, if it is typed, keeps the types.
LEMMA CpuType ==
  ASSUME TypeInv, NEW c \in Cpus, NEW p, cpu' = [cpu EXCEPT ![c] = p],
         PacketOK(p), p.at = "memo" => p \in MemoPackets
  PROVE  /\ cpu' = [d \in Cpus |-> cpu'[d]]
         /\ \A d \in Cpus : PacketOK(cpu'[d])
         /\ \A d \in Cpus : cpu'[d].at = "memo" => cpu'[d] \in MemoPackets
<1>1. cpu = [d \in Cpus |-> cpu[d]] /\ \A d \in Cpus : PacketOK(cpu[d])
  BY DEF TypeInv, TypeOK, PacketOK
<1>2. \A d \in Cpus : cpu'[d] = IF d = c THEN p ELSE cpu[d]
  BY <1>1
<1>3. cpu' = [d \in Cpus |-> cpu'[d]]
  BY <1>1
<1> QED BY <1>1, <1>2, <1>3 DEF TypeInv

\* The arrival of a packet.
LEMMA PacketTypes ==
  ASSUME TypeInv, Packet
  PROVE  TypeInv'
<1>0. UNCHANGED <<rev, memo, parity>>
  BY DEF Packet, ClientPacket, PodPacket
<1>1. PICK c \in Cpus, tcp \in Tcp :
         (\E f \in Flows : ClientPacket(c, f, tcp)) \/ (\E port \in Ports : PodPacket(c, port, tcp))
  BY DEF Packet
<1>2. tcp \in Segments
  BY PortsAssumption DEF PortsAssumption
<1>3. ASSUME NEW p, cpu' = [cpu EXCEPT ![c] = p], PacketOK(p),
             p.at = "memo" => p \in MemoPackets
      PROVE  TypeInv'
  BY <1>0, <1>3, CpuType DEF TypeInv, TypeOK, PacketOK
<1>4. ASSUME NEW f \in Flows, ClientPacket(c, f, tcp) PROVE TypeInv'
  <2> DEFINE port == BackendPort(f)
             q == [at |-> IF port.kind = "Remap" THEN "memo" ELSE "commit",
                   flow |-> f, tcp |-> tcp, port |-> port.port, kind |-> port.kind]
             p == IF port.kind = "Exhausted" THEN Idle ELSE q
  <2>1. port.port \in Ports /\ (port.kind = "Remap" => port.port \in RemapPorts)
    BY BackendPortType DEF TypeInv
  <2>2. cpu' = [cpu EXCEPT ![c] = p]
    BY <1>4 DEF ClientPacket
  <2> HIDE DEF port
  <2>3. PacketOK(p) /\ (p.at = "memo" => p \in MemoPackets)
    BY <1>2, <2>1 DEF PacketOK, Idle, MemoPackets
  <2> QED BY <1>3, <2>2, <2>3
<1>5. ASSUME NEW port \in Ports, PodPacket(c, port, tcp) PROVE TypeInv'
  <2> DEFINE p == IF EgressReturnOutcome(rev[port] # Nothing) = "PassThrough" THEN Idle
                  ELSE [at |-> "touch", port |-> port, tcp |-> tcp, row |-> rev[port]]
  <2>1. cpu' = [cpu EXCEPT ![c] = p]
    BY <1>5 DEF PodPacket
  <2>2. rev[port] # Nothing => rev[port] \in Rows
    BY DEF TypeInv, TypeOK
  <2>3. PacketOK(p) /\ p.at # "memo"
    BY <1>2, <2>2 DEF PacketOK, Idle, EgressReturnOutcome
  <2> QED BY <1>3, <2>1, <2>3
<1> QED BY <1>1, <1>4, <1>5

\* What a packet's map operation writes.
LEMMA ProceedTypes ==
  ASSUME TypeInv, NEW c \in Cpus, Proceed(c)
  PROVE  TypeInv'
<1>1. PICK p : p = cpu[c]
  OBVIOUS
<1>2. PacketOK(p) /\ (p.at = "memo" => p \in MemoPackets)
  BY <1>1 DEF TypeInv, TypeOK, PacketOK
<1>3. ASSUME NEW flags \in Flags, NEW side PROVE Stepped(flags, Proto, p.tcp, side, parity) \in Flags
  BY <1>3, SteppedMarked, PortsAssumption DEF PortsAssumption, TypeInv, TypeOK
<1>4. ASSUME Done(c), rev' \in [Ports -> Rows \cup {Nothing}], UNCHANGED <<memo, parity>>
      PROVE  TypeInv'
  <2>1. PacketOK(Idle) /\ Idle.at # "memo"
    BY DEF PacketOK, Idle
  <2> QED BY <1>4, <2>1, CpuType DEF Done, TypeInv, TypeOK, PacketOK
<1>5. CASE WriteMemo(c)
  <2>1. UNCHANGED <<rev, parity>> /\ p.at = "memo"
    BY <1>1, <1>5 DEF WriteMemo
  <2>2. CASE Done(c) /\ UNCHANGED memo
    BY <1>4, <2>1, <2>2 DEF TypeInv, TypeOK
  <2>3. CASE /\ memo' = [memo EXCEPT ![p.flow[2]] = p.port]
             /\ cpu' = [cpu EXCEPT ![c].at = "commit"]
    <3>1. memo' \in [ClientPorts -> RemapPorts \cup {Nothing}]
      BY <1>2, <2>1, <2>3 DEF TypeInv, TypeOK, MemoPackets
    <3>2. PICK q : q = [p EXCEPT !.at = "commit"]
      OBVIOUS
    <3>3. cpu' = [cpu EXCEPT ![c] = q]
      BY <1>1, <2>3, <3>2
    <3>4. q.at = "commit" /\ q.flow \in Flows /\ q.port \in RemapPorts /\ q.tcp \in Segments
      BY <1>2, <2>1, <3>2 DEF MemoPackets
    <3>5. PacketOK(q) /\ q.at # "memo"
      BY <3>4, RemapPortsFit DEF PacketOK
    <3> QED BY <2>1, <3>1, <3>3, <3>5, CpuType DEF TypeInv, TypeOK, PacketOK
  <2> QED BY <1>1, <1>5, <2>2, <2>3 DEF WriteMemo
<1>6. CASE CommitReverseRow(c)
  <2> DEFINE stored == rev[p.port]
             mine == stored # Nothing /\ stored.flow = p.flow
             old == IF mine THEN stored.flags ELSE NoFlags
             row == [flow |-> p.flow, flags |-> Stepped(old, Proto, p.tcp, "Client", parity)]
  <2>1. p.flow \in Flows /\ p.port \in Ports /\ Done(c) /\ UNCHANGED <<memo, parity>>
    BY <1>1, <1>2, <1>6 DEF CommitReverseRow, PacketOK
  <2>2. old \in Flags
    BY <2>1, NoFlagsType DEF TypeInv, TypeOK, Rows
  <2>3. rev' = rev \/ rev' = [rev EXCEPT ![p.port] = row]
    BY <1>1, <1>6 DEF CommitReverseRow
  <2> HIDE DEF old
  <2>4. row \in Rows
    BY <1>3, <2>1, <2>2 DEF Rows
  <2> HIDE DEF row
  <2> QED BY <1>4, <2>1, <2>3, <2>4 DEF TypeInv, TypeOK
<1>7. CASE TouchReturnRow(c)
  <2> DEFINE flags == Stepped(p.row.flags, Proto, p.tcp, "Pod", parity)
             row == [p.row EXCEPT !.flags = flags]
  <2>1. p.row \in Rows /\ Done(c) /\ UNCHANGED <<memo, parity>>
    BY <1>1, <1>2, <1>7 DEF TouchReturnRow, PacketOK
  <2>2. rev' = rev \/ rev' = [rev EXCEPT ![p.port] = row]
    BY <1>1, <1>7 DEF TouchReturnRow
  <2>3. flags \in Flags
    BY <1>3, <2>1 DEF Rows
  <2> HIDE DEF flags
  <2>4. row \in Rows
    BY <2>1, <2>3 DEF Rows
  <2> HIDE DEF row
  <2> QED BY <1>4, <2>1, <2>2, <2>4 DEF TypeInv, TypeOK
<1> QED BY <1>5, <1>6, <1>7 DEF Proceed

\* Every step keeps the types.
LEMMA TypeStep == TypeInv /\ [Next]_vars => TypeInv'
<1> SUFFICES ASSUME TypeInv, [Next]_vars PROVE TypeInv'
  OBVIOUS
<1>1. CASE Packet
  BY <1>1, PacketTypes
<1>2. CASE \E c \in Cpus : Proceed(c)
  BY <1>2, ProceedTypes
<1>3. CASE LruTakes \/ SweepDelete
  <2>1. UNCHANGED <<cpu, parity>>
    BY <1>3 DEF LruTakes, SweepDelete, Sweeping
  <2>2. rev' = rev \/ \E port : rev' = [rev EXCEPT ![port] = Nothing]
    BY <1>3 DEF LruTakes, SweepDelete
  <2>3. memo' = memo \/ \E cp : memo' = [memo EXCEPT ![cp] = Nothing]
    BY <1>3 DEF LruTakes, SweepDelete
  <2>4. /\ rev' \in [Ports -> Rows \cup {Nothing}]
        /\ memo' \in [ClientPorts -> RemapPorts \cup {Nothing}]
    BY <2>2, <2>3 DEF TypeInv, TypeOK
  <2> QED BY <2>1, <2>4 DEF TypeInv, TypeOK
<1>4. CASE SweepEnd
  <2>1. UNCHANGED <<cpu, rev, memo>>
    BY <1>4 DEF SweepEnd, Sweeping
  <2>2. parity' = parity \/ parity' = [parity EXCEPT ![ctl.class] = ~@]
    BY <1>4 DEF SweepEnd
  <2>3. parity' \in GcParity
    BY <2>2 DEF TypeInv, TypeOK, GcParity
  <2> QED BY <2>1, <2>3 DEF TypeInv, TypeOK
<1>5. CASE (\E class \in Protos : SweepScan(class)) \/ (\E k \in Keys : StillIdle(k))
             \/ UNCHANGED vars
  <2>1. UNCHANGED <<cpu, rev, memo, parity>>
    BY <1>5 DEF SweepScan, StillIdle, Sweeping, vars
  <2> QED BY <2>1 DEF TypeInv, TypeOK
<1> QED BY <1>1, <1>2, <1>3, <1>4, <1>5 DEF Next, Sweep

\* Nothing is in the tables at first.
LEMMA TypeInit == Init => TypeInv
BY DEF Init, TypeInv, TypeOK, Idle

(***************************************************************************)
(* Types, and that a memo always names a synthetic port, for any seeds and *)
(* any range of ports, however far the probe went.                         *)
(***************************************************************************)
THEOREM TypeCorrect == Spec => []TypeOK
<1>1. TypeInv => TypeOK
  BY DEF TypeInv
<1> QED BY <1>1, TypeInit, TypeStep, PTL DEF Spec

-----------------------------------------------------------------------------
(* The probe and the rows of other flows.                                  *)

\* A free row stays free when only deletions touch it.
LEMMA FreeStays ==
  ASSUME NEW port, NEW f, rev'[port] \in {rev[port], Nothing}, ~Taken(port, f)
  PROVE  ~Taken(port, f)'
BY DEF Taken

\* What a CPU does changes the row of its packet's port only.
LEMMA RowsOfOthers ==
  ASSUME TypeInv, NEW c \in Cpus, Proceed(c)
  PROVE  /\ cpu[c].at # "idle"
         /\ \A port \in Ports \ {cpu[c].port} : rev'[port] = rev[port]
         /\ \A d \in Cpus \ {c} : cpu'[d] = cpu[d]
<1>1. cpu[c].at # "idle"
  BY DEF Proceed, WriteMemo, CommitReverseRow, TouchReturnRow
<1>2. rev' = rev \/ \E row : rev' = [rev EXCEPT ![cpu[c].port] = row]
  BY DEF Proceed, WriteMemo, CommitReverseRow, TouchReturnRow
<1>3. \E p : cpu' = [cpu EXCEPT ![c] = p]
  BY DEF Proceed, WriteMemo, CommitReverseRow, TouchReturnRow, Done
<1>4. \A port \in Ports \ {cpu[c].port} : rev'[port] = rev[port]
  BY <1>2 DEF TypeInv, TypeOK
<1>5. \A d \in Cpus \ {c} : cpu'[d] = cpu[d]
  BY <1>3 DEF TypeInv
<1> QED BY <1>1, <1>4, <1>5

\* A CPU goes on with a packet only from its memo to its row.
LEMMA ProceedPacket ==
  ASSUME TypeInv, NEW c \in Cpus, Proceed(c), cpu'[c].at # "idle"
  PROVE  /\ cpu[c].at = "memo" /\ cpu'[c].at = "commit" /\ UNCHANGED <<rev, held>>
         /\ cpu'[c].port = cpu[c].port /\ cpu'[c].flow = cpu[c].flow /\ cpu'[c].kind = cpu[c].kind
<1>1. ~Done(c)
  BY DEF Done, Idle, TypeInv
<1>2. WriteMemo(c) /\ cpu' = [cpu EXCEPT ![c].at = "commit"]
  BY <1>1 DEF Proceed, WriteMemo, CommitReverseRow, TouchReturnRow
<1>3. cpu[c].at = "memo" /\ cpu[c] \in MemoPackets /\ UNCHANGED <<rev, held>>
  BY <1>2 DEF WriteMemo, TypeInv
<1>4. cpu'[c] = [cpu[c] EXCEPT !.at = "commit"]
  BY <1>2 DEF TypeInv
<1> QED BY <1>3, <1>4 DEF MemoPackets

\* Every step keeps it as long as packets of one port do not overlap.
LEMMA ProbeStep == ProbeInv /\ PortsApart /\ [Next]_vars => ProbeInv'
<1> SUFFICES ASSUME ProbeInv, PortsApart, [Next]_vars
             PROVE  /\ ProbeNeverSteals'
                    /\ \A d \in Cpus : Resolved(d)' /\ cpu'[d].kind # "Memoized" =>
                         ~Taken(cpu[d].port, cpu[d].flow)'
  BY TypeStep DEF ProbeInv
<1>0. TypeInv /\ ProbeNeverSteals
  BY DEF ProbeInv
<1>1. ASSUME UNCHANGED <<cpu, stolen>>, \A port \in Ports : rev'[port] \in {rev[port], Nothing}
      PROVE  /\ ProbeNeverSteals'
             /\ \A d \in Cpus : Resolved(d)' /\ cpu'[d].kind # "Memoized" =>
                  ~Taken(cpu[d].port, cpu[d].flow)'
  <2>1. ASSUME NEW d \in Cpus, Resolved(d)', cpu'[d].kind # "Memoized"
        PROVE  ~Taken(cpu[d].port, cpu[d].flow)'
    <3>1. PICK p : p = cpu[d]
      OBVIOUS
    <3>2. cpu'[d] = p /\ p.port \in Ports /\ ~Taken(p.port, p.flow)
      BY <1>1, <2>1, <3>1 DEF Resolved, ProbeInv, TypeInv, TypeOK
    <3>3. ~Taken(p.port, p.flow)'
      BY <1>1, <3>2, FreeStays
    <3> QED BY <3>2, <3>3 DEF Taken
  <2> QED BY <1>1, <2>1 DEF ProbeInv, ProbeNeverSteals
<1>2. CASE Packet
  <2>1. UNCHANGED <<rev, memo, stolen>>
    BY <1>2 DEF Packet, ClientPacket, PodPacket
  <2>2. PICK c \in Cpus, tcp \in Tcp :
           (\E f \in Flows : ClientPacket(c, f, tcp)) \/ (\E port \in Ports : PodPacket(c, port, tcp))
    BY <1>2 DEF Packet
  <2>3. ASSUME NEW d \in Cpus, Resolved(d)', cpu'[d].kind # "Memoized"
        PROVE  ~Taken(cpu[d].port, cpu[d].flow)'
    <3>1. CASE d # c
      <4>1. \E q : cpu' = [cpu EXCEPT ![c] = q]
        BY <2>2 DEF ClientPacket, PodPacket
      <4>2. cpu'[d] = cpu[d]
        BY <1>0, <3>1, <4>1 DEF TypeInv
      <4>3. ~Taken(cpu[d].port, cpu[d].flow)
        BY <2>3, <4>2 DEF ProbeInv, Resolved
      <4> QED BY <2>1, <4>2, <4>3 DEF Taken
    <3>2. CASE d = c
      <4>1. CASE \E port \in Ports : PodPacket(c, port, tcp)
        <5>1. cpu'[c].at \in {"idle", "touch"}
          BY <1>0, <4>1 DEF PodPacket, TypeInv, Idle
        <5> QED BY <2>3, <3>2, <5>1 DEF Resolved
      <4>2. ASSUME NEW f \in Flows, ClientPacket(c, f, tcp)
            PROVE  ~Taken(cpu[d].port, cpu[d].flow)'
        <5>1. PICK port : port = BackendPort(f)
          OBVIOUS
        <5>2. cpu'[c] = IF port.kind = "Exhausted" THEN Idle
                        ELSE [at |-> IF port.kind = "Remap" THEN "memo" ELSE "commit",
                              flow |-> f, tcp |-> tcp, port |-> port.port, kind |-> port.kind]
          BY <1>0, <4>2, <5>1 DEF ClientPacket, TypeInv
        <5>3. port.kind # "Exhausted"
          BY <2>3, <3>2, <5>2 DEF Resolved, Idle
        <5>4. cpu'[c].port = port.port /\ cpu'[c].flow = f /\ cpu'[c].kind = port.kind
          BY <5>2, <5>3
        <5>5. ~Taken(port.port, f)
          BY <1>0, <2>3, <3>2, <5>1, <5>3, <5>4, BackendPortType DEF TypeInv
        <5> QED BY <2>1, <3>2, <5>4, <5>5 DEF Taken
      <4> QED BY <2>2, <4>1, <4>2
    <3> QED BY <3>1, <3>2
  <2> QED BY <1>0, <2>1, <2>3 DEF ProbeNeverSteals
<1>3. ASSUME NEW c \in Cpus, Proceed(c)
      PROVE  /\ ProbeNeverSteals'
             /\ \A d \in Cpus : Resolved(d)' /\ cpu'[d].kind # "Memoized" =>
                  ~Taken(cpu[d].port, cpu[d].flow)'
  <2>1. /\ cpu[c].at # "idle"
        /\ \A port \in Ports \ {cpu[c].port} : rev'[port] = rev[port]
        /\ \A d \in Cpus \ {c} : cpu'[d] = cpu[d]
    BY <1>0, <1>3, RowsOfOthers
  <2>2. ProbeNeverSteals'
    <3>1. CASE stolen' = stolen
      BY <1>0, <3>1 DEF ProbeNeverSteals
    <3>2. CASE stolen' # stolen
      <4>1. /\ CommitReverseRow(c)
            /\ cpu[c].at = "commit"
            /\ rev[cpu[c].port] # Nothing /\ ~rev[cpu[c].port].flags.closed
            /\ rev[cpu[c].port].flow # cpu[c].flow
            /\ stolen' = stolen \cup {IF cpu[c].kind = "Memoized" THEN "memo" ELSE "probe"}
        BY <1>3, <3>2 DEF Proceed, WriteMemo, TouchReturnRow, CommitReverseRow
      <4>2. cpu[c].kind = "Memoized"
        BY <4>1 DEF ProbeInv, Resolved, Taken
      <4> QED BY <1>0, <4>1, <4>2 DEF ProbeNeverSteals
    <3> QED BY <3>1, <3>2
  <2>3. ASSUME NEW d \in Cpus, Resolved(d)', cpu'[d].kind # "Memoized"
        PROVE  ~Taken(cpu[d].port, cpu[d].flow)'
    <3>1. CASE d # c
      <4>1. cpu'[d] = cpu[d] /\ Resolved(d) /\ ~Taken(cpu[d].port, cpu[d].flow)
        BY <2>1, <2>3, <3>1 DEF Resolved, ProbeInv
      <4>2. cpu[d].port \in Ports \ {cpu[c].port}
        BY <1>0, <2>1, <3>1, <4>1 DEF PortsApart, Resolved, TypeInv, TypeOK
      <4> QED BY <2>1, <4>1, <4>2 DEF Taken
    <3>2. CASE d = c
      <4>1. /\ cpu[c].at = "memo" /\ UNCHANGED rev
            /\ cpu'[c].port = cpu[c].port /\ cpu'[c].flow = cpu[c].flow
            /\ cpu'[c].kind = cpu[c].kind
        BY <1>0, <1>3, <2>3, <3>2, ProceedPacket DEF Resolved
      <4>2. ~Taken(cpu[c].port, cpu[c].flow)
        BY <2>3, <3>2, <4>1 DEF ProbeInv, Resolved
      <4> QED BY <3>2, <4>1, <4>2 DEF Taken
    <3> QED BY <3>1, <3>2
  <2> QED BY <2>2, <2>3
<1>4. CASE LruTakes \/ SweepDelete
  <2>1. UNCHANGED <<cpu, stolen>>
    BY <1>4 DEF LruTakes, SweepDelete, Sweeping
  <2>2. rev' = rev \/ \E port : rev' = [rev EXCEPT ![port] = Nothing]
    BY <1>4 DEF LruTakes, SweepDelete
  <2>3. \A port \in Ports : rev'[port] \in {rev[port], Nothing}
    BY <1>0, <2>2 DEF TypeInv, TypeOK
  <2> QED BY <1>1, <2>1, <2>3
<1>5. CASE (\E class \in Protos : SweepScan(class)) \/ (\E k \in Keys : StillIdle(k))
             \/ SweepEnd \/ UNCHANGED vars
  <2>1. UNCHANGED <<cpu, rev, stolen>>
    BY <1>5 DEF SweepScan, StillIdle, SweepEnd, Sweeping, vars
  <2> QED BY <1>1, <2>1
<1> QED BY <1>2, <1>3, <1>4, <1>5 DEF Next, Sweep

(***************************************************************************)
(* The probe never takes a live row from another flow, for any flows and   *)
(* CPUs, whatever the LRU, the sweep and failing writes do in between, as  *)
(* long as no two packets of one port are handled at once.                 *)
(***************************************************************************)
THEOREM ProbeSparesLiveRows == Spec /\ []PortsApart => []ProbeNeverSteals
<1>1. Init => ProbeInv
  BY TypeInit DEF Init, ProbeInv, ProbeNeverSteals, Resolved, Idle
<1>2. ProbeInv => ProbeNeverSteals
  BY DEF ProbeInv
<1> QED BY <1>1, <1>2, ProbeStep, PTL DEF Spec

-----------------------------------------------------------------------------
(* The port of a remapped flow.                                            *)

\* Every step keeps it as long as packets of one client port do not overlap.
LEMMA HeldStep == HeldInv /\ ClientsApart /\ [Next]_vars => HeldInv'
<1> SUFFICES ASSUME HeldInv, ClientsApart, [Next]_vars
             PROVE  RemapStable' /\ HeldMemos' /\ MemosAwaited'
  BY TypeStep DEF HeldInv
<1>0. /\ TypeInv /\ RemapStable /\ HeldMemos /\ MemosAwaited
      /\ memo \in [ClientPorts -> RemapPorts \cup {Nothing}]
      /\ \A f \in Flows : f[2] \in ClientPorts
  BY DEF HeldInv, TypeInv, TypeOK, ClientPorts
<1>1. ASSUME moved' = moved PROVE RemapStable'
  BY <1>0, <1>1 DEF RemapStable
<1>2. CASE Packet
  <2>1. UNCHANGED <<memo, held>>
    BY <1>2 DEF Packet, ClientPacket, PodPacket
  <2>2. PICK c \in Cpus, tcp \in Tcp :
           (\E f \in Flows : ClientPacket(c, f, tcp)) \/ (\E port \in Ports : PodPacket(c, port, tcp))
    BY <1>2 DEF Packet
  <2>3. \A d \in Cpus \ {c} : cpu'[d] = cpu[d]
    <3>1. \E q : cpu' = [cpu EXCEPT ![c] = q]
      BY <2>2 DEF ClientPacket, PodPacket
    <3> QED BY <1>0, <3>1 DEF TypeInv
  <2>4. RemapStable' /\ (cpu'[c].at = "memo" => memo[cpu'[c].flow[2]] = Nothing)
    <3>1. CASE \E port \in Ports : PodPacket(c, port, tcp)
      <4>1. cpu'[c].at \in {"idle", "touch"} /\ moved' = moved
        BY <1>0, <3>1 DEF PodPacket, TypeInv, Idle
      <4> QED BY <1>1, <4>1
    <3>2. ASSUME NEW f \in Flows, ClientPacket(c, f, tcp)
          PROVE  RemapStable' /\ (cpu'[c].at = "memo" => memo[cpu'[c].flow[2]] = Nothing)
      <4>1. PICK port : port = BackendPort(f)
        OBVIOUS
      <4>2. cpu'[c] = IF port.kind = "Exhausted" THEN Idle
                      ELSE [at |-> IF port.kind = "Remap" THEN "memo" ELSE "commit",
                            flow |-> f, tcp |-> tcp, port |-> port.port, kind |-> port.kind]
        BY <1>0, <3>2, <4>1 DEF ClientPacket, TypeInv
      <4>3. cpu'[c].at = "memo" => port.kind = "Remap" /\ cpu'[c].flow = f
        BY <4>2 DEF Idle
      <4>4. port.kind = "Remap" => memo[f[2]] = Nothing
        BY <1>0, <4>1, BackendPortType DEF TypeInv
      <4>5. ~(Holds(f) /\ port.port # held[f])
        BY <1>0, <4>1 DEF Holds, HeldMemos, BackendPort
      <4>6. moved' => moved \/ (Holds(f) /\ port.port # held[f])
        BY <3>2, <4>1 DEF ClientPacket
      <4> QED BY <1>0, <4>3, <4>4, <4>5, <4>6 DEF RemapStable
    <3> QED BY <2>2, <3>1, <3>2
  <2>5. MemosAwaited'
    BY <1>0, <2>1, <2>3, <2>4 DEF MemosAwaited
  <2>6. HeldMemos'
    BY <1>0, <2>1 DEF HeldMemos
  <2> QED BY <2>4, <2>5, <2>6
<1>3. ASSUME NEW c \in Cpus, Proceed(c) PROVE RemapStable' /\ HeldMemos' /\ MemosAwaited'
  <2>1. moved' = moved
    BY <1>3 DEF Proceed, WriteMemo, CommitReverseRow, TouchReturnRow
  <2>2. \A d \in Cpus \ {c} : cpu'[d] = cpu[d]
    BY <1>0, <1>3, RowsOfOthers
  <2>3. cpu'[c].at # "memo"
    BY <1>0, <1>3, ProceedPacket
  <2>4. ASSUME UNCHANGED memo PROVE MemosAwaited'
    BY <1>0, <2>2, <2>3, <2>4 DEF MemosAwaited
  <2>5. CASE memo' # memo
    <3>1. PICK p : p = cpu[c]
      OBVIOUS
    <3>2. /\ p.at = "memo" /\ memo' = [memo EXCEPT ![p.flow[2]] = p.port] /\ held' = held
      BY <1>3, <2>5, <3>1 DEF Proceed, WriteMemo, CommitReverseRow, TouchReturnRow
    <3>3. p.flow \in Flows /\ memo[p.flow[2]] = Nothing
      BY <1>0, <3>1, <3>2 DEF MemosAwaited, TypeInv, TypeOK
    <3>4. \A f \in Flows : f[2] = p.flow[2] => held[f] = Nothing
      BY <1>0, <3>3 DEF HeldMemos
    <3>5. \A f \in Flows : f[2] # p.flow[2] => memo'[f[2]] = memo[f[2]]
      BY <1>0, <3>2
    <3>6. HeldMemos'
      BY <1>0, <3>2, <3>4, <3>5 DEF HeldMemos
    <3>7. ASSUME NEW d \in Cpus, cpu'[d].at = "memo" PROVE memo'[cpu'[d].flow[2]] = Nothing
      <4>1. d # c /\ cpu'[d] = cpu[d]
        BY <2>2, <2>3, <3>7
      <4>2. cpu[d].flow \in Flows /\ cpu[d].flow[2] # p.flow[2] /\ memo[cpu[d].flow[2]] = Nothing
        BY <1>0, <3>1, <3>2, <3>7, <4>1
           DEF ClientsApart, Resolved, MemosAwaited, TypeInv, TypeOK
      <4> QED BY <3>5, <4>1, <4>2
    <3> QED BY <1>1, <2>1, <3>6, <3>7 DEF MemosAwaited
  <2>6. CASE memo' = memo
    <3>1. CASE held' = held
      BY <1>0, <1>1, <2>1, <2>4, <2>6, <3>1 DEF HeldMemos
    <3>2. CASE held' # held
      <4>1. PICK p : p = cpu[c]
        OBVIOUS
      <4>2. memo[p.flow[2]] = p.port /\ held' = [held EXCEPT ![p.flow] = p.port]
        BY <1>3, <3>2, <4>1 DEF Proceed, WriteMemo, CommitReverseRow, TouchReturnRow
      <4>3. HeldMemos'
        BY <1>0, <2>6, <4>2 DEF HeldMemos
      <4> QED BY <1>1, <2>1, <2>4, <2>6, <4>3
    <3> QED BY <3>1, <3>2
  <2> QED BY <2>5, <2>6
<1>4. CASE LruTakes \/ SweepDelete
  <2>1. UNCHANGED <<cpu, moved>>
    BY <1>4 DEF LruTakes, SweepDelete, Sweeping
  <2>2. CASE UNCHANGED memo /\ \E port : ForgetPort(port)
    <3>1. HeldMemos'
      BY <1>0, <2>2 DEF HeldMemos, ForgetPort
    <3> QED BY <1>0, <1>1, <2>1, <2>2, <3>1 DEF MemosAwaited
  <2>3. CASE \E cp : memo' = [memo EXCEPT ![cp] = Nothing] /\ ForgetMemo(cp)
    <3>1. PICK cp : memo' = [memo EXCEPT ![cp] = Nothing] /\ ForgetMemo(cp)
      BY <2>3
    <3>2. \A q \in ClientPorts : memo'[q] = IF q = cp THEN Nothing ELSE memo[q]
      BY <1>0, <3>1
    <3>3. HeldMemos'
      BY <1>0, <3>1, <3>2 DEF HeldMemos, ForgetMemo
    <3>4. \A d \in Cpus : cpu[d].at = "memo" => cpu[d].flow[2] \in ClientPorts
      BY <1>0 DEF TypeInv, TypeOK
    <3>5. MemosAwaited'
      BY <1>0, <2>1, <3>2, <3>4 DEF MemosAwaited
    <3> QED BY <1>1, <2>1, <3>3, <3>5
  <2> QED BY <1>4, <2>2, <2>3 DEF LruTakes, SweepDelete
<1>5. CASE (\E class \in Protos : SweepScan(class)) \/ (\E k \in Keys : StillIdle(k))
             \/ SweepEnd \/ UNCHANGED vars
  <2>1. UNCHANGED <<cpu, memo, held, moved>>
    BY <1>5 DEF SweepScan, StillIdle, SweepEnd, Sweeping, vars
  <2> QED BY <1>0, <1>1, <2>1 DEF HeldMemos, MemosAwaited
<1> QED BY <1>2, <1>3, <1>4, <1>5 DEF Next, Sweep

(***************************************************************************)
(* A remapped flow keeps its port as long as its row and its memo are      *)
(* there, for any flows and CPUs, as long as no two packets of one client  *)
(* port are handled at once: the port a packet is given is the memo's, and *)
(* no packet of another flow writes a memo that exists.                    *)
(***************************************************************************)
THEOREM RemappedFlowsStay == Spec /\ []ClientsApart => []RemapStable
<1>1. Init => HeldInv
  BY TypeInit DEF Init, HeldInv, HeldMemos, MemosAwaited, RemapStable, Idle
<1>2. HeldInv => RemapStable
  BY DEF HeldInv
<1> QED BY <1>1, <1>2, HeldStep, PTL DEF Spec
=============================================================================
