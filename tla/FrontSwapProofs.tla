--------------------------- MODULE FrontSwapProofs ---------------------------
(***************************************************************************)
(* Proofs about FrontSwap, for any fronts, endpoint sets and bounds: its   *)
(* types, that a live generation is always whole, that the two maps        *)
(* implement FrontRegister, how much room they need, and what a packet     *)
(* between its two lookups may rely on.                                    *)
(***************************************************************************)
EXTENDS FrontSwap, FiniteSetTheorems, SequenceTheorems, TLAPS

(***************************************************************************)
(* The local prefix of a DesiredFront is a number (local_count).           *)
(***************************************************************************)
LEMMA LocalCountType ==
  ASSUME NEW w \in Wants
  PROVE  LocalCount(w) \in Nat
<1> DEFINE run == {n \in 1..Len(w.endpoints) :
                     \A i \in 1..n : w.endpoints[i] \in LocalEndpoints}
<1>1. w.endpoints \in Seq(Endpoints)
  BY DesiredAssumption DEF DesiredAssumption
<1>2. IsFiniteSet(1..Len(w.endpoints))
  BY <1>1, FS_Interval
<1>3. IsFiniteSet(run)
  BY <1>2, FS_Subset
<1>4. Cardinality(run) \in Nat
  BY <1>3, FS_CardinalityType
<1> QED BY <1>4 DEF LocalCount

(***************************************************************************)
(* A generation and its successor are generations and differ, also where   *)
(* the u32 wraps (plan_front_writes).                                      *)
(***************************************************************************)
LEMMA NextGenType ==
  ASSUME NEW g \in Gens
  PROVE  NextGen(g) \in Gens /\ NextGen(g) # g
<1>1. GenMod \in Nat /\ GenMod > 2 /\ g \in Nat /\ g < GenMod
  BY SwapAssumption DEF SwapAssumption, Gens
<1>2. CASE g + 1 < GenMod
  <2>1. (g + 1) % GenMod = g + 1
    BY <1>1, <1>2
  <2> QED BY <1>1, <1>2, <2>1 DEF NextGen, Gens
<1>3. CASE g + 1 = GenMod
  <2>1. (g + 1) % GenMod = 0
    BY <1>1, <1>3
  <2> QED BY <1>1, <1>3, <2>1 DEF NextGen, Gens
<1> QED BY <1>1, <1>2, <1>3

(***************************************************************************)
(* What plan_front_writes makes is a plan.                                 *)
(***************************************************************************)
LEMMA PlanType ==
  ASSUME TypeOK, NEW f \in Fronts
  PROVE  /\ PlanFor(f) \in Works
         /\ Len(PlanFor(f).puts) <= MaxSlots
         /\ PlanFor(f).at = 1
<1>1. NoWork \in Works /\ Len(NoWork.puts) = 0 /\ NoWork.at = 1
  BY SwapAssumption DEF NoWork, Works, Gens, SwapAssumption
<1>2. MaxSlots \in Nat
  BY DesiredAssumption DEF DesiredAssumption
<1>3. Existing(f) \subseteq Keys
  BY DEF Existing
<1>4. CASE want[f] = Nothing
  <2>1. WithdrawPlan(f) \in Works /\ WithdrawPlan(f).puts = <<>> /\ WithdrawPlan(f).at = 1
    BY <1>1, <1>3 DEF WithdrawPlan, Works, NoWork
  <2> QED BY <1>1, <1>2, <1>4, <2>1 DEF PlanFor
<1>5. CASE want[f] # Nothing
  <2>1. want[f] \in Wants
    BY <1>5 DEF TypeOK
  <2>2. /\ want[f].endpoints \in Seq(Endpoints)
        /\ Len(want[f].endpoints) \in 0..MaxSlots
        /\ want[f].flags \in {0, 1}
        /\ LocalCount(want[f]) \in Nat
    BY <2>1, LocalCountType, DesiredAssumption DEF DesiredAssumption
  <2>3. ASSUME Unchanged(f)
        PROVE  CleanPlan(f) \in Works /\ CleanPlan(f).puts = <<>> /\ CleanPlan(f).at = 1
    <3>1. meta[f] \in Metas
      BY <2>3 DEF Unchanged, TypeOK
    <3>2. [meta[f] EXCEPT !.flags = want[f].flags] \in Metas
      BY <3>1, <2>2 DEF Metas
    <3> QED BY <1>1, <1>3, <3>2 DEF CleanPlan, Works, NoWork
  <2>4. SwapPlan(f) \in Works /\ SwapPlan(f).puts = want[f].endpoints /\ SwapPlan(f).at = 1
    <3>1. SwapGen(f) \in Gens
      <4>1. CASE meta[f] = Nothing
        BY <4>1, SwapAssumption DEF SwapGen, Gens, SwapAssumption
      <4>2. CASE meta[f] # Nothing
        BY <4>2, NextGenType DEF SwapGen, TypeOK, Metas
      <4> QED BY <4>1, <4>2
    <3>2. Superseded(f) \subseteq Keys
      BY <1>3 DEF Superseded
    <3> QED BY <2>2, <3>1, <3>2 DEF SwapPlan, Works, Metas
  <2> QED BY <1>1, <1>2, <1>5, <2>2, <2>3, <2>4 DEF PlanFor
<1> QED BY <1>4, <1>5

\* What the deletion of the FRONT_META row leaves of a plan (run_front_plan).
LEMMA WithdrawPart ==
  ASSUME NEW p \in Works
  PROVE  LET q == [p EXCEPT !.withdraw = FALSE]
         IN  /\ q \in Works /\ q.withdraw = FALSE /\ q.dels = p.dels /\ q.gen = p.gen
             /\ q.puts = p.puts /\ q.at = p.at /\ q.commit = p.commit
BY DEF Works

\* What the deletion of one endpoint row leaves of a plan (run_front_plan).
LEMMA DeletePart ==
  ASSUME NEW p \in Works, NEW d \in SUBSET Keys
  PROVE  LET q == [p EXCEPT !.dels = d]
         IN  /\ q \in Works /\ q.withdraw = p.withdraw /\ q.dels = d /\ q.gen = p.gen
             /\ q.puts = p.puts /\ q.at = p.at /\ q.commit = p.commit
BY DEF Works

\* What the write of one endpoint row leaves of a plan (run_front_plan).
LEMMA SlotPart ==
  ASSUME NEW p \in Works, NEW n \in Nat
  PROVE  LET q == [p EXCEPT !.at = n]
         IN  /\ q \in Works /\ q.withdraw = p.withdraw /\ q.dels = p.dels /\ q.gen = p.gen
             /\ q.puts = p.puts /\ q.at = n /\ q.commit = p.commit
BY DEF Works

\* What the commit leaves of a plan (run_front_plan).
LEMMA CommitPart ==
  ASSUME NEW p \in Works
  PROVE  LET q == [p EXCEPT !.commit = Nothing]
         IN  /\ q \in Works /\ q.withdraw = p.withdraw /\ q.dels = p.dels /\ q.gen = p.gen
             /\ q.puts = p.puts /\ q.at = p.at /\ q.commit = Nothing
BY DEF Works

-----------------------------------------------------------------------------
(***************************************************************************)
(* Starting a pass keeps the types.                                        *)
(***************************************************************************)
LEMMA BeginPassType ==
  ASSUME TypeOK, NEW w \in [Fronts -> Wants \cup {Nothing}],
         NEW swept \in BOOLEAN, NEW held \in Withholdable(w),
         BeginPass(w, swept, held), events' \in Nat
  PROVE  TypeOK'
<1>1. held \subseteq Fronts
  BY DEF Withholdable
<1>2. faults' \in Nat
  BY DEF BeginPass, TypeOK
<1>3. pc' \in {"down", "idle", "pass"} /\ withheld' \subseteq Fronts /\ todo' \subseteq Fronts
  BY <1>1 DEF BeginPass, TypeOK
<1>4. swapped' \subseteq Fronts /\ failed' \in BOOLEAN /\ retry' \in BOOLEAN
  BY DEF BeginPass, TypeOK, tally
<1> QED BY <1>2, <1>3, <1>4 DEF BeginPass, TypeOK, maps, plan

(***************************************************************************)
(* So does a write, whether it succeeds, fails or meets a full map.        *)
(***************************************************************************)
LEMMA OutcomeType ==
  ASSUME TypeOK, Succeeds \/ Fails \/ (failed' = TRUE /\ UNCHANGED faults)
  PROVE  failed' \in BOOLEAN /\ faults' \in Nat
<1>1. failed' \in BOOLEAN
  BY Zenon DEF TypeOK, Succeeds, Fails
<1>2. faults' \in Nat
  BY DEF TypeOK, Succeeds, Fails
<1> QED BY <1>1, <1>2

\* The fronts found at the start have the types.
LEMMA TypeInit == Init => TypeOK
<1> SUFFICES ASSUME Init PROVE TypeOK
  OBVIOUS
<1>1. ASSUME NEW f \in Fronts, want[f] # Nothing
      PROVE  [gen |-> FirstGen, count |-> Len(want[f].endpoints),
              localCount |-> LocalCount(want[f]), flags |-> want[f].flags] \in Metas
  <2>1. want[f] \in Wants
    BY <1>1 DEF Init
  <2> QED BY <2>1, LocalCountType, DesiredAssumption, SwapAssumption
          DEF DesiredAssumption, SwapAssumption, Metas, Gens
<1>2. meta \in [Fronts -> Metas \cup {Nothing}]
  BY <1>1 DEF Init
<1>3. rows \in [Fronts \X Gens \X Slots -> Endpoints \cup {Nothing}]
  <2>1. ASSUME NEW k \in Fronts \X Gens \X Slots, want[k[1]] # Nothing,
               k[3] <= Len(want[k[1]].endpoints)
        PROVE  want[k[1]].endpoints[k[3]] \in Endpoints
    <3>1. want[k[1]] \in Wants /\ k[3] \in 1..MaxSlots
      BY <2>1 DEF Init, Slots
    <3>2. want[k[1]].endpoints \in Seq(Endpoints)
      BY <3>1, DesiredAssumption DEF DesiredAssumption
    <3>3. k[3] \in 1..Len(want[k[1]].endpoints)
      BY <2>1, <3>1, <3>2, DesiredAssumption DEF DesiredAssumption
    <3> QED BY <3>2, <3>3
  <2> QED BY <2>1 DEF Init
<1>4. NoWork \in Works /\ Len(NoWork.puts) <= MaxSlots
         /\ NoWork.at \in 1..(Len(NoWork.puts) + 1)
  BY SwapAssumption, DesiredAssumption
  DEF NoWork, Works, Gens, SwapAssumption, DesiredAssumption
<1> QED BY <1>2, <1>3, <1>4 DEF Init, TypeOK

\* Every step of the writer, of a crash and of a packet keeps the types.
LEMMA TypeStep == TypeOK /\ [Next]_vars => TypeOK'
<1> SUFFICES ASSUME TypeOK, [Next]_vars PROVE TypeOK'
  OBVIOUS
<1>0. NoWork \in Works /\ Len(NoWork.puts) <= MaxSlots
         /\ NoWork.at \in 1..(Len(NoWork.puts) + 1)
  BY SwapAssumption, DesiredAssumption
  DEF NoWork, Works, Gens, SwapAssumption, DesiredAssumption
<1>1. CASE WatchEvent
  BY <1>1, BeginPassType DEF WatchEvent, TypeOK
<1>2. CASE RetryTick
  BY <1>2, BeginPassType DEF RetryTick, TypeOK
<1>3. CASE FollowUpTick
  BY <1>3, BeginPassType DEF FollowUpTick, TypeOK
<1>4. CASE Restart
  BY <1>4, BeginPassType DEF Restart, TypeOK
<1>5. ASSUME NEW f \in Fronts, StartPlan(f) PROVE TypeOK'
  <2>1. PlanFor(f) \in Works /\ Len(PlanFor(f).puts) <= MaxSlots /\ PlanFor(f).at = 1
    BY PlanType
  <2>2. PlanFor(f).at \in 1..(Len(PlanFor(f).puts) + 1)
    BY <2>1 DEF Works
  <2> QED BY <1>5, <2>1, <2>2 DEF StartPlan, TypeOK, plan, maps, bounds
<1>6. CASE DeleteMeta
  <2>1. meta' \in [Fronts -> Metas \cup {Nothing}]
    BY <1>6 DEF DeleteMeta, TypeOK
  <2>2. work' \in Works /\ Len(work'.puts) <= MaxSlots /\ work'.at \in 1..(Len(work'.puts) + 1)
    <3>1. work \in Works
      BY DEF TypeOK
    <3>2. CASE work' = [work EXCEPT !.withdraw = FALSE]
      <4>1. work' \in Works /\ work'.puts = work.puts /\ work'.at = work.at
        BY <3>1, <3>2, WithdrawPart
      <4> QED BY <4>1 DEF TypeOK
    <3>3. CASE work' = NoWork
      BY <1>0, <3>3
    <3> QED BY <1>6, <3>2, <3>3 DEF DeleteMeta
  <2>3. failed' \in BOOLEAN /\ faults' \in Nat
    BY <1>6, OutcomeType DEF DeleteMeta
  <2> QED BY <1>6, <2>1, <2>2, <2>3 DEF DeleteMeta, TypeOK, Writing
<1>7. ASSUME NEW k \in Keys, DeleteEndpoint(k) PROVE TypeOK'
  <2>1. rows' \in [Fronts \X Gens \X Slots -> Endpoints \cup {Nothing}]
    BY <1>7 DEF DeleteEndpoint, TypeOK
  <2>2. work' \in Works /\ Len(work'.puts) <= MaxSlots /\ work'.at \in 1..(Len(work'.puts) + 1)
    <3>1. work \in Works /\ work.dels \ {k} \in SUBSET Keys
      BY DEF TypeOK, Works
    <3>2. work' \in Works /\ work'.puts = work.puts /\ work'.at = work.at
      <4>1. work' = [work EXCEPT !.dels = work.dels \ {k}]
        BY <1>7 DEF DeleteEndpoint
      <4> QED BY <3>1, <4>1, DeletePart
    <3> QED BY <3>2 DEF TypeOK
  <2>3. failed' \in BOOLEAN /\ faults' \in Nat
    BY <1>7, OutcomeType DEF DeleteEndpoint
  <2> QED BY <1>7, <2>1, <2>2, <2>3 DEF DeleteEndpoint, TypeOK, Writing
<1>8. CASE PutEndpoint
  <2>1. rows' \in [Fronts \X Gens \X Slots -> Endpoints \cup {Nothing}]
    <3>1. work.puts \in Seq(Endpoints) /\ work.at \in 1..Len(work.puts)
      BY <1>8 DEF PutEndpoint, TypeOK, Works
    <3>2. work.puts[work.at] \in Endpoints
      BY <3>1
    <3> QED BY <1>8, <3>2 DEF PutEndpoint, TypeOK
  <2>2. work' \in Works /\ Len(work'.puts) <= MaxSlots /\ work'.at \in 1..(Len(work'.puts) + 1)
    <3>1. work \in Works /\ work.at + 1 \in Nat
      BY DEF TypeOK, Works
    <3>2. work' \in Works /\ work'.puts = work.puts /\ work'.at = work.at + 1
      <4>1. work' = [work EXCEPT !.at = work.at + 1]
        BY <1>8 DEF PutEndpoint
      <4> QED BY <3>1, <4>1, SlotPart
    <3>3. Len(work.puts) \in Nat
      BY <3>1, LenProperties DEF Works
    <3> QED BY <1>8, <3>1, <3>2, <3>3 DEF TypeOK, PutEndpoint
  <2>3. Succeeds \/ Fails \/ (failed' = TRUE /\ UNCHANGED faults)
    BY <1>8, Zenon DEF PutEndpoint
  <2>4. failed' \in BOOLEAN /\ faults' \in Nat
    BY <2>3, OutcomeType
  <2>5. blocked' \in BOOLEAN
    BY <1>8, Zenon DEF PutEndpoint, TypeOK
  <2> QED BY <1>8, <2>1, <2>2, <2>4, <2>5 DEF PutEndpoint, TypeOK, Writing
<1>9. CASE PutMeta
  <2>1. meta' \in [Fronts -> Metas \cup {Nothing}]
    BY <1>9 DEF PutMeta, TypeOK, Works
  <2>2. work' \in Works /\ Len(work'.puts) <= MaxSlots /\ work'.at \in 1..(Len(work'.puts) + 1)
    <3>1. work \in Works
      BY DEF TypeOK
    <3>2. work' \in Works /\ work'.puts = work.puts /\ work'.at = work.at
      BY <1>9, <3>1, CommitPart DEF PutMeta
    <3> QED BY <3>2 DEF TypeOK
  <2>3. Succeeds \/ Fails \/ (failed' = TRUE /\ UNCHANGED faults)
    BY <1>9, Zenon DEF PutMeta
  <2>4. failed' \in BOOLEAN /\ faults' \in Nat
    BY <2>3, OutcomeType
  <2>5. swapped' \subseteq Fronts
    BY <1>9 DEF PutMeta, TypeOK
  <2> QED BY <1>9, <2>1, <2>2, <2>4, <2>5 DEF PutMeta, TypeOK, Writing
<1>10. CASE EndPlan
  BY <1>0, <1>10 DEF EndPlan, TypeOK, maps, tally, bounds
<1>11. CASE EndPass
  BY <1>11 DEF EndPass, TypeOK, maps, plan, tally, bounds
<1>12. ASSUME NEW f \in Fronts, Expire(f) PROVE TypeOK'
  BY <1>12 DEF Expire, TypeOK, maps, plan, tally, bounds
<1>13. CASE Crash
  <2>1. crashes' \in Nat
    BY <1>13 DEF Crash, TypeOK
  <2> QED BY <1>0, <1>13, <2>1 DEF Crash, TypeOK, maps
<1>14. CASE Packet
  BY <1>14 DEF Packet, ReadMeta, ReadSlot, ReadEmpty, TypeOK, maps, plan, tally, bounds
<1>15. CASE UNCHANGED vars
  BY <1>15 DEF vars, TypeOK
<1> QED BY <1>1, <1>2, <1>3, <1>4, <1>5, <1>6, <1>7, <1>8, <1>9, <1>10, <1>11, <1>12,
           <1>13, <1>14, <1>15 DEF Next, Tick, Pass, Write

(***************************************************************************)
(* The types of the maps, of the plan and of the pass, as an invariant of  *)
(* the writer: generations stay u32 through the wrap, a plan's slot never  *)
(* runs past its list, a count never exceeds the longest list.             *)
(***************************************************************************)
THEOREM TypeCorrect == Spec => []TypeOK
BY TypeInit, TypeStep, PTL DEF Spec

-----------------------------------------------------------------------------
(***************************************************************************)
(* What makes LiveWhole inductive: what is left of a running plan p of     *)
(* front f cannot hurt the live generation, and its commit, once its turn  *)
(* comes with no row write failed (b), finds all its rows written.         *)
(***************************************************************************)

\* The commit brings the wanted front: in a new generation whose rows below the
\* plan's slot are written, or in the live one with other flags.
CommitSafe(f, p, b) ==
    p.commit # Nothing =>
        /\ want[f] # Nothing
        /\ p.commit.count = Len(want[f].endpoints)
        /\ p.commit.localCount = LocalCount(want[f])
        /\ p.commit.flags = want[f].flags
        /\ \/ /\ p.commit.gen = p.gen
              /\ p.puts = want[f].endpoints
              /\ p.dels # {} => p.at = 1
              /\ ~b => \A s \in 1..(p.at - 1) : rows[<<f, p.gen, s>>] = p.puts[s]
           \/ /\ meta[f] # Nothing
              /\ p.puts = <<>>
              /\ p.commit.gen = meta[f].gen
              /\ p.commit.count = meta[f].count
              /\ \A s \in 1..meta[f].count :
                    rows[<<f, meta[f].gen, s>>] = want[f].endpoints[s]

WithdrawSafe(f, p) ==
    p.withdraw => want[f] = Nothing /\ p.puts = <<>> /\ p.commit = Nothing

\* Neither the deletes nor the row writes touch the live generation.
LiveSafe(f, p) ==
    meta[f] # Nothing /\ ~p.withdraw =>
        /\ \A k \in p.dels : k[1] # meta[f].gen
        /\ p.at <= Len(p.puts) => p.gen # meta[f].gen

PlanSafe ==
    cur # Nothing =>
        /\ pc = "pass"
        /\ WithdrawSafe(cur, work)
        /\ LiveSafe(cur, work)
        /\ CommitSafe(cur, work, blocked)

IInv == TypeOK /\ LiveWhole /\ PlanSafe

(***************************************************************************)
(* A fresh plan is safe: the deletes of plan_front_writes spare the live   *)
(* generation and a swap writes into another one.                          *)
(***************************************************************************)
LEMMA FreshPlanSafe ==
  ASSUME TypeOK, NEW f \in Fronts
  PROVE  /\ WithdrawSafe(f, PlanFor(f))
         /\ LiveSafe(f, PlanFor(f))
         /\ CommitSafe(f, PlanFor(f), FALSE)
<1>1. CASE PlanFor(f) = NoWork
  BY <1>1 DEF NoWork, WithdrawSafe, LiveSafe, CommitSafe
<1>2. CASE PlanFor(f) = WithdrawPlan(f) /\ want[f] = Nothing
  <2>1. /\ PlanFor(f).withdraw = (meta[f] # Nothing)
        /\ PlanFor(f).puts = <<>> /\ PlanFor(f).commit = Nothing
    BY <1>2 DEF WithdrawPlan, NoWork
  <2> QED BY <1>2, <2>1 DEF WithdrawSafe, LiveSafe, CommitSafe
<1>3. CASE PlanFor(f) = CleanPlan(f) /\ want[f] # Nothing /\ Unchanged(f)
  <2>1. meta[f] # Nothing /\ meta[f] \in Metas
    BY <1>3 DEF Unchanged, TypeOK
  <2>2. /\ ~PlanFor(f).withdraw /\ PlanFor(f).puts = <<>> /\ PlanFor(f).at = 1
        /\ PlanFor(f).dels = {k \in Existing(f) : ~Kept(f, k[1])}
        /\ PlanFor(f).commit = IF meta[f].flags # want[f].flags
                               THEN [meta[f] EXCEPT !.flags = want[f].flags] ELSE Nothing
    BY <1>3 DEF CleanPlan, NoWork
  <2>3. \A k \in PlanFor(f).dels : k[1] # meta[f].gen
    BY <2>2 DEF Kept
  <2>4. LET c == [meta[f] EXCEPT !.flags = want[f].flags]
        IN  /\ c.gen = meta[f].gen /\ c.count = meta[f].count
            /\ c.localCount = meta[f].localCount /\ c.flags = want[f].flags
    BY <2>1 DEF Metas
  <2>5. CommitSafe(f, PlanFor(f), FALSE)
    BY <1>3, <2>1, <2>2, <2>4 DEF CommitSafe, Unchanged
  <2>6. ~(PlanFor(f).at <= Len(PlanFor(f).puts))
    BY <2>2
  <2> QED BY <2>2, <2>3, <2>5, <2>6 DEF WithdrawSafe, LiveSafe
<1>4. CASE PlanFor(f) = SwapPlan(f) /\ want[f] # Nothing
  <2>1. /\ ~PlanFor(f).withdraw /\ PlanFor(f).puts = want[f].endpoints /\ PlanFor(f).at = 1
        /\ PlanFor(f).dels = Superseded(f) /\ PlanFor(f).gen = SwapGen(f)
        /\ PlanFor(f).commit = [gen |-> SwapGen(f), count |-> Len(want[f].endpoints),
                                localCount |-> LocalCount(want[f]), flags |-> want[f].flags]
    BY <1>4 DEF SwapPlan
  <2>2. meta[f] # Nothing => \A k \in PlanFor(f).dels : k[1] # meta[f].gen
    BY <2>1 DEF Superseded
  <2>3. meta[f] # Nothing => PlanFor(f).gen # meta[f].gen
    BY <2>1, NextGenType DEF SwapGen, TypeOK, Metas
  <2>4. CommitSafe(f, PlanFor(f), FALSE)
    BY <1>4, <2>1 DEF CommitSafe
  <2> QED BY <2>1, <2>2, <2>3, <2>4 DEF WithdrawSafe, LiveSafe
<1> QED BY <1>1, <1>2, <1>3, <1>4 DEF PlanFor
-----------------------------------------------------------------------------
(***************************************************************************)
(* The writes of a running plan leave the rows of every live generation    *)
(* as they are.                                                            *)
(***************************************************************************)
LiveRowsKept ==
    \A f \in Fronts : meta[f] # Nothing =>
        \A s \in 1..meta[f].count : rows'[<<f, meta[f].gen, s>>] = rows[<<f, meta[f].gen, s>>]

\* A live slot is a key of FRONT_ENDPOINTS.
LEMMA LiveKey ==
  ASSUME TypeOK, NEW f \in Fronts, meta[f] # Nothing, NEW s \in 1..meta[f].count
  PROVE  <<f, meta[f].gen, s>> \in Fronts \X Gens \X Slots
<1>1. meta[f].gen \in Gens /\ meta[f].count \in 0..MaxSlots
  BY DEF TypeOK, Metas
<1>2. s \in Slots
  BY <1>1, DesiredAssumption DEF Slots, DesiredAssumption
<1> QED BY <1>1, <1>2

\* Deletes: a superseded generation or, with FRONT_META's row gone, any.
LEMMA DeleteEndpointKeeps ==
  ASSUME IInv, NEW k \in Keys, DeleteEndpoint(k)
  PROVE  LiveRowsKept
<1> SUFFICES ASSUME NEW f \in Fronts, meta[f] # Nothing, NEW s \in 1..meta[f].count
             PROVE  rows'[<<f, meta[f].gen, s>>] = rows[<<f, meta[f].gen, s>>]
  BY DEF LiveRowsKept
<1>1. <<f, meta[f].gen, s>> \in Fronts \X Gens \X Slots
  BY LiveKey DEF IInv
<1>2. CASE rows' = rows
  BY <1>2
<1>3. CASE rows' = [rows EXCEPT ![<<cur, k[1], k[2]>>] = Nothing]
  <2>1. cur = f => k[1] # meta[f].gen
    BY DEF IInv, PlanSafe, LiveSafe, DeleteEndpoint
  <2>2. <<f, meta[f].gen, s>> # <<cur, k[1], k[2]>>
    BY <2>1
  <2> QED BY <1>1, <1>3, <2>2 DEF IInv, TypeOK
<1> QED BY <1>2, <1>3 DEF DeleteEndpoint

\* Row writes: into a generation that is not live.
LEMMA PutEndpointKeeps ==
  ASSUME IInv, PutEndpoint
  PROVE  LiveRowsKept
<1> SUFFICES ASSUME NEW f \in Fronts, meta[f] # Nothing, NEW s \in 1..meta[f].count
             PROVE  rows'[<<f, meta[f].gen, s>>] = rows[<<f, meta[f].gen, s>>]
  BY DEF LiveRowsKept
<1>1. <<f, meta[f].gen, s>> \in Fronts \X Gens \X Slots
  BY LiveKey DEF IInv
<1>2. CASE rows' = rows
  BY <1>2
<1>3. CASE rows' = [rows EXCEPT ![<<cur, work.gen, work.at>>] = work.puts[work.at]]
  <2>1. cur = f => work.gen # meta[f].gen
    BY DEF IInv, PlanSafe, LiveSafe, PutEndpoint
  <2>2. <<f, meta[f].gen, s>> # <<cur, work.gen, work.at>>
    BY <2>1
  <2> QED BY <1>1, <1>3, <2>2 DEF IInv, TypeOK
<1> QED BY <1>2, <1>3 DEF PutEndpoint
\* When the commit's turn comes every row it needs holds the wanted endpoint.
LEMMA CommitServes ==
  ASSUME IInv, PutMeta
  PROVE  /\ want[cur] \in Wants
         /\ work.commit \in Metas
         /\ work.commit.count = Len(want[cur].endpoints)
         /\ work.commit.localCount = LocalCount(want[cur])
         /\ work.commit.flags = want[cur].flags
         /\ \A s \in 1..work.commit.count :
               rows[<<cur, work.commit.gen, s>>] = want[cur].endpoints[s]
<1>1. cur \in Fronts /\ work.commit \in Metas /\ work.commit # Nothing /\ ~blocked
  BY DEF IInv, TypeOK, PutMeta, Works
<1>2. CommitSafe(cur, work, blocked)
  BY DEF IInv, PlanSafe, PutMeta
<1>3. want[cur] \in Wants
  BY <1>1, <1>2 DEF CommitSafe, IInv, TypeOK
<1>4. work.puts \in Seq(Endpoints) /\ work.at - 1 = Len(work.puts)
  <2>1. work.puts \in Seq(Endpoints) /\ work.at \in 1..(Len(work.puts) + 1)
    BY DEF IInv, TypeOK, Works
  <2>2. Len(work.puts) \in Nat
    BY <2>1, LenProperties
  <2>3. work.at > Len(work.puts)
    BY DEF PutMeta
  <2> QED BY <2>1, <2>2, <2>3
<1>5. \A s \in 1..work.commit.count :
         rows[<<cur, work.commit.gen, s>>] = want[cur].endpoints[s]
  BY <1>1, <1>2, <1>4 DEF CommitSafe
<1> QED BY <1>1, <1>2, <1>3, <1>5 DEF CommitSafe

\* A live generation stays whole through every step.
LEMMA LiveWholeStep ==
  ASSUME IInv, [Next]_vars
  PROVE  LiveWhole'
<1>1. LiveWhole
  BY DEF IInv
<1>2. ASSUME UNCHANGED maps PROVE LiveWhole'
  BY <1>1, <1>2 DEF LiveWhole, maps
<1>3. CASE DeleteMeta
  BY <1>1, <1>3 DEF DeleteMeta, LiveWhole, IInv, TypeOK
<1>4. ASSUME NEW k \in Keys, DeleteEndpoint(k) PROVE LiveWhole'
  <2>1. LiveRowsKept
    BY <1>4, DeleteEndpointKeeps
  <2>2. meta' = meta
    BY <1>4 DEF DeleteEndpoint
  <2> QED BY <1>1, <2>1, <2>2 DEF LiveWhole, LiveRowsKept
<1>5. CASE PutEndpoint
  <2>1. LiveRowsKept
    BY <1>5, PutEndpointKeeps
  <2>2. meta' = meta
    BY <1>5 DEF PutEndpoint
  <2> QED BY <1>1, <2>1, <2>2 DEF LiveWhole, LiveRowsKept
<1>6. CASE PutMeta
  <2>1. CASE meta' = meta
    BY <1>1, <1>6, <2>1 DEF LiveWhole, PutMeta
  <2>2. CASE meta' = [meta EXCEPT ![cur] = work.commit]
    <3>1. ASSUME NEW s \in 1..work.commit.count
          PROVE  rows[<<cur, work.commit.gen, s>>] # Nothing
      <4>1. want[cur] \in Wants /\ s \in 1..Len(want[cur].endpoints)
        BY <1>6, <3>1, CommitServes
      <4>2. want[cur].endpoints[s] \in Endpoints
        BY <4>1, DesiredAssumption DEF DesiredAssumption
      <4>3. rows[<<cur, work.commit.gen, s>>] = want[cur].endpoints[s]
        BY <1>6, <3>1, CommitServes
      <4> QED BY <4>2, <4>3, DesiredAssumption DEF DesiredAssumption
    <3>2. rows' = rows
      BY <1>6 DEF PutMeta
    <3>3. ASSUME NEW f \in Fronts, meta'[f] # Nothing, NEW s \in 1..meta'[f].count
          PROVE  rows'[<<f, meta'[f].gen, s>>] # Nothing
      <4>1. CASE f = cur
        BY <2>2, <3>1, <3>2, <3>3, <4>1 DEF IInv, TypeOK
      <4>2. CASE f # cur
        BY <1>1, <2>2, <3>2, <3>3, <4>2 DEF IInv, TypeOK, LiveWhole
      <4> QED BY <4>1, <4>2
    <3> QED BY <3>3 DEF LiveWhole
  <2> QED BY <1>6, <2>1, <2>2 DEF PutMeta
<1>7. CASE Next /\ ~Write
  <2>1. UNCHANGED maps
    BY <1>7 DEF Next, Tick, Pass, WatchEvent, RetryTick, FollowUpTick, Restart, BeginPass,
               StartPlan, EndPlan, EndPass, Expire, Crash, Packet, ReadMeta, ReadSlot, ReadEmpty
  <2> QED BY <1>2, <2>1
<1>8. CASE UNCHANGED vars
  <2>1. UNCHANGED maps
    BY <1>8 DEF vars, maps
  <2> QED BY <1>2, <2>1
<1> QED BY <1>3, <1>4, <1>5, <1>6, <1>7, <1>8 DEF Write
\* The four writes keep what is left of the running plan safe.
LEMMA PlanSafeWrite ==
  ASSUME IInv, Write
  PROVE  PlanSafe'
<1>0. /\ cur \in Fronts /\ cur # Nothing /\ pc = "pass" /\ work \in Works
      /\ WithdrawSafe(cur, work) /\ LiveSafe(cur, work) /\ CommitSafe(cur, work, blocked)
  BY DEF Write, DeleteMeta, DeleteEndpoint, PutEndpoint, PutMeta, IInv, TypeOK, PlanSafe
<1>1. cur' = cur /\ pc' = pc /\ want' = want
  BY DEF Write, DeleteMeta, DeleteEndpoint, PutEndpoint, PutMeta, Writing
<1>2. CASE DeleteMeta
  <2>1. CASE /\ meta' = [meta EXCEPT ![cur] = Nothing]
             /\ work' = [work EXCEPT !.withdraw = FALSE]
    <3>1. /\ ~work'.withdraw /\ work'.puts = work.puts /\ work'.commit = work.commit
      BY <1>0, <2>1, WithdrawPart
    <3>2. meta'[cur] = Nothing /\ work.commit = Nothing
      BY <1>0, <1>2, <2>1 DEF IInv, TypeOK, DeleteMeta, WithdrawSafe
    <3> QED BY <1>0, <1>1, <3>1, <3>2 DEF PlanSafe, WithdrawSafe, LiveSafe, CommitSafe
  <2>2. CASE work' = NoWork
    BY <1>0, <1>1, <2>2 DEF NoWork, PlanSafe, WithdrawSafe, LiveSafe, CommitSafe
  <2> QED BY <1>2, <2>1, <2>2 DEF DeleteMeta
<1>3. ASSUME NEW k \in Keys, DeleteEndpoint(k) PROVE PlanSafe'
  <2>1. meta' = meta /\ blocked' = blocked /\ ~work.withdraw /\ work.dels # {}
    BY <1>3 DEF DeleteEndpoint
  <2>2. /\ work'.withdraw = work.withdraw /\ work'.dels = work.dels \ {k}
        /\ work'.gen = work.gen /\ work'.puts = work.puts /\ work'.at = work.at
        /\ work'.commit = work.commit
    <3>1. work' = [work EXCEPT !.dels = work.dels \ {k}]
      BY <1>3 DEF DeleteEndpoint
    <3>2. work.dels \ {k} \in SUBSET Keys
      BY <1>0 DEF Works
    <3> QED BY <1>0, <3>1, <3>2, DeletePart
  <2>3. LiveRowsKept
    BY <1>3, DeleteEndpointKeeps
  <2>4. WithdrawSafe(cur, work)' /\ LiveSafe(cur, work)'
    BY <1>0, <1>1, <2>1, <2>2 DEF WithdrawSafe, LiveSafe
  <2>5. CommitSafe(cur, work, blocked)'
    BY <1>0, <1>1, <2>1, <2>2, <2>3 DEF CommitSafe, LiveRowsKept
  <2> QED BY <1>0, <1>1, <2>4, <2>5 DEF PlanSafe
<1>4. CASE PutEndpoint
  <2>1. /\ meta' = meta /\ ~work.withdraw /\ work.dels = {}
        /\ work.at \in 1..Len(work.puts) /\ work.puts # <<>>
    <3>1. meta' = meta /\ ~work.withdraw /\ work.dels = {} /\ work.at <= Len(work.puts)
      BY <1>4 DEF PutEndpoint
    <3>2. work.at \in Nat /\ work.at >= 1
      BY DEF IInv, TypeOK, Works
    <3>3. Len(work.puts) \in Nat
      BY <1>0, LenProperties DEF Works
    <3>4. Len(work.puts) # 0
      BY <3>1, <3>2, <3>3
    <3> QED BY <3>1, <3>2, <3>3, <3>4
  <2>2. /\ work'.withdraw = work.withdraw /\ work'.dels = work.dels
        /\ work'.gen = work.gen /\ work'.puts = work.puts /\ work'.at = work.at + 1
        /\ work'.commit = work.commit
    <3>1. work' = [work EXCEPT !.at = work.at + 1]
      BY <1>4 DEF PutEndpoint
    <3>2. work.at + 1 \in Nat
      BY <1>0 DEF Works
    <3> QED BY <1>0, <3>1, <3>2, SlotPart
  <2>3. WithdrawSafe(cur, work)'
    BY <2>1, <2>2 DEF WithdrawSafe
  <2>4. LiveSafe(cur, work)'
    BY <1>0, <1>1, <2>1, <2>2 DEF LiveSafe
  <2>5. ASSUME ~blocked', NEW s \in 1..work.at, CommitSafe(cur, work, blocked),
               work.commit # Nothing
        PROVE  rows'[<<cur, work.gen, s>>] = work.puts[s]
    <3>1. /\ ~blocked
          /\ rows' = [rows EXCEPT ![<<cur, work.gen, work.at>>] = work.puts[work.at]]
      BY <1>4, <2>5 DEF PutEndpoint
    <3>2. <<cur, work.gen, s>> \in Fronts \X Gens \X Slots
      <4>1. Len(work.puts) <= MaxSlots /\ Len(work.puts) \in Nat
        BY <1>0, LenProperties DEF IInv, TypeOK, Works
      <4>2. s \in 1..MaxSlots
        BY <2>1, <4>1, DesiredAssumption DEF DesiredAssumption
      <4> QED BY <1>0, <4>2 DEF Works, Slots
    <3>3. CASE s = work.at
      BY <3>1, <3>2, <3>3 DEF IInv, TypeOK
    <3>4. CASE s # work.at
      <4>1. s \in 1..(work.at - 1)
        BY <2>1, <3>4
      <4>2. rows[<<cur, work.gen, s>>] = work.puts[s]
        BY <2>1, <2>5, <3>1, <4>1 DEF CommitSafe
      <4>3. rows'[<<cur, work.gen, s>>] = rows[<<cur, work.gen, s>>]
        BY <3>1, <3>2, <3>4 DEF IInv, TypeOK
      <4> QED BY <4>2, <4>3
    <3> QED BY <3>3, <3>4
  <2>6. CommitSafe(cur, work, blocked)'
    <3>1. work'.at - 1 = work.at
      BY <2>1, <2>2
    <3>2. ~blocked' /\ work.commit # Nothing =>
            \A s \in 1..(work'.at - 1) : rows'[<<cur, work.gen, s>>] = work.puts[s]
      BY <1>0, <2>5, <3>1
    <3> QED BY <1>0, <1>1, <2>1, <2>2, <3>2 DEF CommitSafe
  <2> QED BY <1>0, <1>1, <2>3, <2>4, <2>6 DEF PlanSafe
<1>5. CASE PutMeta
  <2>1. ~work.withdraw /\ work.dels = {} /\ ~(work.at <= Len(work.puts))
    <3>1. ~work.withdraw /\ work.dels = {} /\ work.at > Len(work.puts)
      BY <1>5 DEF PutMeta
    <3>2. work.at \in Nat /\ Len(work.puts) \in Nat
      BY <1>0, LenProperties DEF Works
    <3> QED BY <3>1, <3>2
  <2>2. /\ work'.withdraw = work.withdraw /\ work'.dels = work.dels
        /\ work'.puts = work.puts /\ work'.at = work.at /\ work'.commit = Nothing
    BY <1>0, <1>5, CommitPart DEF PutMeta
  <2> QED BY <1>0, <1>1, <2>1, <2>2 DEF PlanSafe, WithdrawSafe, LiveSafe, CommitSafe
<1> QED BY <1>2, <1>3, <1>4, <1>5 DEF Write

\* So do all the other steps: a plan starts safe, and runs only within a pass.
LEMMA PlanSafeStep ==
  ASSUME IInv, [Next]_vars
  PROVE  PlanSafe'
<1>1. CASE Write
  BY <1>1, PlanSafeWrite
<1>2. ASSUME cur' = Nothing PROVE PlanSafe'
  BY <1>2 DEF PlanSafe
<1>3. CASE WatchEvent \/ Tick
  <2>1. cur = Nothing
    BY <1>3 DEF WatchEvent, Tick, RetryTick, FollowUpTick, Restart, IInv, PlanSafe
  <2>2. cur' = cur
    BY <1>3 DEF WatchEvent, Tick, RetryTick, FollowUpTick, Restart, BeginPass, plan
  <2> QED BY <1>2, <2>1, <2>2
<1>4. ASSUME NEW f \in Fronts, StartPlan(f) PROVE PlanSafe'
  <2>1. CASE UNCHANGED plan
    BY <1>2, <1>4, <2>1 DEF StartPlan, plan
  <2>2. CASE cur' = f /\ work' = PlanFor(f) /\ blocked' = FALSE
    <3>1. meta' = meta /\ rows' = rows /\ want' = want /\ pc' = "pass"
      BY <1>4 DEF StartPlan, maps
    <3>2. /\ WithdrawSafe(f, PlanFor(f)) /\ LiveSafe(f, PlanFor(f))
          /\ CommitSafe(f, PlanFor(f), FALSE)
      BY FreshPlanSafe DEF IInv
    <3>3. WithdrawSafe(cur, work)'
      BY <2>2, <3>1, <3>2 DEF WithdrawSafe
    <3>4. LiveSafe(cur, work)'
      BY <2>2, <3>1, <3>2 DEF LiveSafe
    <3>5. CommitSafe(cur, work, blocked)'
      BY <2>2, <3>1, <3>2 DEF CommitSafe
    <3> QED BY <3>1, <3>3, <3>4, <3>5 DEF PlanSafe
  <2> QED BY <1>4, <2>1, <2>2 DEF StartPlan
<1>5. CASE EndPlan \/ EndPass \/ Crash
  <2>1. cur' = Nothing
    BY <1>5 DEF EndPlan, EndPass, Crash, plan
  <2> QED BY <1>2, <2>1
<1>6. ASSUME NEW f \in Fronts, Expire(f) PROVE PlanSafe'
  <2>1. cur' = Nothing
    BY <1>6 DEF Expire, plan, IInv, PlanSafe
  <2> QED BY <1>2, <2>1
<1>7. CASE Packet \/ UNCHANGED vars
  <2>1. UNCHANGED <<meta, rows, pc, want, cur, work, blocked>>
    BY <1>7 DEF Packet, ReadMeta, ReadSlot, ReadEmpty, vars, maps, plan
  <2> QED BY <2>1 DEF IInv, PlanSafe, WithdrawSafe, LiveSafe, CommitSafe
<1> QED BY <1>1, <1>3, <1>4, <1>5, <1>6, <1>7 DEF Next, Pass

\* The fronts found at the start are whole.
LEMMA IInvInit == Init => IInv
<1> SUFFICES ASSUME Init PROVE IInv
  OBVIOUS
<1>1. TypeOK
  BY TypeInit
<1>2. PlanSafe
  BY DEF Init, PlanSafe
<1>3. ASSUME NEW f \in Fronts, meta[f] # Nothing, NEW s \in 1..meta[f].count
      PROVE  rows[<<f, meta[f].gen, s>>] # Nothing
  <2>1. want[f] \in Wants /\ want[f] # Nothing
    BY <1>3 DEF Init
  <2>2. meta[f].gen = FirstGen /\ meta[f].count = Len(want[f].endpoints)
    BY <1>3, <2>1 DEF Init
  <2>3. <<f, FirstGen, s>> \in Fronts \X Gens \X Slots
    BY <1>1, <1>3, <2>2, LiveKey
  <2>4. want[f].endpoints[s] \in Endpoints
    BY <1>3, <2>1, <2>2, DesiredAssumption DEF DesiredAssumption
  <2>5. rows[<<f, FirstGen, s>>] = want[f].endpoints[s]
    <3>1. s <= Len(want[f].endpoints)
      BY <1>3, <2>1, <2>2, DesiredAssumption DEF DesiredAssumption
    <3> QED BY <2>1, <2>3, <3>1 DEF Init
  <2> QED BY <2>2, <2>4, <2>5, DesiredAssumption DEF DesiredAssumption
<1> QED BY <1>1, <1>2, <1>3 DEF IInv, LiveWhole

\* Every step keeps the inductive invariant.
LEMMA IInvStep == IInv /\ [Next]_vars => IInv'
BY TypeStep, LiveWholeStep, PlanSafeStep DEF IInv

(***************************************************************************)
(* The live generation of every front is whole, for any fronts, endpoint   *)
(* lists and capacities, any writes that fail and any moment the           *)
(* controller dies at.                                                     *)
(***************************************************************************)
THEOREM LiveAlwaysWhole == Spec => []LiveWhole
<1>1. IInv => LiveWhole
  BY DEF IInv
<1> QED BY <1>1, IInvInit, IInvStep, PTL DEF Spec

-----------------------------------------------------------------------------
(* The two maps implement one register per front.                          *)

\* A FRONT_META row m over rows r that hold the wanted list serves what is wanted.
LEMMA ServesWanted ==
  ASSUME NEW f \in Fronts, NEW w \in Wants, NEW m, NEW r,
         m.count = Len(w.endpoints), m.localCount = LocalCount(w), m.flags = w.flags,
         \A s \in 1..m.count : r[<<f, m.gen, s>>] = w.endpoints[s]
  PROVE  Register!Served(w) =
           [endpoints |-> [s \in 1..m.count |-> r[<<f, m.gen, s>>]],
            localCount |-> m.localCount, flags |-> m.flags]
<1>1. w.endpoints \in Seq(Endpoints) /\ w # Nothing
  BY DesiredAssumption DEF DesiredAssumption
<1>2. [s \in 1..m.count |-> r[<<f, m.gen, s>>]] = w.endpoints
  <2>1. [s \in 1..m.count |-> r[<<f, m.gen, s>>]]
          = [s \in 1..Len(w.endpoints) |-> w.endpoints[s]]
    OBVIOUS
  <2>2. w.endpoints = [s \in 1..Len(w.endpoints) |-> w.endpoints[s]]
    BY <1>1
  <2> QED BY <2>1, <2>2
<1>3. Register!LocalCount(w) = LocalCount(w)
  BY Zenon DEF LocalCount, Register!LocalCount, Cardinality, Register!Cardinality
<1> QED BY <1>1, <1>2, <1>3 DEF Register!Served

\* A step that leaves FRONT_META and the live rows alone changes no register.
LEMMA ValueKept ==
  ASSUME LiveRowsKept, meta' = meta
  PROVE  \A f \in Fronts : Value(f)' = Value(f)
<1> SUFFICES ASSUME NEW f \in Fronts PROVE Value(f)' = Value(f)
  OBVIOUS
<1>1. CASE meta[f] = Nothing
  BY <1>1 DEF Value
<1>2. CASE meta[f] # Nothing
  <2>1. LiveEndpoints(f)' = LiveEndpoints(f)
    BY <1>2 DEF LiveRowsKept, LiveEndpoints
  <2> QED BY <1>2, <2>1 DEF Value
<1> QED BY <1>1, <1>2
\* The registers start with the values wanted.
LEMMA RegisterInit == Init => Register!Init
<1> SUFFICES ASSUME Init PROVE Register!Init
  OBVIOUS
<1>1. want \in [Fronts -> Wants \cup {Nothing}]
  BY DEF Init
<1>2. ASSUME NEW f \in Fronts PROVE Value(f) = Register!Served(want[f])
  <2>1. CASE want[f] = Nothing
    BY <2>1 DEF Init, Value, Register!Served
  <2>2. CASE want[f] # Nothing
    <3>1. want[f] \in Wants
      BY <1>1, <2>2
    <3>2. /\ meta[f] \in Metas /\ meta[f].gen = FirstGen
          /\ meta[f].count = Len(want[f].endpoints)
          /\ meta[f].localCount = LocalCount(want[f])
          /\ meta[f].flags = want[f].flags
      <4>1. meta[f] = [gen |-> FirstGen, count |-> Len(want[f].endpoints),
                       localCount |-> LocalCount(want[f]), flags |-> want[f].flags]
        BY <2>2 DEF Init
      <4>2. meta[f] \in Metas
        BY <3>1, <4>1, LocalCountType, DesiredAssumption, SwapAssumption
        DEF DesiredAssumption, SwapAssumption, Metas, Gens
      <4> QED BY <4>1, <4>2
    <3>3. meta[f] # Nothing
      BY <3>2, SwapAssumption DEF SwapAssumption, Metas, Gens
    <3>4. ASSUME NEW s \in 1..meta[f].count
          PROVE  rows[<<f, meta[f].gen, s>>] = want[f].endpoints[s]
      <4>1. <<f, FirstGen, s>> \in Fronts \X Gens \X Slots
        BY <3>2, <3>3, LiveKey, TypeInit
      <4>2. s <= Len(want[f].endpoints)
        BY <3>1, <3>2, DesiredAssumption DEF DesiredAssumption
      <4> QED BY <2>2, <3>2, <4>1, <4>2 DEF Init
    <3>5. Register!Served(want[f]) =
            [endpoints |-> [s \in 1..meta[f].count |-> rows[<<f, meta[f].gen, s>>]],
             localCount |-> meta[f].localCount, flags |-> meta[f].flags]
      BY <3>1, <3>2, <3>4, ServesWanted
    <3> QED BY <3>3, <3>5 DEF Value, LiveEndpoints
  <2> QED BY <2>1, <2>2
<1> QED BY <1>1, <1>2 DEF Register!Init

\* One register takes its wanted value: a withdrawal or a commit.
LEMMA PublishStep ==
  ASSUME TypeOK, NEW f \in Fronts, want' = want, Value(f)' = Register!Served(want[f]),
         \A g \in Fronts \ {f} : Value(g)' = Value(g)
  PROVE  Register!Next
<1> DEFINE value == [g \in Fronts |-> Value(g)]
<1>1. value' = [value EXCEPT ![f] = Register!Served(want[f])]
  OBVIOUS
<1> QED BY <1>1 DEF Register!Next, Register!Publish

\* Every step of the writer is a step of the registers or changes none of them.
LEMMA RegisterStep ==
  ASSUME IInv, IInv', [Next]_vars
  PROVE  [Register!Next]_(Register!regVars)
<1>1. ASSUME UNCHANGED want, \A f \in Fronts : Value(f)' = Value(f)
      PROVE  UNCHANGED Register!regVars
  BY <1>1 DEF Register!regVars
<1>2. ASSUME UNCHANGED maps PROVE \A f \in Fronts : Value(f)' = Value(f)
  BY <1>2 DEF maps, Value, LiveEndpoints
<1>3. CASE WatchEvent \/ Tick
  <2>1. want' \in [Fronts -> Wants \cup {Nothing}]
    BY DEF IInv, TypeOK
  <2>2. UNCHANGED maps
    BY <1>3 DEF WatchEvent, Tick, RetryTick, FollowUpTick, Restart, BeginPass
  <2>3. Register!Ask
    BY <1>2, <2>1, <2>2 DEF Register!Ask
  <2> QED BY <2>3 DEF Register!Next
<1>4. CASE DeleteMeta
  <2>1. PICK f \in Fronts : f = cur
    BY <1>4 DEF DeleteMeta, IInv, TypeOK
  <2>2. want[f] = Nothing /\ want' = want /\ rows' = rows
    BY <1>4, <2>1 DEF DeleteMeta, Writing, IInv, PlanSafe, WithdrawSafe
  <2>3. CASE meta' = meta
    BY <1>1, <1>2, <2>2, <2>3 DEF maps
  <2>4. CASE meta' = [meta EXCEPT ![f] = Nothing]
    <3>1. Value(f)' = Register!Served(want[f])
      BY <2>2, <2>4 DEF Value, Register!Served, IInv, TypeOK
    <3>2. \A g \in Fronts \ {f} : Value(g)' = Value(g)
      BY <2>2, <2>4 DEF Value, LiveEndpoints, IInv, TypeOK
    <3> QED BY <2>2, <3>1, <3>2, PublishStep DEF IInv
  <2> QED BY <1>4, <2>1, <2>3, <2>4 DEF DeleteMeta
<1>5. ASSUME NEW k \in Keys, DeleteEndpoint(k) PROVE UNCHANGED Register!regVars
  <2>1. LiveRowsKept /\ meta' = meta /\ want' = want
    BY <1>5, DeleteEndpointKeeps DEF DeleteEndpoint, Writing
  <2> QED BY <1>1, <2>1, ValueKept
<1>6. CASE PutEndpoint
  <2>1. LiveRowsKept /\ meta' = meta /\ want' = want
    BY <1>6, PutEndpointKeeps DEF PutEndpoint, Writing
  <2> QED BY <1>1, <2>1, ValueKept
<1>7. CASE PutMeta
  <2>1. PICK f \in Fronts : f = cur
    BY <1>7 DEF PutMeta, IInv, TypeOK
  <2>2. want' = want /\ rows' = rows
    BY <1>7 DEF PutMeta, Writing
  <2>3. CASE meta' = meta
    BY <1>1, <1>2, <2>2, <2>3 DEF maps
  <2>4. CASE meta' = [meta EXCEPT ![f] = work.commit]
    <3>1. meta'[f] = work.commit /\ work.commit # Nothing
      BY <1>7, <2>1, <2>4 DEF IInv, TypeOK, PutMeta
    <3>2. /\ want[f] \in Wants
          /\ work.commit.count = Len(want[f].endpoints)
          /\ work.commit.localCount = LocalCount(want[f])
          /\ work.commit.flags = want[f].flags
          /\ \A s \in 1..work.commit.count :
                rows[<<f, work.commit.gen, s>>] = want[f].endpoints[s]
      BY <1>7, <2>1, CommitServes
    <3>3. Register!Served(want[f]) =
            [endpoints |-> [s \in 1..work.commit.count |-> rows[<<f, work.commit.gen, s>>]],
             localCount |-> work.commit.localCount, flags |-> work.commit.flags]
      BY <3>2, ServesWanted
    <3>4. Value(f)' = Register!Served(want[f])
      BY <2>2, <3>1, <3>3 DEF Value, LiveEndpoints
    <3>5. \A g \in Fronts \ {f} : Value(g)' = Value(g)
      BY <2>2, <2>4 DEF Value, LiveEndpoints, IInv, TypeOK
    <3> QED BY <2>2, <3>4, <3>5, PublishStep DEF IInv
  <2> QED BY <1>7, <2>1, <2>3, <2>4 DEF PutMeta
<1>8. CASE (\E f \in Fronts : StartPlan(f)) \/ EndPlan \/ EndPass
             \/ (\E f \in Fronts : Expire(f)) \/ Crash \/ Packet \/ UNCHANGED vars
  <2>1. UNCHANGED maps /\ UNCHANGED want
    BY <1>8 DEF StartPlan, EndPlan, EndPass, Expire, Crash, Packet, ReadMeta, ReadSlot,
               ReadEmpty, vars, maps
  <2> QED BY <1>1, <1>2, <2>1
<1> QED BY <1>3, <1>4, <1>5, <1>6, <1>7, <1>8 DEF Next, Pass, Write

(***************************************************************************)
(* The generation-swap writer implements the register of FrontRegister: at *)
(* every moment each front is absent or serves one endpoint set, complete, *)
(* with its own local count and flags, and only ever changes to what is    *)
(* wanted then.                                                            *)
(***************************************************************************)
THEOREM Refinement == Spec => ImplementsRegister
<1>1. Spec => []IInv
  BY IInvInit, IInvStep, PTL DEF Spec
<1>2. IInv /\ IInv' /\ [Next]_vars => [Register!Next]_(Register!regVars)
  BY RegisterStep
<1> QED BY <1>1, <1>2, RegisterInit, PTL DEF Spec, ImplementsRegister, Register!Spec

-----------------------------------------------------------------------------
(* The room FrontSwap needs in the two maps when no write fails: a front   *)
(* keeps rows of at most two generations, a plan let in by                 *)
(* capacity_shortfall finds room for every row, and maps sized by          *)
(* front_map_max_entries refuse no plan.                                   *)

\* The rows of FRONT_ENDPOINTS and the fronts of FRONT_META.
LiveRows == {k \in Fronts \X Gens \X Slots : rows[k] # Nothing}
LiveMeta == {f \in Fronts : meta[f] # Nothing}

\* The generations of a front's rows are two, one of them the live one.
TwoGens(f) ==
    \E g, h \in Gens : /\ \A k \in Existing(f) : k[1] = g \/ k[1] = h
                       /\ meta[f] # Nothing => meta[f].gen = g

(***************************************************************************)
(* What is left of plan p of front f: the rows it deletes are there, rows  *)
(* are written only for a commit of their generation, and a swap has       *)
(* deleted, or will delete, every row that is neither live nor its own.    *)
(***************************************************************************)
Tidy(f, p) ==
    /\ p.dels \subseteq Existing(f)
    /\ p.withdraw => meta[f] # Nothing
    /\ p.at <= Len(p.puts) => p.commit # Nothing /\ p.commit.gen = p.gen
    /\ IsSwap(f, p) =>
         /\ p.commit.gen = p.gen
         /\ \A k \in Existing(f) :
               \/ k \in p.dels
               \/ k[1] = p.gen /\ k[2] < p.at
               \/ meta[f] # Nothing /\ k[1] = meta[f].gen

\* The rows plan p still adds, and the room for them.
Adds(p) == ((Len(p.puts) - p.at) + 1) - Cardinality(p.dels)

\* FrontUsage is exact during a pass, and the running plan has its room.
Counted ==
    pc = "pass" =>
        /\ used.endpoints = RowCount
        /\ used.meta = MetaCount
        /\ cur # Nothing => RowCount + Adds(work) <= EndpointCap

\* The maps as front_map_max_entries sizes them.
Sized ==
    /\ MetaCap >= Cardinality(Fronts)
    /\ EndpointCap >= 2 * MaxSlots * Cardinality(Fronts)

\* What holds as long as no write has failed.
Orderly ==
    /\ \A f \in Fronts : TwoGens(f)
    /\ cur # Nothing => Tidy(cur, work)
    /\ Counted
    /\ ~blocked
    /\ Sized => ~failed

CInv == IInv /\ used \in [meta : Int, endpoints : Int] /\ (faults = 0 => Orderly)

-----------------------------------------------------------------------------
(* Counting rows.                                                          *)

\* The size of a product of two finite sets.
LEMMA ProductSize ==
  ASSUME NEW A, NEW B, IsFiniteSet(A), IsFiniteSet(B)
  PROVE  IsFiniteSet(A \X B) /\ Cardinality(A \X B) = Cardinality(A) * Cardinality(B)
BY FS_Product, Zenon

\* One generation with m slots has m row keys.
LEMMA GenerationSize ==
  ASSUME NEW g, NEW m \in Nat
  PROVE  IsFiniteSet({g} \X (1..m)) /\ Cardinality({g} \X (1..m)) = m
<1>1. IsFiniteSet({g}) /\ Cardinality({g}) = 1
  BY FS_Singleton, Zenon
<1>2. IsFiniteSet(1..m) /\ Cardinality(1..m) = m
  BY FS_Interval
<1>3. /\ IsFiniteSet({g} \X (1..m))
      /\ Cardinality({g} \X (1..m)) = Cardinality({g}) * Cardinality(1..m)
  BY <1>1, <1>2, ProductSize, Zenon
<1> QED BY <1>1, <1>2, <1>3

\* There are finitely many row keys, per front and in all.
LEMMA KeysFinite ==
  /\ IsFiniteSet(Keys) /\ IsFiniteSet(Fronts \X Gens \X Slots)
  /\ IsFiniteSet(Slots) /\ Cardinality(Slots) = MaxSlots
<1>1. IsFiniteSet(Gens)
  BY SwapAssumption, FS_Interval DEF SwapAssumption, Gens
<1>2. IsFiniteSet(Slots) /\ Cardinality(Slots) = MaxSlots
  <2>1. MaxSlots \in Int /\ MaxSlots >= 0
    BY DesiredAssumption DEF DesiredAssumption
  <2> QED BY <2>1, FS_Interval DEF Slots
<1>3. IsFiniteSet(Keys)
  BY <1>1, <1>2, ProductSize, Zenon DEF Keys
<1>4. IsFiniteSet(Fronts \X Keys)
  BY <1>3, ProductSize, DesiredAssumption, Zenon DEF DesiredAssumption
<1> DEFINE m == [p \in Fronts \X Keys |-> <<p[1], p[2][1], p[2][2]>>]
<1>5. m \in Surjection(Fronts \X Keys, Fronts \X Gens \X Slots)
  <2>1. m \in [Fronts \X Keys -> Fronts \X Gens \X Slots]
    BY DEF Keys
  <2>2. ASSUME NEW t \in Fronts \X Gens \X Slots PROVE \E p \in Fronts \X Keys : m[p] = t
    <3>1. <<t[1], <<t[2], t[3]>>>> \in Fronts \X Keys
      BY DEF Keys
    <3>2. m[<<t[1], <<t[2], t[3]>>>>] = t
      BY <3>1
    <3> QED BY <3>1, <3>2
  <2> QED BY <2>1, <2>2 DEF Surjection
<1>6. IsFiniteSet(Fronts \X Gens \X Slots)
  <2> HIDE DEF m
  <2> QED BY <1>4, <1>5, FS_Surjection
<1> QED BY <1>2, <1>3, <1>6

\* The counts a pass starts from (RowCount, MetaCount) are numbers.
LEMMA CountTypes ==
  /\ IsFiniteSet(LiveRows) /\ RowCount = Cardinality(LiveRows) /\ RowCount \in Nat
  /\ IsFiniteSet(LiveMeta) /\ MetaCount = Cardinality(LiveMeta) /\ MetaCount \in Nat
  /\ MetaCount <= Cardinality(Fronts) /\ Cardinality(Fronts) \in Nat
<1>1. IsFiniteSet(LiveRows)
  BY KeysFinite, FS_Subset DEF LiveRows
<1>2. IsFiniteSet(LiveMeta) /\ Cardinality(LiveMeta) <= Cardinality(Fronts)
  BY FS_Subset, DesiredAssumption DEF LiveMeta, DesiredAssumption
<1>3. RowCount = Cardinality(LiveRows) /\ MetaCount = Cardinality(LiveMeta)
  BY DEF RowCount, MetaCount, LiveRows, LiveMeta
<1>4. Cardinality(Fronts) \in Nat
  BY FS_CardinalityType, DesiredAssumption DEF DesiredAssumption
<1> QED BY <1>1, <1>2, <1>3, <1>4, FS_CardinalityType

\* A deleted row is one row less, of its front only.
LEMMA RowGone ==
  ASSUME TypeOK, NEW f \in Fronts, NEW k \in Existing(f),
         rows' = [rows EXCEPT ![<<f, k[1], k[2]>>] = Nothing]
  PROVE  /\ RowCount' = RowCount - 1
         /\ Existing(f)' = Existing(f) \ {k}
         /\ \A g \in Fronts \ {f} : Existing(g)' = Existing(g)
<1> DEFINE key == <<f, k[1], k[2]>>
<1>1. key \in LiveRows /\ key \in Fronts \X Gens \X Slots /\ k \in Keys
  BY DEF LiveRows, Existing, Keys
<1>2. LiveRows' = LiveRows \ {key}
  BY <1>1 DEF LiveRows, TypeOK
<1>3. RowCount' = RowCount - 1
  <2>1. RowCount' = Cardinality(LiveRows') /\ RowCount = Cardinality(LiveRows)
    BY DEF RowCount, LiveRows
  <2>2. IsFiniteSet(LiveRows)
    BY CountTypes
  <2> QED BY <1>1, <1>2, <2>1, <2>2, FS_RemoveElement
<1>4. ASSUME NEW j \in Keys
      PROVE  j \in Existing(f)' <=> j \in Existing(f) \ {k}
  <2>1. j = <<j[1], j[2]>> /\ k = <<k[1], k[2]>> /\ <<f, j[1], j[2]>> \in Fronts \X Gens \X Slots
    BY <1>1 DEF Keys
  <2> QED BY <1>1, <2>1 DEF Existing, TypeOK
<1>5. Existing(f)' = Existing(f) \ {k}
  BY <1>4 DEF Existing
<1>6. ASSUME NEW g \in Fronts \ {f} PROVE Existing(g)' = Existing(g)
  <2>1. ASSUME NEW j \in Keys PROVE rows'[<<g, j[1], j[2]>>] = rows[<<g, j[1], j[2]>>]
    <3>1. <<g, j[1], j[2]>> \in Fronts \X Gens \X Slots /\ <<g, j[1], j[2]>> # key
      BY DEF Keys
    <3> QED BY <3>1 DEF TypeOK
  <2> QED BY <2>1 DEF Existing
<1> QED BY <1>3, <1>5, <1>6

\* A row written where there was none is one row more, of its front only.
LEMMA RowAdded ==
  ASSUME TypeOK, NEW f \in Fronts, NEW g \in Gens, NEW s \in Slots, NEW e \in Endpoints,
         rows' = [rows EXCEPT ![<<f, g, s>>] = e]
  PROVE  /\ rows[<<f, g, s>>] = Nothing => RowCount' = RowCount + 1
         /\ Existing(f)' = Existing(f) \cup {<<g, s>>}
         /\ \A h \in Fronts \ {f} : Existing(h)' = Existing(h)
<1> DEFINE key == <<f, g, s>>
<1>1. key \in Fronts \X Gens \X Slots /\ <<g, s>> \in Keys /\ e # Nothing
  BY DesiredAssumption DEF Keys, DesiredAssumption
<1>2. LiveRows' = LiveRows \cup {key}
  BY <1>1 DEF LiveRows, TypeOK
<1>3. ASSUME rows[key] = Nothing PROVE RowCount' = RowCount + 1
  <2>1. RowCount' = Cardinality(LiveRows') /\ RowCount = Cardinality(LiveRows)
    BY DEF RowCount, LiveRows
  <2>2. IsFiniteSet(LiveRows)
    BY CountTypes
  <2>3. key \notin LiveRows
    BY <1>3 DEF LiveRows
  <2> QED BY <1>2, <2>1, <2>2, <2>3, FS_AddElement
<1>4. ASSUME NEW j \in Keys
      PROVE  j \in Existing(f)' <=> j \in Existing(f) \cup {<<g, s>>}
  <2>1. j = <<j[1], j[2]>> /\ <<f, j[1], j[2]>> \in Fronts \X Gens \X Slots
    BY DEF Keys
  <2> QED BY <1>1, <2>1 DEF Existing, TypeOK
<1>5. Existing(f)' = Existing(f) \cup {<<g, s>>}
  BY <1>1, <1>4 DEF Existing
<1>6. ASSUME NEW h \in Fronts \ {f} PROVE Existing(h)' = Existing(h)
  <2>1. ASSUME NEW j \in Keys PROVE rows'[<<h, j[1], j[2]>>] = rows[<<h, j[1], j[2]>>]
    <3>1. <<h, j[1], j[2]>> \in Fronts \X Gens \X Slots /\ <<h, j[1], j[2]>> # key
      BY DEF Keys
    <3> QED BY <3>1 DEF TypeOK
  <2> QED BY <2>1 DEF Existing
<1> QED BY <1>3, <1>5, <1>6

\* A withdrawn front is one front less, a front that enters FRONT_META one more.
LEMMA MetaCounted ==
  ASSUME TypeOK, NEW f \in Fronts
  PROVE  /\ meta[f] # Nothing /\ meta' = [meta EXCEPT ![f] = Nothing]
              => MetaCount' = MetaCount - 1
         /\ \A m \in Metas : m # Nothing /\ meta' = [meta EXCEPT ![f] = m]
              => MetaCount' = IF meta[f] = Nothing THEN MetaCount + 1 ELSE MetaCount
<1>1. /\ IsFiniteSet(LiveMeta) /\ MetaCount = Cardinality(LiveMeta)
      /\ MetaCount' = Cardinality(LiveMeta')
  BY CountTypes DEF MetaCount, LiveMeta
<1>2. ASSUME meta[f] # Nothing, meta' = [meta EXCEPT ![f] = Nothing]
      PROVE  MetaCount' = MetaCount - 1
  <2>1. LiveMeta' = LiveMeta \ {f} /\ f \in LiveMeta
    BY <1>2 DEF LiveMeta, TypeOK
  <2> QED BY <1>1, <2>1, FS_RemoveElement
<1>3. ASSUME NEW m \in Metas, m # Nothing, meta' = [meta EXCEPT ![f] = m]
      PROVE  MetaCount' = IF meta[f] = Nothing THEN MetaCount + 1 ELSE MetaCount
  <2>1. LiveMeta' = LiveMeta \cup {f} /\ (f \in LiveMeta <=> meta[f] # Nothing)
    BY <1>3 DEF LiveMeta, TypeOK
  <2> QED BY <1>1, <2>1, FS_AddElement
<1> QED BY <1>2, <1>3

-----------------------------------------------------------------------------
(* Each step keeps the writer orderly as long as no write fails.           *)

\* A fresh plan is tidy: plan_front_writes deletes rows it has read, and a swap
\* deletes every superseded one.
LEMMA FreshTidy ==
  ASSUME TypeOK, NEW f \in Fronts
  PROVE  Tidy(f, PlanFor(f))
<1>1. CASE PlanFor(f) = NoWork
  BY <1>1 DEF NoWork, Tidy, IsSwap
<1>2. CASE PlanFor(f) = WithdrawPlan(f)
  <2>1. /\ PlanFor(f).withdraw => meta[f] # Nothing
        /\ PlanFor(f).dels = Existing(f) /\ PlanFor(f).puts = <<>>
        /\ PlanFor(f).at = 1 /\ PlanFor(f).commit = Nothing
    BY <1>2 DEF WithdrawPlan, NoWork
  <2> QED BY <2>1 DEF Tidy, IsSwap
<1>3. CASE PlanFor(f) = CleanPlan(f) /\ Unchanged(f)
  <2>1. meta[f] \in Metas
    BY <1>3 DEF Unchanged, TypeOK
  <2>2. /\ ~PlanFor(f).withdraw /\ PlanFor(f).dels = {k \in Existing(f) : ~Kept(f, k[1])}
        /\ PlanFor(f).puts = <<>> /\ PlanFor(f).at = 1
        /\ PlanFor(f).commit = IF meta[f].flags # want[f].flags
                               THEN [meta[f] EXCEPT !.flags = want[f].flags] ELSE Nothing
    BY <1>3 DEF CleanPlan, NoWork
  <2>3. [meta[f] EXCEPT !.flags = want[f].flags].gen = meta[f].gen
    BY <2>1 DEF Metas
  <2>4. ~IsSwap(f, PlanFor(f))
    BY <1>3, <2>2, <2>3 DEF IsSwap, Unchanged
  <2> QED BY <2>2, <2>4 DEF Tidy
<1>4. CASE PlanFor(f) = SwapPlan(f) /\ want[f] # Nothing
  <2>1. /\ ~PlanFor(f).withdraw /\ PlanFor(f).dels = Superseded(f)
        /\ PlanFor(f).gen = SwapGen(f) /\ PlanFor(f).commit.gen = SwapGen(f)
        /\ PlanFor(f).commit = [gen |-> SwapGen(f), count |-> Len(want[f].endpoints),
                                localCount |-> LocalCount(want[f]), flags |-> want[f].flags]
    BY <1>4 DEF SwapPlan
  <2>2. PlanFor(f).commit # Nothing
    <3>1. want[f] \in Wants
      BY <1>4 DEF TypeOK
    <3>2. /\ LocalCount(want[f]) \in Nat /\ want[f].flags \in {0, 1}
          /\ Len(want[f].endpoints) \in 0..MaxSlots
      BY <3>1, LocalCountType, DesiredAssumption DEF DesiredAssumption
    <3>3. SwapGen(f) \in Gens
      <4>1. CASE meta[f] = Nothing
        BY <4>1, SwapAssumption DEF SwapGen, Gens, SwapAssumption
      <4>2. CASE meta[f] # Nothing
        BY <4>2, NextGenType DEF SwapGen, TypeOK, Metas
      <4> QED BY <4>1, <4>2
    <3> QED BY <2>1, <3>2, <3>3, SwapAssumption DEF SwapAssumption, Gens
  <2>3. \A k \in Existing(f) : k \in Superseded(f) \/ (meta[f] # Nothing /\ k[1] = meta[f].gen)
    BY DEF Superseded
  <2> QED BY <2>1, <2>2, <2>3 DEF Tidy, Superseded
<1> QED BY <1>1, <1>2, <1>3, <1>4 DEF PlanFor

\* A running plan that still has rows to write is a swap: all it leaves of its
\* front's rows is the live generation and its own.
LEMMA WritesTidily ==
  ASSUME IInv, cur # Nothing, Tidy(cur, work), ~work.withdraw, work.dels = {},
         work.at <= Len(work.puts)
  PROVE  /\ IsSwap(cur, work) /\ work.gen \in Gens /\ work.at \in Slots
         /\ work.puts[work.at] \in Endpoints
         /\ rows[<<cur, work.gen, work.at>>] = Nothing
         /\ \A k \in Existing(cur) : \/ k[1] = work.gen /\ k[2] < work.at
                                     \/ meta[cur] # Nothing /\ k[1] = meta[cur].gen
<1>0. /\ cur \in Fronts /\ work \in Works /\ work.at \in 1..(Len(work.puts) + 1)
      /\ Len(work.puts) <= MaxSlots /\ Len(work.puts) \in Nat
  BY LenProperties DEF IInv, TypeOK, Works
<1>1. work.at \in 1..Len(work.puts) /\ work.at \in Slots /\ work.gen \in Gens
  BY <1>0, DesiredAssumption DEF Works, Slots, DesiredAssumption
<1>2. work.puts[work.at] \in Endpoints
  BY <1>0, <1>1, ElementOfSeq DEF Works
<1>3. meta[cur] # Nothing => work.gen # meta[cur].gen
  BY DEF IInv, PlanSafe, LiveSafe
<1>4. IsSwap(cur, work)
  BY <1>3 DEF Tidy, IsSwap
<1>5. \A k \in Existing(cur) : \/ k[1] = work.gen /\ k[2] < work.at
                               \/ meta[cur] # Nothing /\ k[1] = meta[cur].gen
  BY <1>4 DEF Tidy
<1>6. rows[<<cur, work.gen, work.at>>] = Nothing
  <2>1. <<work.gen, work.at>> \in Keys
    BY <1>1 DEF Keys
  <2>2. work.at \in Nat
    BY <1>0
  <2>3. <<work.gen, work.at>> \notin Existing(cur)
    BY <1>3, <1>5, <2>2
  <2> QED BY <2>1, <2>3 DEF Existing
<1> QED BY <1>1, <1>2, <1>4, <1>5, <1>6

\* DeleteMeta.
LEMMA OrderlyDeleteMeta ==
  ASSUME IInv, used \in [meta : Int, endpoints : Int], Orderly, DeleteMeta,
         faults = 0, faults' = 0
  PROVE  Orderly'
<1>0. cur \in Fronts /\ work \in Works /\ Tidy(cur, work) /\ pc = "pass"
  BY DEF DeleteMeta, IInv, TypeOK, Orderly, PlanSafe
<1>1. /\ meta' = [meta EXCEPT ![cur] = Nothing] /\ work' = [work EXCEPT !.withdraw = FALSE]
      /\ used' = [used EXCEPT !.meta = @ - 1] /\ failed' = failed /\ meta[cur] # Nothing
      /\ UNCHANGED <<cur, rows, pc, blocked>>
  BY <1>0 DEF DeleteMeta, Fails, Succeeds, Writing, Tidy
<1>2. /\ ~work'.withdraw /\ work'.dels = work.dels /\ work'.gen = work.gen
      /\ work'.puts = work.puts /\ work'.at = work.at /\ work'.commit = work.commit
  BY <1>0, <1>1, WithdrawPart
<1>3. meta'[cur] = Nothing /\ (\A f \in Fronts \ {cur} : meta'[f] = meta[f])
  BY <1>0, <1>1 DEF IInv, TypeOK
<1>4. \A f \in Fronts : TwoGens(f)'
  BY <1>1, <1>3 DEF Orderly, TwoGens, Existing
<1>5. Tidy(cur, work)'
  <2>1. work.commit = Nothing /\ work.puts = <<>>
    BY <1>0 DEF DeleteMeta, IInv, PlanSafe, WithdrawSafe
  <2> QED BY <1>0, <1>1, <1>2, <2>1 DEF Tidy, IsSwap, Existing
<1>6. Counted'
  <2>1. MetaCount' = MetaCount - 1
    BY <1>0, <1>1, MetaCounted DEF IInv
  <2>2. RowCount' = RowCount /\ Adds(work)' = Adds(work)
    BY <1>1, <1>2 DEF RowCount, Adds
  <2>3. used'.meta = used.meta - 1 /\ used'.endpoints = used.endpoints
    BY <1>1
  <2>4. /\ used.endpoints = RowCount /\ used.meta = MetaCount
        /\ cur # Nothing => RowCount + Adds(work) <= EndpointCap
    BY <1>0 DEF Orderly, Counted
  <2> QED BY <1>1, <2>1, <2>2, <2>3, <2>4 DEF Counted
<1> QED BY <1>1, <1>4, <1>5, <1>6 DEF Orderly, Sized

\* DeleteEndpoint.
LEMMA OrderlyDeleteEndpoint ==
  ASSUME IInv, used \in [meta : Int, endpoints : Int], Orderly,
         NEW k \in Keys, DeleteEndpoint(k), faults = 0, faults' = 0
  PROVE  Orderly'
<1>0. cur \in Fronts /\ work \in Works /\ Tidy(cur, work) /\ pc = "pass"
  BY DEF DeleteEndpoint, IInv, TypeOK, Orderly, PlanSafe
<1>1. /\ rows' = [rows EXCEPT ![<<cur, k[1], k[2]>>] = Nothing]
      /\ work' = [work EXCEPT !.dels = work.dels \ {k}] /\ k \in work.dels
      /\ used' = [used EXCEPT !.endpoints = @ - 1] /\ failed' = failed
      /\ UNCHANGED <<cur, meta, pc, blocked>>
  BY DEF DeleteEndpoint, Fails, Succeeds, Writing
<1>2. /\ work'.withdraw = work.withdraw /\ work'.dels = work.dels \ {k} /\ work'.gen = work.gen
      /\ work'.puts = work.puts /\ work'.at = work.at /\ work'.commit = work.commit
  <2>1. work.dels \ {k} \in SUBSET Keys
    BY <1>0 DEF Works
  <2> QED BY <1>0, <1>1, <2>1, DeletePart
<1>3. /\ RowCount' = RowCount - 1 /\ Existing(cur)' = Existing(cur) \ {k}
      /\ \A f \in Fronts \ {cur} : Existing(f)' = Existing(f)
  <2>1. k \in Existing(cur) /\ TypeOK
    BY <1>0, <1>1 DEF Tidy, IInv
  <2>2. PICK c \in Fronts : c = cur
    BY <1>0
  <2>3. /\ RowCount' = RowCount - 1 /\ Existing(c)' = Existing(c) \ {k}
        /\ \A f \in Fronts \ {c} : Existing(f)' = Existing(f)
    BY <1>1, <2>1, <2>2, RowGone
  <2> QED BY <1>1, <2>2, <2>3 DEF Existing
<1>4. ASSUME NEW f \in Fronts PROVE TwoGens(f)'
  <2>1. Existing(f)' \subseteq Existing(f)
    BY <1>1, <1>3 DEF Existing
  <2> QED BY <1>1, <2>1 DEF Orderly, TwoGens
<1>5. Tidy(cur, work)'
  <2>1. IsSwap(cur, work)' => IsSwap(cur, work)
    BY <1>1, <1>2 DEF IsSwap
  <2> QED BY <1>0, <1>1, <1>2, <1>3, <2>1 DEF Tidy
<1>6. Counted'
  <2>1. IsFiniteSet(work.dels)
    BY <1>0, KeysFinite, FS_Subset DEF Works
  <2>2. Cardinality(work'.dels) = Cardinality(work.dels) - 1 /\ Cardinality(work.dels) \in Nat
    BY <1>1, <1>2, <2>1, FS_RemoveElement, FS_CardinalityType
  <2>3. Len(work.puts) \in Nat /\ work.at \in Nat
    BY <1>0, LenProperties DEF Works
  <2>4. Adds(work)' = Adds(work) + 1
    BY <1>2, <2>2, <2>3 DEF Adds
  <2>5. used'.meta = used.meta /\ used'.endpoints = used.endpoints - 1
    BY <1>1
  <2>6. RowCount \in Nat /\ Adds(work) \in Int /\ MetaCount' = MetaCount
    BY <1>1, <2>2, <2>3, CountTypes DEF Adds, MetaCount
  <2>7. /\ used.endpoints = RowCount /\ used.meta = MetaCount
        /\ cur # Nothing => RowCount + Adds(work) <= EndpointCap
    BY <1>0 DEF Orderly, Counted
  <2>8. RowCount' + Adds(work)' = RowCount + Adds(work)
    BY <1>3, <2>4, <2>6
  <2> QED BY <1>1, <1>3, <2>5, <2>6, <2>7, <2>8 DEF Counted
<1> QED BY <1>1, <1>4, <1>5, <1>6 DEF Orderly, Sized

\* PutEndpoint: there is room for the row.
LEMMA OrderlyPutEndpoint ==
  ASSUME IInv, used \in [meta : Int, endpoints : Int], Orderly, PutEndpoint,
         faults = 0, faults' = 0
  PROVE  Orderly'
<1>0. /\ cur \in Fronts /\ work \in Works /\ Tidy(cur, work) /\ pc = "pass" /\ cur # Nothing
      /\ ~work.withdraw /\ work.dels = {} /\ work.at <= Len(work.puts)
  BY DEF PutEndpoint, IInv, TypeOK, Orderly, PlanSafe
<1>1. Len(work.puts) \in Nat /\ work.at \in Nat /\ work.at + 1 \in Nat
  BY <1>0, LenProperties DEF Works
<1>2. Adds(work) = (Len(work.puts) - work.at) + 1
  BY <1>0, <1>1, FS_EmptySet DEF Adds
<1>3. /\ used.endpoints = RowCount /\ used.meta = MetaCount
      /\ RowCount + Adds(work) <= EndpointCap
  BY <1>0 DEF Orderly, Counted
<1>4. ~(RowCount >= EndpointCap)
  <2>1. RowCount \in Nat /\ EndpointCap \in Nat
    BY CountTypes, SwapAssumption DEF SwapAssumption
  <2> QED BY <1>0, <1>1, <1>2, <1>3, <2>1
<1>5. /\ IsSwap(cur, work) /\ work.gen \in Gens /\ work.at \in Slots
      /\ work.puts[work.at] \in Endpoints
      /\ rows[<<cur, work.gen, work.at>>] = Nothing
      /\ \A k \in Existing(cur) : \/ k[1] = work.gen /\ k[2] < work.at
                                  \/ meta[cur] # Nothing /\ k[1] = meta[cur].gen
  BY <1>0, WritesTidily
<1>6. /\ rows' = [rows EXCEPT ![<<cur, work.gen, work.at>>] = work.puts[work.at]]
      /\ work' = [work EXCEPT !.at = work.at + 1]
      /\ used' = [used EXCEPT !.endpoints = @ + 1] /\ failed' = failed
      /\ UNCHANGED <<cur, meta, pc, blocked>>
  BY <1>4 DEF PutEndpoint, Fails, Succeeds, Writing
<1>7. /\ work'.withdraw = work.withdraw /\ work'.dels = work.dels /\ work'.gen = work.gen
      /\ work'.puts = work.puts /\ work'.at = work.at + 1 /\ work'.commit = work.commit
  BY <1>0, <1>1, <1>6, SlotPart
<1>8. /\ RowCount' = RowCount + 1
      /\ Existing(cur)' = Existing(cur) \cup {<<work.gen, work.at>>}
      /\ \A f \in Fronts \ {cur} : Existing(f)' = Existing(f)
  <2>1. PICK c \in Fronts : c = cur
    BY <1>0
  <2>2. /\ RowCount' = RowCount + 1
        /\ Existing(c)' = Existing(c) \cup {<<work.gen, work.at>>}
        /\ \A f \in Fronts \ {c} : Existing(f)' = Existing(f)
    BY <1>5, <1>6, <2>1, RowAdded DEF IInv
  <2> QED BY <1>6, <2>1, <2>2 DEF Existing
<1>9. ASSUME NEW f \in Fronts PROVE TwoGens(f)'
  <2>1. CASE f # cur
    BY <1>6, <1>8, <2>1 DEF Orderly, TwoGens
  <2>2. CASE f = cur
    <3>1. Existing(f)' = Existing(cur) \cup {<<work.gen, work.at>>} /\ meta' = meta
      BY <1>6, <1>8, <2>2 DEF Existing
    <3>2. CASE meta[f] = Nothing
      BY <1>5, <2>2, <3>1, <3>2 DEF TwoGens
    <3>3. CASE meta[f] # Nothing
      <4>1. meta[f].gen \in Gens
        BY <3>3 DEF IInv, TypeOK, Metas
      <4> QED BY <1>5, <2>2, <3>1, <4>1 DEF TwoGens
    <3> QED BY <3>2, <3>3
  <2> QED BY <2>1, <2>2
<1>10. Tidy(cur, work)'
  <2>1. \A k \in Existing(cur)' : \/ k[1] = work.gen /\ k[2] < work.at + 1
                                  \/ meta[cur] # Nothing /\ k[1] = meta[cur].gen
    <3>1. \A k \in Existing(cur) : k[2] \in Nat
      BY DEF Existing, Keys, Slots
    <3> QED BY <1>1, <1>5, <1>8, <3>1
  <2>2. work.commit # Nothing /\ work.commit.gen = work.gen
    BY <1>0 DEF Tidy
  <2> QED BY <1>0, <1>6, <1>7, <1>8, <2>1, <2>2 DEF Tidy
<1>11. Counted'
  <2>1. Adds(work)' = (Len(work.puts) - (work.at + 1)) + 1
    BY <1>0, <1>1, <1>7, FS_EmptySet DEF Adds
  <2>2. used'.meta = used.meta /\ used'.endpoints = used.endpoints + 1
    BY <1>6
  <2>3. RowCount \in Nat /\ EndpointCap \in Nat /\ MetaCount' = MetaCount
    BY <1>6, CountTypes, SwapAssumption DEF SwapAssumption, MetaCount
  <2>4. Adds(work)' = Adds(work) - 1 /\ Adds(work) \in Int
    BY <1>1, <1>2, <2>1
  <2>5. RowCount' + Adds(work)' = RowCount + Adds(work)
    BY <1>8, <2>3, <2>4
  <2> QED BY <1>3, <1>8, <2>2, <2>3, <2>5 DEF Counted
<1> QED BY <1>6, <1>9, <1>10, <1>11 DEF Orderly, Sized

\* PutMeta: maps sized for every front have room for this one.
LEMMA OrderlyPutMeta ==
  ASSUME IInv, used \in [meta : Int, endpoints : Int], Orderly, PutMeta,
         faults = 0, faults' = 0
  PROVE  Orderly'
<1>0. /\ cur \in Fronts /\ work \in Works /\ Tidy(cur, work) /\ pc = "pass" /\ cur # Nothing
      /\ ~work.withdraw /\ work.dels = {} /\ work.at > Len(work.puts)
      /\ work.commit # Nothing /\ work.commit \in Metas
      /\ UNCHANGED <<rows, blocked, cur, pc>>
  BY DEF PutMeta, IInv, TypeOK, Orderly, PlanSafe, Works, Writing
<1>1. /\ work'.withdraw = work.withdraw /\ work'.dels = {} /\ work'.gen = work.gen
      /\ work'.puts = work.puts /\ work'.at = work.at /\ work'.commit = Nothing
  BY <1>0, CommitPart DEF PutMeta
<1>2. Tidy(cur, work)'
  <2>1. ~(work.at <= Len(work.puts))
    BY <1>0, LenProperties DEF Works
  <2> QED BY <1>0, <1>1, <2>1 DEF Tidy, IsSwap
<1>3. Adds(work)' = Adds(work) /\ RowCount' = RowCount
  BY <1>0, <1>1 DEF Adds, RowCount
<1>4. /\ used.endpoints = RowCount /\ used.meta = MetaCount
      /\ RowCount + Adds(work) <= EndpointCap
  BY <1>0 DEF Orderly, Counted
<1>5. CASE /\ meta' = [meta EXCEPT ![cur] = work.commit] /\ failed' = failed
           /\ used' = IF meta[cur] = Nothing THEN [used EXCEPT !.meta = @ + 1] ELSE used
  <2>1. meta'[cur] = work.commit /\ (\A f \in Fronts \ {cur} : meta'[f] = meta[f])
    BY <1>0, <1>5 DEF IInv, TypeOK
  <2>2. ASSUME NEW f \in Fronts PROVE TwoGens(f)'
    <3>1. CASE f # cur
      BY <1>0, <2>1, <3>1 DEF Orderly, TwoGens, Existing
    <3>2. CASE f = cur /\ IsSwap(cur, work)
      <4>1. \A k \in Existing(f) : \/ k[1] = work.gen
                                   \/ meta[f] # Nothing /\ k[1] = meta[f].gen
        BY <1>0, <3>2 DEF Tidy
      <4>2. work.gen \in Gens /\ meta'[f].gen = work.gen /\ Existing(f)' = Existing(f)
        BY <1>0, <2>1, <3>2 DEF Tidy, Works, Existing
      <4>3. meta[f] # Nothing => meta[f].gen \in Gens
        BY DEF IInv, TypeOK, Metas
      <4> QED BY <4>1, <4>2, <4>3 DEF TwoGens
    <3>3. CASE f = cur /\ ~IsSwap(cur, work)
      <4>1. meta[f] # Nothing /\ meta'[f].gen = meta[f].gen
        BY <1>0, <2>1, <3>3 DEF IsSwap
      <4> QED BY <1>0, <4>1 DEF Orderly, TwoGens, Existing
    <3> QED BY <3>1, <3>2, <3>3
  <2>3. MetaCount' = IF meta[cur] = Nothing THEN MetaCount + 1 ELSE MetaCount
    BY <1>0, <1>5, MetaCounted DEF IInv
  <2>4. used'.endpoints = used.endpoints /\ used'.meta = MetaCount'
    BY <1>4, <1>5, <2>3
  <2>5. Counted'
    BY <1>3, <1>4, <2>4 DEF Counted
  <2> QED BY <1>0, <1>2, <1>5, <2>2, <2>5 DEF Orderly, Sized
<1>6. CASE /\ meta[cur] = Nothing /\ MetaCount >= MetaCap /\ failed' = TRUE
           /\ meta' = meta /\ used' = used
  <2>1. ~Sized
    <3>1. LiveMeta \in SUBSET Fronts /\ LiveMeta # Fronts
      BY <1>0, <1>6 DEF LiveMeta
    <3>2. MetaCount # Cardinality(Fronts)
      BY <3>1, CountTypes, FS_Subset, DesiredAssumption DEF DesiredAssumption
    <3>3. MetaCount \in Nat /\ Cardinality(Fronts) \in Nat /\ MetaCount <= Cardinality(Fronts)
            /\ MetaCap \in Nat
      BY CountTypes, SwapAssumption DEF SwapAssumption
    <3> QED BY <1>6, <3>2, <3>3 DEF Sized
  <2>2. \A f \in Fronts : TwoGens(f)'
    BY <1>0, <1>6 DEF Orderly, TwoGens, Existing
  <2>3. Counted'
    BY <1>3, <1>4, <1>6 DEF Counted, MetaCount
  <2> QED BY <1>0, <1>2, <2>1, <2>2, <2>3 DEF Orderly, Sized
<1>7. ~Fails
  BY DEF Fails
<1>8. \/ /\ meta' = [meta EXCEPT ![cur] = work.commit] /\ Succeeds
         /\ used' = IF meta[cur] = Nothing THEN [used EXCEPT !.meta = @ + 1] ELSE used
      \/ /\ meta[cur] = Nothing /\ MetaCount >= MetaCap /\ failed' = TRUE
         /\ UNCHANGED <<meta, used, swapped>>
  BY <1>7 DEF PutMeta
<1> QED BY <1>5, <1>6, <1>8 DEF Succeeds

-----------------------------------------------------------------------------
(* front_map_max_entries leaves room for every plan.                       *)

\* Rows of at most two generations of every front.
LEMMA TwoGenBound ==
  ASSUME NEW S \in SUBSET (Fronts \X Gens \X Slots),
         \A f \in Fronts : \E g, h \in Gens : \A k \in S : k[1] = f => k[2] = g \/ k[2] = h
  PROVE  IsFiniteSet(S) /\ Cardinality(S) <= 2 * MaxSlots * Cardinality(Fronts)
<1> DEFINE c == [f \in Fronts |-> CHOOSE q \in Gens \X Gens :
                                   \A k \in S : k[1] = f => k[2] = q[1] \/ k[2] = q[2]]
           U == Fronts \X ((1..2) \X Slots)
           m == [p \in U |-> <<p[1], c[p[1]][p[2][1]], p[2][2]>>]
           T == {m[p] : p \in U}
<1>1. ASSUME NEW f \in Fronts
      PROVE  \A k \in S : k[1] = f => k[2] = c[f][1] \/ k[2] = c[f][2]
  <2>1. PICK g \in Gens, h \in Gens : \A k \in S : k[1] = f => k[2] = g \/ k[2] = h
    OBVIOUS
  <2>2. /\ <<g, h>> \in Gens \X Gens
        /\ \A k \in S : k[1] = f => k[2] = <<g, h>>[1] \/ k[2] = <<g, h>>[2]
    BY <2>1
  <2>3. \E q \in Gens \X Gens : \A k \in S : k[1] = f => k[2] = q[1] \/ k[2] = q[2]
    BY <2>2
  <2> QED BY <2>3
<1>2. IsFiniteSet(U) /\ Cardinality(U) = Cardinality(Fronts) * (2 * MaxSlots)
  <2>1. IsFiniteSet(1..2) /\ Cardinality(1..2) = 2
    <3>1. 1 \in Int /\ 2 \in Int
      OBVIOUS
    <3>2. IsFiniteSet(1..2) /\ Cardinality(1..2) = IF 1 > 2 THEN 0 ELSE 2 - 1 + 1
      BY <3>1, FS_Interval, Zenon
    <3> QED BY <3>2
  <2>2. IsFiniteSet((1..2) \X Slots) /\ Cardinality((1..2) \X Slots) = 2 * MaxSlots
    BY <2>1, KeysFinite, ProductSize, Zenon
  <2> QED BY <2>2, ProductSize, DesiredAssumption, Zenon DEF DesiredAssumption
<1>3. S \subseteq T
  <2> SUFFICES ASSUME NEW k \in S PROVE k \in T
    OBVIOUS
  <2>1. k[1] \in Fronts /\ k[3] \in Slots /\ k = <<k[1], k[2], k[3]>>
    OBVIOUS
  <2>2. PICK i \in 1..2 : k[2] = c[k[1]][i]
    BY <1>1, <2>1
  <2> DEFINE p == <<k[1], <<i, k[3]>>>>
  <2>3. p \in U /\ p[1] = k[1] /\ p[2][1] = i /\ p[2][2] = k[3]
    BY <2>1
  <2>4. m[p] = k
    BY <2>1, <2>2, <2>3
  <2> QED BY <2>3, <2>4
<1>4. IsFiniteSet(T) /\ Cardinality(T) <= Cardinality(U)
  <2>1. m \in Surjection(U, T)
    <3> HIDE DEF U
    <3>1. m \in [U -> T]
      OBVIOUS
    <3>2. \A t \in T : \E p \in U : m[p] = t
      OBVIOUS
    <3> QED BY <3>1, <3>2 DEF Surjection
  <2> HIDE DEF U, m, T
  <2> QED BY <1>2, <2>1, FS_Surjection
<1>5. IsFiniteSet(S) /\ Cardinality(S) <= Cardinality(T)
  <2> HIDE DEF T
  <2> QED BY <1>3, <1>4, FS_Subset
<1>6. Cardinality(S) \in Nat /\ Cardinality(T) \in Nat /\ Cardinality(U) \in Nat
  <2> HIDE DEF T, U
  <2> QED BY <1>2, <1>4, <1>5, FS_CardinalityType
<1>7. Cardinality(Fronts) * (2 * MaxSlots) = 2 * MaxSlots * Cardinality(Fronts)
  <2>1. Cardinality(Fronts) \in Nat /\ MaxSlots \in Nat
    BY CountTypes, DesiredAssumption DEF DesiredAssumption
  <2> QED BY <2>1
<1> HIDE DEF T, U
<1> QED BY <1>2, <1>4, <1>5, <1>6, <1>7

\* The keys of front f with the rows in d, and one row for each.
LEMMA FrontKeys ==
  ASSUME NEW f \in Fronts, NEW d \in SUBSET Keys
  PROVE  LET D == {<<f, k[1], k[2]>> : k \in d}
         IN  IsFiniteSet(D) /\ Cardinality(D) = Cardinality(d)
<1> DEFINE D == {<<f, k[1], k[2]>> : k \in d}
           m == [k \in d |-> <<f, k[1], k[2]>>]
<1>1. IsFiniteSet(d)
  BY KeysFinite, FS_Subset
<1>2. m \in Surjection(d, D)
  BY DEF Surjection
<1>3. m \in Injection(d, D)
  <2>1. m \in [d -> D]
    OBVIOUS
  <2>2. ASSUME NEW j \in d, NEW k \in d, m[j] = m[k] PROVE j = k
    <3>1. j = <<j[1], j[2]>> /\ k = <<k[1], k[2]>>
      BY DEF Keys
    <3> QED BY <2>2, <3>1
  <2> QED BY <2>1, <2>2 DEF Injection, IsInjective
<1> HIDE DEF D, m
<1>4. IsFiniteSet(D) /\ Cardinality(D) = Cardinality(d)
  BY <1>1, <1>2, <1>3, FS_Surjection
<1> QED BY <1>4 DEF D

\* The rows there are, and the rows there will be after plan_front_writes' swap of
\* a front, fit: two generations of each front.
LEMMA SizedRows ==
  ASSUME IInv, \A f \in Fronts : TwoGens(f), NEW f \in Fronts
  PROVE  RowCount + PeakRows(PlanFor(f)) <= 2 * MaxSlots * Cardinality(Fronts)
<1> DEFINE p == PlanFor(f)
           n == Len(p.puts)
           Bound == 2 * MaxSlots * Cardinality(Fronts)
<1>0. TypeOK
  BY DEF IInv
<1>1. p \in Works /\ n <= MaxSlots /\ n \in Nat /\ p.puts \in Seq(Endpoints)
  <2>1. p \in Works /\ n <= MaxSlots
    BY <1>0, PlanType
  <2>2. p.puts \in Seq(Endpoints)
    BY <2>1 DEF Works
  <2> QED BY <2>1, <2>2, LenProperties
<1>2. IsFiniteSet(p.dels) /\ Cardinality(p.dels) \in Nat /\ p.dels \in SUBSET Keys
  <2>1. p.dels \in SUBSET Keys
    BY <1>1 DEF Works
  <2> QED BY <2>1, KeysFinite, FS_Subset, FS_CardinalityType
<1>3. ASSUME NEW h \in Fronts
      PROVE  \E a1, a2 \in Gens : \A k \in LiveRows : k[1] = h => k[2] = a1 \/ k[2] = a2
  <2>1. PICK a1 \in Gens, a2 \in Gens : \A k \in Existing(h) : k[1] = a1 \/ k[1] = a2
    BY DEF TwoGens
  <2>2. ASSUME NEW k \in LiveRows, k[1] = h PROVE k[2] = a1 \/ k[2] = a2
    <3>1. <<k[2], k[3]>> \in Keys /\ k = <<k[1], k[2], k[3]>>
      BY DEF LiveRows, Keys
    <3>2. <<k[2], k[3]>> \in Existing(h)
      BY <2>2, <3>1 DEF LiveRows, Existing
    <3> QED BY <2>1, <3>2
  <2> QED BY <2>2
<1>4. LiveRows \in SUBSET (Fronts \X Gens \X Slots)
  BY DEF LiveRows
<1>5. RowCount \in Nat /\ RowCount <= Bound /\ Bound \in Nat
  <2>1. Cardinality(LiveRows) <= Bound
    BY <1>3, <1>4, TwoGenBound
  <2>2. Bound \in Nat
    BY CountTypes, DesiredAssumption DEF DesiredAssumption
  <2> QED BY <2>1, <2>2, CountTypes
<1>6. ASSUME NetRows(p) > 0 PROVE RowCount + NetRows(p) <= Bound
  <2>1. p.puts # <<>>
    BY <1>1, <1>2, <1>6 DEF NetRows
  <2>2. p = SwapPlan(f) /\ want[f] # Nothing
    BY <2>1 DEF PlanFor, NoWork, WithdrawPlan, CleanPlan
  <2>3. p.dels = Superseded(f) /\ p.gen = SwapGen(f) /\ p.gen \in Gens
    BY <1>1, <2>2 DEF SwapPlan, Works
  <2>4. meta[f] # Nothing => meta[f].gen \in Gens /\ p.gen # meta[f].gen
    BY <1>0, <2>3, NextGenType DEF SwapGen, TypeOK, Metas
  <2> DEFINE D == {<<f, k[1], k[2]>> : k \in p.dels}
             new == {p.gen} \X (1..n)
             P == {<<f, k[1], k[2]>> : k \in new}
             S == (LiveRows \ D) \cup P
  <2>5. new \in SUBSET Keys
    BY <1>1, <2>3, DesiredAssumption DEF Keys, Slots, DesiredAssumption
  <2>6. IsFiniteSet(D) /\ Cardinality(D) = Cardinality(p.dels)
    <3> HIDE DEF p
    <3> QED BY <1>2, FrontKeys
  <2>7. IsFiniteSet(P) /\ Cardinality(P) = Cardinality(new)
    <3> HIDE DEF new
    <3> QED BY <2>5, FrontKeys
  <2>8. Cardinality(new) = n
    <3>1. n \in Nat
      BY <1>1
    <3> HIDE DEF p, n
    <3> QED BY <3>1, GenerationSize, Zenon
  <2>9. D \subseteq LiveRows
    <3>1. ASSUME NEW k \in p.dels PROVE <<f, k[1], k[2]>> \in LiveRows
      <4>1. k \in Existing(f) /\ k \in Keys
        BY <1>2, <2>3 DEF Superseded
      <4> QED BY <4>1 DEF Existing, LiveRows, Keys
    <3> QED BY <3>1
  <2>10. (LiveRows \ D) \cap P = {}
    <3> SUFFICES ASSUME NEW k \in LiveRows, k \in P PROVE k \in D
      OBVIOUS
    <3>1. k[1] = f /\ k[2] = p.gen /\ k = <<k[1], k[2], k[3]>>
      BY DEF LiveRows
    <3>2. <<k[2], k[3]>> \in Existing(f)
      BY <3>1 DEF LiveRows, Existing, Keys
    <3>3. <<k[2], k[3]>> \in p.dels
      BY <2>3, <2>4, <3>1, <3>2 DEF Superseded
    <3> QED BY <3>1, <3>3
  <2>11. Cardinality(S) = (RowCount - Cardinality(p.dels)) + n
    <3> HIDE DEF D, P, p, new, n
    <3>1. LiveRows \cap D = D
      BY <2>9
    <3>2. IsFiniteSet(LiveRows \ D) /\ Cardinality(LiveRows \ D) = RowCount - Cardinality(p.dels)
      <4>1. IsFiniteSet(LiveRows) /\ RowCount = Cardinality(LiveRows)
        BY CountTypes
      <4>2. /\ IsFiniteSet(LiveRows \ D)
            /\ Cardinality(LiveRows \ D) = Cardinality(LiveRows) - Cardinality(LiveRows \cap D)
        BY <4>1, FS_Difference
      <4> QED BY <2>6, <3>1, <4>1, <4>2
    <3>3. Cardinality(S) = (RowCount - Cardinality(p.dels)) + n - 0
      BY <2>7, <2>8, <2>10, <3>2, FS_Union, FS_EmptySet
    <3>4. n \in Nat /\ RowCount \in Nat /\ Cardinality(p.dels) \in Nat
      BY <1>1, <1>2, <1>5
    <3> QED BY <3>3, <3>4
  <2>12. S \in SUBSET (Fronts \X Gens \X Slots)
    BY <1>4, <2>5 DEF Keys
  <2>13. ASSUME NEW h \in Fronts
         PROVE  \E a1, a2 \in Gens : \A k \in S : k[1] = h => k[2] = a1 \/ k[2] = a2
    <3>1. CASE h # f
      <4>1. \A k \in S : k[1] = h => k \in LiveRows
        BY <3>1
      <4> QED BY <1>3, <4>1
    <3>2. CASE h = f
      <4>1. ASSUME NEW k \in S, k[1] = f
            PROVE  k[2] = p.gen \/ (meta[f] # Nothing /\ k[2] = meta[f].gen)
        <5>1. CASE k \in P
          BY <5>1
        <5>2. CASE k \in LiveRows \ D
          <6>1. <<k[2], k[3]>> \in Existing(f) /\ k = <<k[1], k[2], k[3]>>
            BY <4>1, <5>2 DEF LiveRows, Existing, Keys
          <6>2. <<k[2], k[3]>> \notin p.dels
            BY <4>1, <5>2, <6>1
          <6> QED BY <2>3, <6>1, <6>2 DEF Superseded
        <5> QED BY <5>1, <5>2
      <4> HIDE DEF S, p
      <4> QED BY <2>3, <2>4, <3>2, <4>1
    <3> QED BY <3>1, <3>2
  <2>14. Cardinality(S) <= Bound
    <3> HIDE DEF S
    <3> QED BY <2>12, <2>13, TwoGenBound
  <2>15. NetRows(p) = n - Cardinality(p.dels)
    BY DEF NetRows
  <2> HIDE DEF S, n, p, Bound
  <2> QED BY <1>1, <1>2, <1>5, <2>11, <2>14, <2>15
<1>7. PeakRows(p) = IF NetRows(p) > 0 THEN NetRows(p) ELSE 0
  BY DEF PeakRows
<1> HIDE DEF p, Bound
<1> QED BY <1>5, <1>6, <1>7 DEF p, Bound

\* StartPlan: maps sized for two generations refuse no plan, and a plan let in
\* has its room.
LEMMA OrderlyStartPlan ==
  ASSUME IInv, used \in [meta : Int, endpoints : Int], Orderly, NEW f \in Fronts, StartPlan(f)
  PROVE  Orderly'
<1>0. pc = "pass" /\ cur = Nothing /\ UNCHANGED <<meta, rows, pc, used>>
  BY DEF StartPlan, maps
<1>1. \A g \in Fronts : TwoGens(g)'
  BY <1>0 DEF Orderly, TwoGens, Existing
<1>2. used.endpoints = RowCount /\ used.meta = MetaCount
  BY <1>0 DEF Orderly, Counted
<1>3. RowCount' = RowCount /\ MetaCount' = MetaCount
  BY <1>0 DEF RowCount, MetaCount
<1>4. CASE CapacityShortfall(f, PlanFor(f))
  <2>1. failed' = TRUE /\ UNCHANGED <<cur, work, blocked>>
    BY <1>4 DEF StartPlan, plan
  <2>2. ~Sized
    <3>1. MetaCount + PeakMeta(f, PlanFor(f)) <= Cardinality(Fronts)
      <4>1. /\ MetaCount \in Nat /\ Cardinality(Fronts) \in Nat
            /\ MetaCount <= Cardinality(Fronts)
        BY CountTypes
      <4>2. meta[f] = Nothing => MetaCount # Cardinality(Fronts)
        <5> SUFFICES ASSUME meta[f] = Nothing PROVE MetaCount # Cardinality(Fronts)
          OBVIOUS
        <5>1. LiveMeta \in SUBSET Fronts /\ LiveMeta # Fronts
          BY DEF LiveMeta
        <5> QED BY <5>1, CountTypes, FS_Subset, DesiredAssumption DEF DesiredAssumption
      <4> QED BY <4>1, <4>2 DEF PeakMeta
    <3>2. RowCount + PeakRows(PlanFor(f)) <= 2 * MaxSlots * Cardinality(Fronts)
      BY SizedRows DEF Orderly
    <3>3. RowCount \in Nat /\ MetaCount \in Nat /\ PeakMeta(f, PlanFor(f)) \in Nat
      BY CountTypes DEF PeakMeta
    <3>4. PeakRows(PlanFor(f)) \in Int
      <4>1. PlanFor(f) \in Works
        BY PlanType DEF IInv
      <4>2. PlanFor(f).puts \in Seq(Endpoints) /\ PlanFor(f).dels \in SUBSET Keys
        BY <4>1 DEF Works
      <4>3. Len(PlanFor(f).puts) \in Nat /\ Cardinality(PlanFor(f).dels) \in Nat
        BY <4>2, LenProperties, KeysFinite, FS_Subset, FS_CardinalityType
      <4> QED BY <4>3 DEF PeakRows, NetRows
    <3>5. /\ Cardinality(Fronts) \in Nat /\ 2 * MaxSlots * Cardinality(Fronts) \in Nat
          /\ MetaCap \in Nat /\ EndpointCap \in Nat
      BY CountTypes, DesiredAssumption, SwapAssumption DEF DesiredAssumption, SwapAssumption
    <3>6. \/ RowCount + PeakRows(PlanFor(f)) > EndpointCap
          \/ MetaCount + PeakMeta(f, PlanFor(f)) > MetaCap
      BY <1>2, <1>4 DEF CapacityShortfall
    <3> QED BY <3>1, <3>2, <3>3, <3>4, <3>5, <3>6 DEF Sized
  <2>3. Counted'
    BY <1>0, <1>2, <1>3, <2>1 DEF Counted
  <2> QED BY <1>0, <1>1, <2>1, <2>2, <2>3 DEF Orderly, Sized
<1>5. CASE ~CapacityShortfall(f, PlanFor(f))
  <2>1. cur' = f /\ work' = PlanFor(f) /\ blocked' = FALSE /\ failed' = failed
    BY <1>5 DEF StartPlan
  <2>2. Tidy(cur, work)'
    <3>1. Tidy(f, PlanFor(f))
      BY FreshTidy DEF IInv
    <3> QED BY <1>0, <2>1, <3>1 DEF Tidy, IsSwap, Existing
  <2>3. RowCount' + Adds(work)' <= EndpointCap
    <3>1. PlanFor(f) \in Works /\ PlanFor(f).at = 1
      BY PlanType DEF IInv
    <3>2. PlanFor(f).puts \in Seq(Endpoints) /\ PlanFor(f).dels \in SUBSET Keys
      BY <3>1 DEF Works
    <3>3. Len(PlanFor(f).puts) \in Nat /\ Cardinality(PlanFor(f).dels) \in Nat
      BY <3>2, LenProperties, KeysFinite, FS_Subset, FS_CardinalityType
    <3>4. Adds(work)' = NetRows(PlanFor(f)) /\ NetRows(PlanFor(f)) \in Int
      BY <2>1, <3>1, <3>3 DEF Adds, NetRows
    <3>5. RowCount \in Nat /\ EndpointCap \in Nat
      BY CountTypes, SwapAssumption DEF SwapAssumption
    <3>6. ~(RowCount + PeakRows(PlanFor(f)) > EndpointCap)
      BY <1>2, <1>5 DEF CapacityShortfall
    <3> QED BY <1>3, <3>4, <3>5, <3>6 DEF PeakRows
  <2>4. Counted'
    BY <1>0, <1>2, <1>3, <2>3 DEF Counted
  <2> QED BY <1>1, <2>1, <2>2, <2>4 DEF Orderly, Sized
<1> QED BY <1>4, <1>5

\* BeginPass without a failed sweep or read: FrontUsage is what the maps hold.
LEMMA OrderlyBeginPass ==
  ASSUME IInv, Orderly, pc # "pass", NEW w, NEW swept \in BOOLEAN, NEW held,
         BeginPass(w, swept, held), faults = 0, faults' = 0
  PROVE  Orderly'
<1>0. faults' # faults + 1
  OBVIOUS
<1>1. /\ UNCHANGED <<meta, rows, cur, work, blocked>> /\ ~failed' /\ pc' = "pass"
      /\ used' = [meta |-> MetaCount, endpoints |-> RowCount]
  BY <1>0, Zenon DEF BeginPass, maps, plan
<1>2. cur' = Nothing
  BY <1>1 DEF IInv, PlanSafe
<1>3. \A f \in Fronts : TwoGens(f)'
  BY <1>1 DEF Orderly, TwoGens, Existing
<1>4. Counted'
  BY <1>1, <1>2 DEF Counted, RowCount, MetaCount
<1> QED BY <1>1, <1>2, <1>3, <1>4 DEF Orderly

\* Every other step.
LEMMA OrderlyRest ==
  ASSUME IInv, Orderly,
         EndPlan \/ EndPass \/ (\E f \in Fronts : Expire(f)) \/ Crash \/ Packet \/ UNCHANGED vars
  PROVE  Orderly'
<1>1. /\ UNCHANGED <<meta, rows, used>> /\ pc' \in {pc, "idle", "down"}
      /\ (failed' => failed) /\ (blocked' => blocked)
      /\ cur' = Nothing \/ UNCHANGED <<cur, work>>
  <2>1. CASE EndPlan
    BY <2>1 DEF EndPlan, maps, tally
  <2>2. CASE EndPass
    BY <2>2 DEF EndPass, maps, tally, plan
  <2>3. CASE \E f \in Fronts : Expire(f)
    BY <2>3 DEF Expire, maps, tally, plan
  <2>4. CASE Crash
    BY <2>4 DEF Crash, maps
  <2>5. CASE Packet
    <3>1. UNCHANGED <<maps, pc, plan, tally>>
      BY <2>5 DEF Packet, ReadMeta, ReadSlot, ReadEmpty
    <3> QED BY <3>1 DEF maps, tally, plan
  <2>6. CASE UNCHANGED vars
    BY <2>6 DEF vars
  <2> QED BY <2>1, <2>2, <2>3, <2>4, <2>5, <2>6
<1>2. \A f \in Fronts : TwoGens(f)'
  BY <1>1 DEF Orderly, TwoGens, Existing
<1>3. cur' # Nothing => Tidy(cur, work)'
  BY <1>1 DEF Orderly, Tidy, IsSwap, Existing
<1>4. RowCount' = RowCount /\ MetaCount' = MetaCount
  BY <1>1 DEF RowCount, MetaCount
<1>5. Counted'
  <2> SUFFICES ASSUME pc' = "pass" PROVE Counted'
    BY DEF Counted
  <2>1. pc = "pass"
    BY <1>1
  <2> QED BY <1>1, <1>4, <2>1 DEF Orderly, Counted, Adds
<1> QED BY <1>1, <1>2, <1>3, <1>5 DEF Orderly, Sized

-----------------------------------------------------------------------------
(* The invariant and what follows from it.                                 *)

\* FrontUsage is a pair of numbers.
LEMMA UsedStep ==
  ASSUME used \in [meta : Int, endpoints : Int], [Next]_vars
  PROVE  used' \in [meta : Int, endpoints : Int]
<1>1. \/ used' = used
      \/ used' = [used EXCEPT !.meta = @ - 1]
      \/ used' = [used EXCEPT !.meta = @ + 1]
      \/ used' = [used EXCEPT !.endpoints = @ - 1]
      \/ used' = [used EXCEPT !.endpoints = @ + 1]
      \/ used' = [meta |-> MetaCount, endpoints |-> RowCount]
  <2>1. CASE WatchEvent \/ Tick
    BY <2>1 DEF WatchEvent, Tick, RetryTick, FollowUpTick, Restart, BeginPass, tally
  <2>2. CASE DeleteMeta
    BY <2>2 DEF DeleteMeta
  <2>3. ASSUME NEW k \in Keys, DeleteEndpoint(k)
        PROVE  used' = used \/ used' = [used EXCEPT !.endpoints = @ - 1]
    BY <2>3 DEF DeleteEndpoint
  <2>4. CASE PutEndpoint
    BY <2>4 DEF PutEndpoint
  <2>5. CASE PutMeta
    BY <2>5 DEF PutMeta
  <2>6. CASE (\E f \in Fronts : StartPlan(f)) \/ EndPlan \/ EndPass
               \/ (\E f \in Fronts : Expire(f)) \/ Crash \/ Packet \/ UNCHANGED vars
    BY <2>6 DEF StartPlan, EndPlan, EndPass, Expire, Crash, Packet, ReadMeta, ReadSlot,
               ReadEmpty, tally, vars
  <2> QED BY <2>1, <2>2, <2>3, <2>4, <2>5, <2>6 DEF Next, Pass, Write
<1>2. MetaCount \in Int /\ RowCount \in Int
  BY CountTypes
<1> QED BY <1>1, <1>2

\* A failed write is never forgotten.
LEMMA FaultsGrow ==
  ASSUME TypeOK, [Next]_vars, faults' = 0
  PROVE  faults = 0
<1>0. faults \in Nat
  BY DEF TypeOK
<1>1. faults' = faults \/ faults' = faults + 1
  <2>1. CASE WatchEvent \/ Tick
    BY <2>1 DEF WatchEvent, Tick, RetryTick, FollowUpTick, Restart, BeginPass
  <2>2. CASE Write
    BY <2>2 DEF Write, DeleteMeta, DeleteEndpoint, PutEndpoint, PutMeta, Succeeds, Fails
  <2>3. CASE (\E f \in Fronts : StartPlan(f)) \/ EndPlan \/ EndPass
               \/ (\E f \in Fronts : Expire(f)) \/ Crash \/ Packet \/ UNCHANGED vars
    BY <2>3 DEF StartPlan, EndPlan, EndPass, Expire, Crash, Packet, ReadMeta, ReadSlot,
               ReadEmpty, bounds, vars
  <2> QED BY <2>1, <2>2, <2>3 DEF Next, Pass
<1> QED BY <1>0, <1>1

\* The served fronts of the start keep one generation each.
LEMMA CInvInit == Init => CInv
<1> SUFFICES ASSUME Init PROVE CInv
  OBVIOUS
<1>1. IInv
  BY IInvInit
<1>2. used \in [meta : Int, endpoints : Int]
  BY DEF Init
<1>3. ASSUME NEW f \in Fronts PROVE TwoGens(f)
  <2>1. FirstGen \in Gens
    BY SwapAssumption DEF SwapAssumption, Gens
  <2>2. ASSUME NEW k \in Existing(f) PROVE k[1] = FirstGen
    <3>1. <<f, k[1], k[2]>> \in Fronts \X Gens \X Slots
      BY DEF Existing, Keys
    <3> QED BY <3>1 DEF Existing, Init
  <2>3. meta[f] # Nothing => meta[f].gen = FirstGen
    BY DEF Init
  <2> QED BY <2>1, <2>2, <2>3 DEF TwoGens
<1>4. Orderly
  BY <1>3 DEF Init, Orderly, Counted
<1> QED BY <1>1, <1>2, <1>4 DEF CInv

\* Every step keeps the invariant.
LEMMA CInvStep == CInv /\ [Next]_vars => CInv'
<1> SUFFICES ASSUME CInv, [Next]_vars PROVE CInv'
  OBVIOUS
<1>1. IInv /\ used \in [meta : Int, endpoints : Int]
  BY DEF CInv
<1>2. IInv' /\ used' \in [meta : Int, endpoints : Int]
  BY <1>1, IInvStep, UsedStep
<1>3. ASSUME faults' = 0 PROVE Orderly'
  <2>1. faults = 0 /\ Orderly
    BY <1>1, <1>3, FaultsGrow DEF CInv, IInv
  <2>2. CASE WatchEvent
    BY <1>1, <1>3, <2>1, <2>2, OrderlyBeginPass DEF WatchEvent
  <2>3. CASE Tick
    BY <1>1, <1>3, <2>1, <2>3, OrderlyBeginPass DEF Tick, RetryTick, FollowUpTick, Restart
  <2>4. CASE \E f \in Fronts : StartPlan(f)
    BY <1>1, <2>1, <2>4, OrderlyStartPlan
  <2>5. CASE Write
    BY <1>1, <1>3, <2>1, <2>5, OrderlyDeleteMeta, OrderlyDeleteEndpoint, OrderlyPutEndpoint,
       OrderlyPutMeta DEF Write
  <2>6. CASE EndPlan \/ EndPass \/ (\E f \in Fronts : Expire(f)) \/ Crash \/ Packet
               \/ UNCHANGED vars
    BY <1>1, <2>1, <2>6, OrderlyRest
  <2> QED BY <2>2, <2>3, <2>4, <2>5, <2>6 DEF Next, Pass
<1> QED BY <1>2, <1>3 DEF CInv

(***************************************************************************)
(* As long as no write fails, a front keeps rows of at most two            *)
(* generations, whatever the controller is asked for and wherever it dies. *)
(***************************************************************************)
THEOREM TwoGenerationsAtMost == Spec => []TwoGenerations
<1>1. ASSUME CInv PROVE TwoGenerations
  <2> SUFFICES ASSUME faults = 0, NEW f \in Fronts
               PROVE  Cardinality({k[1] : k \in Existing(f)}) <= 2
    BY DEF TwoGenerations
  <2>1. PICK g \in Gens, h \in Gens : \A k \in Existing(f) : k[1] = g \/ k[1] = h
    BY <1>1 DEF CInv, Orderly, TwoGens
  <2> DEFINE G == {k[1] : k \in Existing(f)}
  <2>2. G \subseteq {g} \cup {h}
    BY <2>1
  <2>3. /\ IsFiniteSet({g}) /\ Cardinality({g}) = 1
        /\ IsFiniteSet({h}) /\ Cardinality({h}) = 1
    BY FS_Singleton
  <2>4. /\ IsFiniteSet({g} \cup {h}) /\ IsFiniteSet({g} \cap {h})
        /\ Cardinality({g} \cup {h}) = 1 + 1 - Cardinality({g} \cap {h})
    BY <2>3, FS_Union, FS_Intersection
  <2>5. Cardinality({g} \cap {h}) \in Nat
    BY <2>4, FS_CardinalityType
  <2> HIDE DEF G
  <2>6. IsFiniteSet(G) /\ Cardinality(G) <= Cardinality({g} \cup {h})
    BY <2>2, <2>4, FS_Subset
  <2>7. Cardinality(G) \in Nat
    BY <2>6, FS_CardinalityType
  <2>8. Cardinality(G) <= 2
    <3> DEFINE size == Cardinality(G)
               union == Cardinality({g} \cup {h})
               shared == Cardinality({g} \cap {h})
    <3>1. size \in Nat /\ shared \in Nat /\ size <= union /\ union = 1 + 1 - shared
      BY <2>4, <2>5, <2>6, <2>7
    <3> HIDE DEF size, union, shared
    <3>2. size <= 2
      BY <3>1
    <3> QED BY <3>2 DEF size
  <2> QED BY <2>8 DEF G
<1> QED BY <1>1, CInvInit, CInvStep, PTL DEF Spec

(***************************************************************************)
(* As long as no write fails otherwise, a plan let in by capacity_shortfall *)
(* never meets a full FRONT_ENDPOINTS, for any capacities.                 *)
(***************************************************************************)
THEOREM RefusedWholeOrNotAtAll == Spec => []RefusedWhole
<1>1. CInv => RefusedWhole
  BY DEF CInv, Orderly, RefusedWhole
<1> QED BY <1>1, CInvInit, CInvStep, PTL DEF Spec

(***************************************************************************)
(* Maps sized by front_map_max_entries never make a pass fail: two         *)
(* generations of every front is enough, whichever order the plans run in  *)
(* and wherever an earlier controller died.                                *)
(***************************************************************************)
THEOREM SizedMapsSuffice == Spec => []SizedNeverRefuses
<1>1. CInv => SizedNeverRefuses
  BY DEF CInv, Orderly, Sized, SizedNeverRefuses
<1> QED BY <1>1, CInvInit, CInvStep, PTL DEF Spec

-----------------------------------------------------------------------------
(***************************************************************************)
(* The packet that looks up FRONT_META and then FRONT_ENDPOINTS while the  *)
(* writer swaps, fails, dies and restarts:  one swap between its lookups   *)
(* costs it nothing, and it is never steered by a mix of two endpoint sets *)
(* unless the u32 generation wraps all the way round in between.           *)
(***************************************************************************)

\* What a packet carries between its lookups.
Reads == [phase : {"none", "slot", "done"}, front : Fronts \cup {Nothing}, gen : Gens,
          pick : 0..MaxSlots, local : BOOLEAN, expect : Seq(Endpoints),
          got : Endpoints \cup {Nothing}, plans : 0..2, withdrawn : BOOLEAN]

(***************************************************************************)
(* What the packet needs to know of a running plan p of front f: it writes *)
(* rows only for a commit of the next generation, and otherwise commits    *)
(* other flags for the live one.                                           *)
(***************************************************************************)
Shape(f, p) ==
    meta[f] # Nothing =>
        /\ p.at <= Len(p.puts) => p.commit # Nothing /\ p.commit.gen = p.gen
        /\ p.commit # Nothing =>
             \/ p.commit.gen = NextGen(meta[f].gen)
             \/ /\ p.puts = <<>>
                /\ p.commit.gen = meta[f].gen
                /\ p.commit.count = meta[f].count
                /\ p.commit.localCount = meta[f].localCount

\* While a plan runs, its front's turn is over.
PlanShape == cur # Nothing => cur \notin todo /\ Shape(cur, work)

\* The slots below FRONT_META's local count hold local endpoints.
LocalPrefix ==
    \A f \in Fronts : meta[f] # Nothing =>
        /\ meta[f].localCount <= meta[f].count
        /\ \A s \in 1..meta[f].localCount :
              rows[<<f, meta[f].gen, s>>] \in LocalEndpoints

\* The slots a packet may pick had an endpoint it can use when it read FRONT_META,
\* and its front is still there unless it was withdrawn since.
Usable ==
    rd.phase = "slot" =>
        /\ rd.front \in Fronts
        /\ rd.pick <= Len(rd.expect)
        /\ Len(rd.expect) <= MaxSlots
        /\ rd.local => \A s \in 1..rd.pick : rd.expect[s] \in LocalEndpoints
        /\ ~rd.withdrawn => meta[rd.front] # Nothing

(***************************************************************************)
(* Before a second swap of its front starts, the packet's generation is    *)
(* the live one, or the one before it and spared: by the grace, by the     *)
(* front's turn being over, or by the controller being down.               *)
(***************************************************************************)
Spared(f) ==
    /\ pc = "down" \/ recent[f] = "held" \/ (pc = "pass" /\ f \in swapped /\ f \notin todo)
    /\ cur = f => ~Swapping(f) /\ (work.withdraw \/ \A k \in work.dels : k[1] # rd.gen)

InLive == 
    /\ meta[rd.front].gen = rd.gen
    /\ meta[rd.front].count = Len(rd.expect)
    /\ rd.plans = 0 => ~Swapping(rd.front)

InPrevious ==
    /\ rd.plans = 1
    /\ meta[rd.front].gen = NextGen(rd.gen)
    /\ Spared(rd.front)

Guarded ==
    rd.phase = "slot" /\ ~rd.withdrawn /\ rd.plans < 2 =>
        /\ \A s \in 1..Len(rd.expect) : rows[<<rd.front, rd.gen, s>>] = rd.expect[s]
        /\ InLive \/ InPrevious

RInv == IInv /\ rd \in Reads /\ PlanShape /\ LocalPrefix /\ Usable /\ Guarded /\ OneSwapNoMiss

(***************************************************************************)
(* Swaps from generation g to generation h, and why a packet sees no       *)
(* recycled generation: each commit of a front answers a watch event, so   *)
(* the live generation is at most one more ahead than there were events.   *)
(***************************************************************************)
Ahead(g, h) == IF g <= h THEN h - g ELSE (h + GenMod) - g

Unserved(f) == Swapping(f) \/ (want[f] # Nothing /\ ~Unchanged(f))

Unaliased ==
    rd.phase = "slot" /\ ~rd.withdrawn =>
        /\ \A s \in 1..Len(rd.expect) :
              rows[<<rd.front, rd.gen, s>>] \in {rd.expect[s], Nothing}
        /\ Ahead(rd.gen, meta[rd.front].gen) <= events + 1
        /\ Unserved(rd.front) => Ahead(rd.gen, meta[rd.front].gen) <= events

MInv == RInv /\ events <= MaxEvents /\ Unaliased /\ NeverMixed

-----------------------------------------------------------------------------
(***************************************************************************)
(* local_count is the length of a leading run: it is at most the list's    *)
(* length and every endpoint it covers is local.                           *)
(***************************************************************************)
LEMMA LocalRun ==
  ASSUME NEW w \in Wants
  PROVE  /\ LocalCount(w) <= Len(w.endpoints)
         /\ \A s \in 1..LocalCount(w) : w.endpoints[s] \in LocalEndpoints
<1> DEFINE run == {n \in 1..Len(w.endpoints) :
                     \A i \in 1..n : w.endpoints[i] \in LocalEndpoints}
<1>1. w.endpoints \in Seq(Endpoints) /\ Len(w.endpoints) \in Nat
  BY DesiredAssumption DEF DesiredAssumption
<1>2. ASSUME NEW m \in Nat, run \subseteq 1..m PROVE Cardinality(run) <= m
  <2>1. IsFiniteSet(1..m) /\ Cardinality(1..m) = m
    BY FS_Interval
  <2> QED BY <1>2, <2>1, FS_Subset
<1>3. CASE w.preferLocal
  <2>1. LocalCount(w) = Cardinality(run)
    BY <1>3 DEF LocalCount
  <2>2. LocalCount(w) <= Len(w.endpoints)
    BY <1>1, <1>2, <2>1
  <2>3. ASSUME NEW s \in 1..LocalCount(w), w.endpoints[s] \notin LocalEndpoints
        PROVE  FALSE
    <3>1. LocalCount(w) \in Nat
      BY LocalCountType
    <3>2. s \in Nat /\ s - 1 \in Nat /\ s <= LocalCount(w)
      BY <3>1
    <3>3. run \subseteq 1..(s - 1)
      BY <1>1, <2>3, <3>2
    <3>4. LocalCount(w) <= s - 1
      BY <1>2, <2>1, <3>2, <3>3
    <3> QED BY <3>1, <3>2, <3>4
  <2> QED BY <2>2, <2>3
<1>4. CASE ~w.preferLocal
  BY <1>1, <1>4 DEF LocalCount
<1> QED BY <1>3, <1>4

\* Only the writes of a plan, its start, its end and a crash touch what PlanShape says.
LEMMA PlanShapeStep ==
  ASSUME IInv, PlanShape, [Next]_vars
  PROVE  PlanShape'
<1>1. ASSUME cur' = Nothing PROVE PlanShape'
  BY <1>1 DEF PlanShape
<1>2. CASE WatchEvent \/ Tick
  <2>1. cur' = Nothing
    BY <1>2 DEF WatchEvent, Tick, RetryTick, FollowUpTick, Restart, BeginPass, plan,
               IInv, PlanSafe
  <2> QED BY <1>1, <2>1
<1>3. ASSUME NEW f \in Fronts, StartPlan(f) PROVE PlanShape'
  <2>1. CASE UNCHANGED plan
    BY <1>1, <1>3, <2>1 DEF StartPlan, plan
  <2>2. CASE cur' = f /\ work' = PlanFor(f) /\ blocked' = FALSE
    <3>1. meta' = meta /\ f \notin todo'
      BY <1>3 DEF StartPlan, maps
    <3>2. Shape(f, PlanFor(f))
      <4> SUFFICES ASSUME meta[f] # Nothing PROVE Shape(f, PlanFor(f))
        BY DEF Shape
      <4>0. meta[f] \in Metas
        BY DEF IInv, TypeOK
      <4>1. CASE PlanFor(f) = NoWork
        BY <4>1 DEF NoWork, Shape
      <4>2. CASE PlanFor(f) = WithdrawPlan(f)
        BY <4>2 DEF WithdrawPlan, NoWork, Shape
      <4>3. CASE PlanFor(f) = CleanPlan(f)
        <5>1. /\ PlanFor(f).puts = <<>> /\ PlanFor(f).at = 1
              /\ PlanFor(f).commit = IF meta[f].flags # want[f].flags
                     THEN [meta[f] EXCEPT !.flags = want[f].flags] ELSE Nothing
          BY <4>3 DEF CleanPlan, NoWork
        <5>2. LET c == [meta[f] EXCEPT !.flags = want[f].flags]
              IN  /\ c.gen = meta[f].gen /\ c.count = meta[f].count
                  /\ c.localCount = meta[f].localCount
          BY <4>0 DEF Metas
        <5> QED BY <5>1, <5>2 DEF Shape
      <4>4. CASE PlanFor(f) = SwapPlan(f) /\ want[f] # Nothing
        <5>1. /\ PlanFor(f).gen = SwapGen(f)
              /\ PlanFor(f).commit = [gen |-> SwapGen(f), count |-> Len(want[f].endpoints),
                                localCount |-> LocalCount(want[f]), flags |-> want[f].flags]
          BY <4>4 DEF SwapPlan
        <5>2. PlanFor(f).commit \in Metas \cup {Nothing}
          BY PlanType DEF IInv, Works
        <5>3. PlanFor(f).commit.gen = SwapGen(f) /\ SwapGen(f) = NextGen(meta[f].gen)
          BY <5>1 DEF SwapGen
        <5>4. PlanFor(f).commit # Nothing
          <6>2. want[f] \in Wants
            BY <4>4 DEF IInv, TypeOK
          <6>3. /\ LocalCount(want[f]) \in Nat /\ want[f].flags \in {0, 1}
                /\ Len(want[f].endpoints) \in 0..MaxSlots /\ SwapGen(f) \in Gens
            BY <4>0, <5>3, <6>2, LocalCountType, NextGenType, DesiredAssumption
            DEF DesiredAssumption, Metas
          <6> QED BY <5>1, <6>3, SwapAssumption DEF SwapAssumption, Gens
        <5> QED BY <5>1, <5>3, <5>4 DEF Shape
      <4> QED BY <4>1, <4>2, <4>3, <4>4 DEF PlanFor
    <3> QED BY <2>2, <3>1, <3>2 DEF PlanShape, Shape
  <2> QED BY <1>3, <2>1, <2>2 DEF StartPlan
<1>4. CASE Write
  <2>0. cur \in Fronts /\ cur # Nothing /\ work \in Works /\ Shape(cur, work)
          /\ cur \notin todo
    BY <1>4 DEF Write, DeleteMeta, DeleteEndpoint, PutEndpoint, PutMeta, IInv, TypeOK, PlanShape
  <2>1. cur' = cur /\ todo' = todo
    BY <1>4 DEF Write, DeleteMeta, DeleteEndpoint, PutEndpoint, PutMeta, Writing
  <2>2. CASE DeleteMeta
    <3>1. CASE meta' = [meta EXCEPT ![cur] = Nothing]
      BY <2>0, <2>1, <3>1 DEF PlanShape, Shape, IInv, TypeOK
    <3>2. CASE work' = NoWork
      BY <2>0, <2>1, <3>2 DEF PlanShape, Shape, NoWork
    <3> QED BY <2>2, <3>1, <3>2 DEF DeleteMeta
  <2>3. ASSUME NEW k \in Keys, DeleteEndpoint(k) PROVE PlanShape'
    <3>1. work' = [work EXCEPT !.dels = work.dels \ {k}] /\ meta' = meta
      BY <2>3 DEF DeleteEndpoint
    <3>2. work'.at = work.at /\ work'.puts = work.puts /\ work'.gen = work.gen
            /\ work'.commit = work.commit
      <4>1. work.dels \ {k} \in SUBSET Keys
        BY <2>0 DEF Works
      <4> QED BY <2>0, <3>1, <4>1, DeletePart
    <3> QED BY <2>0, <2>1, <3>1, <3>2 DEF PlanShape, Shape
  <2>4. CASE PutEndpoint
    <3>1. work' = [work EXCEPT !.at = work.at + 1] /\ meta' = meta
            /\ work.at <= Len(work.puts)
      BY <2>4 DEF PutEndpoint
    <3>2. work.at + 1 \in Nat
      BY <2>0 DEF Works
    <3>3. work'.puts = work.puts /\ work'.gen = work.gen /\ work'.commit = work.commit
      BY <2>0, <3>1, <3>2, SlotPart
    <3> QED BY <2>0, <2>1, <3>1, <3>3 DEF PlanShape, Shape
  <2>5. CASE PutMeta
    <3>1. work'.puts = work.puts /\ work'.at = work.at /\ work'.commit = Nothing
            /\ work.at > Len(work.puts)
      BY <2>0, <2>5, CommitPart DEF PutMeta
    <3>2. ~(work.at <= Len(work.puts))
      BY <2>0, <3>1, LenProperties DEF Works
    <3> QED BY <2>0, <2>1, <3>1, <3>2 DEF PlanShape, Shape
  <2> QED BY <1>4, <2>2, <2>3, <2>4, <2>5 DEF Write
<1>5. CASE EndPlan \/ EndPass \/ Crash
  <2>1. cur' = Nothing
    BY <1>5 DEF EndPlan, EndPass, Crash, plan
  <2> QED BY <1>1, <2>1
<1>6. CASE (\E f \in Fronts : Expire(f)) \/ Packet \/ UNCHANGED vars
  <2>1. UNCHANGED <<meta, todo, cur, work>>
    BY <1>6 DEF Expire, Packet, ReadMeta, ReadSlot, ReadEmpty, vars, maps, plan
  <2> QED BY <2>1 DEF PlanShape, Shape
<1> QED BY <1>2, <1>3, <1>4, <1>5, <1>6 DEF Next, Pass

\* Every step keeps the local prefix: a commit brings the wanted front's own.
LEMMA LocalPrefixStep ==
  ASSUME IInv, LocalPrefix, [Next]_vars
  PROVE  LocalPrefix'
<1>1. ASSUME meta' = meta, LiveRowsKept PROVE LocalPrefix'
  <2> SUFFICES ASSUME NEW f \in Fronts, meta[f] # Nothing
               PROVE  /\ meta[f].localCount <= meta[f].count
                      /\ \A s \in 1..meta[f].localCount :
                            rows'[<<f, meta[f].gen, s>>] \in LocalEndpoints
    BY <1>1 DEF LocalPrefix
  <2>1. meta[f].localCount \in Nat /\ meta[f].count \in Nat
    BY DesiredAssumption DEF IInv, TypeOK, Metas, DesiredAssumption
  <2> QED BY <1>1, <2>1 DEF LocalPrefix, LiveRowsKept
<1>2. ASSUME UNCHANGED maps PROVE LocalPrefix'
  BY <1>2 DEF maps, LocalPrefix
<1>3. CASE DeleteMeta
  BY <1>3 DEF DeleteMeta, LocalPrefix, IInv, TypeOK
<1>4. ASSUME NEW k \in Keys, DeleteEndpoint(k) PROVE LocalPrefix'
  BY <1>1, <1>4, DeleteEndpointKeeps DEF DeleteEndpoint
<1>5. CASE PutEndpoint
  BY <1>1, <1>5, PutEndpointKeeps DEF PutEndpoint
<1>6. CASE PutMeta
  <2>1. CASE meta' = meta
    BY <1>2, <1>6, <2>1 DEF PutMeta, maps
  <2>2. CASE meta' = [meta EXCEPT ![cur] = work.commit]
    <3>1. /\ work.commit.localCount <= work.commit.count
          /\ \A s \in 1..work.commit.localCount :
                rows[<<cur, work.commit.gen, s>>] \in LocalEndpoints
      <4>1. /\ want[cur] \in Wants
            /\ work.commit.count = Len(want[cur].endpoints)
            /\ work.commit.localCount = LocalCount(want[cur])
            /\ \A s \in 1..work.commit.count :
                  rows[<<cur, work.commit.gen, s>>] = want[cur].endpoints[s]
        BY <1>6, CommitServes
      <4>2. LocalCount(want[cur]) \in Nat /\ Len(want[cur].endpoints) \in Nat
        BY <4>1, LocalCountType, DesiredAssumption DEF DesiredAssumption
      <4> QED BY <4>1, <4>2, LocalRun
    <3>2. rows' = rows
      BY <1>6 DEF PutMeta
    <3> QED BY <2>2, <3>1, <3>2 DEF LocalPrefix, IInv, TypeOK
  <2> QED BY <1>6, <2>1, <2>2 DEF PutMeta
<1>7. CASE Next /\ ~Write
  <2>1. UNCHANGED maps
    BY <1>7 DEF Next, Tick, Pass, WatchEvent, RetryTick, FollowUpTick, Restart, BeginPass,
               StartPlan, EndPlan, EndPass, Expire, Crash, Packet, ReadMeta, ReadSlot, ReadEmpty
  <2> QED BY <1>2, <2>1
<1>8. CASE UNCHANGED vars
  <2>1. UNCHANGED maps
    BY <1>8 DEF vars, maps
  <2> QED BY <1>2, <2>1
<1> QED BY <1>3, <1>4, <1>5, <1>6, <1>7, <1>8 DEF Write

\* The endpoints of a whole live generation are a list of FRONT_META's length.
LEMMA LiveList ==
  ASSUME IInv, NEW f \in Fronts, meta[f] # Nothing
  PROVE  /\ LiveEndpoints(f) \in Seq(Endpoints)
         /\ Len(LiveEndpoints(f)) = meta[f].count
         /\ \A s \in 1..meta[f].count : LiveEndpoints(f)[s] = rows[<<f, meta[f].gen, s>>]
<1>1. meta[f].count \in Nat
  BY DesiredAssumption DEF IInv, TypeOK, Metas, DesiredAssumption
<1>2. ASSUME NEW s \in 1..meta[f].count PROVE rows[<<f, meta[f].gen, s>>] \in Endpoints
  <2>1. <<f, meta[f].gen, s>> \in Fronts \X Gens \X Slots
    BY LiveKey DEF IInv
  <2>2. rows[<<f, meta[f].gen, s>>] # Nothing
    BY DEF IInv, LiveWhole
  <2> QED BY <2>1, <2>2 DEF IInv, TypeOK
<1>3. LiveEndpoints(f) \in [1..meta[f].count -> Endpoints]
  BY <1>2 DEF LiveEndpoints
<1>4. LiveEndpoints(f) \in Seq(Endpoints)
  BY <1>1, <1>3, SeqDef
<1>5. Len(LiveEndpoints(f)) = meta[f].count
  <2>1. DOMAIN LiveEndpoints(f) = 1..meta[f].count
    BY <1>3
  <2> QED BY <1>1, <1>4, <2>1, LenProperties
<1> QED BY <1>4, <1>5 DEF LiveEndpoints

-----------------------------------------------------------------------------
(* How a step changes what a packet carries.                               *)

\* The start of a swap of its front is counted (StartPlan).
LEMMA CountedPart ==
  ASSUME NEW r \in Reads, r.plans < 2
  PROVE  LET q == [r EXCEPT !.plans = r.plans + 1]
         IN  /\ q \in Reads /\ q.phase = r.phase /\ q.front = r.front /\ q.gen = r.gen
             /\ q.pick = r.pick /\ q.local = r.local /\ q.expect = r.expect
             /\ q.got = r.got /\ q.plans = r.plans + 1 /\ q.withdrawn = r.withdrawn
<1>1. r.plans + 1 \in 0..2
  BY DEF Reads
<1> QED BY <1>1 DEF Reads

\* So is the withdrawal of its front (DeleteMeta).
LEMMA WithdrawnPart ==
  ASSUME NEW r \in Reads
  PROVE  LET q == [r EXCEPT !.withdrawn = TRUE]
         IN  q \in Reads /\ q.withdrawn /\ q.phase = r.phase /\ q.front = r.front
               /\ q.pick = r.pick /\ q.local = r.local /\ q.expect = r.expect
BY DEF Reads

\* The second lookup (ReadSlot).
LEMMA LookupPart ==
  ASSUME NEW r \in Reads, NEW s \in 0..MaxSlots, NEW e \in Endpoints \cup {Nothing}
  PROVE  LET q == [r EXCEPT !.phase = "done", !.pick = s, !.got = e]
         IN  /\ q \in Reads /\ q.phase = "done" /\ q.pick = s /\ q.got = e
             /\ q.expect = r.expect /\ q.plans = r.plans /\ q.withdrawn = r.withdrawn
BY DEF Reads

\* A step leaves a packet alone, counts a swap or a withdrawal of its front, or is
\* one of its lookups.
LEMMA CarriedStep ==
  ASSUME [Next]_vars
  PROVE  \/ rd' = rd
         \/ \E f \in Fronts : /\ StartPlan(f) /\ rd.front = f /\ IsSwap(f, PlanFor(f))
                              /\ rd.plans < 2
                              /\ rd' = [rd EXCEPT !.plans = rd.plans + 1]
         \/ DeleteMeta /\ rd.front = cur /\ rd' = [rd EXCEPT !.withdrawn = TRUE]
         \/ \E f \in Fronts : ReadMeta(f)
         \/ \E s \in Slots : ReadSlot(s)
         \/ rd' = NoRead
<1>1. CASE \E f \in Fronts : StartPlan(f)
  BY <1>1 DEF StartPlan
<1>2. CASE DeleteMeta
  BY <1>2 DEF DeleteMeta
<1>3. CASE Packet
  BY <1>3 DEF Packet, ReadEmpty
<1>4. CASE WatchEvent \/ Tick \/ EndPlan \/ EndPass \/ Crash \/ (\E f \in Fronts : Expire(f))
             \/ UNCHANGED vars
  BY <1>4 DEF WatchEvent, Tick, RetryTick, FollowUpTick, Restart, BeginPass, EndPlan, EndPass,
             Crash, Expire, vars
<1>5. CASE (\E k \in Keys : DeleteEndpoint(k)) \/ PutEndpoint \/ PutMeta
  BY <1>5 DEF DeleteEndpoint, PutEndpoint, PutMeta
<1> QED BY <1>1, <1>2, <1>3, <1>4, <1>5 DEF Next, Pass, Write

\* The first lookup finds a whole generation, and a local prefix to pick from.
LEMMA FirstLookup ==
  ASSUME IInv, LocalPrefix, NEW f \in Fronts, ReadMeta(f)
  PROVE  /\ rd' \in Reads /\ rd'.front = f /\ rd'.gen = meta[f].gen /\ meta[f] # Nothing
         /\ rd'.phase = "slot" /\ ~rd'.withdrawn
         /\ rd'.plans = (IF Swapping(f) THEN 1 ELSE 0)
         /\ Len(rd'.expect) = meta[f].count
         /\ \A s \in 1..meta[f].count : rd'.expect[s] = rows[<<f, meta[f].gen, s>>]
         /\ rd'.pick <= Len(rd'.expect)
         /\ rd'.local => \A s \in 1..rd'.pick : rd'.expect[s] \in LocalEndpoints
<1>1. meta[f] # Nothing /\ meta[f] \in Metas
  BY DEF ReadMeta, IInv, TypeOK
<1>2. /\ meta[f].gen \in Gens /\ meta[f].count \in 0..MaxSlots /\ meta[f].localCount \in Nat
      /\ meta[f].localCount <= meta[f].count /\ MaxSlots \in Nat
      /\ \A s \in 1..meta[f].localCount : rows[<<f, meta[f].gen, s>>] \in LocalEndpoints
  BY <1>1, DesiredAssumption DEF Metas, LocalPrefix, DesiredAssumption
<1>3. /\ LiveEndpoints(f) \in Seq(Endpoints) /\ Len(LiveEndpoints(f)) = meta[f].count
      /\ \A s \in 1..meta[f].count : LiveEndpoints(f)[s] = rows[<<f, meta[f].gen, s>>]
  BY <1>1, LiveList
<1>4. rd' = [phase |-> "slot", front |-> f, gen |-> meta[f].gen,
             pick |-> IF meta[f].localCount > 0 THEN meta[f].localCount ELSE meta[f].count,
             local |-> meta[f].localCount > 0,
             expect |-> LiveEndpoints(f), got |-> Nothing,
             plans |-> IF Swapping(f) THEN 1 ELSE 0, withdrawn |-> FALSE]
  BY DEF ReadMeta
<1>5. (IF meta[f].localCount > 0 THEN meta[f].localCount ELSE meta[f].count) \in 0..MaxSlots
  BY <1>2
<1>6. rd' \in Reads
  BY <1>2, <1>3, <1>4, <1>5 DEF Reads
<1>7. /\ rd'.pick = (IF meta[f].localCount > 0 THEN meta[f].localCount ELSE meta[f].count)
      /\ rd'.expect = LiveEndpoints(f)
  BY <1>4
<1>8. rd'.pick <= Len(rd'.expect)
  BY <1>2, <1>3, <1>7
<1>9. ASSUME rd'.local PROVE \A s \in 1..rd'.pick : rd'.expect[s] \in LocalEndpoints
  <2>1. meta[f].localCount > 0
    BY <1>4, <1>9
  <2>2. rd'.pick = meta[f].localCount
    BY <1>7, <2>1
  <2>3. \A s \in 1..meta[f].localCount : LiveEndpoints(f)[s] \in LocalEndpoints
    <3>1. \A s \in 1..meta[f].localCount : s \in 1..meta[f].count
      BY <1>2
    <3> QED BY <1>2, <1>3, <3>1
  <2> QED BY <1>7, <2>2, <2>3
<1> QED BY <1>1, <1>3, <1>4, <1>6, <1>7, <1>8, <1>9

\* The type of what a packet carries, and what it may use of it.
LEMMA UsableStep ==
  ASSUME RInv, [Next]_vars
  PROVE  rd' \in Reads /\ Usable'
<1>0. rd \in Reads /\ Usable
  BY DEF RInv
<1>1. CASE rd' = rd
  <2>1. ASSUME rd.phase = "slot", ~rd.withdrawn, meta[rd.front] # Nothing, rd.front \in Fronts
        PROVE  meta'[rd.front] # Nothing
    <3>1. CASE DeleteMeta
      <4>1. CASE rd.front = cur /\ meta' = [meta EXCEPT ![cur] = Nothing]
        <5>1. rd' = [rd EXCEPT !.withdrawn = TRUE] \/ meta' = meta
          BY <3>1, <4>1 DEF DeleteMeta
        <5> QED BY <1>0, <1>1, <2>1, <5>1, WithdrawnPart
      <4>2. CASE rd.front # cur \/ meta' = meta
        BY <2>1, <3>1, <4>2 DEF DeleteMeta, RInv, IInv, TypeOK
      <4> QED BY <3>1, <4>1, <4>2 DEF DeleteMeta
    <3>2. CASE PutMeta
      <4>1. cur \in Fronts /\ work.commit # Nothing
        BY <3>2 DEF PutMeta, RInv, IInv, TypeOK
      <4> QED BY <2>1, <3>2, <4>1 DEF PutMeta, RInv, IInv, TypeOK
    <3>3. CASE meta' = meta
      BY <2>1, <3>3
    <3>4. CASE Next /\ ~DeleteMeta /\ ~PutMeta
      <4>1. meta' = meta
        BY <3>4 DEF Next, Tick, Pass, Write, WatchEvent, RetryTick, FollowUpTick, Restart,
                    BeginPass, StartPlan, DeleteEndpoint, PutEndpoint, EndPlan, EndPass, Expire,
                    Crash, Packet, ReadMeta, ReadSlot, ReadEmpty, maps
      <4> QED BY <2>1, <4>1
    <3> QED BY <3>1, <3>2, <3>3, <3>4 DEF vars
  <2> QED BY <1>0, <1>1, <2>1 DEF Usable
<1>2. ASSUME NEW f \in Fronts, StartPlan(f), rd.front = f, rd.plans < 2,
             rd' = [rd EXCEPT !.plans = rd.plans + 1]
      PROVE  rd' \in Reads /\ Usable'
  <2>1. meta' = meta
    BY <1>2 DEF StartPlan, maps
  <2> QED BY <1>0, <1>2, <2>1, CountedPart DEF Usable
<1>3. CASE rd' = [rd EXCEPT !.withdrawn = TRUE]
  BY <1>0, <1>3, WithdrawnPart DEF Usable
<1>4. ASSUME NEW f \in Fronts, ReadMeta(f) PROVE rd' \in Reads /\ Usable'
  <2>1. meta' = meta /\ meta[f].count \in 0..MaxSlots
    BY <1>4, FirstLookup DEF ReadMeta, maps, RInv, IInv, TypeOK, Metas
  <2> QED BY <1>4, <2>1, FirstLookup, DesiredAssumption DEF Usable, RInv, DesiredAssumption
<1>5. ASSUME NEW s \in Slots, ReadSlot(s) PROVE rd' \in Reads /\ Usable'
  <2>1. PICK e : /\ e = IF rd.local /\ rows[<<rd.front, rd.gen, s>>] \notin LocalEndpoints
                        THEN Nothing ELSE rows[<<rd.front, rd.gen, s>>]
                 /\ rd' = [rd EXCEPT !.phase = "done", !.pick = s, !.got = e]
    BY <1>5 DEF ReadSlot
  <2>2. <<rd.front, rd.gen, s>> \in Fronts \X Gens \X Slots
    BY <1>0, <1>5 DEF ReadSlot, Usable, Reads
  <2>3. e \in Endpoints \cup {Nothing}
    BY <2>1, <2>2 DEF RInv, IInv, TypeOK
  <2>4. s \in 0..MaxSlots
    BY DesiredAssumption DEF Slots, DesiredAssumption
  <2>5. LET q == [rd EXCEPT !.phase = "done", !.pick = s, !.got = e]
        IN  q \in Reads /\ q.phase = "done"
    BY <1>0, <2>3, <2>4 DEF Reads
  <2> QED BY <2>1, <2>5 DEF Usable
<1>6. CASE rd' = NoRead
  <2>1. NoRead \in Reads /\ NoRead.phase = "none"
    <3>1. <<>> \in Seq(Endpoints) /\ 0 \in Gens /\ 0 \in 0..MaxSlots
      BY SwapAssumption, DesiredAssumption DEF SwapAssumption, DesiredAssumption, Gens
    <3> QED BY <3>1 DEF NoRead, Reads
  <2> QED BY <1>6, <2>1 DEF Usable
<1> QED BY <1>1, <1>2, <1>3, <1>4, <1>5, <1>6, CarriedStep

-----------------------------------------------------------------------------
(* One swap between the lookups costs nothing.                             *)

\* The generation before the next one is this one, also across the u32 wrap.
LEMMA PrevNext ==
  ASSUME NEW g \in Gens
  PROVE  PrevGen(NextGen(g)) = g
<1>1. GenMod \in Nat /\ GenMod > 2 /\ g \in Nat /\ g < GenMod
  BY SwapAssumption DEF SwapAssumption, Gens
<1>2. CASE g + 1 < GenMod
  <2>1. (g + 1) % GenMod = g + 1
    BY <1>1, <1>2
  <2>2. (g + 1) + (GenMod - 1) = g + GenMod
    BY <1>1
  <2>3. (g + GenMod) % GenMod = g
    BY <1>1
  <2> QED BY <2>1, <2>2, <2>3 DEF NextGen, PrevGen
<1>3. CASE g + 1 = GenMod
  <2>1. (g + 1) % GenMod = 0
    BY <1>1, <1>3
  <2>2. (0 + (GenMod - 1)) % GenMod = g
    BY <1>1, <1>3
  <2> QED BY <2>1, <2>2 DEF NextGen, PrevGen
<1> QED BY <1>1, <1>2, <1>3

\* A front held in its grace: what is planned for it short of a swap spares the
\* generation before the live one, or withdraws the front first.
LEMMA SparedPlan ==
  ASSUME IInv, NEW f \in Fronts, NEW g \in Gens, meta[f] # Nothing,
         meta[f].gen = NextGen(g), recent[f] = "held", ~IsSwap(f, PlanFor(f))
  PROVE  PlanFor(f).withdraw \/ \A k \in PlanFor(f).dels : k[1] # g
<1>1. CASE PlanFor(f) = NoWork
  BY <1>1 DEF NoWork
<1>2. CASE PlanFor(f) = WithdrawPlan(f)
  BY <1>2 DEF WithdrawPlan, NoWork
<1>3. CASE PlanFor(f) = CleanPlan(f)
  <2>1. PlanFor(f).dels = {k \in Existing(f) : ~Kept(f, k[1])}
    BY <1>3 DEF CleanPlan, NoWork
  <2>2. PrevGen(meta[f].gen) = g
    BY PrevNext
  <2> QED BY <2>1, <2>2 DEF Kept
<1>4. CASE PlanFor(f) = SwapPlan(f) /\ want[f] # Nothing
  <2>1. /\ PlanFor(f).commit.gen = SwapGen(f) /\ SwapGen(f) = NextGen(meta[f].gen)
        /\ PlanFor(f).commit = [gen |-> SwapGen(f), count |-> Len(want[f].endpoints),
                                localCount |-> LocalCount(want[f]), flags |-> want[f].flags]
    BY <1>4 DEF SwapPlan, SwapGen
  <2>2. meta[f].gen \in Gens /\ want[f] \in Wants
    BY <1>4 DEF IInv, TypeOK, Metas
  <2>3. SwapGen(f) # meta[f].gen /\ SwapGen(f) \in Gens
    BY <2>1, <2>2, NextGenType
  <2>4. PlanFor(f).commit # Nothing
    <3>1. /\ LocalCount(want[f]) \in Nat /\ want[f].flags \in {0, 1}
          /\ Len(want[f].endpoints) \in 0..MaxSlots
      BY <2>2, LocalCountType, DesiredAssumption DEF DesiredAssumption
    <3> QED BY <2>1, <2>3, <3>1, SwapAssumption DEF SwapAssumption, Gens
  <2> QED BY <2>1, <2>3, <2>4 DEF IsSwap
<1> QED BY <1>1, <1>2, <1>3, <1>4 DEF PlanFor

\* A plan that still has rows to write for a live front will commit a swap.
LEMMA WritesForSwap ==
  ASSUME RInv, cur # Nothing, meta[cur] # Nothing, work.at <= Len(work.puts)
  PROVE  /\ Swapping(cur) /\ work.gen = NextGen(meta[cur].gen)
         /\ work.gen # meta[cur].gen
<1>1. Shape(cur, work) /\ cur \in Fronts /\ work \in Works
  BY DEF RInv, PlanShape, IInv, TypeOK
<1>2. work.puts # <<>>
  <2>1. work.at \in 1..(Len(work.puts) + 1)
    BY DEF RInv, IInv, TypeOK
  <2>2. Len(work.puts) \in Nat
    BY <1>1, LenProperties DEF Works
  <2>3. Len(work.puts) # 0
    BY <2>1, <2>2
  <2> QED BY <2>3
<1>3. work.commit # Nothing /\ work.commit.gen = work.gen
        /\ work.gen = NextGen(meta[cur].gen)
  BY <1>1, <1>2 DEF Shape
<1>4. NextGen(meta[cur].gen) # meta[cur].gen
  BY <1>1, NextGenType DEF RInv, IInv, TypeOK, Metas
<1> QED BY <1>3, <1>4 DEF Swapping, IsSwap

\* The rows a guarded packet may pick stay as they were at its first lookup.
LEMMA GuardedRows ==
  ASSUME RInv, [Next]_vars, rd.phase = "slot", ~rd.withdrawn, rd.plans < 2,
         NEW s \in 1..Len(rd.expect)
  PROVE  rows'[<<rd.front, rd.gen, s>>] = rows[<<rd.front, rd.gen, s>>]
<1>0. rd \in Reads /\ rd.front \in Fronts /\ meta[rd.front] # Nothing
        /\ (InLive \/ InPrevious)
  BY DEF RInv, Usable, Guarded
<1>1. ASSUME NEW k \in Keys, DeleteEndpoint(k), cur = rd.front PROVE k[1] # rd.gen
  <2>1. ~work.withdraw /\ k \in work.dels /\ cur # Nothing
    BY <1>1 DEF DeleteEndpoint
  <2>2. CASE InLive
    BY <1>0, <1>1, <2>1, <2>2 DEF InLive, RInv, IInv, PlanSafe, LiveSafe
  <2>3. CASE InPrevious
    BY <1>1, <2>1, <2>3 DEF InPrevious, Spared
  <2> QED BY <1>0, <2>2, <2>3
<1>2. ASSUME PutEndpoint, cur = rd.front PROVE work.gen # rd.gen
  <2>1. cur # Nothing /\ work.at <= Len(work.puts)
    BY <1>2 DEF PutEndpoint
  <2>2. Swapping(cur) /\ work.gen # meta[cur].gen
    BY <1>0, <1>2, <2>1, WritesForSwap
  <2>3. CASE InLive
    BY <1>2, <2>2, <2>3 DEF InLive
  <2>4. CASE InPrevious
    BY <1>2, <2>2, <2>4 DEF InPrevious, Spared
  <2> QED BY <1>0, <2>3, <2>4
<1>3. <<rd.front, rd.gen, s>> \in Fronts \X Gens \X Slots
  <2>1. rd.gen \in Gens /\ Len(rd.expect) \in Nat /\ Len(rd.expect) <= MaxSlots
    BY <1>0, LenProperties DEF Reads, RInv, Usable
  <2>2. s \in Slots
    BY <2>1, DesiredAssumption DEF Slots, DesiredAssumption
  <2> QED BY <1>0, <2>1, <2>2
<1>4. ASSUME NEW k \in Keys, DeleteEndpoint(k)
      PROVE  rows'[<<rd.front, rd.gen, s>>] = rows[<<rd.front, rd.gen, s>>]
  <2>1. <<rd.front, rd.gen, s>> # <<cur, k[1], k[2]>>
    BY <1>1, <1>4
  <2> QED BY <1>3, <1>4, <2>1 DEF DeleteEndpoint, RInv, IInv, TypeOK
<1>5. CASE PutEndpoint
  <2>1. <<rd.front, rd.gen, s>> # <<cur, work.gen, work.at>>
    BY <1>2, <1>5
  <2> QED BY <1>3, <1>5, <2>1 DEF PutEndpoint, RInv, IInv, TypeOK
<1>6. CASE (Next /\ ~PutEndpoint /\ ~\E k \in Keys : DeleteEndpoint(k)) \/ UNCHANGED vars
  <2>1. rows' = rows
    BY <1>6 DEF Next, Tick, Pass, Write, WatchEvent, RetryTick, FollowUpTick, Restart, BeginPass,
               StartPlan, DeleteMeta, PutMeta, EndPlan, EndPass, Expire, Crash, Packet,
               ReadMeta, ReadSlot, ReadEmpty, maps, vars
  <2> QED BY <2>1
<1> QED BY <1>4, <1>5, <1>6

\* The four writes leave a guarded packet in the live generation or in a spared one.
LEMMA GuardedWrite ==
  ASSUME RInv, Write, rd' = rd, rd.phase = "slot", ~rd.withdrawn, rd.plans < 2
  PROVE  (InLive \/ InPrevious)'
<1>0. /\ rd \in Reads /\ rd.front \in Fronts /\ meta[rd.front] # Nothing
      /\ InLive \/ InPrevious
      /\ cur \in Fronts /\ cur # Nothing /\ work \in Works /\ pc = "pass"
  BY DEF RInv, Usable, Guarded, Write, DeleteMeta, DeleteEndpoint, PutEndpoint, PutMeta,
         IInv, TypeOK, PlanSafe
<1>1. UNCHANGED <<cur, pc, todo, recent>>
  BY DEF Write, DeleteMeta, DeleteEndpoint, PutEndpoint, PutMeta, Writing
<1>2. ASSUME meta'[rd.front] = meta[rd.front], swapped \subseteq swapped',
             cur = rd.front => /\ Swapping(rd.front)' => Swapping(rd.front)
                               /\ work'.withdraw \/ work'.dels \subseteq work.dels
                               /\ work.withdraw => work'.withdraw \/ work'.dels = {}
      PROVE  (InLive \/ InPrevious)'
  <2>1. Swapping(rd.front)' => Swapping(rd.front)
    BY <1>1, <1>2 DEF Swapping
  <2>2. CASE InLive
    <3>1. InLive'
      BY <1>2, <2>1, <2>2 DEF InLive
    <3> QED BY <3>1
  <2>3. CASE InPrevious
    <3>1. Spared(rd.front)'
      BY <1>1, <1>2, <2>1, <2>3 DEF InPrevious, Spared
    <3>2. InPrevious'
      BY <1>2, <2>3, <3>1 DEF InPrevious
    <3> QED BY <3>2
  <2> QED BY <1>0, <2>2, <2>3
<1>3. CASE DeleteMeta
  <2>1. CASE work' = NoWork /\ meta' = meta /\ swapped' = swapped
    BY <1>2, <2>1 DEF NoWork, Swapping, IsSwap
  <2>2. CASE rd.front # cur
    BY <1>0, <1>2, <1>3, <2>2 DEF DeleteMeta, RInv, IInv, TypeOK
  <2>3. CASE rd' = [rd EXCEPT !.withdrawn = TRUE]
    BY <1>0, <2>3, WithdrawnPart
  <2> QED BY <1>3, <2>1, <2>2, <2>3 DEF DeleteMeta
<1>4. ASSUME NEW k \in Keys, DeleteEndpoint(k) PROVE (InLive \/ InPrevious)'
  <2>1. work' = [work EXCEPT !.dels = work.dels \ {k}] /\ meta' = meta /\ swapped' = swapped
    BY <1>4 DEF DeleteEndpoint
  <2>2. work'.withdraw = work.withdraw /\ work'.dels = work.dels \ {k}
          /\ work'.commit = work.commit
    <3>1. work.dels \ {k} \in SUBSET Keys
      BY <1>0 DEF Works
    <3> QED BY <1>0, <2>1, <3>1, DeletePart
  <2>3. Swapping(rd.front)' => Swapping(rd.front)
    BY <1>1, <2>1, <2>2 DEF Swapping, IsSwap
  <2> QED BY <1>2, <2>1, <2>2, <2>3
<1>5. CASE PutEndpoint
  <2>1. work' = [work EXCEPT !.at = work.at + 1] /\ meta' = meta /\ swapped' = swapped
    BY <1>5 DEF PutEndpoint
  <2>2. work'.withdraw = work.withdraw /\ work'.dels = work.dels /\ work'.commit = work.commit
    <3>1. work.at + 1 \in Nat
      BY <1>0 DEF Works
    <3> QED BY <1>0, <2>1, <3>1, SlotPart
  <2>3. Swapping(rd.front)' => Swapping(rd.front)
    BY <1>1, <2>1, <2>2 DEF Swapping, IsSwap
  <2> QED BY <1>2, <2>1, <2>2, <2>3
<1>6. CASE PutMeta
  <2>1. /\ ~work.withdraw /\ work.dels = {} /\ work.commit # Nothing
        /\ work'.dels = {} /\ work'.commit = Nothing /\ swapped \subseteq swapped'
    BY <1>0, <1>6, CommitPart DEF PutMeta
  <2>2. ~Swapping(rd.front)'
    BY <2>1 DEF Swapping, IsSwap
  <2>3. CASE meta'[rd.front] = meta[rd.front]
    BY <1>2, <2>1, <2>2, <2>3
  <2>4. CASE rd.front = cur /\ meta' = [meta EXCEPT ![cur] = work.commit]
                /\ swapped' = IF IsSwap(cur, work) THEN swapped \cup {cur} ELSE swapped
    <3>1. meta'[cur] = work.commit
      BY <1>0, <2>4 DEF RInv, IInv, TypeOK
    <3>2. Shape(cur, work) /\ cur \notin todo
      BY <1>0 DEF RInv, PlanShape
    <3>3. NextGen(meta[cur].gen) # meta[cur].gen
      BY <1>0, <2>4, NextGenType DEF RInv, IInv, TypeOK, Metas
    <3>4. CASE work.commit.gen = NextGen(meta[cur].gen)
      <4>1. Swapping(cur) /\ IsSwap(cur, work)
        BY <1>0, <2>1, <2>4, <3>3, <3>4 DEF Swapping, IsSwap
      <4>2. rd.plans = 1 /\ meta[cur].gen = rd.gen
        <5>1. rd.plans \in 0..2
          BY <1>0 DEF Reads
        <5>2. InLive
          BY <1>0, <2>4, <4>1 DEF InPrevious, Spared
        <5> QED BY <2>4, <4>1, <5>1, <5>2 DEF InLive
      <4>3. Spared(rd.front)'
        BY <1>0, <1>1, <2>1, <2>2, <2>4, <3>2, <4>1 DEF Spared
      <4>4. InPrevious'
        BY <2>4, <3>1, <3>4, <4>2, <4>3 DEF InPrevious
      <4> QED BY <4>4
    <3>5. CASE work.commit.gen = meta[cur].gen /\ work.commit.count = meta[cur].count
      <4>1. CASE InLive
        <5>1. InLive'
          BY <2>2, <2>4, <3>1, <3>5, <4>1 DEF InLive
        <5> QED BY <5>1
      <4>2. CASE InPrevious
        <5>1. Spared(rd.front)'
          BY <1>1, <2>1, <2>2, <4>2 DEF InPrevious, Spared
        <5>2. InPrevious'
          BY <2>4, <3>1, <3>5, <4>2, <5>1 DEF InPrevious
        <5> QED BY <5>2
      <4> QED BY <1>0, <4>1, <4>2
    <3> QED BY <1>0, <2>1, <2>4, <3>2, <3>4, <3>5 DEF Shape
  <2>5. CASE rd.front # cur /\ meta' = [meta EXCEPT ![cur] = work.commit]
    BY <1>0, <2>3, <2>5 DEF RInv, IInv, TypeOK
  <2> QED BY <1>6, <2>3, <2>4, <2>5 DEF PutMeta
<1> QED BY <1>3, <1>4, <1>5, <1>6 DEF Write

\* Every step keeps a packet guarded until a second swap of its front starts.
LEMMA GuardedStep ==
  ASSUME RInv, [Next]_vars
  PROVE  Guarded'
<1> SUFFICES ASSUME rd'.phase = "slot", ~rd'.withdrawn, rd'.plans < 2
             PROVE  /\ \A s \in 1..Len(rd'.expect) :
                          rows'[<<rd'.front, rd'.gen, s>>] = rd'.expect[s]
                    /\ (InLive \/ InPrevious)'
  BY DEF Guarded
<1>0. rd \in Reads /\ Usable /\ Guarded /\ IInv /\ LocalPrefix
  BY DEF RInv
<1>1. ASSUME NEW f \in Fronts, ReadMeta(f)
      PROVE  /\ \A s \in 1..Len(rd'.expect) :
                   rows'[<<rd'.front, rd'.gen, s>>] = rd'.expect[s]
             /\ (InLive \/ InPrevious)'
  <2>1. UNCHANGED <<meta, rows, cur, work>>
    BY <1>1 DEF ReadMeta, maps, plan
  <2>2. /\ rd'.front = f /\ rd'.gen = meta[f].gen /\ rd'.plans = (IF Swapping(f) THEN 1 ELSE 0)
        /\ Len(rd'.expect) = meta[f].count
        /\ \A s \in 1..meta[f].count : rd'.expect[s] = rows[<<f, meta[f].gen, s>>]
    BY <1>0, <1>1, FirstLookup
  <2>3. InLive'
    BY <2>1, <2>2 DEF InLive, Swapping, IsSwap
  <2> QED BY <2>1, <2>2, <2>3
<1>2. ASSUME NEW f \in Fronts, StartPlan(f), rd.front = f, rd.plans < 2,
             rd' = [rd EXCEPT !.plans = rd.plans + 1]
      PROVE  /\ \A s \in 1..Len(rd'.expect) :
                   rows'[<<rd'.front, rd'.gen, s>>] = rd'.expect[s]
             /\ (InLive \/ InPrevious)'
  <2>1. /\ rd'.phase = rd.phase /\ rd'.front = rd.front /\ rd'.gen = rd.gen
        /\ rd'.expect = rd.expect /\ rd'.plans = rd.plans + 1 /\ rd'.withdrawn = rd.withdrawn
    BY <1>0, <1>2, CountedPart
  <2>2. rd.plans = 0 /\ rd'.plans = 1
    BY <1>0, <2>1 DEF Reads
  <2>3. meta' = meta /\ rows' = rows
    BY <1>2 DEF StartPlan, maps
  <2>4. InLive /\ \A s \in 1..Len(rd.expect) : rows[<<rd.front, rd.gen, s>>] = rd.expect[s]
    BY <1>0, <2>1, <2>2 DEF Guarded, InPrevious
  <2>5. InLive'
    BY <2>1, <2>2, <2>3, <2>4 DEF InLive
  <2> QED BY <2>1, <2>3, <2>4, <2>5
<1>3. CASE rd' = rd
  <2>0. /\ rd.phase = "slot" /\ ~rd.withdrawn /\ rd.plans < 2 /\ rd.front \in Fronts
        /\ meta[rd.front] # Nothing /\ rd.gen \in Gens
        /\ InLive \/ InPrevious
        /\ \A s \in 1..Len(rd.expect) : rows[<<rd.front, rd.gen, s>>] = rd.expect[s]
    BY <1>0, <1>3 DEF Usable, Guarded, Reads
  <2>1. \A s \in 1..Len(rd'.expect) : rows'[<<rd'.front, rd'.gen, s>>] = rd'.expect[s]
    BY <1>3, <2>0, GuardedRows
  <2> SUFFICES (InLive \/ InPrevious)'
    BY <2>1
  <2>2. ASSUME meta' = meta, InLive => ~Swapping(rd.front)' \/ Swapping(rd.front),
               InPrevious => Spared(rd.front)'
        PROVE  (InLive \/ InPrevious)'
    <3>1. CASE InLive
      <4>1. InLive'
        BY <1>3, <2>2, <3>1 DEF InLive
      <4> QED BY <4>1
    <3>2. CASE InPrevious
      <4>1. InPrevious'
        BY <1>3, <2>2, <3>2 DEF InPrevious
      <4> QED BY <4>1
    <3> QED BY <2>0, <3>1, <3>2
  <2>3. CASE WatchEvent \/ Tick
    <3>1. pc = "idle" /\ cur = Nothing
      BY <1>0, <2>0, <2>3
      DEF WatchEvent, Tick, RetryTick, FollowUpTick, Restart, IInv, PlanSafe
    <3>2. UNCHANGED <<meta, cur, work, recent>>
      BY <2>3 DEF WatchEvent, Tick, RetryTick, FollowUpTick, Restart, BeginPass, maps, plan
    <3>3. rd.front # Nothing
      BY <2>0, DesiredAssumption DEF DesiredAssumption
    <3>4. InPrevious => Spared(rd.front)'
      BY <1>3, <3>1, <3>2, <3>3 DEF InPrevious, Spared
    <3> QED BY <1>3, <2>2, <3>1, <3>2, <3>3, <3>4 DEF Swapping
  <2>4. ASSUME NEW f \in Fronts, StartPlan(f) PROVE (InLive \/ InPrevious)'
    <3>0. /\ pc = "pass" /\ pc' = pc /\ cur = Nothing /\ meta' = meta /\ recent' = recent
          /\ swapped' = swapped /\ todo' = todo \ {f} /\ f \in todo
          /\ UNCHANGED <<cur, work>> \/ (cur' = f /\ work' = PlanFor(f))
      BY <2>4 DEF StartPlan, maps, plan, Planned
    <3>1. rd.front # Nothing
      BY <2>0, DesiredAssumption DEF DesiredAssumption
    <3>2. CASE f = rd.front
      <4>1. ~IsSwap(f, PlanFor(f))
        <5>1. IsSwap(f, PlanFor(f)) => rd' = [rd EXCEPT !.plans = rd.plans + 1]
          BY <2>0, <2>4, <3>2 DEF StartPlan
        <5>2. ASSUME rd = [rd EXCEPT !.plans = rd.plans + 1] PROVE FALSE
          <6>1. rd.plans \in Nat
            BY <1>0 DEF Reads
          <6>2. rd.plans = rd.plans + 1
            BY <1>0, <5>2 DEF Reads
          <6> QED BY <6>1, <6>2
        <5> QED BY <1>3, <5>1, <5>2
      <4>2. ~Swapping(f)'
        BY <3>0, <3>1, <3>2, <4>1 DEF Swapping, IsSwap
      <4>3. ASSUME InPrevious PROVE Spared(f)'
        <5>1. recent[f] = "held" /\ meta[f].gen = NextGen(rd.gen)
          BY <3>0, <3>2, <4>3 DEF InPrevious, Spared
        <5>2. PlanFor(f).withdraw \/ \A k \in PlanFor(f).dels : k[1] # rd.gen
          BY <1>0, <2>0, <3>2, <4>1, <5>1, SparedPlan
        <5> QED BY <1>3, <3>0, <3>1, <3>2, <4>2, <5>1, <5>2 DEF Spared
      <4> QED BY <1>3, <2>2, <3>0, <3>2, <4>2, <4>3
    <3>3. CASE f # rd.front
      <4>1. cur' # rd.front
        BY <3>0, <3>1, <3>3
      <4>2. InPrevious => Spared(rd.front)'
        BY <3>0, <4>1, <1>3 DEF InPrevious, Spared
      <4> QED BY <1>3, <2>2, <3>0, <4>1, <4>2 DEF Swapping
    <3> QED BY <3>2, <3>3
  <2>5. CASE Write
    BY <1>3, <2>0, <2>5, GuardedWrite
  <2>6. CASE EndPlan
    <3>1. cur' = Nothing /\ UNCHANGED <<meta, pc, todo, recent, swapped>>
      BY <2>6 DEF EndPlan, maps, tally
    <3>2. rd.front # Nothing
      BY <2>0, DesiredAssumption DEF DesiredAssumption
    <3>3. InPrevious => Spared(rd.front)'
      BY <3>1, <3>2, <1>3 DEF InPrevious, Spared
    <3> QED BY <1>3, <2>2, <3>1, <3>2, <3>3 DEF Swapping
  <2>7. CASE EndPass
    <3>1. cur = Nothing /\ cur' = Nothing /\ meta' = meta /\ pc = "pass"
      BY <2>7 DEF EndPass, maps, plan
    <3>2. rd.front # Nothing
      BY <2>0, DesiredAssumption DEF DesiredAssumption
    <3>3. InPrevious => Spared(rd.front)'
      <4>1. InPrevious => rd.front \in swapped \/ recent[rd.front] = "held"
        BY <3>1 DEF InPrevious, Spared
      <4>2. InPrevious => recent'[rd.front] = "held"
        BY <2>0, <2>7, <4>1 DEF EndPass
      <4> QED BY <1>3, <3>1, <3>2, <4>2 DEF Spared
    <3> QED BY <1>3, <2>2, <3>1, <3>2, <3>3 DEF Swapping
  <2>8. CASE Crash
    <3>1. cur' = Nothing /\ meta' = meta /\ pc' = "down"
      BY <2>8 DEF Crash, maps
    <3>2. rd.front # Nothing
      BY <2>0, DesiredAssumption DEF DesiredAssumption
    <3>3. InPrevious => Spared(rd.front)'
      BY <3>1, <3>2, <1>3 DEF Spared
    <3> QED BY <1>3, <2>2, <3>1, <3>2, <3>3 DEF Swapping
  <2>9. CASE (\E f \in Fronts : Expire(f)) \/ Packet
    <3>1. ~\E f \in Fronts : Expire(f)
      BY <2>0 DEF Expire
    <3>2. UNCHANGED <<meta, pc, todo, cur, work, swapped, recent>>
      BY <2>9, <3>1 DEF Packet, ReadMeta, ReadSlot, ReadEmpty, maps, plan, tally
    <3> QED BY <1>3, <2>2, <3>2 DEF Swapping, IsSwap, InPrevious, Spared
  <2>10. CASE UNCHANGED vars
    BY <1>3, <2>2, <2>10 DEF vars, Swapping, IsSwap, InPrevious, Spared
  <2> QED BY <2>3, <2>4, <2>5, <2>6, <2>7, <2>8, <2>9, <2>10 DEF Next, Pass
<1>4. CASE rd' = [rd EXCEPT !.withdrawn = TRUE]
  BY <1>0, <1>4, WithdrawnPart
<1>5. ASSUME NEW s \in Slots, ReadSlot(s) PROVE FALSE
  BY <1>0, <1>5 DEF ReadSlot, Reads
<1>6. CASE rd' = NoRead
  BY <1>6 DEF NoRead
<1> QED BY <1>1, <1>2, <1>3, <1>4, <1>5, <1>6, CarriedStep

\* The second lookup of a guarded packet finds its endpoint.
LEMMA SecondLookup ==
  ASSUME RInv, NEW s \in Slots, ReadSlot(s)
  PROVE  /\ s \in 1..rd.pick /\ s \in 1..Len(rd.expect)
         /\ rd'.phase = "done" /\ rd'.pick = s /\ rd'.expect = rd.expect
         /\ rd'.plans = rd.plans /\ rd'.withdrawn = rd.withdrawn
         /\ rd'.got = IF rd.local /\ rows[<<rd.front, rd.gen, s>>] \notin LocalEndpoints
                      THEN Nothing ELSE rows[<<rd.front, rd.gen, s>>]
<1>0. rd \in Reads /\ rd.phase = "slot" /\ s \in 1..rd.pick /\ rd.pick <= Len(rd.expect)
  BY DEF RInv, Usable, ReadSlot
<1>1. rd.pick \in Nat /\ Len(rd.expect) \in Nat
  BY <1>0, LenProperties, DesiredAssumption DEF Reads, DesiredAssumption
<1>2. s \in 1..Len(rd.expect)
  BY <1>0, <1>1
<1>3. PICK e : /\ e = IF rd.local /\ rows[<<rd.front, rd.gen, s>>] \notin LocalEndpoints
                      THEN Nothing ELSE rows[<<rd.front, rd.gen, s>>]
               /\ rd' = [rd EXCEPT !.phase = "done", !.pick = s, !.got = e]
  BY DEF ReadSlot
<1>4. /\ rd'.phase = "done" /\ rd'.pick = s /\ rd'.expect = rd.expect
      /\ rd'.plans = rd.plans /\ rd'.withdrawn = rd.withdrawn /\ rd'.got = e
  BY <1>0, <1>3 DEF Reads
<1> QED BY <1>0, <1>2, <1>3, <1>4

\* A miss is only ever recorded of a packet that two swaps or a withdrawal overtook.
LEMMA OneSwapStep ==
  ASSUME RInv, [Next]_vars
  PROVE  OneSwapNoMiss'
<1>0. rd \in Reads /\ OneSwapNoMiss
  BY DEF RInv
<1>1. CASE rd' = rd
  BY <1>0, <1>1 DEF OneSwapNoMiss
<1>2. CASE rd.plans < 2 /\ rd' = [rd EXCEPT !.plans = rd.plans + 1]
  <2>1. /\ rd'.phase = rd.phase /\ rd'.got = rd.got /\ rd'.plans = rd.plans + 1
        /\ rd'.withdrawn = rd.withdrawn
    BY <1>0, <1>2, CountedPart
  <2>2. rd.plans \in Nat
    BY <1>0 DEF Reads
  <2> QED BY <1>0, <1>2, <2>1, <2>2 DEF OneSwapNoMiss
<1>3. CASE rd' = [rd EXCEPT !.withdrawn = TRUE]
  BY <1>0, <1>3, WithdrawnPart DEF OneSwapNoMiss
<1>4. ASSUME NEW f \in Fronts, ReadMeta(f) PROVE OneSwapNoMiss'
  BY <1>4, FirstLookup DEF OneSwapNoMiss, RInv
<1>5. ASSUME NEW s \in Slots, ReadSlot(s), ~rd.withdrawn, rd.plans < 2
      PROVE  rd'.got # Nothing
  <2>1. /\ s \in 1..rd.pick /\ s \in 1..Len(rd.expect)
        /\ rd'.got = IF rd.local /\ rows[<<rd.front, rd.gen, s>>] \notin LocalEndpoints
                     THEN Nothing ELSE rows[<<rd.front, rd.gen, s>>]
    BY <1>5, SecondLookup
  <2>2. rd.phase = "slot" /\ rd.expect \in Seq(Endpoints)
    BY <1>0, <1>5 DEF ReadSlot, Reads
  <2>3. rows[<<rd.front, rd.gen, s>>] = rd.expect[s]
    BY <1>5, <2>1, <2>2 DEF RInv, Guarded
  <2>4. rd.local => rows[<<rd.front, rd.gen, s>>] \in LocalEndpoints
    BY <2>1, <2>2, <2>3 DEF RInv, Usable
  <2>5. rd.expect[s] \in Endpoints
    BY <2>1, <2>2, ElementOfSeq
  <2> QED BY <2>1, <2>3, <2>4, <2>5, DesiredAssumption DEF DesiredAssumption
<1>6. ASSUME NEW s \in Slots, ReadSlot(s) PROVE OneSwapNoMiss'
  <2>1. rd'.plans = rd.plans /\ rd'.withdrawn = rd.withdrawn
    BY <1>6, SecondLookup
  <2>2. rd.plans \in Nat
    BY <1>0 DEF Reads
  <2> QED BY <1>5, <1>6, <2>1, <2>2 DEF OneSwapNoMiss
<1>7. CASE rd' = NoRead
  BY <1>7 DEF NoRead, OneSwapNoMiss
<1> QED BY <1>1, <1>2, <1>3, <1>4, <1>6, <1>7, CarriedStep

\* No packet is between its lookups at the start.
LEMMA RInvInit == Init => RInv
<1> SUFFICES ASSUME Init PROVE RInv
  OBVIOUS
<1>1. IInv
  BY IInvInit
<1>2. rd \in Reads /\ Usable /\ Guarded /\ OneSwapNoMiss
  <2>1. NoRead \in Reads /\ NoRead.phase = "none"
    <3>1. <<>> \in Seq(Endpoints) /\ 0 \in Gens /\ 0 \in 0..MaxSlots
      BY SwapAssumption, DesiredAssumption DEF SwapAssumption, DesiredAssumption, Gens
    <3> QED BY <3>1 DEF NoRead, Reads
  <2>2. rd = NoRead
    BY DEF Init
  <2> QED BY <2>1, <2>2 DEF Usable, Guarded, OneSwapNoMiss
<1>3. PlanShape
  BY DEF Init, PlanShape
<1>4. ASSUME NEW f \in Fronts, meta[f] # Nothing
      PROVE  /\ meta[f].localCount <= meta[f].count
             /\ \A s \in 1..meta[f].localCount : rows[<<f, meta[f].gen, s>>] \in LocalEndpoints
  <2>1. want[f] # Nothing /\ want[f] \in Wants
    BY <1>4 DEF Init
  <2>2. /\ meta[f].gen = FirstGen /\ meta[f].count = Len(want[f].endpoints)
        /\ meta[f].localCount = LocalCount(want[f])
    BY <2>1 DEF Init
  <2>3. /\ LocalCount(want[f]) \in Nat /\ LocalCount(want[f]) <= Len(want[f].endpoints)
        /\ \A s \in 1..LocalCount(want[f]) : want[f].endpoints[s] \in LocalEndpoints
    BY <2>1, LocalCountType, LocalRun
  <2>4. Len(want[f].endpoints) \in Nat
    BY <2>1, DesiredAssumption DEF DesiredAssumption
  <2>5. ASSUME NEW s \in 1..LocalCount(want[f])
        PROVE  rows[<<f, FirstGen, s>>] = want[f].endpoints[s]
    <3>1. s \in 1..meta[f].count /\ s <= Len(want[f].endpoints)
      BY <2>2, <2>3, <2>4
    <3>2. <<f, FirstGen, s>> \in Fronts \X Gens \X Slots
      BY <1>1, <1>4, <2>2, <3>1, LiveKey DEF IInv
    <3> QED BY <2>1, <3>1, <3>2 DEF Init
  <2> QED BY <2>2, <2>3, <2>5
<1> QED BY <1>1, <1>2, <1>3, <1>4 DEF RInv, LocalPrefix

\* Every step keeps the invariant of the packet.
LEMMA RInvStep == RInv /\ [Next]_vars => RInv'
<1> SUFFICES ASSUME RInv, [Next]_vars PROVE RInv'
  OBVIOUS
<1>1. IInv' /\ PlanShape' /\ LocalPrefix'
  BY IInvStep, PlanShapeStep, LocalPrefixStep DEF RInv
<1> QED BY <1>1, UsableStep, GuardedStep, OneSwapStep DEF RInv

(***************************************************************************)
(* One swap costs no packet: between a packet's two lookups any write may  *)
(* fail and the controller may die, and yet the row it picks is there and  *)
(* usable unless two swaps of its front were started, or the front was     *)
(* withdrawn, in between.  For any fronts, lists and capacities.           *)
(***************************************************************************)
THEOREM OneSwapCostsNothing == Spec => []OneSwapNoMiss
<1>1. RInv => OneSwapNoMiss
  BY DEF RInv
<1> QED BY <1>1, RInvInit, RInvStep, PTL DEF Spec

-----------------------------------------------------------------------------
(* No mix of endpoint sets, short of a full turn of the u32 generation.    *)

\* A swap is one more generation ahead, and does not reach the start again
\* before GenMod of them (next_generation).
LEMMA AheadNext ==
  ASSUME NEW g \in Gens, NEW h \in Gens
  PROVE  /\ Ahead(g, h) \in Nat /\ Ahead(g, g) = 0
         /\ Ahead(g, h) + 1 < GenMod =>
              Ahead(g, NextGen(h)) = Ahead(g, h) + 1 /\ NextGen(h) # g
<1>1. /\ GenMod \in Nat /\ GenMod > 2 /\ g \in Nat /\ g < GenMod /\ h \in Nat /\ h < GenMod
  BY SwapAssumption DEF SwapAssumption, Gens
<1>2. CASE h + 1 < GenMod
  <2>1. (h + 1) % GenMod = h + 1
    BY <1>1, <1>2
  <2>2. NextGen(h) = h + 1
    BY <2>1 DEF NextGen
  <2> QED BY <1>1, <1>2, <2>2 DEF Ahead
<1>3. CASE h + 1 = GenMod
  <2>1. (h + 1) % GenMod = 0
    BY <1>1, <1>3
  <2>2. NextGen(h) = 0
    BY <2>1 DEF NextGen
  <2> QED BY <1>1, <1>3, <2>2 DEF Ahead
<1> QED BY <1>1, <1>2, <1>3

\* A swap is planned only for a front that does not serve what is wanted.
LEMMA SwapUnserved ==
  ASSUME IInv, NEW f \in Fronts, meta[f] # Nothing, IsSwap(f, PlanFor(f))
  PROVE  want[f] # Nothing /\ ~Unchanged(f)
<1>0. meta[f] \in Metas
  BY DEF IInv, TypeOK
<1>1. CASE PlanFor(f) = NoWork
  BY <1>1 DEF NoWork, IsSwap
<1>2. CASE PlanFor(f) = WithdrawPlan(f)
  BY <1>2 DEF WithdrawPlan, NoWork, IsSwap
<1>3. CASE PlanFor(f) = CleanPlan(f)
  <2>1. PlanFor(f).commit = IF meta[f].flags # want[f].flags
                            THEN [meta[f] EXCEPT !.flags = want[f].flags] ELSE Nothing
    BY <1>3 DEF CleanPlan, NoWork
  <2>2. [meta[f] EXCEPT !.flags = want[f].flags].gen = meta[f].gen
    BY <1>0 DEF Metas
  <2> QED BY <2>1, <2>2 DEF IsSwap
<1> QED BY <1>1, <1>2, <1>3 DEF PlanFor

\* No more watch events than the bound.
LEMMA EventsStep ==
  ASSUME TypeOK, events <= MaxEvents, [Next]_vars
  PROVE  events' <= MaxEvents /\ events' \in Nat /\ events' >= events
<1>1. CASE WatchEvent
  BY <1>1, SwapAssumption DEF WatchEvent, TypeOK, SwapAssumption
<1>2. CASE ~WatchEvent
  <2>1. events' = events
    BY <1>2 DEF Next, Tick, Pass, Write, RetryTick, FollowUpTick, Restart, BeginPass,
               StartPlan, DeleteMeta, DeleteEndpoint, PutEndpoint, PutMeta, EndPlan, EndPass,
               Expire, Crash, Packet, ReadMeta, ReadSlot, ReadEmpty, Writing, bounds, vars
  <2> QED BY <2>1 DEF TypeOK
<1> QED BY <1>1, <1>2

\* A packet's rows hold what they held or are gone: none is written anew.
LEMMA UnaliasedRows ==
  ASSUME MaxEvents + 1 < GenMod, MInv, [Next]_vars, rd.phase = "slot", ~rd.withdrawn,
         NEW s \in 1..Len(rd.expect)
  PROVE  rows'[<<rd.front, rd.gen, s>>] \in {rd.expect[s], Nothing}
<1>0. /\ rd \in Reads /\ rd.front \in Fronts /\ meta[rd.front] # Nothing /\ RInv
      /\ rows[<<rd.front, rd.gen, s>>] \in {rd.expect[s], Nothing}
  BY DEF MInv, RInv, Usable, Unaliased
<1>1. <<rd.front, rd.gen, s>> \in Fronts \X Gens \X Slots
  <2>1. rd.gen \in Gens /\ Len(rd.expect) \in Nat /\ Len(rd.expect) <= MaxSlots
    BY <1>0, LenProperties DEF Reads, RInv, Usable
  <2>2. s \in Slots
    BY <2>1, DesiredAssumption DEF Slots, DesiredAssumption
  <2> QED BY <1>0, <2>1, <2>2
<1>2. ASSUME PutEndpoint, cur = rd.front PROVE work.gen # rd.gen
  <2>1. cur # Nothing /\ work.at <= Len(work.puts)
    BY <1>2 DEF PutEndpoint
  <2>2. Swapping(cur) /\ work.gen = NextGen(meta[cur].gen)
    BY <1>0, <1>2, <2>1, WritesForSwap
  <2>3. Ahead(rd.gen, meta[cur].gen) <= events
    BY <1>2, <2>2 DEF MInv, Unaliased, Unserved
  <2>4. rd.gen \in Gens /\ meta[cur].gen \in Gens
    BY <1>0, <1>2 DEF Reads, RInv, IInv, TypeOK, Metas
  <2>5. Ahead(rd.gen, meta[cur].gen) + 1 < GenMod
    <3>1. Ahead(rd.gen, meta[cur].gen) \in Nat
      BY <2>4, AheadNext
    <3>2. events \in Nat /\ events <= MaxEvents /\ GenMod \in Nat /\ MaxEvents \in Nat
      BY SwapAssumption DEF MInv, RInv, IInv, TypeOK, SwapAssumption
    <3> QED BY <2>3, <3>1, <3>2
  <2> QED BY <2>2, <2>4, <2>5, AheadNext
<1>3. ASSUME NEW k \in Keys, DeleteEndpoint(k)
      PROVE  rows'[<<rd.front, rd.gen, s>>] \in {rows[<<rd.front, rd.gen, s>>], Nothing}
  BY <1>1, <1>3 DEF DeleteEndpoint, MInv, RInv, IInv, TypeOK
<1>4. CASE PutEndpoint
  <2>1. <<rd.front, rd.gen, s>> # <<cur, work.gen, work.at>>
    BY <1>2, <1>4
  <2>2. rows'[<<rd.front, rd.gen, s>>] = rows[<<rd.front, rd.gen, s>>]
    BY <1>1, <1>4, <2>1 DEF PutEndpoint, MInv, RInv, IInv, TypeOK
  <2> QED BY <1>0, <2>2
<1>5. CASE (Next /\ ~PutEndpoint /\ ~\E k \in Keys : DeleteEndpoint(k)) \/ UNCHANGED vars
  <2>1. rows' = rows
    BY <1>5 DEF Next, Tick, Pass, Write, WatchEvent, RetryTick, FollowUpTick, Restart, BeginPass,
               StartPlan, DeleteMeta, PutMeta, EndPlan, EndPass, Expire, Crash, Packet,
               ReadMeta, ReadSlot, ReadEmpty, maps, vars
  <2> QED BY <1>0, <2>1
<1> QED BY <1>0, <1>3, <1>4, <1>5

\* A front that serves what is wanted goes on serving it while its FRONT_META row,
\* its live rows and the wanted front stay.
LEMMA StaysServed ==
  ASSUME IInv, NEW f \in Fronts, meta[f] # Nothing, meta'[f] = meta[f], LiveRowsKept,
         want' = want, want[f] # Nothing, Unchanged(f)
  PROVE  Unchanged(f)'
<1>1. want[f] \in Wants
  BY DEF IInv, TypeOK
<1>2. meta[f].count = Len(want[f].endpoints)
  BY DEF Unchanged
<1> QED BY <1>2 DEF Unchanged, LiveRowsKept

\* How far the live generation is ahead of a packet's, through the writes of a plan.
LEMMA AheadWrite ==
  ASSUME MaxEvents + 1 < GenMod, MInv, Write, rd' = rd, rd.phase = "slot", ~rd.withdrawn
  PROVE  /\ Ahead(rd.gen, meta'[rd.front].gen) <= events + 1
         /\ Unserved(rd.front)' => Ahead(rd.gen, meta'[rd.front].gen) <= events
<1> DEFINE F == rd.front
           d == Ahead(rd.gen, meta[F].gen)
<1>0. /\ rd \in Reads /\ F \in Fronts /\ meta[F] # Nothing /\ RInv /\ IInv
      /\ d <= events + 1 /\ (Unserved(F) => d <= events)
      /\ cur \in Fronts /\ cur # Nothing /\ work \in Works
  BY DEF MInv, RInv, Usable, Unaliased, Write, DeleteMeta, DeleteEndpoint, PutEndpoint, PutMeta,
         IInv, TypeOK
<1>1. cur' = cur /\ want' = want
  BY DEF Write, DeleteMeta, DeleteEndpoint, PutEndpoint, PutMeta, Writing
<1>2. ASSUME meta'[F] = meta[F], Unserved(F)' => Unserved(F)
      PROVE  /\ Ahead(rd.gen, meta'[F].gen) <= events + 1
             /\ Unserved(F)' => Ahead(rd.gen, meta'[F].gen) <= events
  BY <1>0, <1>2
<1> HIDE DEF d
<1>3. CASE DeleteMeta
  <2>1. CASE work' = NoWork /\ meta' = meta
    <3>1. rows' = rows
      BY <1>3 DEF DeleteMeta
    <3>2. Unserved(F)' => Unserved(F)
      BY <1>1, <2>1, <3>1 DEF NoWork, Unserved, Swapping, IsSwap, Unchanged
    <3> QED BY <1>2, <2>1, <3>2
  <2>2. CASE F # cur
    <3>1. rows' = rows /\ meta'[F] = meta[F]
      BY <1>0, <1>3, <2>2 DEF DeleteMeta, IInv, TypeOK
    <3>2. Unserved(F)' => Unserved(F)
      BY <1>1, <2>2, <3>1 DEF Unserved, Swapping, Unchanged
    <3> QED BY <1>2, <3>1, <3>2
  <2>3. CASE rd' = [rd EXCEPT !.withdrawn = TRUE]
    BY <1>0, <2>3, WithdrawnPart
  <2> QED BY <1>3, <2>1, <2>2, <2>3 DEF DeleteMeta
<1>4. ASSUME meta' = meta, LiveRowsKept, work'.commit = work.commit
      PROVE  Unserved(F)' => Unserved(F)
  <2>1. Swapping(F)' => Swapping(F)
    BY <1>1, <1>4 DEF Swapping, IsSwap
  <2>2. want[F] # Nothing /\ Unchanged(F) => Unchanged(F)'
    BY <1>0, <1>1, <1>4, StaysServed
  <2> QED BY <1>1, <2>1, <2>2 DEF Unserved
<1>5. ASSUME NEW k \in Keys, DeleteEndpoint(k) PROVE meta' = meta /\ (Unserved(F)' => Unserved(F))
  <2>1. meta' = meta /\ LiveRowsKept /\ work' = [work EXCEPT !.dels = work.dels \ {k}]
    BY <1>0, <1>5, DeleteEndpointKeeps DEF DeleteEndpoint
  <2>2. work'.commit = work.commit
    <3>1. work.dels \ {k} \in SUBSET Keys
      BY <1>0 DEF Works
    <3> QED BY <1>0, <2>1, <3>1, DeletePart
  <2> QED BY <1>4, <2>1, <2>2
<1>6. ASSUME PutEndpoint PROVE meta' = meta /\ (Unserved(F)' => Unserved(F))
  <2>1. meta' = meta /\ LiveRowsKept /\ work' = [work EXCEPT !.at = work.at + 1]
    BY <1>0, <1>6, PutEndpointKeeps DEF PutEndpoint
  <2>2. work'.commit = work.commit
    <3>1. work.at + 1 \in Nat
      BY <1>0 DEF Works
    <3> QED BY <1>0, <2>1, <3>1, SlotPart
  <2> QED BY <1>4, <2>1, <2>2
<1>7. CASE PutMeta
  <2>0. work'.commit = Nothing /\ rows' = rows /\ work.commit # Nothing
    BY <1>0, <1>7, CommitPart DEF PutMeta
  <2>1. CASE meta'[F] = meta[F]
    <3>1. Unserved(F)' => Unserved(F)
      BY <1>1, <2>0, <2>1 DEF Unserved, Swapping, IsSwap, Unchanged
    <3> QED BY <1>2, <2>1, <3>1
  <2>2. CASE F = cur /\ meta' = [meta EXCEPT ![cur] = work.commit]
    <3>1. meta'[F] = work.commit
      BY <1>0, <2>2 DEF IInv, TypeOK
    <3>2. Unchanged(F)'
      <4>1. /\ work.commit.count = Len(want[F].endpoints)
            /\ work.commit.localCount = LocalCount(want[F])
            /\ \A s \in 1..work.commit.count :
                  rows[<<F, work.commit.gen, s>>] = want[F].endpoints[s]
        BY <1>0, <1>7, <2>2, CommitServes
      <4> QED BY <1>1, <2>0, <3>1, <4>1 DEF Unchanged
    <3>3. ~Unserved(F)'
      BY <2>0, <3>2 DEF Unserved, Swapping, IsSwap
    <3>4. rd.gen \in Gens /\ meta[F].gen \in Gens
      BY <1>0 DEF Reads, IInv, TypeOK, Metas
    <3>5. CASE work.commit.gen = NextGen(meta[F].gen)
      <4>1. NextGen(meta[F].gen) # meta[F].gen
        BY <3>4, NextGenType
      <4>2. Unserved(F)
        BY <1>0, <2>0, <2>2, <3>5, <4>1 DEF Unserved, Swapping, IsSwap
      <4>3. d \in Nat /\ d <= events
        BY <1>0, <3>4, <4>2, AheadNext DEF d
      <4>4. events \in Nat /\ events <= MaxEvents /\ GenMod \in Nat /\ MaxEvents \in Nat
        BY SwapAssumption DEF MInv, RInv, IInv, TypeOK, SwapAssumption
      <4>5. d + 1 < GenMod
        BY <4>3, <4>4
      <4>6. Ahead(rd.gen, NextGen(meta[F].gen)) = d + 1
        BY <3>4, <4>5, AheadNext DEF d
      <4>7. Ahead(rd.gen, meta'[F].gen) <= events + 1
        BY <3>1, <3>5, <4>3, <4>4, <4>6
      <4> QED BY <3>3, <4>7
    <3>6. CASE work.commit.gen = meta[F].gen
      BY <1>0, <3>1, <3>3, <3>6 DEF d
    <3> QED BY <1>0, <2>0, <2>2, <3>5, <3>6 DEF RInv, PlanShape, Shape
  <2> QED BY <1>0, <1>7, <2>1, <2>2 DEF PutMeta, IInv, TypeOK
<1> QED BY <1>2, <1>3, <1>5, <1>6, <1>7 DEF Write

\* Every step keeps a packet's generation from being used again.
LEMMA UnaliasedStep ==
  ASSUME MaxEvents + 1 < GenMod, MInv, [Next]_vars
  PROVE  Unaliased'
<1> SUFFICES ASSUME rd'.phase = "slot", ~rd'.withdrawn PROVE Unaliased'
  BY DEF Unaliased
<1>0. /\ RInv /\ rd \in Reads /\ IInv /\ LocalPrefix /\ TypeOK /\ events <= MaxEvents
      /\ events \in Nat
  BY DEF MInv, RInv, IInv, TypeOK
<1>1. events' \in Nat /\ events' >= events
  BY <1>0, EventsStep
<1>2. ASSUME NEW f \in Fronts, ReadMeta(f) PROVE Unaliased'
  <2>1. UNCHANGED <<meta, rows, events>>
    BY <1>2 DEF ReadMeta, maps, bounds
  <2>2. /\ rd'.front = f /\ rd'.gen = meta[f].gen /\ meta[f] # Nothing
        /\ Len(rd'.expect) = meta[f].count
        /\ \A s \in 1..meta[f].count : rd'.expect[s] = rows[<<f, meta[f].gen, s>>]
    BY <1>0, <1>2, FirstLookup
  <2>3. Ahead(rd'.gen, meta'[rd'.front].gen) = 0
    BY <1>0, <2>1, <2>2, AheadNext DEF TypeOK, Metas
  <2> QED BY <1>0, <2>1, <2>2, <2>3 DEF Unaliased
<1>3. ASSUME rd'.front = rd.front, rd'.gen = rd.gen, rd'.expect = rd.expect,
             rd.phase = "slot", ~rd.withdrawn,
             Ahead(rd.gen, meta'[rd.front].gen) <= events' + 1,
             Unserved(rd.front)' => Ahead(rd.gen, meta'[rd.front].gen) <= events'
      PROVE  Unaliased'
  <2>1. \A s \in 1..Len(rd.expect) : rows'[<<rd.front, rd.gen, s>>] \in {rd.expect[s], Nothing}
    BY <1>3, UnaliasedRows
  <2> QED BY <1>3, <2>1 DEF Unaliased
<1>4. ASSUME rd.phase = "slot", ~rd.withdrawn
      PROVE  /\ rd.front \in Fronts /\ meta[rd.front] # Nothing /\ rd.front # Nothing
             /\ Ahead(rd.gen, meta[rd.front].gen) \in Nat
             /\ Ahead(rd.gen, meta[rd.front].gen) <= events + 1
             /\ Unserved(rd.front) => Ahead(rd.gen, meta[rd.front].gen) <= events
  <2>1. rd.front \in Fronts /\ meta[rd.front] # Nothing /\ rd.front # Nothing
    BY <1>0, <1>4, DesiredAssumption DEF RInv, Usable, DesiredAssumption
  <2>2. Ahead(rd.gen, meta[rd.front].gen) \in Nat
    BY <1>0, <2>1, AheadNext DEF Reads, TypeOK, Metas
  <2> QED BY <1>4, <2>1, <2>2 DEF MInv, Unaliased
<1>5. ASSUME NEW f \in Fronts, StartPlan(f), rd.phase = "slot", ~rd.withdrawn
      PROVE  /\ UNCHANGED <<meta, events>>
             /\ Unserved(rd.front)' /\ rd'.front = rd.front => Unserved(rd.front)
  <2>1. /\ UNCHANGED <<meta, rows, want, events>> /\ cur = Nothing
        /\ UNCHANGED <<cur, work>> \/ (cur' = f /\ work' = PlanFor(f))
    BY <1>5 DEF StartPlan, maps, plan, bounds
  <2>2. rd.front # Nothing /\ meta[rd.front] # Nothing
    BY <1>4, <1>5
  <2>3. IsSwap(f, PlanFor(f)) /\ f = rd.front => want[f] # Nothing /\ ~Unchanged(f)
    BY <1>0, <2>2, SwapUnserved
  <2>4. Swapping(rd.front)' /\ rd'.front = rd.front => Unserved(rd.front)
    BY <2>1, <2>2, <2>3 DEF Swapping, IsSwap, Unserved
  <2> QED BY <2>1, <2>4 DEF Unserved, Unchanged
<1>6. ASSUME NEW f \in Fronts, StartPlan(f), rd.front = f, rd.plans < 2,
             rd' = [rd EXCEPT !.plans = rd.plans + 1]
      PROVE  Unaliased'
  <2>1. /\ rd'.phase = rd.phase /\ rd'.front = rd.front /\ rd'.gen = rd.gen
        /\ rd'.expect = rd.expect /\ rd'.withdrawn = rd.withdrawn
    BY <1>0, <1>6, CountedPart
  <2> QED BY <1>3, <1>4, <1>5, <1>6, <2>1
<1>7. CASE rd' = rd
  <2>0. rd.phase = "slot" /\ ~rd.withdrawn
    BY <1>7
  <2>1. ASSUME meta' = meta, Unserved(rd.front)' => Unserved(rd.front) PROVE Unaliased'
    BY <1>0, <1>1, <1>3, <1>4, <1>7, <2>0, <2>1
  <2>2. CASE WatchEvent
    <3>1. events' = events + 1 /\ meta' = meta
      BY <2>2 DEF WatchEvent, BeginPass, maps
    <3> QED BY <1>0, <1>3, <1>4, <1>7, <2>0, <3>1
  <2>3. CASE Tick
    <3>1. UNCHANGED <<meta, rows, want, cur, work>>
      BY <2>0, <2>3 DEF Tick, RetryTick, FollowUpTick, Restart, BeginPass, maps, plan
    <3> QED BY <1>7, <2>1, <3>1 DEF Unserved, Swapping, IsSwap, Unchanged
  <2>4. ASSUME NEW f \in Fronts, StartPlan(f) PROVE Unaliased'
    BY <1>5, <1>7, <2>0, <2>1, <2>4
  <2>5. CASE Write
    <3>1. events' = events
      BY <2>5 DEF Write, DeleteMeta, DeleteEndpoint, PutEndpoint, PutMeta, Writing
    <3>2. /\ Ahead(rd.gen, meta'[rd.front].gen) <= events + 1
          /\ Unserved(rd.front)' => Ahead(rd.gen, meta'[rd.front].gen) <= events
      BY <1>7, <2>0, <2>5, AheadWrite
    <3> QED BY <1>3, <1>7, <2>0, <3>1, <3>2
  <2>6. CASE EndPlan \/ EndPass \/ Crash
    <3>1. UNCHANGED <<meta, rows, want>> /\ cur' = Nothing /\ rd.front # Nothing
      BY <1>4, <2>0, <2>6 DEF EndPlan, EndPass, Crash, maps, plan
    <3> QED BY <1>7, <2>1, <3>1 DEF Unserved, Swapping, Unchanged
  <2>7. CASE (\E f \in Fronts : Expire(f)) \/ Packet \/ UNCHANGED vars
    <3>1. UNCHANGED <<meta, rows, want, cur, work>>
      BY <2>7 DEF Expire, Packet, ReadMeta, ReadSlot, ReadEmpty, maps, plan, vars
    <3> QED BY <1>7, <2>1, <3>1 DEF Unserved, Swapping, IsSwap, Unchanged
  <2> QED BY <2>2, <2>3, <2>4, <2>5, <2>6, <2>7 DEF Next, Pass
<1>8. CASE rd' = [rd EXCEPT !.withdrawn = TRUE]
  BY <1>0, <1>8, WithdrawnPart
<1>9. ASSUME NEW s \in Slots, ReadSlot(s) PROVE FALSE
  BY <1>0, <1>9, SecondLookup
<1>10. CASE rd' = NoRead
  BY <1>10 DEF NoRead
<1> QED BY <1>2, <1>6, <1>7, <1>8, <1>9, <1>10, CarriedStep

\* The second lookup finds the endpoint of the first lookup's set, or none.
LEMMA NeverMixedStep ==
  ASSUME MInv, [Next]_vars
  PROVE  NeverMixed'
<1>0. rd \in Reads /\ NeverMixed /\ RInv
  BY DEF MInv, RInv
<1>1. CASE rd' = rd
  BY <1>0, <1>1 DEF NeverMixed
<1>2. CASE rd.plans < 2 /\ rd' = [rd EXCEPT !.plans = rd.plans + 1]
  BY <1>0, <1>2, CountedPart DEF NeverMixed
<1>3. CASE rd' = [rd EXCEPT !.withdrawn = TRUE]
  BY <1>0, <1>3, WithdrawnPart DEF NeverMixed
<1>4. ASSUME NEW f \in Fronts, ReadMeta(f) PROVE NeverMixed'
  BY <1>4, FirstLookup DEF NeverMixed, MInv, RInv
<1>5. ASSUME NEW s \in Slots, ReadSlot(s) PROVE NeverMixed'
  <2>1. /\ s \in 1..Len(rd.expect) /\ rd'.pick = s /\ rd'.expect = rd.expect
        /\ rd'.withdrawn = rd.withdrawn
        /\ rd'.got = IF rd.local /\ rows[<<rd.front, rd.gen, s>>] \notin LocalEndpoints
                     THEN Nothing ELSE rows[<<rd.front, rd.gen, s>>]
    BY <1>0, <1>5, SecondLookup
  <2>2. ~rd.withdrawn => rows[<<rd.front, rd.gen, s>>] \in {rd.expect[s], Nothing}
    BY <1>5, <2>1 DEF MInv, Unaliased, ReadSlot
  <2> QED BY <2>1, <2>2 DEF NeverMixed
<1>6. CASE rd' = NoRead
  BY <1>6 DEF NoRead, NeverMixed
<1> QED BY <1>1, <1>2, <1>3, <1>4, <1>5, <1>6, CarriedStep

(***************************************************************************)
(* A packet is never steered by a mix of two endpoint sets, however many   *)
(* swaps, failures and crashes fall between its lookups, as long as fewer  *)
(* watch events happen than there are generations (2^32).  With as many a  *)
(* front could come round to the packet's generation with other rows.      *)
(***************************************************************************)
THEOREM PacketsUnmixed ==
  ASSUME MaxEvents + 1 < GenMod
  PROVE  Spec => []NeverMixed
<1>1. Init => MInv
  <2> SUFFICES ASSUME Init PROVE MInv
    OBVIOUS
  <2>1. rd.phase = "none" /\ events = 0
    BY DEF Init, NoRead
  <2> QED BY <2>1, RInvInit, SwapAssumption DEF MInv, Unaliased, NeverMixed, SwapAssumption
<1>2. MInv /\ [Next]_vars => MInv'
  <2> SUFFICES ASSUME MInv, [Next]_vars PROVE MInv'
    OBVIOUS
  <2>1. events' <= MaxEvents
    BY EventsStep DEF MInv, RInv, IInv
  <2>2. RInv'
    BY RInvStep DEF MInv
  <2> QED BY <2>1, <2>2, UnaliasedStep, NeverMixedStep DEF MInv
<1>3. MInv => NeverMixed
  BY DEF MInv
<1> QED BY <1>1, <1>2, <1>3, PTL DEF Spec
=============================================================================
