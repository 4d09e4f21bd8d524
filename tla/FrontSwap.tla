------------------------------ MODULE FrontSwap ------------------------------
(***************************************************************************)
(* The generation-swap writer of FRONT_META and FRONT_ENDPOINTS            *)
(* (src/front_swap.rs), driven by the controller's reconcile passes        *)
(* (controller/src/apply.rs, controller/src/main.rs), against a packet     *)
(* that reads the two maps one after the other (ebpf/src/main.rs).         *)
(*                                                                         *)
(* A pass reads both maps, plans the writes of every front and runs the    *)
(* plans one write at a time.  Any write can fail and the process can die  *)
(* between two writes; both maps are pinned and survive it.  Only the      *)
(* controller writes them and its runtime is single-threaded, so a front's *)
(* rows cannot change between the read and the front's turn: PlanFor is    *)
(* evaluated when the turn comes.  Slot i of the code is slot i + 1 here.  *)
(***************************************************************************)
EXTENDS DesiredFronts, Integers

CONSTANTS
    GenMod,          \* 2^32: generations are u32 and wrap
    FirstGen,        \* generation of the fronts found at the start
    MetaCap,         \* max_entries of FRONT_META
    EndpointCap,     \* max_entries of FRONT_ENDPOINTS
    MaxEvents,       \* bound on watch events
    MaxFaults,       \* bound on failed writes and failed sweeps
    MaxCrashes       \* bound on controller crashes

ASSUME SwapAssumption ==
    /\ GenMod \in Nat /\ GenMod > 2 /\ FirstGen \in 0..(GenMod - 1)
    /\ MetaCap \in Nat /\ EndpointCap \in Nat
    /\ Nothing \notin [gen : 0..(GenMod - 1), count : 0..MaxSlots,
                       localCount : Nat, flags : {0, 1}]
    /\ MaxEvents \in Nat /\ MaxFaults \in Nat /\ MaxCrashes \in Nat

Gens  == 0..(GenMod - 1)
Slots == 1..MaxSlots
Keys  == Gens \X Slots
Metas == [gen : Gens, count : 0..MaxSlots, localCount : Nat, flags : {0, 1}]

\* A FrontPlan: FRONT_META row to delete, endpoint rows to delete, endpoint rows
\* to write into generation gen from slot at on, FRONT_META row to commit.
Works == [withdraw : BOOLEAN, dels : SUBSET Keys, gen : Gens,
          puts : Seq(Endpoints), at : Nat, commit : Metas \cup {Nothing}]

VARIABLES
    \* The pinned maps.
    meta,       \* FRONT_META
    rows,       \* FRONT_ENDPOINTS, by <<front, generation, slot>>
    \* The controller process.
    pc,         \* "down", "idle" or "pass"
    want,       \* the reconciler's desired fronts
    withheld,   \* fronts plan_tick holds back: their sweep is pending
    todo,       \* fronts whose turn has not come yet in this pass
    cur,        \* the front whose plan is running
    work,       \* what is left of that plan
    blocked,    \* commit_blocked of run_front_plan
    used,       \* FrontUsage of this pass
    swapped,    \* fronts that committed a new generation in this pass
    failed,     \* some step of this pass failed
    retry,      \* RetryBackoff armed
    recent,     \* RecentSwaps: "none", "held" or "expired" per front
    \* A packet on some CPU, between its two lookups.
    rd,
    \* Bounds.
    events, faults, crashes

maps   == <<meta, rows>>
plan   == <<cur, work, blocked>>
tally  == <<used, swapped, failed>>
bounds == <<events, faults, crashes>>
vars   == <<meta, rows, pc, want, withheld, todo, cur, work, blocked, used,
            swapped, failed, retry, recent, rd, events, faults, crashes>>

-----------------------------------------------------------------------------
(* Planning: plan_front_writes.                                            *)

\* Faulty: no wrap.
NextGenUnwrapped(g) == g + 1

NextGen(g) == (g + 1) % GenMod
PrevGen(g) == (g + (GenMod - 1)) % GenMod

Existing(f) == {k \in Keys : rows[<<f, k[1], k[2]>>] # Nothing}

Unchanged(f) ==
    /\ meta[f] # Nothing
    /\ meta[f].count = Len(want[f].endpoints)
    /\ meta[f].localCount = LocalCount(want[f])
    /\ \A s \in 1..Len(want[f].endpoints) :
          rows[<<f, meta[f].gen, s>>] = want[f].endpoints[s]

NoWork == [withdraw |-> FALSE, dels |-> {}, gen |-> 0, puts |-> <<>>, at |-> 1,
           commit |-> Nothing]

WithdrawPlan(f) ==
    [NoWork EXCEPT !.withdraw = (meta[f] # Nothing), !.dels = Existing(f)]

\* Faulty: no grace; a grace without end.
KeptLive(f, g) == g = meta[f].gen
KeptForever(f, g) == g = meta[f].gen \/ g = PrevGen(meta[f].gen)

\* Rows of g-1 stay while the front is inside its post-swap grace.
Kept(f, g) ==
    \/ g = meta[f].gen
    \/ recent[f] = "held" /\ g = PrevGen(meta[f].gen)

CleanPlan(f) ==
    [NoWork EXCEPT
        !.dels = {k \in Existing(f) : ~Kept(f, k[1])},
        !.commit = IF meta[f].flags # want[f].flags
                   THEN [meta[f] EXCEPT !.flags = want[f].flags] ELSE Nothing]

\* Faulty: the new endpoints are written over the live ones.
SameGen(f) == IF meta[f] = Nothing THEN 1 ELSE meta[f].gen

SwapGen(f) == IF meta[f] = Nothing THEN 1 ELSE NextGen(meta[f].gen)

\* Faulty: old generations are not deleted.
NoRows(f) == {}

\* Rows of every generation but the live one.
Superseded(f) == {k \in Existing(f) : meta[f] = Nothing \/ k[1] # meta[f].gen}

SwapPlan(f) ==
    [withdraw |-> FALSE,
     dels     |-> Superseded(f),
     gen      |-> SwapGen(f),
     puts     |-> want[f].endpoints,
     at       |-> 1,
     commit   |-> [gen |-> SwapGen(f), count |-> Len(want[f].endpoints),
                   localCount |-> LocalCount(want[f]), flags |-> want[f].flags]]

\* A front held back is not planned, and then no absent front is pruned.
PlanFor(f) ==
    IF f \in withheld \/ (want[f] = Nothing /\ withheld # {}) THEN NoWork
    ELSE IF want[f] = Nothing THEN WithdrawPlan(f)
    ELSE IF Unchanged(f) THEN CleanPlan(f)
    ELSE SwapPlan(f)

IsSwap(f, p) ==
    p.commit # Nothing /\ (meta[f] = Nothing \/ p.commit.gen # meta[f].gen)

NetRows(p)  == Len(p.puts) - Cardinality(p.dels)
\* Faulty: the deletes of a plan are not counted.
PeakPuts(p) == Len(p.puts)

PeakRows(p) == IF NetRows(p) > 0 THEN NetRows(p) ELSE 0
PeakMeta(f, p) == IF p.commit # Nothing /\ meta[f] = Nothing THEN 1 ELSE 0

\* Fronts with something to write, and their order: shrinking fronts first,
\* then by key.
Planned == {f \in todo : PlanFor(f) # NoWork}

RunsBefore(f, g) ==
    \/ NetRows(PlanFor(f)) < NetRows(PlanFor(g))
    \/ NetRows(PlanFor(f)) = NetRows(PlanFor(g)) /\ f <= g

\* Faulty: only FRONT_META is checked.
MetaShortfall(f, p) == used.meta + PeakMeta(f, p) > MetaCap

CapacityShortfall(f, p) ==
    \/ used.endpoints + PeakRows(p) > EndpointCap
    \/ used.meta + PeakMeta(f, p) > MetaCap

RowCount  == Cardinality({k \in Fronts \X Gens \X Slots : rows[k] # Nothing})
MetaCount == Cardinality({f \in Fronts : meta[f] # Nothing})

-----------------------------------------------------------------------------
(* A reconcile pass: PinnedMaps::apply, as far as it concerns these maps.  *)

\* A pass sweeps conntrack, then reads both maps.  A failed sweep makes the pass
\* fail and withholds the fronts naming a swept pod; a failed read ends it.
BeginPass(w, swept, held) ==
    /\ want' = w
    /\ swept => held = {}
    /\ UNCHANGED <<maps, plan, recent, rd, crashes>>
    /\ \/ /\ pc' = "pass"
          /\ withheld' = held
          /\ todo' = Fronts
          /\ used' = [meta |-> MetaCount, endpoints |-> RowCount]
          /\ swapped' = {}
          /\ failed' = ~swept
          /\ faults' = IF swept THEN faults ELSE faults + 1
          /\ faults' <= MaxFaults
          /\ UNCHANGED retry
       \/ /\ pc' = "idle"
          /\ held = {}
          /\ retry' = TRUE
          /\ faults < MaxFaults /\ faults' = faults + 1
          /\ UNCHANGED <<withheld, todo, tally>>

\* plan_tick: with some sweep pending, any of the wanted fronts may name its pod.
Withholdable(w) == SUBSET {f \in Fronts : w[f] # Nothing}

\* A Service, EndpointSlice or Node event or relist.
WatchEvent ==
    /\ pc = "idle"
    /\ events < MaxEvents
    /\ events' = events + 1
    /\ \E w \in [Fronts -> Wants \cup {Nothing}] :
          \E swept \in BOOLEAN, held \in Withholdable(w) : BeginPass(w, swept, held)

\* run_retry_loop: a failed pass is repeated.
RetryTick ==
    /\ pc = "idle"
    /\ retry
    /\ \E swept \in BOOLEAN, held \in Withholdable(want) : BeginPass(want, swept, held)
    /\ UNCHANGED events

\* follow_up_tick: a pass to delete the g-1 rows whose grace has run out.
FollowUpTick ==
    /\ pc = "idle"
    /\ \E f \in Fronts : recent[f] = "expired"
    /\ \E swept \in BOOLEAN, held \in Withholdable(want) : BeginPass(want, swept, held)
    /\ UNCHANGED events

\* The first pass of a new process, once its LISTs have completed.
Restart ==
    /\ pc = "down"
    /\ rd.phase # "slot"
    /\ \E w \in [Fronts -> Wants \cup {Nothing}] :
          \E swept \in BOOLEAN, held \in Withholdable(w) : BeginPass(w, swept, held)
    /\ UNCHANGED events

\* run_front_plans: the next plan starts, or is refused whole.
StartPlan(f) ==
    /\ pc = "pass"
    /\ cur = Nothing
    /\ f \in Planned
    /\ \A g \in Planned : RunsBefore(f, g)
    /\ todo' = todo \ {f}
    /\ IF CapacityShortfall(f, PlanFor(f))
       THEN failed' = TRUE /\ UNCHANGED plan
       ELSE /\ cur' = f
            /\ work' = PlanFor(f)
            /\ blocked' = FALSE
            /\ UNCHANGED failed
    /\ rd' = IF rd.front = f /\ IsSwap(f, PlanFor(f)) /\ rd.plans < 2
             THEN [rd EXCEPT !.plans = @ + 1] ELSE rd
    /\ UNCHANGED <<maps, pc, want, withheld, used, swapped, retry, recent, bounds>>

\* What every write of a running plan leaves alone.
Writing == UNCHANGED <<pc, want, withheld, todo, cur, retry, recent, events, crashes>>

Succeeds == UNCHANGED <<failed, faults>>
Fails == faults < MaxFaults /\ faults' = faults + 1 /\ failed' = TRUE

DeleteMeta ==
    /\ cur # Nothing
    /\ work.withdraw
    /\ Writing
    /\ UNCHANGED <<rows, blocked, swapped>>
    /\ \/ /\ Succeeds
          /\ meta' = [meta EXCEPT ![cur] = Nothing]
          /\ work' = [work EXCEPT !.withdraw = FALSE]
          /\ used' = [used EXCEPT !.meta = @ - 1]
          /\ rd' = IF rd.front = cur THEN [rd EXCEPT !.withdrawn = TRUE] ELSE rd
       \/ /\ Fails
          /\ work' = NoWork
          /\ UNCHANGED <<meta, used, rd>>

DeleteEndpoint(k) ==
    /\ cur # Nothing
    /\ ~work.withdraw
    /\ k \in work.dels
    /\ work' = [work EXCEPT !.dels = @ \ {k}]
    /\ Writing
    /\ UNCHANGED <<meta, blocked, swapped, rd>>
    /\ \/ /\ Succeeds
          /\ rows' = [rows EXCEPT ![<<cur, k[1], k[2]>>] = Nothing]
          /\ used' = [used EXCEPT !.endpoints = @ - 1]
       \/ /\ Fails
          /\ UNCHANGED <<rows, used>>

\* A write beyond max_entries fails with E2BIG; any write can fail with ENOMEM.
PutEndpoint ==
    /\ cur # Nothing
    /\ ~work.withdraw /\ work.dels = {}
    /\ work.at <= Len(work.puts)
    /\ work' = [work EXCEPT !.at = @ + 1]
    /\ Writing
    /\ UNCHANGED <<meta, swapped, rd>>
    /\ LET key == <<cur, work.gen, work.at>>
           full == rows[key] = Nothing /\ RowCount >= EndpointCap
       IN  \/ /\ ~full
              /\ Succeeds
              /\ rows' = [rows EXCEPT ![key] = work.puts[work.at]]
              /\ used' = [used EXCEPT !.endpoints = @ + 1]
              /\ UNCHANGED blocked
           \/ /\ IF full THEN failed' = TRUE /\ UNCHANGED faults ELSE Fails
              /\ blocked' = TRUE
              /\ UNCHANGED <<rows, used>>

\* The commit point: one element replace.
PutMeta ==
    /\ cur # Nothing
    /\ ~work.withdraw /\ work.dels = {} /\ work.at > Len(work.puts)
    /\ work.commit # Nothing
    /\ ~blocked
    /\ work' = [work EXCEPT !.commit = Nothing]
    /\ Writing
    /\ UNCHANGED <<rows, blocked, rd>>
    /\ LET full == meta[cur] = Nothing /\ MetaCount >= MetaCap
       IN  \/ /\ ~full
              /\ Succeeds
              /\ meta' = [meta EXCEPT ![cur] = work.commit]
              /\ used' = IF meta[cur] = Nothing THEN [used EXCEPT !.meta = @ + 1] ELSE used
              /\ swapped' = IF IsSwap(cur, work) THEN swapped \cup {cur} ELSE swapped
           \/ /\ IF full THEN failed' = TRUE /\ UNCHANGED faults ELSE Fails
              /\ UNCHANGED <<meta, used, swapped>>

EndPlan ==
    /\ cur # Nothing
    /\ ~work.withdraw /\ work.dels = {} /\ work.at > Len(work.puts)
    /\ blocked \/ work.commit = Nothing
    /\ cur' = Nothing
    /\ work' = NoWork
    /\ blocked' = FALSE
    /\ UNCHANGED <<maps, pc, want, withheld, todo, tally, retry, recent, rd, bounds>>

\* RecentSwaps::record, then RetryBackoff::record with the pass's outcome.
EndPass ==
    /\ pc = "pass"
    /\ cur = Nothing
    /\ Planned = {}
    /\ pc' = "idle"
    /\ recent' = [f \in Fronts |-> IF f \in swapped THEN "held"
                                   ELSE IF recent[f] = "held" THEN "held" ELSE "none"]
    /\ retry' = failed
    /\ UNCHANGED <<maps, want, withheld, todo, plan, tally, rd, bounds>>

\* A hold outlives PREVIOUS_GENERATION_GRACE, 2 s.  A packet needs microseconds
\* between its two lookups, so none is in between.
Expire(f) ==
    /\ pc = "idle"
    /\ recent[f] = "held"
    /\ rd.phase # "slot"
    /\ recent' = [recent EXCEPT ![f] = "expired"]
    /\ UNCHANGED <<maps, pc, want, withheld, todo, plan, tally, retry, rd, bounds>>

\* The process dies; only the pinned maps remain.
Crash ==
    /\ pc # "down"
    /\ crashes < MaxCrashes
    /\ crashes' = crashes + 1
    /\ pc' = "down"
    /\ withheld' = {} /\ todo' = {}
    /\ cur' = Nothing /\ work' = NoWork /\ blocked' = FALSE
    /\ swapped' = {} /\ failed' = FALSE /\ retry' = FALSE
    /\ recent' = [f \in Fronts |-> "none"]
    /\ UNCHANGED <<maps, want, used, rd, events, faults>>

-----------------------------------------------------------------------------
(* A packet of a new flow: ingress_backend and ingress_steer.  Packets do  *)
(* not write these maps, so one of them observes all there is to observe.  *)
(* rd keeps what it read, and for the properties the endpoints committed   *)
(* when it read FRONT_META, how many swaps of its front have run since and *)
(* whether the front was withdrawn since.                                  *)

NoRead == [phase |-> "none", front |-> Nothing, gen |-> 0, pick |-> 0,
           local |-> FALSE, expect |-> <<>>, got |-> Nothing, plans |-> 0,
           withdrawn |-> FALSE]

Swapping(f) == cur = f /\ IsSwap(f, work)

LiveEndpoints(f) == [s \in 1..meta[f].count |-> rows[<<f, meta[f].gen, s>>]]

ReadMeta(f) ==
    /\ rd.phase # "slot"
    /\ meta[f] # Nothing
    /\ rd' = [phase |-> "slot", front |-> f, gen |-> meta[f].gen,
              pick |-> IF meta[f].localCount > 0 THEN meta[f].localCount ELSE meta[f].count,
              local |-> meta[f].localCount > 0,
              expect |-> LiveEndpoints(f), got |-> Nothing,
              plans |-> IF Swapping(f) THEN 1 ELSE 0, withdrawn |-> FALSE]
    /\ UNCHANGED <<maps, pc, want, withheld, todo, plan, tally, retry, recent, bounds>>

\* The flow hash picks any slot of the range.  A missing row, or a row that is
\* not local where the range is the local prefix, drops the packet.
ReadSlot(s) ==
    /\ rd.phase = "slot"
    /\ s \in 1..rd.pick
    /\ LET row == rows[<<rd.front, rd.gen, s>>]
           got == IF rd.local /\ row \notin LocalEndpoints THEN Nothing ELSE row
       IN  rd' = [rd EXCEPT !.phase = "done", !.pick = s, !.got = got]
    /\ UNCHANGED <<maps, pc, want, withheld, todo, plan, tally, retry, recent, bounds>>

\* A front with no endpoint drops the packet without a second lookup.
ReadEmpty ==
    /\ rd.phase = "slot"
    /\ rd.pick = 0
    /\ rd' = NoRead
    /\ UNCHANGED <<maps, pc, want, withheld, todo, plan, tally, retry, recent, bounds>>

-----------------------------------------------------------------------------
\* A controller at rest after an earlier pass: every wanted front is served
\* from generation FirstGen, which a long life has brought anywhere in u32.
Init ==
    /\ want \in [Fronts -> Wants \cup {Nothing}]
    /\ meta = [f \in Fronts |->
                 IF want[f] = Nothing THEN Nothing
                 ELSE [gen |-> FirstGen, count |-> Len(want[f].endpoints),
                       localCount |-> LocalCount(want[f]), flags |-> want[f].flags]]
    /\ rows = [k \in Fronts \X Gens \X Slots |->
                 IF want[k[1]] # Nothing /\ k[2] = FirstGen
                       /\ k[3] <= Len(want[k[1]].endpoints)
                 THEN want[k[1]].endpoints[k[3]] ELSE Nothing]
    /\ pc = "idle"
    /\ withheld = {} /\ todo = {}
    /\ cur = Nothing /\ work = NoWork /\ blocked = FALSE
    /\ used = [meta |-> 0, endpoints |-> 0]
    /\ swapped = {} /\ failed = FALSE /\ retry = FALSE
    /\ recent = [f \in Fronts |-> "none"]
    /\ rd = NoRead
    /\ events = 0 /\ faults = 0 /\ crashes = 0

Write ==
    \/ DeleteMeta
    \/ \E k \in Keys : DeleteEndpoint(k)
    \/ PutEndpoint
    \/ PutMeta

Pass ==
    \/ \E f \in Fronts : StartPlan(f)
    \/ Write
    \/ EndPlan
    \/ EndPass

Tick == RetryTick \/ FollowUpTick \/ Restart

Packet ==
    \/ \E f \in Fronts : ReadMeta(f)
    \/ \E s \in Slots : ReadSlot(s)
    \/ ReadEmpty

Next ==
    \/ WatchEvent
    \/ Tick
    \/ Pass
    \/ \E f \in Fronts : Expire(f)
    \/ Crash
    \/ Packet

Spec == Init /\ [][Next]_vars

\* A started pass runs to its end, a due pass starts and a packet finishes:
\* the runtime polls its timers and a tc program never sleeps.  Restart and
\* Expire wait for no packet to be between its lookups, which only says that
\* they take longer than one does; time passes whatever the packets do.
Fairness ==
    /\ WF_vars(Pass)
    /\ WF_vars(RetryTick \/ FollowUpTick)
    /\ SF_vars(Restart)
    /\ \A f \in Fronts : SF_vars(Expire(f))
    /\ WF_vars(ReadEmpty \/ \E s \in Slots : ReadSlot(s))

FairSpec == Spec /\ Fairness

-----------------------------------------------------------------------------
(* Properties.                                                             *)

(***************************************************************************)
(* Types.  Generations stay in u32 across the wrap of next_generation, and *)
(* the slot cursor of a running FrontPlan stays inside its list.           *)
(***************************************************************************)
TypeOK ==
    /\ meta \in [Fronts -> Metas \cup {Nothing}]
    /\ rows \in [Fronts \X Gens \X Slots -> Endpoints \cup {Nothing}]
    /\ pc \in {"down", "idle", "pass"}
    /\ want \in [Fronts -> Wants \cup {Nothing}]
    /\ withheld \subseteq Fronts /\ todo \subseteq Fronts
    /\ cur \in Fronts \cup {Nothing}
    /\ work \in Works
    /\ Len(work.puts) <= MaxSlots /\ work.at \in 1..(Len(work.puts) + 1)
    /\ blocked \in BOOLEAN
    /\ swapped \subseteq Fronts /\ failed \in BOOLEAN /\ retry \in BOOLEAN
    /\ recent \in [Fronts -> {"none", "held", "expired"}]
    /\ events \in Nat /\ faults \in Nat /\ crashes \in Nat

\* What a packet that read FRONT_META now would be served from.
Value(f) ==
    IF meta[f] = Nothing THEN Nothing
    ELSE [endpoints |-> LiveEndpoints(f), localCount |-> meta[f].localCount,
          flags |-> meta[f].flags]

Register == INSTANCE FrontRegister WITH value <- [f \in Fronts |-> Value(f)]

(***************************************************************************)
(* The live generation of every front is whole: each slot below            *)
(* FRONT_META's count has its FRONT_ENDPOINTS row, whatever write failed   *)
(* and wherever the controller died (run_front_plan never commits over a   *)
(* failed row write and never deletes a row of a live generation).         *)
(***************************************************************************)
LiveWhole ==
    \A f \in Fronts : meta[f] # Nothing =>
        \A s \in 1..meta[f].count : rows[<<f, meta[f].gen, s>>] # Nothing

(***************************************************************************)
(* A packet is never steered by a mix: the endpoint it reads is the one    *)
(* its slot held in the endpoint set committed when it read FRONT_META,    *)
(* however many swaps ran between its two lookups.  (A withdrawn front     *)
(* starts over at generation 1, so it is excepted.)                        *)
(***************************************************************************)
NeverMixed ==
    rd.phase = "done" /\ rd.got # Nothing /\ ~rd.withdrawn
        => rd.got = rd.expect[rd.pick]

(***************************************************************************)
(* One swap costs no packet: a packet whose row is gone read its           *)
(* FRONT_META before two swaps of its front, or before its withdrawal.     *)
(* This is what the grace of RecentSwaps is for.                           *)
(***************************************************************************)
OneSwapNoMiss ==
    rd.phase = "done" /\ rd.got = Nothing => rd.withdrawn \/ rd.plans >= 2

(***************************************************************************)
(* "At most two generations (g, g+1) of a front exist at any moment", also *)
(* across crashes, as long as no write fails.                              *)
(***************************************************************************)
TwoGenerations ==
    faults = 0 => \A f \in Fronts : Cardinality({k[1] : k \in Existing(f)}) <= 2

(***************************************************************************)
(* A plan that passed capacity_shortfall never runs into a full map: with  *)
(* no other fault every row write of it succeeds, so no partial generation *)
(* is left behind by E2BIG.                                                *)
(***************************************************************************)
RefusedWhole == faults = 0 => ~blocked

(***************************************************************************)
(* With the maps sized by front_map_max_entries (two generations of every  *)
(* front) no pass fails for lack of room.                                  *)
(***************************************************************************)
SizedNeverRefuses ==
    /\ MetaCap >= Cardinality(Fronts)
    /\ EndpointCap >= 2 * MaxSlots * Cardinality(Fronts)
    /\ faults = 0
    => ~failed

\* The front maps implement the register the dataplane relies on.
ImplementsRegister == Register!Spec

\* What a quiet cluster's maps look like.
Settled ==
    \A f \in Fronts :
        /\ Value(f) = Register!Served(want[f])
        /\ \A k \in Existing(f) : meta[f] # Nothing /\ k[1] = meta[f].gen

(***************************************************************************)
(* Once events, faults and crashes have stopped, every front ends up       *)
(* serving what is wanted and only the live generation keeps rows: retries *)
(* and the grace follow-up finish the work without any further event.      *)
(***************************************************************************)
Converges == <>[](pc = "idle" /\ Settled)
=============================================================================
