--------------------------- MODULE StartupProofs ---------------------------
(***************************************************************************)
(* Proofs about Startup, for any configurations, uplinks, maps, seeds and  *)
(* number of crashes: its types; a running controller's classifiers use    *)
(* its maps; no node hashes with a seed of its own; no classifier resolves *)
(* a front that is not whole, but for two cases that are named; and what a *)
(* migration does not report as lost is carried over.                      *)
(***************************************************************************)
EXTENDS Startup, Integers, FiniteSetTheorems, TLAPS

\* The rows and the shape of a map; what refers to a map of a name; the shapes
\* that some configuration wants for it.
Rows(name, id) == maps[name][id].rows
ShapeOf(name, id) == maps[name][id].shape
Refs(name) == {pin[name], parked[name]} \cup {program[h][name] : h \in HookSet}
ShapesFor(name) == {Shapes[config][name] : config \in Configs}

\* The entries that the restore has yet to write to a map.
RowsTodo(name) == {w[2] : w \in {x \in todo : x[1] = name}}

\* A new map is pinned while the old one is parked.
Beside(name) == parked[name] # None /\ pin[name] \notin {None, parked[name]}

\* A start that has loaded its maps.
AfterLoad == {"seed", "uplinks", "attach", "run"}

\* The pins and the programs name maps; a program has all of its maps or none.
NamesOK ==
    /\ pin \in [NameSet -> MapIds \cup {None}] /\ parked \in [NameSet -> MapIds \cup {None}]
    /\ program \in [HookSet -> [NameSet -> MapIds \cup {None}]]
    /\ \A h \in HookSet : program[h] = NoPins \/ \A name \in NameSet : program[h][name] # None

\* A map that something refers to has a configured shape and no more rows than
\* it has room for; all others are free.
MapsOK ==
    /\ maps = [name \in NameSet |-> [id \in MapIds |-> maps[name][id]]]
    /\ \A name \in NameSet : \A id \in MapIds :
         /\ maps[name][id] = [shape |-> ShapeOf(name, id), rows |-> Rows(name, id)]
         /\ id \notin Refs(name) => maps[name][id] = NoMap
         /\ id \in Refs(name) =>
              /\ ShapeOf(name, id) \in ShapesFor(name) /\ IsFiniteSet(Rows(name, id))
              /\ Cardinality(Rows(name, id)) <= ShapeOf(name, id).cap
    /\ \A id \in MapIds : Rows("FRONT_META", id) \subseteq Fronts /\ Rows("FLOW_TABLE", id) \subseteq Flows

\* The types of what load_ebpf has in memory.
LoadOK ==
    /\ phase \in {"off", "recreate", "restore", "unpark"} \cup AfterLoad
    /\ wanted \in Configs \cup {NoConfig} /\ (phase = "off" <=> wanted = NoConfig)
    /\ fate \in [NameSet -> {"none", "Keep", "Migrate", "RecreateEmpty"}]
    /\ half \in BOOLEAN /\ failed \in BOOLEAN
    /\ half => phase = "recreate" /\ todo # {}
    /\ snapshot = [name \in DOMAIN snapshot |-> snapshot[name]] /\ DOMAIN snapshot \subseteq NameSet
    /\ phase = "off" => DOMAIN snapshot = {}
    /\ "FRONT_META" \in DOMAIN snapshot => snapshot["FRONT_META"] \subseteq Fronts
    /\ "FLOW_TABLE" \in DOMAIN snapshot => snapshot["FLOW_TABLE"] \subseteq Flows
    /\ phase \in {"recreate", "unpark"} => todo \subseteq NameSet
    /\ phase = "restore" =>
         /\ \A w \in todo : w = <<w[1], w[2]>> /\ w[1] \in NameSet
         /\ RowsTodo("FRONT_META") \subseteq Fronts /\ RowsTodo("FLOW_TABLE") \subseteq Flows
    /\ late \subseteq Flows

\* The pinned maps that recreate_mismatched_pins is done with have the wanted shape.
ShapeInv ==
    /\ phase = "recreate" =>
         \A name \in NameSet \ todo : pin[name] # None => ShapeOf(name, pin[name]) = Wanted(name)
    /\ phase \in {"restore", "unpark"} \cup AfterLoad =>
         \A name \in NameSet : pin[name] # None /\ ShapeOf(name, pin[name]) = Wanted(name)

\* What recreate_mismatched_pins has done about a map: it is between the two pin
\* operations, it has taken a snapshot, or it has said that it gave the map up.
Between(name) == half /\ name = Turn
Taken(name) == name \in DOMAIN snapshot
GaveUp(name) == <<name, IF fate[name] = "Migrate" THEN "snapshot" ELSE "layout">> \in lossy

\* A map that waits for its turn has a source; one that has been taken is parked
\* and its snapshot holds its entries; one that was given up starts empty.
NameInv(name) ==
    /\ name \in todo => fate[name] \in {"Migrate", "RecreateEmpty"}
    /\ name \in todo /\ ~Between(name) => Source(name) # None /\ ~Taken(name)
    /\ Taken(name) => /\ parked[name] # None /\ fate[name] = "Migrate"
                      /\ snapshot[name] \subseteq Rows(name, parked[name])
                      /\ name \in FrontMaps => snapshot[name] = Rows(name, parked[name])
    /\ Between(name) /\ Taken(name) => pin[name] = parked[name]
    /\ Between(name) /\ ~Taken(name) => parked[name] = None /\ GaveUp(name)
    /\ name \notin todo /\ ~Taken(name) => parked[name] = None
    /\ fate[name] = "Keep" => pin[name] # None
    /\ name \notin todo /\ ~Taken(name) /\ fate[name] # "Keep" =>
         /\ fate[name] # "none" => GaveUp(name)
         /\ pin[name] # None => /\ todo = {} /\ Rows(name, pin[name]) = {}
                                /\ \A h \in HookSet : program[h][name] # pin[name]

\* ... and the two front maps keep or migrate together.
RecreateInv ==
    phase = "recreate" =>
      /\ fate["FRONT_META"] = "Migrate" <=> fate["FRONT_ENDPOINTS"] = "Migrate"
      /\ fate["FRONT_META"] = "Keep" <=> fate["FRONT_ENDPOINTS"] = "Keep"
      /\ \A name \in NameSet : NameInv(name)

\* What is parked has been taken and is unparked after the restore; what the
\* restore writes is in the parked map; no program uses a new map beside it.
ParkInv ==
    /\ phase = "restore" => \A name \in NameSet : parked[name] # None <=> Taken(name)
    /\ phase = "unpark" => /\ todo \subseteq DOMAIN snapshot
                           /\ \A name \in NameSet : parked[name] # None <=> name \in todo
    /\ phase \in AfterLoad => parked = NoPins
    /\ phase = "restore" => \A name \in NameSet : \A r \in RowsTodo(name) :
           Taken(name) /\ r \in Rows(name, parked[name])
    /\ \A name \in NameSet : Beside(name) => \A h \in HookSet : program[h][name] # pin[name]

\* A start attaches hook by hook; the ones behind it use the pinned maps.
AttachInv ==
    /\ phase = "attach" =>
         /\ todo \subseteq HookSet /\ todo # {}
         /\ \A h \in HookSet \ todo : program[h] \in {pin, NoPins}
    /\ OnPins

\* The exceptions of FrontsWhole do not apply.
Good == ~Resized /\ ~Unread

\* The history names configurations, and the one of the process among them.
TriedInv ==
    /\ starts \in [tried : SUBSET Configs, resumed : BOOLEAN]
    /\ phase # "off" => wanted \in starts.tried

\* The fronts of one map are whole in another; what plan_restore would admit of
\* the parked maps.
WholeIn(m, e) == \A f \in Rows("FRONT_META", m) : Whole(f, Rows("FRONT_ENDPOINTS", e))
ParkedPlan(config) ==
    Admitted(Rows("FRONT_META", parked["FRONT_META"]),
             Rows("FRONT_ENDPOINTS", parked["FRONT_ENDPOINTS"]), config)

\* An unfinished new FRONT_META holds only fronts that the plan of a start that was
\* tried admits.
PinMetas == Rows("FRONT_META", pin["FRONT_META"])
LeftInv ==
    Beside("FRONT_META") =>
      \E config \in starts.tried :
         /\ Shapes[config]["FRONT_META"] = ShapeOf("FRONT_META", pin["FRONT_META"])
         /\ PinMetas # {} => parked["FRONT_ENDPOINTS"] # None /\ PinMetas \subseteq ParkedPlan(config)

\* The fronts that a migration starts from are whole, and fit the FRONT_ENDPOINTS
\* of a start that was tried.
SourceMetas == Rows("FRONT_META", Source("FRONT_META"))
SourceInv ==
    /\ Source("FRONT_META") # None /\ Source("FRONT_ENDPOINTS") # None =>
         WholeIn(Source("FRONT_META"), Source("FRONT_ENDPOINTS"))
    /\ Source("FRONT_META") # None =>
         \E config \in starts.tried :
            /\ Shapes[config]["FRONT_META"] = ShapeOf("FRONT_META", Source("FRONT_META"))
            /\ Cardinality(UNION {RowsOf(f) : f \in SourceMetas}) <= Shapes[config]["FRONT_ENDPOINTS"].cap

\* A migration that was not resumed finds no front in its new FRONT_META.
ResumeInv ==
    ~starts.resumed /\ phase = "recreate" /\ parked["FRONT_META"] # None =>
      \/ Between("FRONT_META") \/ pin["FRONT_META"] = None
      \/ pin["FRONT_META"] # parked["FRONT_META"] /\ PinMetas = {}

\* A restore completes every front that it finds or writes, unless a write fails.
RestoreInv ==
    /\ phase = "restore" /\ RowsTodo("FRONT_META") # {} =>
         parked["FRONT_ENDPOINTS"] # None /\ RowsTodo("FRONT_META") \subseteq ParkedPlan(wanted)
    /\ phase = "restore" /\ Beside("FRONT_META") /\ PinMetas # {} => PinMetas \subseteq ParkedPlan(wanted)
    /\ phase = "restore" /\ ~failed =>
         \A f \in Rows("FRONT_META", pin["FRONT_META"]) \cup RowsTodo("FRONT_META") :
           Whole(f, Rows("FRONT_ENDPOINTS", pin["FRONT_ENDPOINTS"]) \cup RowsTodo("FRONT_ENDPOINTS"))
    /\ phase = "unpark" => WholeIn(pin["FRONT_META"], pin["FRONT_ENDPOINTS"])

\* The fronts of the classifier that admits flows.
IngressInv == Ingress # NoPins => WholeIn(Ingress["FRONT_META"], Ingress["FRONT_ENDPOINTS"])

FrontInv == Good => LeftInv /\ SourceInv /\ ResumeInv /\ RestoreInv /\ IngressInv

\* Nothing of the front maps, and nothing of FLOW_TABLE, was reported as lost.
FrontsKept == \A why \in {"layout", "snapshot", "room"} :
                 {<<"FRONT_META", why>>, <<"FRONT_ENDPOINTS", why>>} \cap lossy = {}
FlowsKept == \A why \in {"layout", "snapshot", "room"} : <<"FLOW_TABLE", why>> \notin lossy

\* Every front that a classifier resolves is in the map that a migration starts
\* from, and the new map has or gets it.
CarryInv ==
    FrontsKept =>
      /\ \A h \in HookSet : program[h] # NoPins =>
           /\ Source("FRONT_META") # None
           /\ Rows("FRONT_META", program[h]["FRONT_META"])
                \subseteq Rows("FRONT_META", Source("FRONT_META"))
      /\ phase = "restore" /\ ~failed /\ parked["FRONT_META"] # None =>
           Rows("FRONT_META", parked["FRONT_META"])
             \subseteq Rows("FRONT_META", pin["FRONT_META"]) \cup RowsTodo("FRONT_META")
      /\ phase = "unpark" /\ parked["FRONT_META"] # None =>
           Rows("FRONT_META", parked["FRONT_META"]) \subseteq Rows("FRONT_META", pin["FRONT_META"])

\* The flows of the classifier that admits them, but for the late ones, and
\* those of the pinned map.
IngressFlows == Rows("FLOW_TABLE", Ingress["FLOW_TABLE"]) \ late
PinFlows == Rows("FLOW_TABLE", pin["FLOW_TABLE"])

\* A new FLOW_TABLE holds only flows of the parked one and has room for all that
\* the restore writes, so that it evicts none.
RoomInv ==
    /\ Beside("FLOW_TABLE") => PinFlows \subseteq Rows("FLOW_TABLE", parked["FLOW_TABLE"])
    /\ phase = "recreate" /\ Taken("FLOW_TABLE") /\ Beside("FLOW_TABLE") =>
         PinFlows \subseteq snapshot["FLOW_TABLE"]
    /\ phase = "restore" /\ FlowsKept /\ Beside("FLOW_TABLE") =>
         Cardinality(PinFlows \cup RowsTodo("FLOW_TABLE")) <= Cap("FLOW_TABLE")

\* Every flow but the late ones is in the map that a migration starts from, in
\* its snapshot, and in the new map once the restore is done.
FlowInv ==
    FlowsKept /\ Ingress # NoPins =>
      /\ Source("FLOW_TABLE") # None /\ IngressFlows \subseteq Rows("FLOW_TABLE", Source("FLOW_TABLE"))
      /\ phase = "recreate" /\ Taken("FLOW_TABLE") => IngressFlows \subseteq snapshot["FLOW_TABLE"]
      /\ phase = "restore" /\ ~failed => IngressFlows \subseteq PinFlows \cup RowsTodo("FLOW_TABLE")
      /\ phase \in {"unpark"} \cup AfterLoad => IngressFlows \subseteq PinFlows

\* The seeds' types; who asks has a seed of its own, who was answered has one to write.
SeedOK ==
    /\ SeedTypeOK
    /\ \A n \in SeedNodes :
         /\ stage[n] # "off" => mine[n] # NoSeed
         /\ stage[n] \in {"populate", "adopt"} => got[n] # NoSeed

-----------------------------------------------------------------------------
(* The seed.                                                               *)

\* What a controller was answered and what CONFIG holds was once in the Secret.
SeedInv ==
    /\ secret \in issued \cup {NoSeed}
    /\ got \in [SeedNodes -> issued \cup {NoSeed}]
    /\ configSeed \in [SeedNodes -> issued \cup {NoSeed}]

\* The requests of create_or_read, and what a controller does with the answer.
LEMMA SeedRequest ==
  ASSUME SeedInv, NEW n \in SeedNodes,
         \/ Draw(n) \/ Post(n) \/ PostFails(n) \/ Get(n) \/ Populate(n) \/ Tick(n)
         \/ Adopt(n, TRUE) \/ Adopt(n, FALSE) \/ SeedLost(n)
  PROVE  SeedInv'
<1>1. CASE Draw(n)
  BY <1>1 DEF SeedInv, Draw
<1>2. CASE Post(n)
  <2>1. CASE Created(n)
    <3>1. secret' = mine[n] /\ issued' = issued \cup {mine[n]} /\ configSeed' = configSeed
      BY <1>2, <2>1 DEF Created, Post
    <3>2. got' = got \/ got' = [got EXCEPT ![n] = mine[n]]
      BY <1>2 DEF Post, ReadExisting
    <3> QED BY <3>1, <3>2 DEF SeedInv
  <2>2. CASE ReadExisting(n)
    BY <1>2, <2>2 DEF SeedInv, ReadExisting, Post
  <2> QED BY <1>2, <2>1, <2>2 DEF Post
<1>3. CASE PostFails(n)
  BY <1>3 DEF SeedInv, PostFails, Created
<1>4. CASE Get(n)
  BY <1>4 DEF SeedInv, Get
<1>5. CASE Populate(n)
  BY <1>5 DEF SeedInv, Populate
<1>6. CASE Tick(n)
  BY <1>6 DEF SeedInv, Tick
<1>7. CASE Adopt(n, TRUE) \/ Adopt(n, FALSE)
  BY <1>7 DEF SeedInv, Adopt
<1>8. CASE SeedLost(n)
  BY <1>8 DEF SeedInv, SeedLost
<1> QED BY <1>1, <1>2, <1>3, <1>4, <1>5, <1>6, <1>7, <1>8

\* What a step does with the seed, if anything.
LEMMA SeedSteps ==
  ASSUME [Next]_vars
  PROVE  \/ UNCHANGED seedVars \/ EditSecret
         \/ \E n \in SeedNodes :
              \/ Draw(n) \/ Post(n) \/ PostFails(n) \/ Get(n) \/ Populate(n) \/ Tick(n)
              \/ Adopt(n, TRUE) \/ Adopt(n, FALSE) \/ SeedLost(n)
<1> USE NodesAssumption DEF NodesAssumption
<1>1. CASE EnsureGeneve
  BY <1>1 DEF EnsureGeneve
<1>2. ASSUME NEW n \in SeedNodes, SeedStep(n) \/ SeedTick(n)
      PROVE  \/ Draw(n) \/ Post(n) \/ PostFails(n) \/ Get(n) \/ Populate(n) \/ Tick(n)
             \/ Adopt(n, TRUE) \/ Adopt(n, FALSE) \/ SeedLost(n)
  BY <1>2 DEF SeedStep, SeedTick
<1>3. CASE PopulateConfig \/ PeerStart \/ PeerPopulate
  BY <1>3 DEF PopulateConfig, PeerStart, PeerPopulate
<1>4. CASE Attach
  <2>1. SeedLost(Node) \/ UNCHANGED seedVars
    BY <1>4 DEF Attach
  <2> QED BY <2>1
<1>5. CASE Crash
  BY <1>5 DEF Crash
<1>6. CASE SecretEdited
  BY <1>6 DEF SecretEdited
<1>7. CASE Load \/ PutUplink \/ DropUplink \/ AttachUplink \/ (\E f \in Fronts : WriteRows(f) \/ CommitFront(f))
             \/ Settle \/ Traffic \/ GeneveGone \/ UNCHANGED vars
  BY <1>7 DEF Load, PutUplink, DropUplink, AttachUplink, WriteRows, CommitFront, Settle, Traffic, GeneveGone, vars
<1> QED BY <1>1, <1>2, <1>3, <1>4, <1>5, <1>6, <1>7 DEF Next, Start, Loop

\* Every step keeps the seeds.
LEMMA SeedInvStep == SeedInv /\ [Next]_vars => SeedInv'
<1> SUFFICES ASSUME SeedInv, [Next]_vars PROVE SeedInv'
  OBVIOUS
<1>1. CASE UNCHANGED seedVars
  BY <1>1 DEF SeedInv, seedVars
<1>2. CASE EditSecret
  BY <1>2 DEF EditSecret, SeedInv
<1> QED BY <1>1, <1>2, SeedSteps, SeedRequest

(***************************************************************************)
(* No node's classifiers hash with a seed that was never the cluster's,    *)
(* whichever controllers race for the Secret and whoever edits it.         *)
(***************************************************************************)
THEOREM SeedShared == Spec => []SharedSeed
<1>1. Init => SeedInv
  BY DEF Init, SeedInit, SeedSettled, SeedInv
<1>2. SeedInv => SharedSeed
  BY DEF SeedInv, SharedSeed
<1> QED BY <1>1, <1>2, SeedInvStep, PTL DEF Spec

\* A random seed is one of the seeds.
LEMMA FreshSeedType == Unused # {} => FreshSeed \in Seeds
BY DEF FreshSeed, Unused

\* The requests keep the types of what they handle.
LEMMA SeedRequestTypes ==
  ASSUME SeedOK, NEW n \in SeedNodes,
         \/ Draw(n) \/ Post(n) \/ PostFails(n) \/ Get(n) \/ Populate(n) \/ Tick(n)
         \/ Adopt(n, TRUE) \/ Adopt(n, FALSE) \/ SeedLost(n)
  PROVE  SeedOK'
<1> USE SeedsAssumption DEF SeedsAssumption, SeedOK, SeedTypeOK, Starting, Ticking
<1>1. CASE Draw(n)
  BY <1>1, FreshSeedType DEF Draw, At
<1>2. CASE Post(n)
  <2>1. CASE Created(n)
    BY <1>2, <2>1 DEF Created, Post, ReadExisting, At
  <2>2. CASE ReadExisting(n)
    BY <1>2, <2>2 DEF ReadExisting, Post, At
  <2> QED BY <1>2, <2>1, <2>2 DEF Post
<1>3. CASE PostFails(n)
  BY <1>3 DEF PostFails, Created, Abandon
<1>4. CASE Get(n)
  BY <1>4 DEF Get, Abandon
<1>5. CASE Populate(n)
  BY <1>5 DEF Populate, At
<1>6. CASE Tick(n)
  BY <1>6 DEF Tick
<1>7. CASE Adopt(n, TRUE) \/ Adopt(n, FALSE)
  BY <1>7 DEF Adopt, At, AfterWrite
<1>8. CASE SeedLost(n)
  BY <1>8 DEF SeedLost
<1> QED BY <1>1, <1>2, <1>3, <1>4, <1>5, <1>6, <1>7, <1>8

\* SeedOK is inductive.
LEMMA SeedOKStep == SeedOK /\ [Next]_vars => SeedOK'
<1> SUFFICES ASSUME SeedOK, [Next]_vars PROVE SeedOK'
  OBVIOUS
<1>1. CASE UNCHANGED seedVars
  BY <1>1 DEF SeedOK, SeedTypeOK, seedVars
<1>2. CASE EditSecret
  BY <1>2, FreshSeedType DEF EditSecret, SeedOK, SeedTypeOK
<1> QED BY <1>1, <1>2, SeedSteps, SeedRequestTypes

-----------------------------------------------------------------------------
(* The steps, as far as the maps are concerned.                            *)

\* The restore is done.
EndLoad ==
    /\ phase = "restore" /\ todo = {} /\ ~failed
    /\ phase' = "unpark" /\ todo' = DOMAIN snapshot
    /\ UNCHANGED <<maps, pin, parked, program, wanted, fate, half, snapshot, failed, lossy, starts, late>>

\* A start goes on after the load; of the load's variables only todo is used again.
Forward ==
    /\ \/ phase = "unpark" /\ todo = {} /\ phase' = "seed"
       \/ phase = "seed" /\ phase' = "uplinks"
       \/ phase = "uplinks" /\ phase' = "uplinks"
       \/ phase = "uplinks" /\ phase' = "attach" /\ todo' = HookSet
    /\ UNCHANGED <<maps, pin, parked, program, lossy, starts, late, wanted, fate, half, snapshot, failed>>

\* A classifier takes over on a hook.
AttachTo(hook) ==
    /\ phase = "attach" /\ hook = First(Hooks, todo)
    /\ program' = [program EXCEPT ![hook] = pin]
    /\ maps' = Freed(maps, pin, parked, program')
    /\ todo' = todo \ {hook}
    /\ phase' = IF todo' = {} THEN "run" ELSE phase
    /\ snapshot' = IF todo' = {} THEN NoSnapshots ELSE snapshot
    /\ late' = IF hook = "uplink_ingress" THEN {} ELSE late
    /\ UNCHANGED <<pin, parked, lossy, starts, wanted, fate, half, failed>>

\* The maps of a classifier whose device is gone.
Detach ==
    /\ program' = [program EXCEPT !["geneve_ingress"] = NoPins]
    /\ maps' = Freed(maps, pin, parked, program')
    /\ UNCHANGED <<pin, parked, lossy, starts, late, loadVars>>

\* One of these is what a step does with the maps.
LoadStep ==
    \/ \E config \in Configs : StartLoad(config)
    \/ Park \/ GiveUp \/ Unpin \/ CreatePin \/ PlanRestore \/ RestoreWrite \/ EndLoad \/ Unpark
    \/ Forward \/ Die
RunStep ==
    \/ AttachTo(First(Hooks, todo)) \/ Detach
    \/ (\E f \in Fronts : WriteRows(f) \/ CommitFront(f)) \/ Settle
    \/ \E k \in Flows : NewFlow(k)

\* Every step is one of them or has nothing to do with the maps.
LEMMA MapSteps ==
  ASSUME [Next]_vars
  PROVE  LoadStep \/ RunStep \/ UNCHANGED pinVars
<1>1. CASE Load
  <2>1. CASE \E config \in IF focus = "pins" THEN Configs ELSE {Base} : StartLoad(config)
    BY <2>1, BaseAssumption DEF BaseAssumption, LoadStep
  <2>2. CASE EndRestore
    BY <2>2 DEF EndRestore, EndLoad, LoadStep
  <2> QED BY <1>1, <2>1, <2>2 DEF Load, LoadStep
<1>2. CASE EnsureGeneve
  BY <1>2 DEF EnsureGeneve, Loaded, Forward, LoadStep
<1>3. CASE PopulateConfig
  BY <1>3 DEF PopulateConfig, Forward, LoadStep
<1>4. CASE PutUplink
  BY <1>4 DEF PutUplink, Forward, LoadStep
<1>5. CASE DropUplink
  BY <1>5 DEF DropUplink, Forward, LoadStep
<1>6. CASE Attach
  <2>1. Die \/ AttachTo(First(Hooks, todo))
    BY <1>6 DEF Attach, AttachTo, Attached
  <2> QED BY <2>1 DEF LoadStep, RunStep
<1>7. ASSUME NEW n \in SeedNodes, SeedStep(n) \/ SeedTick(n) PROVE Die \/ UNCHANGED pinVars
  BY <1>7 DEF SeedStep, SeedTick
<1>8. CASE Crash
  BY <1>8 DEF Crash, LoadStep
<1>9. CASE GeneveGone
  BY <1>9 DEF GeneveGone, Detach, RunStep
<1>10. CASE Traffic
  BY <1>10 DEF Traffic, RunStep
<1>11. CASE AttachUplink \/ PeerStart \/ PeerPopulate \/ SecretEdited \/ UNCHANGED vars
  BY <1>11 DEF AttachUplink, PeerStart, PeerPopulate, SecretEdited, vars
<1>12. CASE Settle \/ \E f \in Fronts : WriteRows(f) \/ CommitFront(f)
  BY <1>12 DEF RunStep
<1> QED BY <1>1, <1>2, <1>3, <1>4, <1>5, <1>6, <1>7, <1>8, <1>9, <1>10, <1>11, <1>12
        DEF Next, Start, Loop, LoadStep

\* Names and hooks.
LEMMA TheNames ==
  /\ NameSet = {"FRONT_META", "FRONT_ENDPOINTS", "FLOW_TABLE"}
  /\ HookSet = {"uplink_ingress", "geneve_ingress", "uplink_egress_return"}
<1>1. \A i \in 1 .. 3 : i = 1 \/ i = 2 \/ i = 3
  OBVIOUS
<1>2. 1 \in 1 .. 3 /\ 2 \in 1 .. 3 /\ 3 \in 1 .. 3
  OBVIOUS
<1> QED BY <1>1, <1>2 DEF NameSet, Names, HookSet, Hooks

\* First takes an element, and the earliest in the order.
LEMMA FirstIsIn ==
  ASSUME NEW order, NEW S, \E i \in 1 .. 3 : order[i] \in S
  PROVE  /\ First(order, S) \in S
         /\ order[1] \in S => First(order, S) = order[1]
<1> DEFINE P(i) == order[i] \in S /\ \A j \in 1 .. 3 : order[j] \in S => i <= j
<1>1. \A i \in 1 .. 3 : i = 1 \/ i = 2 \/ i = 3
  OBVIOUS
<1>2. 1 \in 1 .. 3 /\ 2 \in 1 .. 3 /\ 3 \in 1 .. 3
  OBVIOUS
<1>3. \E i \in 1 .. 3 : P(i)
  <2>1. CASE order[1] \in S
    BY <1>2, <2>1
  <2>2. CASE order[1] \notin S /\ order[2] \in S
    BY <1>1, <1>2, <2>2
  <2>3. CASE order[1] \notin S /\ order[2] \notin S
    BY <1>1, <1>2, <2>3
  <2> QED BY <2>1, <2>2, <2>3
<1> DEFINE k == CHOOSE i \in 1 .. 3 : P(i)
<1>4. k \in 1 .. 3 /\ P(k)
  BY <1>3
<1>5. First(order, S) = order[k]
  BY DEF First
<1> HIDE DEF k
<1>6. order[1] \in S => k = 1
  BY <1>2, <1>4
<1> QED BY <1>4, <1>5, <1>6

\* The name whose turn it is, and the next one to create.
LEMMA FirstName ==
  ASSUME NEW S, S \subseteq NameSet, S # {}
  PROVE  /\ First(Names, S) \in S
         /\ "FRONT_META" \in S => First(Names, S) = "FRONT_META"
<1>1. Names[1] = "FRONT_META" /\ Names[2] = "FRONT_ENDPOINTS" /\ Names[3] = "FLOW_TABLE"
  BY DEF Names
<1>2. \E i \in 1 .. 3 : Names[i] \in S
  BY DEF NameSet
<1> QED BY <1>1, <1>2, FirstIsIn

\* The first of the hooks that a start has before it is one of them.
LEMMA FirstHook ==
  ASSUME NEW S, S \subseteq HookSet, S # {}
  PROVE  First(Hooks, S) \in S
<1>1. \E i \in 1 .. 3 : Hooks[i] \in S
  BY DEF HookSet
<1> QED BY <1>1, FirstIsIn

\* The map that the restore writes to next.
LEMMA FirstRestored ==
  ASSUME NEW S, S \subseteq NameSet, S # {}
  PROVE  First(RestoreOrder, S) \in S
<1>1. /\ RestoreOrder[1] = "FLOW_TABLE" /\ RestoreOrder[2] = "FRONT_ENDPOINTS"
      /\ RestoreOrder[3] = "FRONT_META"
  BY DEF RestoreOrder
<1>2. 1 \in 1 .. 3 /\ 2 \in 1 .. 3 /\ 3 \in 1 .. 3
  OBVIOUS
<1>3. \E i \in 1 .. 3 : RestoreOrder[i] \in S
  BY <1>1, <1>2, TheNames
<1> QED BY <1>3, FirstIsIn

-----------------------------------------------------------------------------
(* Counting, and the fronts that plan_restore admits.                      *)

\* A finite set of naturals has a largest one, and
LEMMA GreatestNatural ==
  ASSUME NEW S \in SUBSET Nat, IsFiniteSet(S), S # {}
  PROVE  \E n \in S : \A m \in S : m <= n
<1> DEFINE Above(n) == {m \in S : m > n}
           T == {Above(n) : n \in S}
           R == StrictSubsetOrdering(S)
<1>1. T \subseteq FiniteSubsetsOf(S)
  <2> SUFFICES ASSUME NEW n \in S PROVE Above(n) \in FiniteSubsetsOf(S)
    OBVIOUS
  <2>1. Above(n) \in SUBSET S
    OBVIOUS
  <2>2. IsFiniteSet(Above(n))
    BY <2>1, FS_Subset
  <2> QED BY <2>1, <2>2 DEF FiniteSubsetsOf
<1>2. T # {}
  OBVIOUS
<1>3. IsWellFoundedOn(R, FiniteSubsetsOf(S))
  BY FS_StrictSubsetOrderingWellFounded
<1> HIDE DEF R, T
<1>4. PICK x \in T : \A y \in T : <<y, x>> \notin R
  BY <1>1, <1>2, <1>3, WFMin
<1>5. PICK n \in S : x = Above(n)
  BY <1>4 DEF T
<1>6. ASSUME NEW m \in S, ~(m <= n) PROVE FALSE
  <2>1. Above(m) \in T
    BY DEF T
  <2>2. Above(m) \subseteq Above(n) /\ m \in Above(n) /\ m \notin Above(m)
    <3>1. m \in Nat /\ n \in Nat /\ m > n /\ ~(m > m)
      BY <1>6
    <3>2. ASSUME NEW j \in Above(m) PROVE j \in Above(n)
      <4>1. j \in Nat /\ j > m
        OBVIOUS
      <4>2. j > n
        BY <3>1, <4>1
      <4> QED BY <4>2
    <3> QED BY <3>1, <3>2
  <2>3. <<Above(m), Above(n)>> \in R
    BY <2>2 DEF R, StrictSubsetOrdering
  <2> QED BY <1>4, <1>5, <2>1, <2>3
<1> QED BY <1>6

\* a bounded one has a least one.
LEMMA LeastNatural ==
  ASSUME NEW S \in SUBSET Nat, S # {}, NEW b \in Nat, \A n \in S : n <= b
  PROVE  \E n \in S : \A m \in S : n <= m
<1> DEFINE T == {b - n : n \in S}
<1>1. T \in SUBSET Nat /\ T # {} /\ \A t \in T : t <= b
  <2>1. ASSUME NEW n \in S PROVE b - n \in Nat /\ b - n <= b
    BY n \in Nat
  <2> QED BY <2>1
<1>2. IsFiniteSet(T)
  BY <1>1, FS_BoundedSetOfNaturals
<1>3. PICK t \in T : \A u \in T : u <= t
  BY <1>1, <1>2, GreatestNatural
<1>4. PICK n \in S : t = b - n
  BY <1>3
<1>5. ASSUME NEW m \in S PROVE n <= m
  <2>1. b - m <= b - n
    BY <1>3, <1>4
  <2> QED BY <2>1
<1> QED BY <1>5

\* The fronts are finitely many.
LEMMA FrontsFinite ==
  ASSUME NEW A, A \subseteq Fronts
  PROVE  IsFiniteSet(A) /\ A \in SUBSET Nat
<1>1. FrontCount \in Nat /\ Fronts = 1 .. FrontCount
  BY MapsAssumption DEF MapsAssumption, Fronts
<1>2. IsFiniteSet(Fronts)
  BY <1>1, FS_Interval
<1>3. IsFiniteSet(A)
  BY <1>2, FS_Subset
<1>4. ASSUME NEW f \in A PROVE f \in Nat
  <2>1. f \in 1 .. FrontCount
    BY <1>1
  <2> QED BY <1>1, <2>1
<1> QED BY <1>3, <1>4

\* A front has as many live rows as slots.
LEMMA RowsCounted ==
  ASSUME NEW f \in Fronts
  PROVE  IsFiniteSet(RowsOf(f)) /\ Cardinality(RowsOf(f)) = Slots[f] /\ Slots[f] \in Nat
<1>1. Slots[f] \in Nat
  BY MapsAssumption DEF MapsAssumption
<1> DEFINE I == 0 .. Slots[f] - 1
           g == [s \in I |-> <<f, 1, s>>]
<1>2. IsFiniteSet(I) /\ Cardinality(I) = Slots[f]
  <2>1. 0 \in Int /\ Slots[f] - 1 \in Int
    BY <1>1
  <2>2. /\ IsFiniteSet(I)
        /\ Cardinality(I) = IF 0 > Slots[f] - 1 THEN 0 ELSE Slots[f] - 1 - 0 + 1
    <3> HIDE DEF g
    <3> QED BY <2>1, FS_Interval
  <2>3. (IF 0 > Slots[f] - 1 THEN 0 ELSE Slots[f] - 1 - 0 + 1) = Slots[f]
    BY <1>1
  <2> QED BY <2>2, <2>3
<1>3. g \in Surjection(I, RowsOf(f))
  BY DEF Surjection, RowsOf
<1>4. g \in Injection(I, RowsOf(f))
  <2>1. ASSUME NEW s \in I, NEW t \in I, g[s] = g[t] PROVE s = t
    <3>1. <<f, 1, s>> = <<f, 1, t>>
      BY <2>1
    <3> QED BY <3>1
  <2>2. g \in [I -> RowsOf(f)]
    BY DEF RowsOf
  <2> HIDE DEF g, I
  <2> QED BY <2>1, <2>2 DEF Injection, IsInjective
<1> HIDE DEF I, g
<1>5. IsFiniteSet(RowsOf(f)) /\ Cardinality(RowsOf(f)) = Cardinality(I)
  BY <1>2, <1>3, <1>4, FS_Surjection
<1> QED BY <1>1, <1>2, <1>5

\* The rows of any fronts are finitely many.
LEMMA AllRowsFinite ==
  ASSUME NEW A, A \subseteq Fronts
  PROVE  /\ IsFiniteSet(UNION {RowsOf(f) : f \in A})
         /\ Cardinality(UNION {RowsOf(f) : f \in A}) \in Nat
<1> DEFINE T == {RowsOf(f) : f \in A}
           g == [f \in A |-> RowsOf(f)]
<1>1. IsFiniteSet(A)
  BY FrontsFinite
<1>2. g \in Surjection(A, T)
  BY DEF Surjection
<1>3. \A t \in T : IsFiniteSet(t)
  BY RowsCounted
<1> HIDE DEF g, T
<1>4. IsFiniteSet(T)
  BY <1>1, <1>2, FS_Surjection
<1>5. IsFiniteSet(UNION T)
  BY <1>3, <1>4, FS_UNION
<1>6. Cardinality(UNION T) \in Nat
  BY <1>5, FS_CardinalityType
<1> QED BY <1>5, <1>6 DEF T

\* The rows of one front beside those of others.
LEMMA RowsBeside ==
  ASSUME NEW A, A \subseteq Fronts, NEW f \in Fronts \ A
  PROVE  Cardinality(UNION {RowsOf(g) : g \in A \cup {f}})
           = Cardinality(UNION {RowsOf(g) : g \in A}) + Slots[f]
<1> DEFINE U == UNION {RowsOf(g) : g \in A}
<1>1. UNION {RowsOf(g) : g \in A \cup {f}} = U \cup RowsOf(f)
  OBVIOUS
<1>2. U \cap RowsOf(f) = {}
  BY DEF RowsOf
<1>3. IsFiniteSet(U) /\ Cardinality(U) \in Nat
  BY AllRowsFinite
<1> HIDE DEF U
<1>4. Cardinality(U \cup RowsOf(f)) = Cardinality(U) + Slots[f] - Cardinality(U \cap RowsOf(f))
  BY <1>3, RowsCounted, FS_Union
<1>5. Slots[f] \in Nat
  BY RowsCounted
<1>6. Cardinality(U \cap RowsOf(f)) = 0
  BY <1>2, FS_EmptySet
<1>7. Cardinality(U \cup RowsOf(f)) = Cardinality(U) + Slots[f]
  BY <1>3, <1>4, <1>5, <1>6
<1> QED BY <1>1, <1>7 DEF U

\* There is a set of fronts that the plan admits.
LEMMA PlanExists ==
  ASSUME NEW R, R \subseteq Fronts, NEW config
  PROVE  \E A \in SUBSET R : \A f \in R : f \in A <=> Fits(f, {g \in A : g < f}, config)
<1> DEFINE Upto(A, k) == /\ \A f \in A : f <= k
                         /\ \A f \in R : f <= k => (f \in A <=> Fits(f, {g \in A : g < f}, config))
           Bad == {k \in 0 .. FrontCount : ~\E A \in SUBSET R : Upto(A, k)}
<1>0. FrontCount \in Nat /\ Fronts = 1 .. FrontCount /\ \A f \in R : f \in Nat /\ 1 <= f /\ f <= FrontCount
  <2>1. FrontCount \in Nat /\ Fronts = 1 .. FrontCount
    BY MapsAssumption DEF MapsAssumption, Fronts
  <2>2. ASSUME NEW f \in R PROVE f \in Nat /\ 1 <= f /\ f <= FrontCount
    <3>1. f \in 1 .. FrontCount
      BY <2>1
    <3> QED BY <2>1, <3>1
  <2> QED BY <2>1, <2>2
<1>1. Bad = {}
  <2> SUFFICES ASSUME Bad # {} PROVE FALSE
    OBVIOUS
  <2>0. Bad \in SUBSET Nat /\ \A n \in Bad : n <= FrontCount
    BY <1>0
  <2> HIDE DEF Bad
  <2>1. PICK k \in Bad : \A m \in Bad : k <= m
    BY <1>0, <2>0, LeastNatural
  <2>2. k \in Nat /\ k <= FrontCount /\ ~\E A \in SUBSET R : Upto(A, k)
    BY <1>0, <2>0, <2>1 DEF Bad
  <2>3. CASE k = 0
    <3>1. Upto({}, 0)
      BY <1>0
    <3> HIDE DEF Upto
    <3> QED BY <2>2, <2>3, <3>1
  <2>4. CASE k # 0
    <3>1. k - 1 \in Nat /\ k - 1 <= FrontCount /\ ~(k <= k - 1)
      BY <1>0, <2>2, <2>4
    <3>2. PICK A \in SUBSET R : Upto(A, k - 1)
      <4>1. k - 1 \in 0 .. FrontCount
        BY <1>0, <3>1
      <4>2. k - 1 \notin Bad
        BY <2>1, <3>1
      <4> HIDE DEF Upto
      <4> QED BY <4>1, <4>2 DEF Bad
    <3> DEFINE B == IF k \in R /\ Fits(k, A, config) THEN A \cup {k} ELSE A
    <3>3. \A f \in A : f \in Nat /\ f < k
      BY <1>0, <2>2, <3>2
    <3>4. B \in SUBSET R /\ \A f \in B : f <= k
      BY <2>2, <3>3
    <3>5. ASSUME NEW f \in R, f <= k PROVE f \in B <=> Fits(f, {g \in B : g < f}, config)
      <4>1. CASE f = k
        <5>1. {g \in B : g < f} = A
          <6>1. ~(k < k)
            BY <2>2
          <6>2. B = A \/ B = A \cup {k}
            OBVIOUS
          <6>3. \A g \in A : g < f
            BY <3>3, <4>1
          <6> HIDE DEF B
          <6> QED BY <4>1, <6>1, <6>2, <6>3
        <5>2. f \in B <=> Fits(k, A, config)
          BY <3>3, <4>1
        <5> QED BY <4>1, <5>1, <5>2
      <4>2. CASE f # k
        <5>1. f \in Nat /\ f < k /\ f <= k - 1
          BY <1>0, <2>2, <3>5, <4>2
        <5>2. {g \in B : g < f} = {g \in A : g < f}
          BY <2>2, <3>3, <5>1
        <5>3. f \in B <=> f \in A
          BY <4>2
        <5>4. f \in A <=> Fits(f, {g \in A : g < f}, config)
          BY <3>2, <5>1
        <5> QED BY <5>2, <5>3, <5>4
      <4> QED BY <4>1, <4>2
    <3>6. Upto(B, k)
      BY <3>4, <3>5
    <3> HIDE DEF B, Upto
    <3> QED BY <2>2, <3>4, <3>6
  <2> QED BY <2>3, <2>4
<1>2. PICK A \in SUBSET R : Upto(A, FrontCount)
  <2> HIDE DEF Bad, Upto
  <2>1. FrontCount \in 0 .. FrontCount /\ FrontCount \notin Bad
    BY <1>0, <1>1
  <2> QED BY <2>1 DEF Bad
<1> QED BY <1>0, <1>2

\* What Admitted chooses is such a set.
LEMMA PlanChosen ==
  ASSUME NEW metas, metas \subseteq Fronts, NEW endpoints, NEW config
  PROVE  /\ Admitted(metas, endpoints, config) \subseteq Restorable(metas, endpoints)
         /\ \A f \in Restorable(metas, endpoints) :
              f \in Admitted(metas, endpoints, config)
                <=> Fits(f, {g \in Admitted(metas, endpoints, config) : g < f}, config)
<1> DEFINE R == Restorable(metas, endpoints)
           P(A) == \A f \in R : f \in A <=> Fits(f, {g \in A : g < f}, config)
<1>1. R \subseteq Fronts
  BY DEF Restorable
<1>2. \E A \in SUBSET R : P(A)
  BY <1>1, PlanExists
<1>3. Admitted(metas, endpoints, config) = CHOOSE A \in SUBSET R : P(A)
  BY DEF Admitted
<1> QED BY <1>2, <1>3

\* The admitted fronts were there and whole.
LEMMA PlanWhole ==
  ASSUME NEW metas, metas \subseteq Fronts, NEW endpoints, NEW config,
         NEW f \in Admitted(metas, endpoints, config)
  PROVE  f \in metas /\ f \in Fronts /\ RowsOf(f) \subseteq endpoints
BY PlanChosen DEF Restorable, Whole

\* Their rows fit.
LEMMA PlanFits ==
  ASSUME NEW metas, metas \subseteq Fronts, NEW endpoints, NEW config \in Configs
  PROVE  Cardinality(UNION {RowsOf(f) : f \in Admitted(metas, endpoints, config)})
           <= Shapes[config]["FRONT_ENDPOINTS"].cap
<1> DEFINE A == Admitted(metas, endpoints, config)
<1>1. A \subseteq Fronts /\ A \subseteq Restorable(metas, endpoints)
  BY PlanChosen DEF Restorable
<1>2. \A f \in A : Fits(f, {g \in A : g < f}, config)
  BY PlanChosen
<1> HIDE DEF A
<1>3. CASE A = {}
  <2>1. UNION {RowsOf(f) : f \in A} = {}
    BY <1>3
  <2>2. Shapes[config]["FRONT_ENDPOINTS"].cap \in Nat
    BY MapsAssumption, TheNames DEF MapsAssumption
  <2> QED BY <2>1, <2>2, FS_EmptySet DEF A
<1>4. CASE A # {}
  <2>1. PICK f \in A : \A g \in A : g <= f
    BY <1>1, <1>4, FrontsFinite, GreatestNatural
  <2> DEFINE B == {g \in A : g < f}
  <2>2. A = B \cup {f} /\ f \notin B /\ B \subseteq Fronts /\ f \in Fronts
    BY <1>1, <2>1, FrontsFinite
  <2>3. Fits(f, B, config)
    BY <1>2
  <2> HIDE DEF B
  <2>4. Cardinality(UNION {RowsOf(g) : g \in A}) = Cardinality(UNION {RowsOf(g) : g \in B}) + Slots[f]
    BY <2>2, RowsBeside
  <2> QED BY <2>3, <2>4 DEF Fits, A
<1> QED BY <1>3, <1>4

\* Fronts that are all whole and fit together are all admitted.
LEMMA PlanTakesAll ==
  ASSUME NEW metas, metas \subseteq Fronts, NEW endpoints, NEW config \in Configs,
         \A f \in metas : Whole(f, endpoints),
         Cardinality(metas) <= Shapes[config]["FRONT_META"].cap,
         Cardinality(UNION {RowsOf(f) : f \in metas}) <= Shapes[config]["FRONT_ENDPOINTS"].cap
  PROVE  metas \subseteq Admitted(metas, endpoints, config)
<1> DEFINE A == Admitted(metas, endpoints, config)
<1>1. Restorable(metas, endpoints) = metas
  BY DEF Restorable
<1>2. A \subseteq metas /\ \A f \in metas : f \in A <=> Fits(f, {g \in A : g < f}, config)
  BY <1>1, PlanChosen
<1> HIDE DEF A
<1>3. /\ Shapes[config]["FRONT_META"].cap \in Nat /\ Shapes[config]["FRONT_ENDPOINTS"].cap \in Nat
  BY MapsAssumption, TheNames DEF MapsAssumption
<1>4. ASSUME NEW f \in metas PROVE Fits(f, {g \in A : g < f}, config)
  <2> DEFINE B == {g \in A : g < f}
  <2>1. B \subseteq metas /\ f \notin B /\ B \subseteq Fronts /\ f \in Fronts /\ f \in Nat
    BY <1>2, FrontsFinite
  <2> HIDE DEF B
  <2>2. Cardinality(B) < Shapes[config]["FRONT_META"].cap
    <3>1. IsFiniteSet(metas) /\ IsFiniteSet(B)
      BY <2>1, FrontsFinite
    <3>2. Cardinality(B) <= Cardinality(metas) /\ Cardinality(B) # Cardinality(metas)
      BY <2>1, <3>1, FS_Subset
    <3>3. Cardinality(B) \in Nat /\ Cardinality(metas) \in Nat
      BY <3>1, FS_CardinalityType
    <3> QED BY <1>3, <3>2, <3>3
  <2>3. Cardinality(UNION {RowsOf(g) : g \in B}) + Slots[f] <= Shapes[config]["FRONT_ENDPOINTS"].cap
    <3> DEFINE U == UNION {RowsOf(g) : g \in metas}
               V == UNION {RowsOf(g) : g \in B \cup {f}}
    <3>1. V \in SUBSET U
      BY <2>1
    <3>2. IsFiniteSet(U) /\ Cardinality(U) \in Nat
      BY AllRowsFinite
    <3>3. Cardinality(V) \in Nat
      BY <2>1, AllRowsFinite
    <3>4. Cardinality(V) = Cardinality(UNION {RowsOf(g) : g \in B}) + Slots[f]
      BY <2>1, RowsBeside
    <3> HIDE DEF U, V
    <3>5. Cardinality(V) <= Cardinality(U)
      BY <3>1, <3>2, FS_Subset
    <3>6. Cardinality(U) <= Shapes[config]["FRONT_ENDPOINTS"].cap
      BY DEF U
    <3> QED BY <1>3, <3>2, <3>3, <3>4, <3>5, <3>6
  <2> QED BY <2>2, <2>3 DEF Fits, B
<1> QED BY <1>2, <1>4 DEF A

\* Flows that are all admitted fit.
LEMMA FlowsFit ==
  ASSUME NEW S \in SUBSET Nat, IsFiniteSet(S), NEW cap \in Nat,
         \A k \in S : Cardinality({j \in S : j < k}) < cap
  PROVE  Cardinality(S) <= cap
<1>1. CASE S = {}
  BY <1>1, FS_EmptySet
<1>2. CASE S # {}
  <2>1. PICK k \in S : \A j \in S : j <= k
    BY <1>2, GreatestNatural
  <2> DEFINE B == {j \in S : j < k}
  <2>2. B = S \ {k}
    <3>1. ASSUME NEW j \in S PROVE j < k <=> j # k
      <4>1. j \in Nat /\ k \in Nat /\ j <= k
        BY <2>1
      <4> QED BY <4>1
    <3> QED BY <3>1
  <2>3. Cardinality(B) < cap
    BY <2>1
  <2> HIDE DEF B
  <2>4. Cardinality(B) = Cardinality(S) - 1
    BY <2>1, <2>2, FS_RemoveElement
  <2>5. Cardinality(S) \in Nat
    BY FS_CardinalityType
  <2> QED BY <2>3, <2>4, <2>5
<1> QED BY <1>1, <1>2

-----------------------------------------------------------------------------
(* What a step does to the maps.                                           *)

\* The state that TypeOK and the properties of the migration rest on.
PinInv == NamesOK /\ MapsOK /\ LoadOK /\ ShapeInv /\ RecreateInv /\ ParkInv /\ AttachInv

\* A configured shape has room.
LEMMA ShapesHaveRoom ==
  ASSUME NEW name \in NameSet, NEW shape \in ShapesFor(name)
  PROVE  shape.cap \in Nat \ {0} /\ shape # NoMap.shape
<1>1. PICK config \in Configs : shape = Shapes[config][name]
  BY DEF ShapesFor
<1>2. shape.cap \in Nat \ {0}
  BY <1>1, MapsAssumption DEF MapsAssumption
<1>3. NoMap.shape.cap = 0
  BY DEF NoMap
<1> QED BY <1>2, <1>3

\* What is referred to is a map, and a free map is not referred to.
LEMMA RefsAreMaps ==
  ASSUME MapsOK, NEW name \in NameSet, NEW id \in MapIds
  PROVE  id \in Refs(name) <=> maps[name][id] # NoMap
<1>1. ASSUME id \in Refs(name) PROVE maps[name][id] # NoMap
  <2>1. ShapeOf(name, id) \in ShapesFor(name)
    BY <1>1 DEF MapsOK
  <2> QED BY <2>1, ShapesHaveRoom DEF ShapeOf
<1> QED BY <1>1 DEF MapsOK

\* A step that takes references away frees maps and leaves the others as they are.
LEMMA FreedMaps ==
  ASSUME MapsOK, maps' = Freed(maps, pin', parked', program'),
         \A name \in NameSet : Refs(name)' \subseteq Refs(name) \cup {None}
  PROVE  /\ MapsOK'
         /\ \A name \in NameSet : \A id \in MapIds : id \in Refs(name)' => maps'[name][id] = maps[name][id]
<1>1. /\ maps' = [name \in NameSet |-> [id \in MapIds |-> maps'[name][id]]]
      /\ \A name \in NameSet : \A id \in MapIds :
           maps'[name][id] = IF id \in Refs(name)' THEN maps[name][id] ELSE NoMap
  BY DEF Freed, Refs
<1>2. ASSUME NEW name \in NameSet, NEW id \in MapIds, id \in Refs(name)'
      PROVE  maps'[name][id] = maps[name][id] /\ id \in Refs(name)
  <2>1. id # None
    BY MapsAssumption DEF MapsAssumption
  <2> QED BY <1>1, <1>2, <2>1
<1>3. NoMap = [shape |-> NoMap.shape, rows |-> NoMap.rows] /\ NoMap.rows = {}
  BY DEF NoMap
<1>4. ASSUME NEW name \in NameSet, NEW id \in MapIds
      PROVE  /\ maps'[name][id] = [shape |-> ShapeOf(name, id)', rows |-> Rows(name, id)']
             /\ id \notin Refs(name)' => maps'[name][id] = NoMap
             /\ id \in Refs(name)' =>
                  /\ ShapeOf(name, id)' \in ShapesFor(name) /\ IsFiniteSet(Rows(name, id)')
                  /\ Cardinality(Rows(name, id)') <= ShapeOf(name, id)'.cap
  BY <1>1, <1>2, <1>3 DEF MapsOK, ShapeOf, Rows
<1>5. ASSUME NEW id \in MapIds
      PROVE  Rows("FRONT_META", id)' \subseteq Fronts /\ Rows("FLOW_TABLE", id)' \subseteq Flows
  <2>1. \A name \in NameSet : Rows(name, id)' = Rows(name, id) \/ Rows(name, id)' = {}
    BY <1>1, <1>3 DEF Rows
  <2> QED BY <2>1, TheNames DEF MapsOK
<1> QED BY <1>1, <1>2, <1>4, <1>5 DEF MapsOK, ShapesFor

\* A step that sets the rows of one map leaves the others as they are.
Written(name, id, new) ==
    /\ maps' = [n \in NameSet |-> [m \in MapIds |-> maps'[n][m]]]
    /\ \A n \in NameSet : \A m \in MapIds :
         /\ maps'[n][m] = [shape |-> maps'[n][m].shape, rows |-> maps'[n][m].rows]
         /\ maps'[n][m].shape = maps[n][m].shape
         /\ maps'[n][m].rows = IF n = name /\ m = id THEN new ELSE maps[n][m].rows
         /\ n # name \/ m # id => maps'[n][m] = maps[n][m]

\* What EXCEPT does to the rows of a map.
LEMMA RowsSet ==
  ASSUME MapsOK, NEW name \in NameSet, NEW id \in MapIds, NEW new,
         maps' = [maps EXCEPT ![name][id].rows = new]
  PROVE  Written(name, id, new)
<1>1. \A n \in NameSet : \A m \in MapIds :
        /\ maps[n][m] = [shape |-> ShapeOf(n, m), rows |-> Rows(n, m)]
        /\ DOMAIN maps = NameSet /\ DOMAIN maps[n] = MapIds
  BY DEF MapsOK
<1>2. /\ maps' = [n \in NameSet |-> [m \in MapIds |-> maps'[n][m]]]
      /\ \A n \in NameSet : \A m \in MapIds :
           maps'[n][m] = IF n = name /\ m = id THEN [maps[n][m] EXCEPT !.rows = new] ELSE maps[n][m]
  BY <1>1 DEF MapsOK
<1>3. ASSUME NEW n \in NameSet, NEW m \in MapIds
      PROVE  /\ maps'[n][m] = [shape |-> maps'[n][m].shape, rows |-> maps'[n][m].rows]
             /\ maps'[n][m].shape = maps[n][m].shape
             /\ maps'[n][m].rows = IF n = name /\ m = id THEN new ELSE maps[n][m].rows
             /\ n # name \/ m # id => maps'[n][m] = maps[n][m]
  <2> DEFINE s == ShapeOf(n, m)
             rows == Rows(n, m)
  <2>1. maps[n][m] = [shape |-> s, rows |-> rows]
    BY <1>1
  <2> HIDE DEF s, rows
  <2>2. [maps[n][m] EXCEPT !.rows = new] = [shape |-> s, rows |-> new]
    BY <2>1
  <2>3. maps'[n][m] = IF n = name /\ m = id THEN [shape |-> s, rows |-> new]
                      ELSE [shape |-> s, rows |-> rows]
    BY <1>2, <2>1, <2>2
  <2> QED BY <2>1, <2>3
<1> QED BY <1>2, <1>3 DEF Written

\* A write that fits leaves the maps well-formed.
LEMMA WrittenMaps ==
  ASSUME MapsOK, NEW name \in NameSet, NEW id \in MapIds, id \in Refs(name), NEW new,
         Written(name, id, new), UNCHANGED <<pin, parked, program>>,
         IsFiniteSet(new), Cardinality(new) <= ShapeOf(name, id).cap,
         name = "FRONT_META" => new \subseteq Fronts, name = "FLOW_TABLE" => new \subseteq Flows
  PROVE  MapsOK'
<1>1. \A n \in NameSet : Refs(n)' = Refs(n)
  BY DEF Refs
<1>2. ASSUME NEW n \in NameSet, NEW m \in MapIds
      PROVE  /\ maps'[n][m] = [shape |-> ShapeOf(n, m)', rows |-> Rows(n, m)']
             /\ m \notin Refs(n)' => maps'[n][m] = NoMap
             /\ m \in Refs(n)' =>
                  /\ ShapeOf(n, m)' \in ShapesFor(n) /\ IsFiniteSet(Rows(n, m)')
                  /\ Cardinality(Rows(n, m)') <= ShapeOf(n, m)'.cap
  <2>1. /\ m \notin Refs(n) => maps[n][m] = NoMap
        /\ m \in Refs(n) =>
                  /\ maps[n][m].shape \in ShapesFor(n) /\ IsFiniteSet(maps[n][m].rows)
                  /\ Cardinality(maps[n][m].rows) <= maps[n][m].shape.cap
    BY DEF MapsOK, ShapeOf, Rows
  <2>2. Refs(n)' = Refs(n)
    BY <1>1
  <2>3. maps'[n][m] = [shape |-> maps'[n][m].shape, rows |-> maps'[n][m].rows]
    BY DEF Written
  <2>4. CASE n = name /\ m = id
    <3>1. maps'[n][m].shape = maps[n][m].shape /\ maps'[n][m].rows = new
      BY <2>4 DEF Written
    <3>2. Cardinality(new) <= maps[n][m].shape.cap /\ m \in Refs(n)
      BY <2>4 DEF ShapeOf
    <3> QED BY <2>1, <2>2, <2>3, <3>1, <3>2 DEF ShapeOf, Rows
  <2>5. CASE ~(n = name /\ m = id)
    <3>1. maps'[n][m] = maps[n][m]
      BY <2>5 DEF Written
    <3> QED BY <2>1, <2>2, <2>3, <3>1 DEF ShapeOf, Rows
  <2> QED BY <2>4, <2>5
<1>3. ASSUME NEW m \in MapIds
      PROVE  Rows("FRONT_META", m)' \subseteq Fronts /\ Rows("FLOW_TABLE", m)' \subseteq Flows
  <2>1. "FRONT_META" \in NameSet /\ "FLOW_TABLE" \in NameSet
    BY TheNames
  <2>2. maps["FRONT_META"][m].rows \subseteq Fronts /\ maps["FLOW_TABLE"][m].rows \subseteq Flows
    BY DEF MapsOK, Rows
  <2> QED BY <2>1, <2>2 DEF Rows, Written
<1> QED BY <1>2, <1>3 DEF MapsOK, ShapesFor, Written

\* Entries to write are pairs of a name and a row.
LEMMA PairsTodo ==
  ASSUME NEW T, \A w \in T : w = <<w[1], w[2]>>, NEW name, NEW r
  PROVE  r \in {w[2] : w \in {x \in T : x[1] = name}} <=> <<name, r>> \in T
<1>1. ASSUME NEW w \in T, w[1] = name, w[2] = r PROVE <<name, r>> \in T
  BY <1>1
<1>2. ASSUME <<name, r>> \in T PROVE \E w \in T : w[1] = name /\ w[2] = r
  BY <1>2
<1> QED BY <1>1, <1>2

-----------------------------------------------------------------------------
(* PinInv: the steps that change nothing but the process's memory.         *)

\* The fate of a map by itself.
LEMMA OwnFate ==
  ASSUME NEW config, NEW name
  PROVE  /\ SourceFate(name, config) \in {"none", "Keep", "Migrate", "RecreateEmpty"}
         /\ SourceFate(name, config) = "none" <=> Source(name) = None
         /\ SourceFate(name, config) = "Keep" =>
              parked[name] = None /\ ShapeOf(name, pin[name]) = Shapes[config][name]
<1>1. \A shape : /\ PinFate(shape, name, config) \in {"Keep", "Migrate", "RecreateEmpty"}
                 /\ PinFate(shape, name, config) = "Keep" => shape = Shapes[config][name]
  BY DEF PinFate, SameShape
<1> QED BY <1>1 DEF SourceFate, Source, ShapeOf

\* The fates that a start settles: the two front maps keep or migrate together,
\* and only a map without a source has none.
LEMMA SettledFates ==
  ASSUME NEW config, NEW name \in NameSet
  PROVE  /\ Fate(name, config) \in {"none", "Keep", "Migrate", "RecreateEmpty"}
         /\ Fate(name, config) = "none" <=> Source(name) = None
         /\ Fate(name, config) = "Keep" =>
              parked[name] = None /\ ShapeOf(name, pin[name]) = Shapes[config][name]
         /\ \A fate1 \in {"Keep", "Migrate"} :
              Fate("FRONT_META", config) = fate1 <=> Fate("FRONT_ENDPOINTS", config) = fate1
<1> DEFINE m == SourceFate("FRONT_META", config)
           e == SourceFate("FRONT_ENDPOINTS", config)
           Both == {"none", "Keep", "Migrate", "RecreateEmpty"}
<1>1. m \in Both /\ e \in Both
  BY OwnFate
<1>2. \A n \in FrontMaps : Fate(n, config) =
        IF SourceFate(n, config) = "none" THEN "none" ELSE CoupleFrontFates(m, e, n)
  BY DEF Fate
<1>3. \A n : CoupleFrontFates(m, e, n) =
        IF m = "Keep" /\ e = "Keep" THEN "Keep" ELSE IF m = "none" /\ e = "none" THEN "none"
        ELSE IF m \in {"Keep", "Migrate"} /\ e \in {"Keep", "Migrate"} THEN "Migrate"
        ELSE "RecreateEmpty"
  BY <1>1 DEF CoupleFrontFates
<1>4. CASE name \notin FrontMaps
  BY <1>1, <1>2, <1>3, <1>4, OwnFate DEF Fate, FrontMaps
<1>5. CASE name \in FrontMaps
  <2>1. SourceFate(name, config) = m \/ SourceFate(name, config) = e
    BY <1>5 DEF FrontMaps
  <2>2. /\ Fate(name, config) \in Both
        /\ Fate(name, config) = "none" <=> SourceFate(name, config) = "none"
        /\ Fate(name, config) = "Keep" => SourceFate(name, config) = "Keep"
    BY <1>1, <1>2, <1>3, <1>5, <2>1
  <2>3. \A fate1 \in {"Keep", "Migrate"} :
              Fate("FRONT_META", config) = fate1 <=> Fate("FRONT_ENDPOINTS", config) = fate1
    BY <1>1, <1>2, <1>3 DEF FrontMaps
  <2> QED BY <2>2, <2>3, OwnFate
<1> QED BY <1>4, <1>5

\* Nothing changes in the kernel.
Still == UNCHANGED <<maps, pin, parked, program>>

\* A step that leaves the maps, pins and programs keeps what is said of them alone.
LEMMA StillMaps ==
  ASSUME NamesOK, MapsOK, Still
  PROVE  /\ NamesOK' /\ MapsOK'
         /\ \A name, id : Rows(name, id)' = Rows(name, id) /\ ShapeOf(name, id)' = ShapeOf(name, id)
         /\ \A name : Beside(name)' = Beside(name) /\ Source(name)' = Source(name)
<1>1. \A name : Refs(name)' = Refs(name)
  BY DEF Still, Refs
<1>2. NamesOK'
  BY DEF NamesOK, Still
<1>3. \A name, id : Rows(name, id)' = Rows(name, id) /\ ShapeOf(name, id)' = ShapeOf(name, id)
  BY DEF Rows, ShapeOf, Still
<1>4. MapsOK'
  BY <1>1 DEF MapsOK, Still, Rows, ShapeOf, ShapesFor
<1> QED BY <1>2, <1>3, <1>4 DEF Still, Beside, Source

\* The start of the process.
LEMMA StartLoadPins ==
  ASSUME PinInv, NEW config \in Configs, StartLoad(config)
  PROVE  PinInv'
<1>1. Still /\ phase' = "recreate" /\ wanted' = config /\ ~half' /\ DOMAIN snapshot' = {}
      /\ UNCHANGED <<half, failed, snapshot, lossy, late>> /\ phase = "off"
  BY DEF StartLoad, Still, PinInv, LoadOK
<1>2. NamesOK' /\ MapsOK'
  BY <1>1, StillMaps DEF PinInv
<1>3. /\ fate' = [name \in NameSet |-> Fate(name, config)]
      /\ todo' = {name \in NameSet : fate'[name] \in {"Migrate", "RecreateEmpty"}}
  BY DEF StartLoad
<1>4. \A name \in NameSet : fate'[name] = Fate(name, config)
  BY <1>3
<1>5. NoConfig # config
  BY MapsAssumption DEF MapsAssumption
<1>6. LoadOK'
  <2>1. fate' \in [NameSet -> {"none", "Keep", "Migrate", "RecreateEmpty"}]
    BY <1>3, SettledFates
  <2> QED BY <1>1, <1>3, <1>5, <2>1 DEF PinInv, LoadOK
<1>7. ASSUME NEW name \in NameSet
      PROVE  /\ name \in todo' <=> fate'[name] \in {"Migrate", "RecreateEmpty"}
             /\ fate'[name] \in {"none", "Keep", "Migrate", "RecreateEmpty"}
             /\ fate'[name] = "none" <=> Source(name) = None
             /\ fate'[name] = "Keep" =>
                  parked[name] = None /\ ShapeOf(name, pin[name]) = Shapes[config][name]
  BY <1>3, <1>4, SettledFates
<1>8. ShapeInv'
  BY <1>1, <1>7 DEF ShapeInv, Still, ShapeOf, Wanted, Source, AfterLoad
<1>9. RecreateInv'
  <2>1. \A fate1 \in {"Keep", "Migrate"} : fate'["FRONT_META"] = fate1 <=> fate'["FRONT_ENDPOINTS"] = fate1
    BY <1>4, SettledFates, TheNames
  <2> QED BY <1>1, <1>7, <2>1 DEF RecreateInv, NameInv, Still, Source, Between, Taken
<1>10. ParkInv'
  BY <1>1 DEF PinInv, ParkInv, Still, Beside, AfterLoad
<1>11. AttachInv'
  BY <1>1 DEF AttachInv, OnPins
<1> QED BY <1>2, <1>6, <1>8, <1>9, <1>10, <1>11 DEF PinInv

\* The process dies.
LEMMA DiePins ==
  ASSUME PinInv, Die
  PROVE  PinInv'
<1>1. Still /\ phase' = "off" /\ wanted' = NoConfig /\ ~half' /\ ~failed' /\ snapshot' = NoSnapshots
      /\ fate' = NoFates /\ UNCHANGED late
  BY DEF Die, Still
<1>2. NamesOK' /\ MapsOK'
  BY <1>1, StillMaps DEF PinInv
<1>3. LoadOK'
  BY <1>1 DEF PinInv, LoadOK, NoSnapshots, NoFates, Die
<1>4. ParkInv'
  BY <1>1 DEF PinInv, ParkInv, Still, Beside, AfterLoad
<1> QED BY <1>1, <1>2, <1>3, <1>4 DEF PinInv, AttachInv, OnPins, ShapeInv, RecreateInv, AfterLoad

\* The restore ends, and the start goes on.
LEMMA ForwardPins ==
  ASSUME PinInv, EndLoad \/ Forward
  PROVE  PinInv'
<1>1. Still /\ UNCHANGED <<lossy, starts, late, wanted, fate, half, snapshot, failed>>
  BY DEF EndLoad, Forward, Still
<1>2. NamesOK' /\ MapsOK'
  BY <1>1, StillMaps DEF PinInv
<1>3. CASE EndLoad
  <2>1. phase = "restore" /\ phase' = "unpark" /\ todo' = DOMAIN snapshot
    BY <1>3 DEF EndLoad
  <2>2. LoadOK'
    BY <1>1, <2>1 DEF PinInv, LoadOK, AfterLoad
  <2>3. ShapeInv'
    BY <1>1, <2>1 DEF PinInv, ShapeInv, AfterLoad, ShapeOf, Wanted, Still
  <2>4. ParkInv'
    BY <1>1, <2>1 DEF PinInv, ParkInv, Still, Beside, AfterLoad, Taken
  <2> QED BY <1>2, <2>1, <2>2, <2>3, <2>4 DEF PinInv, AttachInv, OnPins, RecreateInv
<1>4. CASE Forward
  <2>1. /\ phase \in {"unpark", "seed", "uplinks"} /\ phase' \in {"seed", "uplinks", "attach"}
        /\ phase = "unpark" => todo = {}
        /\ phase' = "attach" => todo' = HookSet
    BY <1>4 DEF Forward
  <2>2. LoadOK'
    BY <1>1, <2>1 DEF PinInv, LoadOK, AfterLoad
  <2>3. ShapeInv'
    BY <1>1, <2>1 DEF PinInv, ShapeInv, AfterLoad, ShapeOf, Wanted, Still
  <2>4. parked = NoPins
    BY <2>1 DEF PinInv, ParkInv, NamesOK, NoPins, AfterLoad
  <2>5. ParkInv'
    BY <1>1, <2>1, <2>4 DEF PinInv, ParkInv, Still, Beside, AfterLoad
  <2>6. AttachInv'
    BY <2>1, TheNames DEF AttachInv, OnPins
  <2> QED BY <1>2, <2>1, <2>2, <2>3, <2>5, <2>6 DEF PinInv, RecreateInv
<1> QED BY <1>3, <1>4

\* A step that does not touch the maps; what was lost has been written again.
LEMMA SettlePins ==
  ASSUME PinInv, Settle \/ UNCHANGED pinVars
  PROVE  PinInv'
<1>1. Still /\ UNCHANGED <<late, phase, wanted, fate, todo, half, snapshot, failed>>
      /\ (phase = "recreate" => UNCHANGED lossy)
  BY DEF Settle, pinVars, loadVars, Still
<1>2. NamesOK' /\ MapsOK'
  BY <1>1, StillMaps DEF PinInv
<1>3. LoadOK'
  BY <1>1 DEF PinInv, LoadOK, RowsTodo
<1>4. ShapeInv'
  BY <1>1 DEF PinInv, ShapeInv, ShapeOf, Wanted, Still
<1>5. RecreateInv'
  BY <1>1 DEF PinInv, RecreateInv, NameInv, Between, Turn, Taken, GaveUp, Source, Rows, Still
<1>6. ParkInv' /\ AttachInv'
  BY <1>1 DEF PinInv, ParkInv, Still, Beside, Taken, RowsTodo, Rows, AttachInv, OnPins
<1> QED BY <1>2, <1>3, <1>4, <1>5, <1>6 DEF PinInv

-----------------------------------------------------------------------------
(* PinInv: recreate_mismatched_pins.                                       *)

\* The maps that something refers to after a step are as they were.
Kept == \A name \in NameSet : \A id \in MapIds : id \in Refs(name)' => maps'[name][id] = maps[name][id]

\* Whose turn it is.
LEMMA TurnIsNext ==
  ASSUME PinInv, phase \in {"recreate", "unpark"}, todo # {}
  PROVE  /\ Turn \in todo /\ Turn \in NameSet
         /\ "FRONT_META" \in todo => Turn = "FRONT_META"
BY FirstName DEF PinInv, LoadOK, Turn

\* A map to migrate is snapshotted; its source stays the same.
LEMMA ParkEffect ==
  ASSUME PinInv, Park
  PROVE  /\ phase = "recreate" /\ ~half /\ todo # {} /\ fate[Turn] = "Migrate"
         /\ Turn \in todo /\ Turn \in NameSet /\ Source(Turn) \in MapIds /\ ~Taken(Turn)
         /\ UNCHANGED <<program, phase, wanted, fate, failed, lossy, starts>>
         /\ DOMAIN snapshot' = DOMAIN snapshot \cup {Turn}
         /\ snapshot' = [n \in DOMAIN snapshot' |-> snapshot'[n]]
         /\ snapshot'[Turn] = Rows(Turn, Source(Turn))
         /\ \A n \in DOMAIN snapshot : n # Turn => snapshot'[n] = snapshot[n]
         /\ \/ /\ parked[Turn] = None /\ pin[Turn] # None /\ half' = TRUE /\ UNCHANGED <<pin, todo>>
               /\ parked' = [parked EXCEPT ![Turn] = pin[Turn]]
            \/ /\ parked[Turn] # None /\ UNCHANGED <<parked, half>> /\ todo' = todo \ {Turn}
               /\ pin' = [pin EXCEPT ![Turn] = IF StalePlain(Turn) THEN None ELSE @]
         /\ late' = late \/ (late' = {} /\ Turn = "FLOW_TABLE" /\ Source(Turn) = Ingress[Turn])
         /\ \A n \in NameSet : Source(n)' = Source(n)
         /\ Kept /\ NamesOK' /\ MapsOK'
<1>1. /\ phase = "recreate" /\ ~half /\ todo # {} /\ fate[Turn] = "Migrate"
      /\ UNCHANGED <<program, phase, wanted, fate, failed, lossy, starts>>
      /\ snapshot' = [n \in DOMAIN snapshot \cup {Turn} |->
                            IF n = Turn THEN maps[Turn][Source(Turn)].rows ELSE snapshot[n]]
      /\ late' = late \/ (late' = {} /\ Turn = "FLOW_TABLE" /\ Source(Turn) = Ingress[Turn])
      /\ maps' = Freed(maps, pin', parked', program')
  BY DEF Park
<1>2. Turn \in todo /\ Turn \in NameSet
  BY <1>1, TurnIsNext
<1>3. Source(Turn) # None /\ ~Taken(Turn)
  BY <1>1, <1>2 DEF PinInv, RecreateInv, NameInv, Between
<1>4. \A n \in NameSet : pin[n] \in MapIds \cup {None} /\ parked[n] \in MapIds \cup {None}
  BY DEF PinInv, NamesOK
<1>5. \/ /\ parked[Turn] = None /\ pin[Turn] # None /\ half' = TRUE /\ UNCHANGED <<pin, todo>>
         /\ parked' = [parked EXCEPT ![Turn] = pin[Turn]]
      \/ /\ parked[Turn] # None /\ UNCHANGED <<parked, half>> /\ todo' = todo \ {Turn}
         /\ pin' = [pin EXCEPT ![Turn] = IF StalePlain(Turn) THEN None ELSE @]
  BY <1>3 DEF Park, Source
<1>6. NamesOK'
  BY <1>1, <1>4, <1>5 DEF PinInv, NamesOK
<1>7. \A n \in NameSet : /\ pin'[n] \in {pin[n], None} /\ parked'[n] \in {pin[n], parked[n]}
                         /\ n # Turn => pin'[n] = pin[n] /\ parked'[n] = parked[n]
  BY <1>5 DEF PinInv, NamesOK
<1>8. \A n \in NameSet : Refs(n)' \subseteq Refs(n) \cup {None}
  BY <1>1, <1>7 DEF Refs
<1>9. MapsOK' /\ Kept
  BY <1>1, <1>8, FreedMaps DEF PinInv, Kept
<1>10. \A n \in NameSet : Source(n)' = Source(n)
  BY <1>2, <1>5, <1>7 DEF Source, PinInv, NamesOK
<1>11. /\ DOMAIN snapshot' = DOMAIN snapshot \cup {Turn}
       /\ snapshot' = [n \in DOMAIN snapshot' |-> snapshot'[n]]
       /\ snapshot'[Turn] = Rows(Turn, Source(Turn))
       /\ \A n \in DOMAIN snapshot : n # Turn => snapshot'[n] = snapshot[n]
  BY <1>1 DEF Rows
<1>12. Source(Turn) \in MapIds
  BY <1>2, <1>3, <1>4 DEF Source
<1> QED BY <1>1, <1>2, <1>3, <1>5, <1>6, <1>9, <1>10, <1>11, <1>12

\* Park keeps PinInv.
LEMMA ParkPins ==
  ASSUME PinInv, Park
  PROVE  PinInv'
<1>0. PICK name \in NameSet : name = Turn
  BY ParkEffect
<1>1. /\ phase = "recreate" /\ ~half /\ todo # {} /\ fate[name] = "Migrate"
      /\ name \in todo /\ Source(name) \in MapIds /\ ~Taken(name)
      /\ UNCHANGED <<program, phase, wanted, fate, failed, lossy, starts>>
      /\ DOMAIN snapshot' = DOMAIN snapshot \cup {name}
      /\ snapshot' = [n \in DOMAIN snapshot' |-> snapshot'[n]]
      /\ snapshot'[name] = Rows(name, Source(name))
      /\ \A n \in DOMAIN snapshot : n # name => snapshot'[n] = snapshot[n]
      /\ \A n \in NameSet : Source(n)' = Source(n)
      /\ NamesOK' /\ MapsOK' /\ Kept
  BY <1>0, ParkEffect
<1>2. \/ /\ parked[name] = None /\ pin[name] # None /\ half' = TRUE /\ UNCHANGED <<pin, todo>>
         /\ parked' = [parked EXCEPT ![name] = pin[name]]
      \/ /\ parked[name] # None /\ UNCHANGED <<parked, half>> /\ todo' = todo \ {name}
         /\ pin' = [pin EXCEPT ![name] = IF StalePlain(name) THEN None ELSE @]
  BY <1>0, ParkEffect
<1>3. late' = late \/ late' = {}
  BY ParkEffect
<1>4. LoadOK'
  <2>1. Rows(name, Source(name)) \subseteq IF name = "FRONT_META" THEN Fronts
                                           ELSE IF name = "FLOW_TABLE" THEN Flows
                                           ELSE Rows(name, Source(name))
    BY <1>1 DEF PinInv, MapsOK
  <2>2. half' \in BOOLEAN /\ todo' \subseteq todo
    BY <1>1, <1>2 DEF PinInv, LoadOK
  <2>3. half' => todo' # {}
    BY <1>1, <1>2
  <2>4. late' \subseteq Flows
    BY <1>3 DEF PinInv, LoadOK
  <2>5. /\ "FRONT_META" \in DOMAIN snapshot' => snapshot'["FRONT_META"] \subseteq Fronts
        /\ "FLOW_TABLE" \in DOMAIN snapshot' => snapshot'["FLOW_TABLE"] \subseteq Flows
    BY <1>1, <2>1 DEF PinInv, LoadOK
  <2> QED BY <1>1, <2>2, <2>3, <2>4, <2>5 DEF PinInv, LoadOK
<1>5. \A n \in NameSet : n # name => pin'[n] = pin[n] /\ parked'[n] = parked[n]
  BY <1>2 DEF PinInv, NamesOK
<1>6. \A n \in NameSet : pin'[n] \in {pin[n], None} /\ (parked[n] # None => parked'[n] = parked[n])
  BY <1>1, <1>2, <1>5 DEF PinInv, NamesOK
<1>7. \A n \in NameSet :
        /\ pin'[n] # None => pin'[n] \in MapIds /\ maps'[n][pin'[n]] = maps[n][pin'[n]]
        /\ parked'[n] # None => parked'[n] \in MapIds /\ maps'[n][parked'[n]] = maps[n][parked'[n]]
  BY <1>1 DEF Kept, NamesOK, Refs
<1>8. ShapeInv'
  <2> SUFFICES ASSUME NEW n \in NameSet \ todo', pin'[n] # None
               PROVE  ShapeOf(n, pin[n])' = Wanted(n)'
    BY <1>1 DEF ShapeInv, AfterLoad
  <2>1. CASE n \notin todo
    BY <1>1, <1>5, <1>7, <2>1 DEF PinInv, ShapeInv, ShapeOf, Wanted
  <2>2. CASE n = name
    <3>1. pin'[n] = pin[n] /\ ~StalePlain(n)
      BY <1>1, <1>2, <2>2 DEF PinInv, NamesOK
    <3> QED BY <1>1, <1>7, <3>1 DEF StalePlain, SameShape, ShapeOf, Wanted
  <2> QED BY <1>2, <2>1, <2>2
<1>9. RecreateInv'
  <2>1. ASSUME NEW n \in NameSet, n # name PROVE NameInv(n)'
    <3>1. /\ n \in todo' <=> n \in todo
          /\ ~Between(n) /\ (Taken(n)' <=> Taken(n))
          /\ Taken(n) => snapshot'[n] = snapshot[n]
          /\ GaveUp(n)' <=> GaveUp(n)
          /\ todo # {}
      BY <1>1, <1>2, <2>1 DEF Between, Taken, GaveUp
    <3>2. ~Between(n)'
      BY <1>0, <1>1, <1>2, <2>1 DEF Between, Turn
    <3>3. /\ pin'[n] = pin[n] /\ parked'[n] = parked[n]
          /\ parked[n] # None => Rows(n, parked[n])' = Rows(n, parked[n])
          /\ pin[n] # None => Rows(n, pin[n])' = Rows(n, pin[n])
      BY <1>5, <1>7, <2>1 DEF Rows
    <3> QED BY <1>1, <3>1, <3>2, <3>3 DEF PinInv, RecreateInv, NameInv
  <2>2. NameInv(name)'
    <3>1. parked'[name] = Source(name) /\ parked'[name] # None
      BY <1>1, <1>2 DEF Source, PinInv, NamesOK
    <3>2. name \in todo' => pin'[name] = parked'[name] /\ todo' = todo /\ half'
      BY <1>1, <1>2 DEF PinInv, NamesOK
    <3>3. Taken(name)' /\ snapshot'[name] = Rows(name, parked[name])'
      BY <1>1, <1>7, <3>1 DEF Taken, Rows
    <3>4. name \in todo' => Between(name)'
      BY <1>0, <3>2 DEF Between, Turn
    <3>5. Between(name)' => pin'[name] = parked'[name]
      BY <1>1, <1>2 DEF PinInv, NamesOK, Between
    <3> QED BY <1>1, <3>1, <3>2, <3>3, <3>4, <3>5 DEF NameInv
  <2>3. \A n \in NameSet : NameInv(n)'
    BY <2>1, <2>2
  <2> QED BY <1>1, <2>3 DEF PinInv, RecreateInv
<1>10. ParkInv'
  <2>1. \A n \in NameSet : Beside(n)' => Beside(n) /\ pin'[n] = pin[n]
    BY <1>1, <1>2, <1>5, <1>6 DEF Beside, PinInv, NamesOK
  <2> QED BY <1>1, <2>1 DEF PinInv, ParkInv, AfterLoad
<1>11. AttachInv'
  BY <1>1 DEF AttachInv, OnPins
<1> QED BY <1>1, <1>4, <1>8, <1>9, <1>10, <1>11 DEF PinInv

\* A map is given up with a message: it loses its parked pin, then its plain one.
LEMMA GiveUpEffect ==
  ASSUME PinInv, GiveUp
  PROVE  /\ phase = "recreate" /\ ~half /\ todo # {} /\ fate[Turn] \in {"Migrate", "RecreateEmpty"}
         /\ Turn \in todo /\ Turn \in NameSet /\ Source(Turn) # None /\ ~Taken(Turn)
         /\ UNCHANGED <<program, starts, phase, wanted, fate, snapshot, failed, late>>
         /\ lossy' = lossy \cup {<<Turn, IF fate[Turn] = "Migrate" THEN "snapshot" ELSE "layout">>}
         /\ \/ /\ parked[Turn] = None /\ UNCHANGED <<parked, half>> /\ todo' = todo \ {Turn}
               /\ pin' = [pin EXCEPT ![Turn] = None]
            \/ /\ parked[Turn] # None /\ half' = TRUE /\ UNCHANGED <<pin, todo>>
               /\ parked' = [parked EXCEPT ![Turn] = None]
         /\ Kept /\ NamesOK' /\ MapsOK'
<1>1. /\ phase = "recreate" /\ ~half /\ todo # {}
      /\ UNCHANGED <<program, starts, phase, wanted, fate, snapshot, failed, late>>
      /\ \/ fate[Turn] = "RecreateEmpty" /\ lossy' = lossy \cup {<<Turn, "layout">>}
         \/ fate[Turn] = "Migrate" /\ lossy' = lossy \cup {<<Turn, "snapshot">>}
      /\ \/ /\ parked[Turn] = None /\ UNCHANGED <<parked, half>> /\ todo' = todo \ {Turn}
            /\ pin' = [pin EXCEPT ![Turn] = None]
         \/ /\ parked[Turn] # None /\ half' = TRUE /\ UNCHANGED <<pin, todo>>
            /\ parked' = [parked EXCEPT ![Turn] = None]
      /\ maps' = Freed(maps, pin', parked', program')
  BY DEF GiveUp
<1>2. Turn \in todo /\ Turn \in NameSet
  BY <1>1, TurnIsNext
<1>3. Source(Turn) # None /\ ~Taken(Turn)
  BY <1>1, <1>2 DEF PinInv, RecreateInv, NameInv, Between
<1>4. NamesOK'
  BY <1>1 DEF PinInv, NamesOK
<1>5. \A n \in NameSet : pin'[n] \in {pin[n], None} /\ parked'[n] \in {parked[n], None}
  BY <1>1 DEF PinInv, NamesOK
<1>6. \A n \in NameSet : Refs(n)' \subseteq Refs(n) \cup {None}
  BY <1>1, <1>5 DEF Refs
<1>7. MapsOK' /\ Kept
  BY <1>1, <1>6, FreedMaps DEF PinInv, Kept
<1> QED BY <1>1, <1>2, <1>3, <1>4, <1>7

\* The second of the two pin operations: the map was parked or given up.
LEMMA UnpinEffect ==
  ASSUME PinInv, Unpin
  PROVE  /\ phase = "recreate" /\ half /\ Turn \in todo /\ Turn \in NameSet
         /\ Taken(Turn) => parked[Turn] # None
         /\ ~Taken(Turn) => parked[Turn] = None /\ GaveUp(Turn)
         /\ pin' = [pin EXCEPT ![Turn] = None] /\ todo' = todo \ {Turn} /\ half' = FALSE
         /\ UNCHANGED <<parked, program, phase, wanted, fate, snapshot, failed, lossy, starts, late>>
         /\ Kept /\ NamesOK' /\ MapsOK'
<1>1. /\ phase = "recreate" /\ half /\ todo # {}
      /\ pin' = [pin EXCEPT ![Turn] = None] /\ todo' = todo \ {Turn} /\ half' = FALSE
      /\ UNCHANGED <<parked, program, phase, wanted, fate, snapshot, failed, lossy, starts, late>>
      /\ maps' = Freed(maps, pin', parked', program')
  BY DEF Unpin, PinInv, LoadOK
<1>2. Turn \in todo /\ Turn \in NameSet
  BY <1>1, TurnIsNext
<1>3. /\ Taken(Turn) => parked[Turn] # None
      /\ ~Taken(Turn) => parked[Turn] = None /\ GaveUp(Turn)
  BY <1>1, <1>2 DEF PinInv, RecreateInv, NameInv, Between
<1>4. NamesOK'
  BY <1>1 DEF PinInv, NamesOK
<1>5. \A n \in NameSet : pin'[n] \in {pin[n], None}
  BY <1>1 DEF PinInv, NamesOK
<1>6. \A n \in NameSet : Refs(n)' \subseteq Refs(n) \cup {None}
  BY <1>1, <1>5 DEF Refs
<1>7. MapsOK' /\ Kept
  BY <1>1, <1>6, FreedMaps DEF PinInv, Kept
<1> QED BY <1>1, <1>2, <1>3, <1>4, <1>7

\* GiveUp and Unpin keep PinInv.
LEMMA GiveUpPins ==
  ASSUME PinInv, GiveUp \/ Unpin
  PROVE  PinInv'
<1>0. PICK name \in NameSet : name = Turn
  BY GiveUpEffect, UnpinEffect
<1>1. /\ phase = "recreate" /\ name \in todo
      /\ fate[name] \in {"Migrate", "RecreateEmpty"}
      /\ UNCHANGED <<program, phase, wanted, fate, snapshot, failed, late>>
      /\ lossy \subseteq lossy' /\ Kept /\ NamesOK' /\ MapsOK'
  <2>1. CASE GiveUp
    BY <1>0, <2>1, GiveUpEffect
  <2>2. CASE Unpin
    BY <1>0, <2>2, UnpinEffect DEF PinInv, RecreateInv, NameInv
  <2> QED BY <2>1, <2>2
<1>2. ~Taken(name) => GaveUp(name)'
  <2>1. CASE GiveUp
    BY <1>0, <2>1, GiveUpEffect DEF GaveUp
  <2>2. CASE Unpin
    BY <1>0, <2>2, UnpinEffect DEF GaveUp
  <2> QED BY <2>1, <2>2
<1>3. \/ /\ parked[name] = None /\ ~half /\ UNCHANGED <<parked, half>> /\ todo' = todo \ {name}
         /\ ~Taken(name) /\ pin' = [pin EXCEPT ![name] = None]
      \/ /\ parked[name] # None /\ half' = TRUE /\ UNCHANGED <<pin, todo>>
         /\ ~Taken(name) /\ ~half /\ parked' = [parked EXCEPT ![name] = None]
      \/ /\ half /\ pin' = [pin EXCEPT ![name] = None] /\ todo' = todo \ {name} /\ half' = FALSE
         /\ UNCHANGED parked /\ (Taken(name) <=> parked[name] # None)
  <2>1. CASE GiveUp
    BY <1>0, <2>1, GiveUpEffect
  <2>2. CASE Unpin
    BY <1>0, <2>2, UnpinEffect
  <2> QED BY <2>1, <2>2
<1>4. \A n \in NameSet : /\ pin'[n] \in {pin[n], None} /\ parked'[n] \in {parked[n], None}
                         /\ n # name => pin'[n] = pin[n] /\ parked'[n] = parked[n]
  BY <1>3 DEF PinInv, NamesOK
<1>5. \A n \in NameSet : /\ pin'[n] # None => maps'[n][pin'[n]] = maps[n][pin'[n]]
                         /\ parked'[n] # None => maps'[n][parked'[n]] = maps[n][parked'[n]]
  BY <1>1 DEF Kept, NamesOK, Refs
<1>6. LoadOK'
  <2>1. half' \in BOOLEAN /\ todo' \subseteq todo
    BY <1>1, <1>3 DEF PinInv, LoadOK
  <2>2. half' => todo' # {}
    BY <1>1, <1>3
  <2> QED BY <1>1, <2>1, <2>2 DEF PinInv, LoadOK
<1>7. ShapeInv'
  <2> SUFFICES ASSUME NEW n \in NameSet \ todo', pin'[n] # None
               PROVE  ShapeOf(n, pin[n])' = Wanted(n)'
    BY <1>1 DEF ShapeInv, AfterLoad
  <2>1. n \notin todo /\ n # name
    BY <1>1, <1>3 DEF PinInv, NamesOK
  <2> QED BY <1>1, <1>4, <1>5, <2>1 DEF PinInv, ShapeInv, ShapeOf, Wanted
<1>8. RecreateInv'
  <2>1. ASSUME NEW n \in NameSet, n # name PROVE NameInv(n)'
    <3>1. /\ n \in todo' <=> n \in todo
          /\ ~Between(n) /\ (Taken(n)' <=> Taken(n))
          /\ GaveUp(n) => GaveUp(n)'
          /\ todo # {} /\ (Source(n)' = Source(n))
      BY <1>0, <1>1, <1>3, <1>4, <2>1 DEF Between, Taken, GaveUp, Source
    <3>2. ~Between(n)'
      BY <1>0, <1>1, <1>3, <2>1 DEF Between, Turn
    <3>3. /\ pin'[n] = pin[n] /\ parked'[n] = parked[n]
          /\ parked[n] # None => Rows(n, parked[n])' = Rows(n, parked[n])
          /\ pin[n] # None => Rows(n, pin[n])' = Rows(n, pin[n])
      BY <1>4, <1>5, <2>1 DEF Rows
    <3> QED BY <1>1, <3>1, <3>2, <3>3 DEF PinInv, RecreateInv, NameInv
  <2>2. NameInv(name)'
    <3>1. CASE Taken(name)
      <4>1. /\ UNCHANGED parked /\ name \notin todo' /\ Taken(name)' /\ ~half' /\ parked[name] # None
        BY <1>1, <1>3, <3>1 DEF Taken
      <4>2. /\ snapshot[name] \subseteq Rows(name, parked[name])
            /\ name \in FrontMaps => snapshot[name] = Rows(name, parked[name])
            /\ fate[name] = "Migrate"
        BY <1>1, <3>1 DEF PinInv, RecreateInv, NameInv
      <4>3. Rows(name, parked[name])' = Rows(name, parked[name])
        BY <1>5, <4>1 DEF Rows
      <4> QED BY <1>1, <4>1, <4>2, <4>3 DEF NameInv, Between
    <3>2. CASE ~Taken(name)
      <4>1. /\ ~Taken(name)' /\ GaveUp(name)' /\ parked'[name] = None
            /\ name \notin todo' => pin'[name] = None
            /\ name \in todo' => half' /\ todo' = todo
        BY <1>1, <1>2, <1>3, <3>2 DEF Taken, PinInv, NamesOK
      <4>2. name \in todo' => Between(name)'
        BY <1>0, <4>1 DEF Between, Turn
      <4> QED BY <1>1, <4>1, <4>2 DEF NameInv
    <3> QED BY <3>1, <3>2
  <2>3. \A n \in NameSet : NameInv(n)'
    BY <2>1, <2>2
  <2> QED BY <1>1, <2>3 DEF PinInv, RecreateInv
<1>9. ParkInv'
  <2>1. \A n \in NameSet : Beside(n)' => Beside(n) /\ pin'[n] = pin[n]
    BY <1>4 DEF Beside
  <2> QED BY <1>1, <2>1 DEF PinInv, ParkInv, AfterLoad
<1>10. AttachInv'
  BY <1>1 DEF AttachInv, OnPins
<1> QED BY <1>1, <1>6, <1>7, <1>8, <1>9, <1>10 DEF PinInv

-----------------------------------------------------------------------------
(* PinInv: the load and the restore.                                       *)

\* A map without a pin can be created: a parked map and those of three
\* classifiers leave one free.
LEMMA FreeMap ==
  ASSUME PinInv, NEW name \in NameSet, pin[name] = None
  PROVE  \E m \in MapIds : maps[name][m] = NoMap
<1> DEFINE Or1(x) == IF x \in MapIds THEN x ELSE 1
           a == parked[name]
           b == program["uplink_ingress"][name]
           c == program["geneve_ingress"][name]
           d == program["uplink_egress_return"][name]
<1>1. \A x : Or1(x) \in MapIds
  BY MapsAssumption DEF MapsAssumption
<1>2. PICK m \in MapIds : m \notin {Or1(a), Or1(b), Or1(c), Or1(d)}
  BY <1>1, MapsAssumption DEF MapsAssumption
<1>3. m # None
  BY MapsAssumption DEF MapsAssumption
<1>4. \A x : Or1(x) # m => x # m
  OBVIOUS
<1>5. m \notin {None, a, b, c, d}
  BY <1>2, <1>3, <1>4
<1>6. Refs(name) = {None, a} \cup {program[h][name] : h \in HookSet}
  BY DEF Refs
<1>7. m \notin Refs(name)
  BY <1>5, <1>6, TheNames
<1> QED BY <1>7 DEF PinInv, MapsOK

\* A new map is empty, of the wanted shape, and nothing referred to it before.
LEMMA CreatePinEffect ==
  ASSUME PinInv, CreatePin
  PROVE  /\ phase = "recreate" /\ todo = {} /\ UNCHANGED <<parked, program, loadVars, lossy, starts, late>>
         /\ \E name \in NameSet : \E id \in MapIds :
              /\ pin[name] = None /\ id \notin Refs(name)
              /\ pin' = [pin EXCEPT ![name] = id]
              /\ maps'[name][id] = [shape |-> Wanted(name), rows |-> {}]
              /\ \A n \in NameSet : \A m \in MapIds : n # name \/ m # id => maps'[n][m] = maps[n][m]
         /\ NamesOK' /\ MapsOK'
<1> DEFINE name == First(Names, Unpinned)
           id == CHOOSE m \in MapIds : maps[name][m] = NoMap
<1>1. /\ phase = "recreate" /\ todo = {} /\ UNCHANGED <<parked, program, loadVars, lossy, starts, late>>
      /\ pin' = [pin EXCEPT ![name] = id]
      /\ maps' = [maps EXCEPT ![name][id] = [shape |-> Wanted(name), rows |-> {}]]
      /\ Unpinned # {}
  BY DEF CreatePin
<1>2. name \in NameSet /\ pin[name] = None
  BY <1>1, FirstName DEF Unpinned
<1>3. id \in MapIds /\ maps[name][id] = NoMap
  BY <1>2, FreeMap
<1> HIDE DEF name, id
<1>4. id \notin Refs(name)
  BY <1>2, <1>3, RefsAreMaps DEF PinInv
<1>5. wanted \in Configs /\ wanted' = wanted
  BY <1>1 DEF PinInv, LoadOK, loadVars
<1> DEFINE shape == Wanted(name)
<1>6. shape \in ShapesFor(name)
  BY <1>5 DEF ShapesFor, Wanted
<1>7. NamesOK'
  BY <1>1, <1>3 DEF PinInv, NamesOK
<1>8. /\ maps' = [n \in NameSet |-> [m \in MapIds |-> maps'[n][m]]]
      /\ \A n \in NameSet : \A m \in MapIds :
           maps'[n][m] = IF n = name /\ m = id THEN [shape |-> shape, rows |-> {}] ELSE maps[n][m]
  <2>1. DOMAIN maps = NameSet /\ \A n \in NameSet : DOMAIN maps[n] = MapIds
    BY DEF PinInv, MapsOK
  <2> HIDE DEF shape
  <2> QED BY <1>1, <1>2, <1>3, <2>1 DEF PinInv, MapsOK, shape
<1> HIDE DEF shape
<1>9. \A n \in NameSet : Refs(n)' = IF n = name THEN (Refs(n) \ {None}) \cup {id} \cup (Refs(n)' \cap {None})
                                     ELSE Refs(n)
  BY <1>1, <1>2, <1>3 DEF Refs, PinInv, NamesOK
<1>10. None \notin MapIds
  BY MapsAssumption DEF MapsAssumption
<1>11. ASSUME NEW n \in NameSet, NEW m \in MapIds
       PROVE  /\ maps'[n][m] = [shape |-> ShapeOf(n, m)', rows |-> Rows(n, m)']
              /\ m \notin Refs(n)' => maps'[n][m] = NoMap
              /\ m \in Refs(n)' =>
                   /\ ShapeOf(n, m)' \in ShapesFor(n) /\ IsFiniteSet(Rows(n, m)')
                   /\ Cardinality(Rows(n, m)') <= ShapeOf(n, m)'.cap
  <2>1. CASE n = name /\ m = id
    <3>1. maps'[n][m] = [shape |-> shape, rows |-> {}] /\ m \in Refs(n)'
      BY <1>8, <1>9, <2>1
    <3>2. shape.cap \in Nat /\ IsFiniteSet({}) /\ Cardinality({}) = 0
      BY <1>2, <1>6, ShapesHaveRoom, FS_EmptySet
    <3>3. Cardinality({}) <= shape.cap
      BY <3>2
    <3> QED BY <1>6, <2>1, <3>1, <3>2, <3>3 DEF ShapeOf, Rows
  <2>2. CASE n # name \/ m # id
    <3>1. maps'[n][m] = maps[n][m] /\ (m \in Refs(n)' <=> m \in Refs(n))
      BY <1>8, <1>9, <1>10, <2>2
    <3> QED BY <3>1 DEF PinInv, MapsOK, ShapeOf, Rows
  <2> QED BY <2>1, <2>2
<1>12. ASSUME NEW m \in MapIds
       PROVE  Rows("FRONT_META", m)' \subseteq Fronts /\ Rows("FLOW_TABLE", m)' \subseteq Flows
  <2>1. "FRONT_META" \in NameSet /\ "FLOW_TABLE" \in NameSet
    BY TheNames
  <2>2. maps["FRONT_META"][m].rows \subseteq Fronts /\ maps["FLOW_TABLE"][m].rows \subseteq Flows
    BY DEF PinInv, MapsOK, Rows
  <2>3. \A n \in NameSet : maps'[n][m].rows = {} \/ maps'[n][m].rows = maps[n][m].rows
    BY <1>8
  <2> QED BY <2>1, <2>2, <2>3 DEF Rows
<1>13. MapsOK'
  BY <1>8, <1>11, <1>12 DEF MapsOK, ShapesFor
<1>14. /\ maps'[name][id] = [shape |-> Wanted(name), rows |-> {}]
       /\ \A n \in NameSet : \A m \in MapIds : n # name \/ m # id => maps'[n][m] = maps[n][m]
  BY <1>2, <1>3, <1>8 DEF shape
<1> QED BY <1>1, <1>2, <1>3, <1>4, <1>7, <1>13, <1>14

\* CreatePin keeps PinInv.
LEMMA CreatePinPins ==
  ASSUME PinInv, CreatePin
  PROVE  PinInv'
<1>1. /\ phase = "recreate" /\ todo = {} /\ UNCHANGED <<parked, program, loadVars, lossy, starts, late>>
      /\ NamesOK' /\ MapsOK'
  BY CreatePinEffect
<1>2. PICK name \in NameSet, id \in MapIds :
              /\ pin[name] = None /\ id \notin Refs(name)
              /\ pin' = [pin EXCEPT ![name] = id]
              /\ maps'[name][id] = [shape |-> Wanted(name), rows |-> {}]
              /\ \A n \in NameSet : \A m \in MapIds : n # name \/ m # id => maps'[n][m] = maps[n][m]
  BY CreatePinEffect
<1>3. UNCHANGED <<phase, wanted, fate, todo, half, snapshot, failed>> /\ ~half
  BY <1>1 DEF loadVars, PinInv, LoadOK
<1>4. \A n \in NameSet : pin'[n] = IF n = name THEN id ELSE pin[n]
  BY <1>2 DEF PinInv, NamesOK
<1>5. \A n \in NameSet : /\ n # name /\ pin[n] # None => maps'[n][pin[n]] = maps[n][pin[n]]
                         /\ parked[n] # None => maps'[n][parked[n]] = maps[n][parked[n]]
  <2>1. parked[name] # id
    BY <1>2 DEF Refs
  <2> QED BY <1>2, <2>1 DEF PinInv, NamesOK
<1>6. id # None
  BY MapsAssumption DEF MapsAssumption
<1>7. LoadOK'
  BY <1>1, <1>3 DEF PinInv, LoadOK
<1>8. ShapeInv'
  <2>1. Wanted(name)' = Wanted(name) /\ ShapeOf(name, pin[name])' = Wanted(name)
    BY <1>2, <1>3, <1>4 DEF Wanted, ShapeOf
  <2>2. ASSUME NEW n \in NameSet, pin'[n] # None, n # name
        PROVE  ShapeOf(n, pin[n])' = Wanted(n)'
    BY <1>1, <1>3, <1>4, <1>5, <2>2 DEF PinInv, ShapeInv, ShapeOf, Wanted
  <2> QED BY <1>1, <1>3, <2>1, <2>2 DEF ShapeInv, AfterLoad
<1>9. RecreateInv'
  <2>1. ASSUME NEW n \in NameSet PROVE NameInv(n)'
    <3>1. /\ todo' = {} /\ ~Between(n)' /\ ~Between(n) /\ (Taken(n)' <=> Taken(n))
          /\ (GaveUp(n)' <=> GaveUp(n)) /\ NameInv(n)
      BY <1>1, <1>3 DEF Between, Taken, GaveUp, PinInv, RecreateInv
    <3>2. parked[n] # None => Rows(n, parked[n])' = Rows(n, parked[n])
      BY <1>1, <1>5 DEF Rows
    <3>3. CASE n = name
      <4>1. /\ pin'[n] # None /\ Rows(n, pin[n])' = {}
            /\ \A h \in HookSet : program'[h][n] # pin'[n]
        BY <1>1, <1>2, <1>4, <1>6, <3>3 DEF Rows, Refs
      <4> QED BY <1>1, <1>3, <3>1, <3>2, <4>1 DEF NameInv
    <3>4. CASE n # name
      <4>1. pin'[n] = pin[n] /\ (pin[n] # None => Rows(n, pin[n])' = Rows(n, pin[n]))
        BY <1>4, <1>5, <3>4 DEF Rows
      <4> QED BY <1>1, <1>3, <3>1, <3>2, <4>1 DEF NameInv
    <3> QED BY <3>3, <3>4
  <2> QED BY <1>3, <2>1 DEF PinInv, RecreateInv
<1>10. ParkInv'
  <2>1. ASSUME NEW n \in NameSet, Beside(n)', NEW h \in HookSet PROVE program'[h][n] # pin'[n]
    <3>1. CASE n = name
      BY <1>1, <1>2, <1>4, <3>1 DEF Refs
    <3>2. CASE n # name
      BY <1>1, <1>4, <2>1, <3>2 DEF Beside, PinInv, ParkInv
    <3> QED BY <3>1, <3>2
  <2> QED BY <1>1, <1>3, <2>1 DEF PinInv, ParkInv, AfterLoad
<1>11. AttachInv'
  BY <1>1, <1>3 DEF AttachInv, OnPins
<1> QED BY <1>1, <1>7, <1>8, <1>9, <1>10, <1>11 DEF PinInv

\* The entries of the restore plan, map by map.
LEMMA PlannedWrites ==
  ASSUME PlanRestore
  PROVE  /\ \A w \in todo' : w = <<w[1], w[2]>> /\ w[1] \in NameSet
         /\ RowsTodo("FLOW_TABLE")' = AdmittedFlows
         /\ RowsTodo("FRONT_META")' = AdmittedFronts
         /\ RowsTodo("FRONT_ENDPOINTS")' = UNION {RowsOf(f) : f \in AdmittedFronts}
<1> DEFINE A == AdmittedFlows
           B == AdmittedFronts
           C == UNION {RowsOf(f) : f \in AdmittedFronts}
<1>1. todo' = ({"FLOW_TABLE"} \X A) \cup ({"FRONT_META"} \X B) \cup ({"FRONT_ENDPOINTS"} \X C)
  BY DEF PlanRestore, Writes
<1> HIDE DEF A, B, C
<1>2. \A w \in todo' : w = <<w[1], w[2]>> /\ w[1] \in NameSet
  BY <1>1, TheNames
<1>3. \A r : /\ <<"FLOW_TABLE", r>> \in todo' <=> r \in A
             /\ <<"FRONT_META", r>> \in todo' <=> r \in B
             /\ <<"FRONT_ENDPOINTS", r>> \in todo' <=> r \in C
  BY <1>1
<1>4. \A name, r : r \in RowsTodo(name)' <=> <<name, r>> \in todo'
  <2> SUFFICES ASSUME NEW name, NEW r PROVE r \in RowsTodo(name)' <=> <<name, r>> \in todo'
    OBVIOUS
  <2> DEFINE T == todo'
  <2>1. \A w \in T : w = <<w[1], w[2]>>
    BY <1>2
  <2> HIDE DEF T
  <2>2. r \in {w[2] : w \in {x \in T : x[1] = name}} <=> <<name, r>> \in T
    BY <2>1, PairsTodo
  <2> QED BY <2>2 DEF T, RowsTodo
<1> QED BY <1>2, <1>3, <1>4 DEF A, B, C

\* What is restored was in the parked maps.
LEMMA PlanRestoreEffect ==
  ASSUME PinInv, PlanRestore
  PROVE  /\ phase = "recreate" /\ todo = {} /\ phase' = "restore" /\ Still /\ ~half
         /\ UNCHANGED <<starts, wanted, half, failed, late>> /\ wanted \in Configs
         /\ fate' = NoFates /\ snapshot' = [name \in DOMAIN snapshot |-> {}]
         /\ lossy \subseteq lossy'
         /\ \A name \in NameSet :
              /\ pin[name] \in MapIds /\ ShapeOf(name, pin[name]) = Wanted(name)
              /\ parked[name] # None <=> Taken(name)
              /\ Taken(name) => parked[name] \in MapIds /\ fate[name] = "Migrate"
              /\ Taken(name) => Snapshot(name) \subseteq Rows(name, parked[name])
              /\ Taken(name) /\ name \in FrontMaps => Snapshot(name) = Rows(name, parked[name])
              /\ ~Taken(name) => Snapshot(name) = {}
              /\ \A r \in RowsTodo(name)' : r \in Snapshot(name)
         /\ Snapshot("FRONT_META") \subseteq Fronts /\ Snapshot("FLOW_TABLE") \subseteq Flows
<1>1. /\ phase = "recreate" /\ todo = {} /\ phase' = "restore" /\ Still /\ Unpinned = {}
      /\ UNCHANGED <<starts, wanted, half, failed, late>> /\ lossy \subseteq lossy'
      /\ fate' = NoFates /\ snapshot' = [name \in DOMAIN snapshot |-> {}]
  BY DEF PlanRestore, Still
<1>2. ~half /\ wanted \in Configs
  BY <1>1 DEF PinInv, LoadOK
<1>3. ASSUME NEW name \in NameSet
      PROVE  /\ pin[name] \in MapIds /\ ShapeOf(name, pin[name]) = Wanted(name)
             /\ parked[name] # None <=> Taken(name)
             /\ Taken(name) => parked[name] \in MapIds /\ fate[name] = "Migrate"
             /\ Taken(name) => snapshot[name] \subseteq Rows(name, parked[name])
             /\ Taken(name) /\ name \in FrontMaps => snapshot[name] = Rows(name, parked[name])
  <2>1. pin[name] # None
    BY <1>1 DEF Unpinned
  <2> QED BY <1>1, <2>1 DEF PinInv, ShapeInv, NamesOK, RecreateInv, NameInv
<1>4. Snapshot("FRONT_META") \subseteq Fronts /\ Snapshot("FLOW_TABLE") \subseteq Flows
  BY DEF Snapshot, PinInv, LoadOK
<1>5. \A r \in RowsTodo("FLOW_TABLE")' : r \in Snapshot("FLOW_TABLE")
  BY PlannedWrites DEF AdmittedFlows
<1>6. \A f \in AdmittedFronts : f \in Snapshot("FRONT_META") /\ RowsOf(f) \subseteq Snapshot("FRONT_ENDPOINTS")
  BY <1>4, PlanWhole DEF AdmittedFronts
<1>7. /\ \A r \in RowsTodo("FRONT_META")' : r \in Snapshot("FRONT_META")
      /\ \A r \in RowsTodo("FRONT_ENDPOINTS")' : r \in Snapshot("FRONT_ENDPOINTS")
  BY <1>6, PlannedWrites
<1>8. \A name \in NameSet : \A r \in RowsTodo(name)' : r \in Snapshot(name)
  BY <1>5, <1>7, TheNames
<1> QED BY <1>1, <1>2, <1>3, <1>4, <1>8 DEF Snapshot, Taken

\* PlanRestore keeps PinInv.
LEMMA PlanRestorePins ==
  ASSUME PinInv, PlanRestore
  PROVE  PinInv'
<1>1. /\ phase = "recreate" /\ todo = {} /\ phase' = "restore" /\ Still /\ ~half
      /\ UNCHANGED <<wanted, half, failed, late>> /\ wanted \in Configs
      /\ fate' = NoFates /\ snapshot' = [name \in DOMAIN snapshot |-> {}]
      /\ Snapshot("FRONT_META") \subseteq Fronts /\ Snapshot("FLOW_TABLE") \subseteq Flows
  BY PlanRestoreEffect
<1>2. \A name \in NameSet :
              /\ pin[name] \in MapIds /\ ShapeOf(name, pin[name]) = Wanted(name)
              /\ parked[name] # None <=> Taken(name)
              /\ Taken(name) => Snapshot(name) \subseteq Rows(name, parked[name])
              /\ ~Taken(name) => Snapshot(name) = {}
              /\ \A r \in RowsTodo(name)' : r \in Snapshot(name)
  BY PlanRestoreEffect
<1>3. NamesOK' /\ MapsOK'
  BY <1>1, StillMaps DEF PinInv
<1>4. None \notin MapIds /\ NoConfig \notin Configs
  BY MapsAssumption DEF MapsAssumption
<1>5. LoadOK'
  <2>1. \A w \in todo' : w = <<w[1], w[2]>> /\ w[1] \in NameSet
    BY PlannedWrites
  <2>2. RowsTodo("FRONT_META")' \subseteq Fronts /\ RowsTodo("FLOW_TABLE")' \subseteq Flows
    BY <1>1, <1>2, TheNames
  <2>3. /\ DOMAIN snapshot' = DOMAIN snapshot /\ \A n \in DOMAIN snapshot : snapshot'[n] = {}
        /\ snapshot' = [n \in DOMAIN snapshot' |-> snapshot'[n]]
    BY <1>1
  <2>4. fate' \in [NameSet -> {"none", "Keep", "Migrate", "RecreateEmpty"}]
    BY <1>1 DEF NoFates
  <2> QED BY <1>1, <1>4, <2>1, <2>2, <2>3, <2>4 DEF PinInv, LoadOK, AfterLoad
<1>6. ShapeInv'
  BY <1>1, <1>2, <1>4 DEF ShapeInv, Still, ShapeOf, Wanted
<1>7. ParkInv'
  <2>1. \A name \in NameSet : Taken(name)' <=> Taken(name)
    BY <1>1 DEF Taken
  <2>2. \A name \in NameSet : parked'[name] # None <=> Taken(name)'
    BY <1>1, <1>2, <2>1 DEF Still
  <2>3. \A name \in NameSet : Beside(name)' => \A h \in HookSet : program'[h][name] # pin'[name]
    BY <1>1 DEF Still, Beside, PinInv, ParkInv
  <2>4. \A name \in NameSet : \A r \in RowsTodo(name)' : Taken(name) /\ r \in Rows(name, parked[name])
    BY <1>2
  <2>5. \A name \in NameSet : \A r \in RowsTodo(name)' : Taken(name)' /\ r \in Rows(name, parked[name])'
    BY <1>1, <2>1, <2>4 DEF Still, Rows
  <2> QED BY <1>1, <2>2, <2>3, <2>5 DEF ParkInv, AfterLoad
<1>8. RecreateInv' /\ AttachInv'
  BY <1>1 DEF RecreateInv, AttachInv, OnPins
<1> QED BY <1>3, <1>5, <1>6, <1>7, <1>8 DEF PinInv

\* A write of the restore.
LEMMA RestoreWriteEffect ==
  ASSUME PinInv, RestoreWrite
  PROVE  /\ phase = "restore"
         /\ UNCHANGED <<pin, parked, program, phase, wanted, fate, half, snapshot, lossy, starts, late>>
         /\ todo' \subseteq todo
         /\ \E name \in NameSet : \E row :
              /\ <<name, row>> \in todo /\ pin[name] \in MapIds /\ parked[name] \in MapIds
              /\ row \in Rows(name, parked[name]) /\ ShapeOf(name, pin[name]).cap = Cap(name)
              /\ \/ failed' = TRUE /\ UNCHANGED maps
                 \/ /\ UNCHANGED failed /\ todo' = todo \ {<<name, row>>}
                    /\ \/ row \in Rows(name, pin[name]) /\ Written(name, pin[name], Rows(name, pin[name]))
                       \/ /\ row \notin Rows(name, pin[name]) /\ Cardinality(Rows(name, pin[name])) < Cap(name)
                          /\ Written(name, pin[name], Rows(name, pin[name]) \cup {row})
                       \/ /\ row \notin Rows(name, pin[name]) /\ name = "FLOW_TABLE"
                          /\ Cardinality(Rows(name, pin[name])) >= Cap(name)
                          /\ \E old \in Rows(name, pin[name]) :
                               Written(name, pin[name], (Rows(name, pin[name]) \ {old}) \cup {row})
<1> DEFINE name == First(RestoreOrder, {x[1] : x \in todo})
           row == (CHOOSE x \in todo : x[1] = name)[2]
           rows == maps[name][pin[name]].rows
           full == name \in FrontMaps /\ row \notin rows /\ Cardinality(rows) >= Cap(name)
<1>1. /\ phase = "restore" /\ todo # {}
      /\ UNCHANGED <<pin, parked, program, phase, wanted, fate, half, snapshot, lossy, starts, late>>
  BY DEF RestoreWrite
<1>2. \E ok \in {~full, FALSE} :
        IF WriteLanded(rows, row, ok)
        THEN /\ \E new \in Inserted(name, rows, row) :
                  maps' = [maps EXCEPT ![name][pin[name]].rows = new]
             /\ todo' = todo \ {<<name, row>>} /\ UNCHANGED failed
        ELSE /\ failed' = TRUE /\ UNCHANGED maps
             /\ todo' = todo \ ({<<name, row>>} \cup
                          IF name = "FRONT_ENDPOINTS" THEN {<<"FRONT_META", row[1]>>} ELSE {})
  BY DEF RestoreWrite
<1>3. \A w \in todo : w = <<w[1], w[2]>> /\ w[1] \in NameSet
  BY <1>1 DEF PinInv, LoadOK
<1>4. name \in {x[1] : x \in todo}
  <2>1. {x[1] : x \in todo} \subseteq NameSet /\ {x[1] : x \in todo} # {}
    BY <1>1, <1>3
  <2> QED BY <2>1, FirstRestored
<1>5. name \in NameSet /\ <<name, row>> \in todo
  <2> HIDE DEF name
  <2>1. \E x \in todo : x[1] = name
    BY <1>4
  <2> DEFINE x == CHOOSE x \in todo : x[1] = name
  <2>2. x \in todo /\ x[1] = name
    BY <2>1
  <2> HIDE DEF x
  <2>3. row = x[2]
    BY DEF x
  <2> QED BY <1>3, <2>2, <2>3
<1> HIDE DEF name, row
<1>6. row \in RowsTodo(name)
  <2>1. row \in {w[2] : w \in {x \in todo : x[1] = name}} <=> <<name, row>> \in todo
    BY <1>3, PairsTodo
  <2> QED BY <1>5, <2>1 DEF RowsTodo
<1>7. /\ pin[name] \in MapIds /\ parked[name] \in MapIds /\ row \in Rows(name, parked[name])
      /\ ShapeOf(name, pin[name]).cap = Cap(name)
  <2>1. parked[name] # None /\ row \in Rows(name, parked[name])
    BY <1>1, <1>5, <1>6 DEF PinInv, ParkInv
  <2>2. pin[name] # None /\ ShapeOf(name, pin[name]) = Wanted(name)
    BY <1>1, <1>5 DEF PinInv, ShapeInv
  <2> QED BY <1>5, <2>1, <2>2 DEF PinInv, NamesOK, Cap
<1> HIDE DEF rows
<1>8. rows = Rows(name, pin[name])
  BY DEF rows, Rows
<1>9. PICK ok \in {~full, FALSE} :
        IF WriteLanded(rows, row, ok)
        THEN /\ \E new \in Inserted(name, rows, row) :
                  maps' = [maps EXCEPT ![name][pin[name]].rows = new]
             /\ todo' = todo \ {<<name, row>>} /\ UNCHANGED failed
        ELSE /\ failed' = TRUE /\ UNCHANGED maps
             /\ todo' = todo \ ({<<name, row>>} \cup
                          IF name = "FRONT_ENDPOINTS" THEN {<<"FRONT_META", row[1]>>} ELSE {})
  BY <1>2
<1>10. CASE ~WriteLanded(rows, row, ok)
  <2>1. failed' = TRUE /\ UNCHANGED maps /\ todo' \subseteq todo
    BY <1>9, <1>10
  <2> QED BY <1>1, <1>5, <1>7, <2>1
<1>11. CASE WriteLanded(rows, row, ok)
  <2>1. PICK new \in Inserted(name, rows, row) : maps' = [maps EXCEPT ![name][pin[name]].rows = new]
    BY <1>9, <1>11
  <2>2. todo' = todo \ {<<name, row>>} /\ UNCHANGED failed
    BY <1>9, <1>11
  <2>3. Written(name, pin[name], new)
    BY <1>5, <1>7, <2>1, RowsSet DEF PinInv
  <2>4. row \in rows \/ ~full
    BY <1>11 DEF WriteLanded
  <2>5. Cardinality(rows) \in Nat /\ Cap(name) \in Nat
    <3>1. pin[name] \in Refs(name)
      BY DEF Refs
    <3>2. IsFiniteSet(rows) /\ ShapeOf(name, pin[name]) \in ShapesFor(name)
      BY <1>5, <1>7, <1>8, <3>1 DEF PinInv, MapsOK
    <3> QED BY <1>5, <1>7, <3>2, ShapesHaveRoom, FS_CardinalityType
  <2>6. name # "FLOW_TABLE" => name \in FrontMaps
    BY <1>5, TheNames DEF FrontMaps
  <2>7. CASE row \in rows
    <3>1. new = rows
      BY <2>1, <2>7 DEF Inserted
    <3> QED BY <1>1, <1>5, <1>7, <1>8, <2>2, <2>3, <2>7, <3>1
  <2>8. CASE row \notin rows /\ Cardinality(rows) < Cap(name)
    <3>1. new = rows \cup {row}
      BY <2>1, <2>5, <2>8 DEF Inserted
    <3> QED BY <1>1, <1>5, <1>7, <1>8, <2>2, <2>3, <2>8, <3>1
  <2>9. CASE row \notin rows /\ ~(Cardinality(rows) < Cap(name))
    <3>1. Cardinality(rows) >= Cap(name)
      BY <2>5, <2>9
    <3>2. name = "FLOW_TABLE"
      BY <2>4, <2>6, <2>9, <3>1
    <3>3. PICK old \in rows : new = (rows \ {old}) \cup {row}
      BY <2>1, <2>9, <3>1, <3>2 DEF Inserted
    <3> QED BY <1>1, <1>5, <1>7, <1>8, <2>2, <2>3, <2>9, <3>1, <3>2, <3>3
  <2> QED BY <2>7, <2>8, <2>9
<1> QED BY <1>10, <1>11

\* One more row.
LEMMA OneMore ==
  ASSUME NEW S, IsFiniteSet(S), NEW x, NEW T \in SUBSET (S \cup {x})
  PROVE  /\ IsFiniteSet(T) /\ Cardinality(T) \in Nat /\ Cardinality(S) \in Nat
         /\ Cardinality(T) <= Cardinality(S) + 1
<1>1. IsFiniteSet(S \cup {x}) /\ Cardinality(S) \in Nat
  BY FS_AddElement, FS_CardinalityType
<1>2. Cardinality(S \cup {x}) = Cardinality(S) \/ Cardinality(S \cup {x}) = Cardinality(S) + 1
  BY FS_AddElement
<1>3. IsFiniteSet(T) /\ Cardinality(T) <= Cardinality(S \cup {x})
  BY <1>1, FS_Subset
<1>4. Cardinality(T) \in Nat
  BY <1>3, FS_CardinalityType
<1> QED BY <1>1, <1>2, <1>3, <1>4

\* A row that is added is missing in the new map only: the parked maps and those of
\* the classifiers stay as they are.
LandedWrite(name, row, new) ==
    /\ pin[name] \in MapIds /\ parked[name] \in MapIds /\ row \in Rows(name, parked[name])
    /\ Written(name, pin[name], new)
    /\ new = Rows(name, pin[name]) \/ row \notin Rows(name, pin[name])
    /\ new \subseteq Rows(name, pin[name]) \cup {row}
    /\ \/ new = Rows(name, pin[name]) \/ Cardinality(Rows(name, pin[name])) < ShapeOf(name, pin[name]).cap
       \/ \E old \in Rows(name, pin[name]) : new = (Rows(name, pin[name]) \ {old}) \cup {row}

Undisturbed ==
    /\ \A n \in NameSet : \A m \in MapIds : maps'[n][m].shape = maps[n][m].shape
    /\ \A n \in NameSet : parked[n] # None => maps'[n][parked[n]].rows = maps[n][parked[n]].rows
    /\ \A n \in NameSet : \A h \in HookSet : program[h][n] # None =>
         maps'[n][program[h][n]].rows = maps[n][program[h][n]].rows

\* A write that landed leaves the used maps undisturbed and the new one well-formed.
LEMMA LandedWriteKeeps ==
  ASSUME PinInv, UNCHANGED <<pin, parked, program>>,
         NEW name \in NameSet, NEW row, NEW new, LandedWrite(name, row, new)
  PROVE  MapsOK' /\ Undisturbed
<1> DEFINE rows == Rows(name, pin[name])
<1>1. pin[name] \in Refs(name) /\ parked[name] \in Refs(name)
  BY DEF Refs
<1>2. /\ IsFiniteSet(rows) /\ Cardinality(rows) <= ShapeOf(name, pin[name]).cap
      /\ ShapeOf(name, pin[name]) \in ShapesFor(name)
  BY <1>1 DEF PinInv, MapsOK, LandedWrite
<1>3. ShapeOf(name, pin[name]).cap \in Nat
  BY <1>2, ShapesHaveRoom
<1> HIDE DEF rows
<1>4. /\ IsFiniteSet(new) /\ Cardinality(rows) \in Nat /\ Cardinality(new) \in Nat
      /\ Cardinality(new) <= Cardinality(rows) + 1
  BY <1>2, OneMore DEF LandedWrite, rows
<1>5. Cardinality(new) <= ShapeOf(name, pin[name]).cap
  <2>1. CASE Cardinality(rows) < ShapeOf(name, pin[name]).cap
    BY <1>3, <1>4, <2>1
  <2>2. CASE new = rows
    BY <1>2, <2>2
  <2>3. CASE \E old \in rows : new = (rows \ {old}) \cup {row}
    <3>1. PICK old \in rows : new = (rows \ {old}) \cup {row}
      BY <2>3
    <3> DEFINE rest == rows \ {old}
    <3>2. IsFiniteSet(rest) /\ Cardinality(rest) = Cardinality(rows) - 1
      BY <1>2, <3>1, FS_RemoveElement
    <3>3. new \in SUBSET (rest \cup {row})
      BY <3>1
    <3> HIDE DEF rest
    <3>4. Cardinality(new) <= Cardinality(rest) + 1 /\ Cardinality(rest) \in Nat
      BY <3>2, <3>3, OneMore
    <3> QED BY <1>2, <1>3, <1>4, <3>2, <3>4
  <2> QED BY <2>1, <2>2, <2>3 DEF LandedWrite, rows
<1>6. /\ name = "FRONT_META" => new \subseteq Fronts
      /\ name = "FLOW_TABLE" => new \subseteq Flows
  <2>1. new \subseteq rows \cup {row}
    BY DEF LandedWrite, rows
  <2>2. /\ name = "FRONT_META" => rows \subseteq Fronts /\ row \in Fronts
        /\ name = "FLOW_TABLE" => rows \subseteq Flows /\ row \in Flows
    BY DEF PinInv, MapsOK, LandedWrite, rows
  <2> QED BY <2>1, <2>2
<1>7. Written(name, pin[name], new) /\ pin[name] \in MapIds
  BY DEF LandedWrite
<1>8. MapsOK'
  BY <1>1, <1>4, <1>5, <1>6, <1>7, WrittenMaps DEF PinInv
<1>9. \A n \in NameSet : \A m \in MapIds : maps'[n][m].shape = maps[n][m].shape
  BY <1>7 DEF Written
<1>10. \A n \in NameSet : /\ parked[n] # None => parked[n] \in MapIds
                          /\ \A h \in HookSet : program[h][n] # None => program[h][n] \in MapIds
  BY DEF PinInv, NamesOK
<1>11. CASE new = rows
  <2>1. \A n \in NameSet : \A m \in MapIds : maps'[n][m].rows = maps[n][m].rows
    BY <1>7, <1>11 DEF Written, rows, Rows
  <2> QED BY <1>8, <1>9, <1>10, <2>1 DEF Undisturbed
<1>12. CASE new # rows
  <2>1. pin[name] # None /\ parked[name] # None /\ pin[name] # parked[name]
    BY <1>12, MapsAssumption DEF MapsAssumption, LandedWrite, rows
  <2>2. \A h \in HookSet : program[h][name] # pin[name]
    BY <2>1 DEF Beside, PinInv, ParkInv
  <2>3. \A n \in NameSet : \A m \in MapIds : n # name \/ m # pin[name] => maps'[n][m] = maps[n][m]
    BY <1>7 DEF Written
  <2>4. \A n \in NameSet : parked[n] # None => maps'[n][parked[n]] = maps[n][parked[n]]
    BY <1>10, <2>1, <2>3
  <2>5. \A n \in NameSet : \A h \in HookSet : program[h][n] # None => maps'[n][program[h][n]] = maps[n][program[h][n]]
    BY <1>10, <2>2, <2>3
  <2> QED BY <1>8, <1>9, <2>4, <2>5 DEF Undisturbed
<1> QED BY <1>11, <1>12

\* ... as does any write of the restore.
LEMMA RestoreWriteKeeps ==
  ASSUME PinInv, RestoreWrite
  PROVE  NamesOK' /\ MapsOK' /\ Undisturbed
<1>1. UNCHANGED <<pin, parked, program>>
  BY RestoreWriteEffect
<1>2. NamesOK'
  BY <1>1 DEF PinInv, NamesOK
<1>3. CASE UNCHANGED maps
  <2>1. Still
    BY <1>1, <1>3 DEF Still
  <2> QED BY <1>2, <1>3, <2>1, StillMaps DEF PinInv, Undisturbed
<1>4. CASE ~UNCHANGED maps
  <2>1. PICK name, row :
              /\ name \in NameSet /\ <<name, row>> \in todo /\ pin[name] \in MapIds /\ parked[name] \in MapIds
              /\ row \in Rows(name, parked[name]) /\ ShapeOf(name, pin[name]).cap = Cap(name)
              /\ \/ row \in Rows(name, pin[name]) /\ Written(name, pin[name], Rows(name, pin[name]))
                 \/ /\ row \notin Rows(name, pin[name]) /\ Cardinality(Rows(name, pin[name])) < Cap(name)
                    /\ Written(name, pin[name], Rows(name, pin[name]) \cup {row})
                 \/ /\ row \notin Rows(name, pin[name])
                    /\ \E old \in Rows(name, pin[name]) :
                         Written(name, pin[name], (Rows(name, pin[name]) \ {old}) \cup {row})
    BY <1>4, RestoreWriteEffect
  <2>2. CASE row \in Rows(name, pin[name]) /\ Written(name, pin[name], Rows(name, pin[name]))
    <3>1. LandedWrite(name, row, Rows(name, pin[name]))
      BY <2>1, <2>2 DEF LandedWrite
    <3> QED BY <1>1, <1>2, <2>1, <3>1, LandedWriteKeeps
  <2>3. CASE /\ row \notin Rows(name, pin[name]) /\ Cardinality(Rows(name, pin[name])) < Cap(name)
             /\ Written(name, pin[name], Rows(name, pin[name]) \cup {row})
    <3>1. LandedWrite(name, row, Rows(name, pin[name]) \cup {row})
      BY <2>1, <2>3 DEF LandedWrite
    <3> QED BY <1>1, <1>2, <2>1, <3>1, LandedWriteKeeps
  <2>4. CASE /\ row \notin Rows(name, pin[name])
             /\ \E old \in Rows(name, pin[name]) :
                  Written(name, pin[name], (Rows(name, pin[name]) \ {old}) \cup {row})
    <3>1. PICK old \in Rows(name, pin[name]) :
                  Written(name, pin[name], (Rows(name, pin[name]) \ {old}) \cup {row})
      BY <2>4
    <3>2. LandedWrite(name, row, (Rows(name, pin[name]) \ {old}) \cup {row})
      BY <2>1, <2>4, <3>1 DEF LandedWrite
    <3> QED BY <1>1, <1>2, <2>1, <3>2, LandedWriteKeeps
  <2> QED BY <2>1, <2>2, <2>3, <2>4
<1> QED BY <1>3, <1>4

\* RestoreWrite keeps PinInv.
LEMMA RestoreWritePins ==
  ASSUME PinInv, RestoreWrite
  PROVE  PinInv'
<1>1. /\ phase = "restore" /\ todo' \subseteq todo
      /\ UNCHANGED <<pin, parked, program, phase, wanted, fate, half, snapshot, lossy, starts, late>>
  BY RestoreWriteEffect
<1>2. NamesOK' /\ MapsOK' /\ Undisturbed
  BY RestoreWriteKeeps
<1>3. \A name : RowsTodo(name)' \subseteq RowsTodo(name)
  BY <1>1 DEF RowsTodo
<1>4. failed' \in BOOLEAN
  BY RestoreWriteEffect DEF PinInv, LoadOK
<1>5. LoadOK'
  BY <1>1, <1>3, <1>4 DEF PinInv, LoadOK
<1>6. ShapeInv'
  <2>1. \A n \in NameSet : pin[n] # None => pin[n] \in MapIds
    BY DEF PinInv, NamesOK
  <2> QED BY <1>1, <1>2, <2>1 DEF PinInv, ShapeInv, ShapeOf, Wanted, Undisturbed
<1>7. ParkInv'
  <2>1. \A name \in NameSet : \A r \in RowsTodo(name)' : Taken(name) /\ r \in maps[name][parked[name]].rows
    BY <1>1, <1>3 DEF PinInv, ParkInv, Rows
  <2>2. \A name \in NameSet : parked[name] # None <=> Taken(name)
    BY <1>1 DEF PinInv, ParkInv
  <2>3. \A name \in NameSet : \A r \in RowsTodo(name)' : Taken(name)' /\ r \in Rows(name, parked[name])'
    BY <1>1, <1>2, <2>1, <2>2 DEF Undisturbed, Taken, Rows
  <2>4. \A name \in NameSet : Beside(name)' => \A h \in HookSet : program'[h][name] # pin'[name]
    BY <1>1 DEF PinInv, ParkInv, Beside
  <2> QED BY <1>1, <2>2, <2>3, <2>4 DEF ParkInv, Taken, AfterLoad
<1>8. RecreateInv' /\ AttachInv'
  BY <1>1 DEF RecreateInv, AttachInv, OnPins
<1> QED BY <1>2, <1>5, <1>6, <1>7, <1>8 DEF PinInv

\* A write of the restore adds an entry of the plan to its map; unless it fails, or
\* a full LRU map evicts another one, nothing of the plan gets lost.
LEMMA RestoreWriteRows ==
  ASSUME PinInv, RestoreWrite, NEW n \in NameSet,
         \/ n \in FrontMaps
         \/ \A r \in RowsTodo(n) : r \in Rows(n, pin[n]) \/ Cardinality(Rows(n, pin[n])) < Cap(n)
  PROVE  /\ Rows(n, pin[n]) \subseteq Rows(n, pin[n])'
         /\ Rows(n, pin[n])' \cup RowsTodo(n)' \subseteq Rows(n, pin[n]) \cup RowsTodo(n)
         /\ ~failed' => ~failed
         /\ ~failed' => Rows(n, pin[n]) \cup RowsTodo(n) \subseteq Rows(n, pin[n])' \cup RowsTodo(n)'
<1>1. /\ phase = "restore" /\ UNCHANGED pin /\ todo' \subseteq todo
  BY RestoreWriteEffect
<1>2. PICK name, row :
        /\ name \in NameSet /\ <<name, row>> \in todo
        /\ \/ failed' = TRUE /\ UNCHANGED maps
           \/ /\ UNCHANGED failed /\ todo' = todo \ {<<name, row>>}
              /\ \/ row \in Rows(name, pin[name]) /\ Written(name, pin[name], Rows(name, pin[name]))
                 \/ Written(name, pin[name], Rows(name, pin[name]) \cup {row})
                 \/ /\ row \notin Rows(name, pin[name]) /\ name = "FLOW_TABLE"
                    /\ Cardinality(Rows(name, pin[name])) >= Cap(name)
                    /\ \E out : Written(name, pin[name], (Rows(name, pin[name]) \ {out}) \cup {row})
  BY RestoreWriteEffect
<1>3. pin[n] \in MapIds
  BY <1>1 DEF PinInv, ShapeInv, NamesOK
<1>4. \A w \in todo : w = <<w[1], w[2]>>
  BY <1>1 DEF PinInv, LoadOK
<1>5. \A r : r \in RowsTodo(n) <=> <<n, r>> \in todo
  BY <1>4, PairsTodo DEF RowsTodo
<1>6. \A r : r \in RowsTodo(n)' <=> <<n, r>> \in todo'
  BY <1>1, <1>4, PairsTodo DEF RowsTodo
<1> DEFINE old == Rows(n, pin[n])
           new == Rows(n, pin[n])'
<1>7. CASE failed' = TRUE /\ UNCHANGED maps
  <2>1. new = old
    BY <1>1, <1>7 DEF Rows
  <2>2. RowsTodo(n)' \subseteq RowsTodo(n)
    BY <1>1, <1>5, <1>6
  <2>3. ~(~failed')
    BY <1>7
  <2> HIDE DEF old, new
  <2> QED BY <2>1, <2>2, <2>3 DEF old, new
<1>8. CASE /\ UNCHANGED failed /\ todo' = todo \ {<<name, row>>}
           /\ \/ row \in Rows(name, pin[name]) /\ Written(name, pin[name], Rows(name, pin[name]))
              \/ Written(name, pin[name], Rows(name, pin[name]) \cup {row})
              \/ /\ row \notin Rows(name, pin[name]) /\ name = "FLOW_TABLE"
                 /\ Cardinality(Rows(name, pin[name])) >= Cap(name)
                 /\ \E out : Written(name, pin[name], (Rows(name, pin[name]) \ {out}) \cup {row})
  <2>1. n # name => new = old
    <3>1. \A any : Written(name, pin[name], any) /\ n # name => maps'[n][pin[n]] = maps[n][pin[n]]
      BY <1>3 DEF Written
    <3> QED BY <1>1, <1>8, <3>1 DEF Rows
  <2>2. n = name => old \subseteq new /\ new \subseteq old \cup {row} /\ row \in new
    <3> SUFFICES ASSUME n = name PROVE old \subseteq new /\ new \subseteq old \cup {row} /\ row \in new
      OBVIOUS
    <3>1. \A any : Written(n, pin[n], any) => maps'[n][pin[n]].rows = any
      BY <1>3 DEF Written
    <3>2. CASE row \in old /\ Written(n, pin[n], old)
      <4>1. new = old
        BY <1>1, <3>1, <3>2 DEF Rows
      <4> QED BY <3>2, <4>1
    <3>3. CASE Written(n, pin[n], old \cup {row})
      <4>1. new = old \cup {row}
        BY <1>1, <3>1, <3>3 DEF Rows
      <4> QED BY <4>1
    <3>4. CASE row \notin old /\ n = "FLOW_TABLE" /\ Cardinality(old) >= Cap(n)
      <4>1. row \in RowsTodo(n) /\ n \notin FrontMaps
        BY <1>2, <1>5, <3>4 DEF FrontMaps
      <4>2. Cardinality(old) < Cap(n)
        BY <3>4, <4>1
      <4>3. Cardinality(old) \in Nat /\ Cap(n) \in Nat
        <5>1. IsFiniteSet(old)
          BY <1>3 DEF PinInv, MapsOK, Refs
        <5>2. wanted \in Configs
          BY <1>1 DEF PinInv, LoadOK
        <5>3. Cap(n) \in Nat
          BY <5>2, MapsAssumption DEF MapsAssumption, Cap, Wanted
        <5> QED BY <5>1, <5>3, FS_CardinalityType
      <4> HIDE DEF old
      <4> QED BY <3>4, <4>2, <4>3
    <3>5. \/ row \in old /\ Written(n, pin[n], old)
          \/ Written(n, pin[n], old \cup {row})
          \/ row \notin old /\ n = "FLOW_TABLE" /\ Cardinality(old) >= Cap(n)
      BY <1>8
    <3> QED BY <3>2, <3>3, <3>4, <3>5
  <2>3. \A r : r \in RowsTodo(n)' <=> r \in RowsTodo(n) /\ (n # name \/ r # row)
    BY <1>5, <1>6, <1>8
  <2>4. n = name => row \in RowsTodo(n)
    BY <1>2, <1>5
  <2> HIDE DEF old, new
  <2>5. /\ old \subseteq new /\ new \cup RowsTodo(n)' \subseteq old \cup RowsTodo(n)
        /\ old \cup RowsTodo(n) \subseteq new \cup RowsTodo(n)'
    BY <2>1, <2>2, <2>3, <2>4
  <2>6. ~failed' => ~failed
    BY <1>8
  <2> QED BY <2>5, <2>6 DEF old, new
<1> QED BY <1>2, <1>7, <1>8

\* A parked map is given up once it has been restored.
LEMMA UnparkEffect ==
  ASSUME PinInv, Unpark
  PROVE  /\ phase = "unpark" /\ Turn \in todo /\ Turn \in NameSet /\ todo' = todo \ {Turn}
         /\ parked' = [parked EXCEPT ![Turn] = None]
         /\ UNCHANGED <<pin, program, phase, wanted, fate, half, snapshot, failed, lossy, starts, late>>
         /\ Kept /\ NamesOK' /\ MapsOK'
<1>1. /\ phase = "unpark" /\ todo # {} /\ todo' = todo \ {Turn}
      /\ parked' = [parked EXCEPT ![Turn] = None]
      /\ UNCHANGED <<pin, program, phase, wanted, fate, half, snapshot, failed, lossy, starts, late>>
      /\ maps' = Freed(maps, pin', parked', program')
  BY DEF Unpark
<1>2. Turn \in todo /\ Turn \in NameSet
  BY <1>1, TurnIsNext
<1>3. NamesOK'
  BY <1>1 DEF PinInv, NamesOK
<1>4. \A n \in NameSet : parked'[n] \in {parked[n], None}
  BY <1>1 DEF PinInv, NamesOK
<1>5. \A n \in NameSet : Refs(n)' \subseteq Refs(n) \cup {None}
  BY <1>1, <1>4 DEF Refs
<1>6. MapsOK' /\ Kept
  BY <1>1, <1>5, FreedMaps DEF PinInv, Kept
<1> QED BY <1>1, <1>2, <1>3, <1>6

\* Unpark keeps PinInv.
LEMMA UnparkPins ==
  ASSUME PinInv, Unpark
  PROVE  PinInv'
<1>0. PICK name \in NameSet : name = Turn
  BY UnparkEffect
<1>1. /\ phase = "unpark" /\ name \in todo /\ todo' = todo \ {name}
      /\ parked' = [parked EXCEPT ![name] = None]
      /\ UNCHANGED <<pin, program, phase, wanted, fate, half, snapshot, failed, lossy, starts, late>>
      /\ Kept /\ NamesOK' /\ MapsOK'
  BY <1>0, UnparkEffect
<1>2. \A n \in NameSet : parked'[n] = IF n = name THEN None ELSE parked[n]
  BY <1>1 DEF PinInv, NamesOK
<1>3. LoadOK'
  BY <1>1 DEF PinInv, LoadOK
<1>4. ShapeInv'
  <2>1. \A n \in NameSet : pin[n] # None => maps'[n][pin[n]] = maps[n][pin[n]]
    BY <1>1 DEF Kept, Refs, NamesOK
  <2> QED BY <1>1, <2>1 DEF PinInv, ShapeInv, ShapeOf, Wanted
<1>5. ParkInv'
  <2>1. \A n \in NameSet : Beside(n)' => Beside(n) /\ pin'[n] = pin[n]
    BY <1>1, <1>2 DEF Beside
  <2> QED BY <1>1, <1>2, <2>1 DEF PinInv, ParkInv, AfterLoad
<1>6. RecreateInv' /\ AttachInv'
  BY <1>1 DEF RecreateInv, AttachInv, OnPins
<1> QED BY <1>1, <1>3, <1>4, <1>5, <1>6 DEF PinInv

-----------------------------------------------------------------------------
(* PinInv: the classifiers and the running controller.                     *)

\* A classifier takes over the pinned maps, or goes with its device.
LEMMA AttachEffect ==
  ASSUME PinInv, AttachTo(First(Hooks, todo))
  PROVE  \E hook \in HookSet :
           /\ phase = "attach" /\ hook \in todo /\ todo' = todo \ {hook}
           /\ hook = First(Hooks, todo)
           /\ program' = [program EXCEPT ![hook] = pin]
           /\ phase' = IF todo' = {} THEN "run" ELSE phase
           /\ snapshot' = IF todo' = {} THEN NoSnapshots ELSE snapshot
           /\ late' = IF hook = "uplink_ingress" THEN {} ELSE late
           /\ UNCHANGED <<pin, parked, lossy, starts, wanted, fate, half, failed>>
           /\ parked = NoPins /\ Kept /\ NamesOK' /\ MapsOK'
<1> DEFINE hook == First(Hooks, todo)
<1>1. /\ phase = "attach" /\ todo' = todo \ {hook}
      /\ program' = [program EXCEPT ![hook] = pin]
      /\ phase' = IF todo' = {} THEN "run" ELSE phase
      /\ snapshot' = IF todo' = {} THEN NoSnapshots ELSE snapshot
      /\ late' = IF hook = "uplink_ingress" THEN {} ELSE late
      /\ UNCHANGED <<pin, parked, lossy, starts, wanted, fate, half, failed>>
      /\ maps' = Freed(maps, pin', parked', program')
  BY DEF AttachTo
<1>2. hook \in todo /\ hook \in HookSet
  BY <1>1, FirstHook DEF PinInv, AttachInv
<1>3. parked = NoPins /\ \A name \in NameSet : pin[name] # None
  BY <1>1 DEF PinInv, ParkInv, ShapeInv, AfterLoad
<1> HIDE DEF hook
<1>4. NamesOK'
  BY <1>1, <1>3 DEF PinInv, NamesOK
<1>5. \A h \in HookSet : program'[h] = IF h = hook THEN pin ELSE program[h]
  BY <1>1 DEF PinInv, NamesOK
<1>6. \A n \in NameSet : Refs(n)' \subseteq Refs(n) \cup {None}
  BY <1>1, <1>5 DEF Refs
<1>7. MapsOK' /\ Kept
  BY <1>1, <1>6, FreedMaps DEF PinInv, Kept
<1> QED BY <1>1, <1>2, <1>3, <1>4, <1>7 DEF hook

\* A hook that is attached keeps PinInv.
LEMMA AttachPins ==
  ASSUME PinInv, AttachTo(First(Hooks, todo))
  PROVE  PinInv'
<1>1. PICK hook \in HookSet :
           /\ phase = "attach" /\ hook \in todo /\ todo' = todo \ {hook}
           /\ program' = [program EXCEPT ![hook] = pin]
           /\ phase' = IF todo' = {} THEN "run" ELSE phase
           /\ snapshot' = IF todo' = {} THEN NoSnapshots ELSE snapshot
           /\ late' = IF hook = "uplink_ingress" THEN {} ELSE late
           /\ UNCHANGED <<pin, parked, lossy, starts, wanted, fate, half, failed>>
           /\ parked = NoPins /\ Kept /\ NamesOK' /\ MapsOK'
  BY AttachEffect
<1>2. \A h \in HookSet : program'[h] = IF h = hook THEN pin ELSE program[h]
  BY <1>1 DEF PinInv, NamesOK
<1>3. phase' \in {"attach", "run"} /\ (phase' = "run" <=> todo' = {})
  BY <1>1
<1>4. LoadOK'
  BY <1>1, <1>3 DEF PinInv, LoadOK, NoSnapshots, AfterLoad
<1>5. ShapeInv'
  <2>1. \A n \in NameSet : pin[n] # None /\ ShapeOf(n, pin[n]) = Wanted(n)
    BY <1>1 DEF PinInv, ShapeInv, AfterLoad
  <2>2. \A n \in NameSet : maps'[n][pin[n]] = maps[n][pin[n]]
    BY <1>1, <2>1 DEF Kept, Refs, NamesOK
  <2> QED BY <1>1, <1>3, <2>1, <2>2 DEF ShapeInv, ShapeOf, Wanted
<1>6. ParkInv'
  BY <1>1, <1>3 DEF ParkInv, AfterLoad, Beside, NoPins
<1>7. AttachInv'
  BY <1>1, <1>2, <1>3 DEF PinInv, AttachInv, OnPins
<1> QED BY <1>1, <1>3, <1>4, <1>5, <1>6, <1>7 DEF PinInv, RecreateInv

\* A classifier that goes with its device frees maps at most.
LEMMA DetachEffect ==
  ASSUME PinInv, Detach
  PROVE  /\ UNCHANGED <<pin, parked, lossy, starts, late, loadVars>>
         /\ \A h \in HookSet : program'[h] \in {program[h], NoPins}
         /\ program'["uplink_ingress"] = program["uplink_ingress"]
         /\ Kept /\ NamesOK' /\ MapsOK'
<1>1. /\ program' = [program EXCEPT !["geneve_ingress"] = NoPins]
      /\ maps' = Freed(maps, pin', parked', program')
      /\ UNCHANGED <<pin, parked, lossy, starts, late, loadVars>>
  BY DEF Detach
<1>2. /\ \A h \in HookSet : program'[h] \in {program[h], NoPins}
      /\ program'["uplink_ingress"] = program["uplink_ingress"]
  BY <1>1, TheNames DEF PinInv, NamesOK
<1>3. NoPins \in [NameSet -> MapIds \cup {None}] /\ \A n \in NameSet : NoPins[n] = None
  BY DEF NoPins
<1>4. NamesOK'
  BY <1>1, <1>3 DEF PinInv, NamesOK
<1>5. \A n \in NameSet : \A h \in HookSet : program'[h][n] \in {program[h][n], None}
  BY <1>2, <1>3
<1>6. \A n \in NameSet : Refs(n)' \subseteq Refs(n) \cup {None}
  BY <1>1, <1>5 DEF Refs
<1>7. MapsOK' /\ Kept
  BY <1>1, <1>6, FreedMaps DEF PinInv, Kept
<1> QED BY <1>1, <1>2, <1>4, <1>7

\* ... and keeps PinInv.
LEMMA DetachPins ==
  ASSUME PinInv, Detach
  PROVE  PinInv'
<1>1. /\ UNCHANGED <<pin, parked, lossy, starts, late, phase, wanted, fate, todo, half, snapshot, failed>>
      /\ \A h \in HookSet : program'[h] \in {program[h], NoPins}
      /\ Kept /\ NamesOK' /\ MapsOK'
  BY DetachEffect DEF loadVars
<1>2. LoadOK'
  BY <1>1 DEF PinInv, LoadOK, RowsTodo
<1>3. \A n \in NameSet : /\ pin[n] # None => maps'[n][pin[n]] = maps[n][pin[n]]
                         /\ parked[n] # None => maps'[n][parked[n]] = maps[n][parked[n]]
  BY <1>1 DEF Kept, Refs, NamesOK
<1>4. \A n \in NameSet : \A h \in HookSet : program'[h][n] \in {program[h][n], None}
  BY <1>1 DEF NoPins
<1>5. ShapeInv'
  BY <1>1, <1>3 DEF PinInv, ShapeInv, ShapeOf, Wanted
<1>6. RecreateInv'
  <2>1. ASSUME NEW n \in NameSet, NameInv(n) PROVE NameInv(n)'
    <3>1. /\ Between(n)' <=> Between(n)
          /\ Taken(n)' <=> Taken(n)
          /\ GaveUp(n)' <=> GaveUp(n)
          /\ Source(n)' = Source(n)
      BY <1>1 DEF Between, Turn, Taken, GaveUp, Source
    <3>2. /\ parked[n] # None => Rows(n, parked[n])' = Rows(n, parked[n])
          /\ pin[n] # None => Rows(n, pin[n])' = Rows(n, pin[n])
      BY <1>1, <1>3 DEF Rows
    <3> QED BY <1>1, <1>4, <2>1, <3>1, <3>2 DEF NameInv
  <2> QED BY <1>1, <2>1 DEF PinInv, RecreateInv
<1>7. ParkInv'
  <2>1. \A n \in NameSet : Beside(n)' => Beside(n) /\ pin[n] # None
    BY <1>1 DEF Beside
  <2>2. \A n \in NameSet : Beside(n)' => \A h \in HookSet : program'[h][n] # pin'[n]
    BY <1>1, <1>4, <2>1 DEF PinInv, ParkInv
  <2>3. phase = "restore" => \A n \in NameSet : \A r \in RowsTodo(n) : r \in Rows(n, parked[n])'
    BY <1>1, <1>3 DEF PinInv, ParkInv, Rows
  <2>4. \A n : RowsTodo(n)' = RowsTodo(n) /\ (Taken(n)' <=> Taken(n))
    BY <1>1 DEF RowsTodo, Taken
  <2> QED BY <1>1, <2>2, <2>3, <2>4 DEF PinInv, ParkInv
<1>8. AttachInv'
  BY <1>1 DEF PinInv, AttachInv, OnPins
<1> QED BY <1>1, <1>2, <1>5, <1>6, <1>7, <1>8 DEF PinInv

\* A running controller adds rows to its maps.
LEMMA RunWrites ==
  ASSUME PinInv, NEW f \in Fronts, WriteRows(f) \/ CommitFront(f)
  PROVE  /\ phase = "run" /\ parked = NoPins
         /\ UNCHANGED <<pin, parked, program, lossy, starts, late, loadVars>>
         /\ \E name \in FrontMaps : \E new :
              /\ Written(name, pin[name], new) /\ Rows(name, pin[name]) \subseteq new
              /\ name = "FRONT_META" =>
                   new = Rows(name, pin[name]) \cup {f} /\ Whole(f, Rows("FRONT_ENDPOINTS", pin["FRONT_ENDPOINTS"]))
         /\ MapsOK'
<1>1. phase = "run" /\ UNCHANGED <<pin, parked, program, lossy, starts, late, loadVars>>
  BY DEF WriteRows, CommitFront
<1>2. /\ parked = NoPins
      /\ \A n \in NameSet : pin[n] \in MapIds /\ pin[n] \in Refs(n) /\ ShapeOf(n, pin[n]) \in ShapesFor(n)
           /\ IsFiniteSet(Rows(n, pin[n]))
  <2>1. parked = NoPins /\ \A n \in NameSet : pin[n] # None
    BY <1>1 DEF PinInv, ParkInv, ShapeInv, AfterLoad
  <2>2. \A n \in NameSet : pin[n] \in MapIds /\ pin[n] \in Refs(n)
    BY <2>1 DEF PinInv, NamesOK, Refs
  <2> QED BY <2>1, <2>2 DEF PinInv, MapsOK
<1>3. CASE WriteRows(f)
  <2> DEFINE name == "FRONT_ENDPOINTS"
             new == Rows(name, pin[name]) \cup RowsOf(f) \cup {<<f, 0, 0>>}
  <2>1. /\ maps' = [maps EXCEPT ![name][pin[name]].rows = new]
        /\ Cardinality(new) <= ShapeOf(name, pin[name]).cap
    BY <1>3 DEF WriteRows, Endpoints, Rows, ShapeOf
  <2>2. name \in NameSet /\ name \in FrontMaps
    BY TheNames DEF FrontMaps
  <2>3. IsFiniteSet(new)
    <3>1. IsFiniteSet(Rows(name, pin[name])) /\ IsFiniteSet(RowsOf(f))
      BY <1>2, <2>2, RowsCounted
    <3>2. IsFiniteSet(Rows(name, pin[name]) \cup RowsOf(f))
      BY <3>1, FS_Union
    <3> QED BY <3>2, FS_AddElement
  <2>4. Written(name, pin[name], new)
    BY <1>2, <2>1, <2>2, RowsSet DEF PinInv
  <2>5. MapsOK'
    BY <1>1, <1>2, <2>1, <2>2, <2>3, <2>4, WrittenMaps DEF PinInv
  <2>6. Rows(name, pin[name]) \subseteq new /\ name # "FRONT_META"
    OBVIOUS
  <2> HIDE DEF name, new
  <2> QED BY <1>1, <1>2, <2>2, <2>4, <2>5, <2>6
<1>4. CASE CommitFront(f)
  <2> DEFINE name == "FRONT_META"
             new == Rows(name, pin[name]) \cup {f}
  <2>1. /\ maps' = [maps EXCEPT ![name][pin[name]].rows = new]
        /\ Cardinality(Rows(name, pin[name])) < ShapeOf(name, pin[name]).cap
        /\ Whole(f, Rows("FRONT_ENDPOINTS", pin["FRONT_ENDPOINTS"]))
    <3>1. /\ maps' = [maps EXCEPT ![name][pin[name]].rows = @ \cup {f}]
          /\ Cardinality(Meta.rows) < Meta.shape.cap /\ Whole(f, Endpoints.rows)
      BY <1>4 DEF CommitFront
    <3> QED BY <3>1 DEF Meta, Endpoints, Rows, ShapeOf
  <2>2. name \in NameSet /\ name \in FrontMaps
    BY TheNames DEF FrontMaps
  <2>3. IsFiniteSet(new) /\ Cardinality(new) <= ShapeOf(name, pin[name]).cap
    <3>1. IsFiniteSet(Rows(name, pin[name])) /\ ShapeOf(name, pin[name]).cap \in Nat
      BY <1>2, <2>2, ShapesHaveRoom
    <3>2. /\ IsFiniteSet(new) /\ Cardinality(new) \in Nat /\ Cardinality(Rows(name, pin[name])) \in Nat
          /\ Cardinality(new) <= Cardinality(Rows(name, pin[name])) + 1
      BY <3>1, OneMore
    <3> HIDE DEF new
    <3> QED BY <2>1, <3>1, <3>2
  <2>4. Written(name, pin[name], new)
    BY <1>2, <2>1, <2>2, RowsSet DEF PinInv
  <2>5. new \subseteq Fronts
    BY <1>2, <2>2 DEF PinInv, MapsOK
  <2>6. MapsOK'
    BY <1>1, <1>2, <2>2, <2>3, <2>4, <2>5, WrittenMaps DEF PinInv
  <2>7. Rows(name, pin[name]) \subseteq new
    OBVIOUS
  <2> QED BY <1>1, <1>2, <2>1, <2>2, <2>4, <2>6, <2>7
<1> QED BY <1>3, <1>4

\* WriteRows and CommitFront keep PinInv.
LEMMA RunPins ==
  ASSUME PinInv, NEW f \in Fronts, WriteRows(f) \/ CommitFront(f)
  PROVE  PinInv'
<1>1. /\ phase = "run" /\ parked = NoPins /\ MapsOK'
      /\ UNCHANGED <<pin, parked, program, lossy, starts, late, phase, wanted, fate, todo, half, snapshot, failed>>
  BY RunWrites DEF loadVars
<1>2. \A n \in NameSet : \A m \in MapIds : maps'[n][m].shape = maps[n][m].shape
  <2>1. PICK name, new : Written(name, pin[name], new)
    BY RunWrites
  <2> QED BY <2>1 DEF Written
<1>3. NamesOK'
  BY <1>1 DEF PinInv, NamesOK
<1>4. LoadOK'
  BY <1>1 DEF PinInv, LoadOK, RowsTodo
<1>5. ShapeInv'
  BY <1>1, <1>2 DEF PinInv, ShapeInv, ShapeOf, Wanted, AfterLoad, NamesOK
<1>6. ParkInv'
  BY <1>1 DEF ParkInv, Beside, NoPins
<1>7. RecreateInv' /\ AttachInv'
  BY <1>1 DEF RecreateInv, PinInv, AttachInv, OnPins
<1> QED BY <1>1, <1>3, <1>4, <1>5, <1>6, <1>7 DEF PinInv

\* A classifier admits a flow; only FLOW_TABLE changes, and its rows only grow.
LEMMA NewFlowEffect ==
  ASSUME PinInv, NEW k \in Flows, NewFlow(k)
  PROVE  /\ UNCHANGED <<pin, parked, program, lossy, starts, phase, wanted, fate, todo, half, snapshot, failed>>
         /\ Ingress["FLOW_TABLE"] \in MapIds
         /\ Written("FLOW_TABLE", Ingress["FLOW_TABLE"], Rows("FLOW_TABLE", Ingress["FLOW_TABLE"]) \cup {k})
         /\ late' = IF \/ Ingress["FLOW_TABLE"] \notin {pin["FLOW_TABLE"], parked["FLOW_TABLE"]}
                       \/ Ingress["FLOW_TABLE"] = parked["FLOW_TABLE"] /\ Taken("FLOW_TABLE")
                    THEN late \cup {k} ELSE late
         /\ NamesOK' /\ MapsOK'
<1> DEFINE m == Ingress["FLOW_TABLE"]
           rows == Rows("FLOW_TABLE", m)
<1>1. /\ UNCHANGED <<pin, parked, program, lossy, starts, phase, wanted, fate, todo, half, snapshot, failed>>
      /\ late' = IF \/ m \notin {pin["FLOW_TABLE"], parked["FLOW_TABLE"]}
                    \/ m = parked["FLOW_TABLE"] /\ Taken("FLOW_TABLE")
                 THEN late \cup {k} ELSE late
      /\ m # None /\ Cardinality(rows) < ShapeOf("FLOW_TABLE", m).cap
      /\ maps' = [maps EXCEPT !["FLOW_TABLE"][m].rows = rows \cup {k}]
  BY DEF NewFlow, loadVars, Rows, ShapeOf, Taken
<1>2. "FLOW_TABLE" \in NameSet /\ "uplink_ingress" \in HookSet
  BY TheNames
<1>3. m \in MapIds /\ m \in Refs("FLOW_TABLE")
  BY <1>1, <1>2 DEF PinInv, NamesOK, Refs, Ingress
<1>4. IsFiniteSet(rows) /\ ShapeOf("FLOW_TABLE", m).cap \in Nat /\ rows \subseteq Flows
  BY <1>2, <1>3, ShapesHaveRoom DEF PinInv, MapsOK
<1> HIDE DEF m, rows
<1>5. Written("FLOW_TABLE", m, rows \cup {k})
  BY <1>1, <1>2, <1>3, RowsSet DEF PinInv
<1>6. IsFiniteSet(rows \cup {k}) /\ Cardinality(rows \cup {k}) <= ShapeOf("FLOW_TABLE", m).cap
  <2> DEFINE new == rows \cup {k}
  <2>1. /\ IsFiniteSet(new) /\ Cardinality(new) \in Nat /\ Cardinality(rows) \in Nat
        /\ Cardinality(new) <= Cardinality(rows) + 1
    BY <1>4, OneMore
  <2> HIDE DEF new
  <2>2. Cardinality(new) <= ShapeOf("FLOW_TABLE", m).cap
    BY <1>1, <1>4, <2>1
  <2> QED BY <2>1, <2>2 DEF new
<1>7. MapsOK'
  BY <1>1, <1>2, <1>3, <1>4, <1>5, <1>6, WrittenMaps DEF PinInv
<1>8. NamesOK'
  BY <1>1 DEF PinInv, NamesOK
<1> QED BY <1>1, <1>3, <1>5, <1>7, <1>8 DEF m, rows

\* NewFlow keeps PinInv.
LEMMA NewFlowPins ==
  ASSUME PinInv, NEW k \in Flows, NewFlow(k)
  PROVE  PinInv'
<1> DEFINE m == Ingress["FLOW_TABLE"]
           new == Rows("FLOW_TABLE", m) \cup {k}
<1>1. /\ UNCHANGED <<pin, parked, program, lossy, starts, phase, wanted, fate, todo, half, snapshot, failed>>
      /\ Written("FLOW_TABLE", m, new) /\ late' \subseteq late \cup {k} /\ NamesOK' /\ MapsOK'
      /\ m \in MapIds
  BY NewFlowEffect
<1>2. \A n \in NameSet : \A id \in MapIds :
        /\ maps'[n][id].shape = maps[n][id].shape
        /\ maps[n][id].rows \subseteq maps'[n][id].rows
        /\ n # "FLOW_TABLE" \/ id # m => maps'[n][id].rows = maps[n][id].rows
  BY <1>1 DEF Written, Rows
<1>3. \A n \in NameSet : pin[n] \in MapIds \cup {None} /\ parked[n] \in MapIds \cup {None}
  BY DEF PinInv, NamesOK
<1>4. LoadOK'
  BY <1>1 DEF PinInv, LoadOK, RowsTodo
<1>5. ShapeInv'
  BY <1>1, <1>2, <1>3 DEF PinInv, ShapeInv, ShapeOf, Wanted
<1>6. RecreateInv'
  <2>1. ASSUME NEW n \in NameSet, NameInv(n) PROVE NameInv(n)'
    <3>1. /\ Between(n)' <=> Between(n)
          /\ Taken(n)' <=> Taken(n)
          /\ GaveUp(n)' <=> GaveUp(n)
          /\ Source(n)' = Source(n)
      BY <1>1 DEF Between, Turn, Taken, GaveUp, Source
    <3>2. parked[n] # None => /\ maps[n][parked[n]].rows \subseteq maps'[n][parked[n]].rows
                              /\ n \in FrontMaps => maps'[n][parked[n]].rows = maps[n][parked[n]].rows
      BY <1>2, <1>3 DEF FrontMaps
    <3>3. pin[n] # None /\ (\A h \in HookSet : program[h][n] # pin[n]) =>
            maps'[n][pin[n]].rows = maps[n][pin[n]].rows
      BY <1>2, <1>3, TheNames DEF Ingress
    <3> QED BY <1>1, <2>1, <3>1, <3>2, <3>3 DEF NameInv, Rows
  <2> QED BY <1>1, <2>1 DEF PinInv, RecreateInv
<1>7. ParkInv'
  <2>1. \A n : Beside(n)' = Beside(n) /\ RowsTodo(n)' = RowsTodo(n) /\ (Taken(n)' <=> Taken(n))
    BY <1>1 DEF Beside, RowsTodo, Taken
  <2>2. phase = "restore" => \A n \in NameSet : \A r \in RowsTodo(n) : r \in maps'[n][parked[n]].rows
    <3>1. phase = "restore" => \A n \in NameSet : \A r \in RowsTodo(n) :
            parked[n] # None /\ r \in maps[n][parked[n]].rows
      BY DEF PinInv, ParkInv, Rows
    <3> QED BY <1>2, <1>3, <3>1
  <2> QED BY <1>1, <2>1, <2>2 DEF PinInv, ParkInv, Rows
<1>8. AttachInv'
  BY <1>1 DEF PinInv, AttachInv, OnPins
<1> QED BY <1>1, <1>4, <1>5, <1>6, <1>7, <1>8 DEF PinInv

\* PinInv is inductive.
LEMMA PinInvStep == PinInv /\ [Next]_vars => PinInv'
<1> SUFFICES ASSUME PinInv, [Next]_vars PROVE PinInv'
  OBVIOUS
<1>1. CASE LoadStep
  BY <1>1, StartLoadPins, ParkPins, GiveUpPins, CreatePinPins, PlanRestorePins, RestoreWritePins,
     ForwardPins, UnparkPins, DiePins DEF LoadStep
<1>2. CASE RunStep
  BY <1>2, AttachPins, DetachPins, RunPins, SettlePins, NewFlowPins DEF RunStep
<1>3. CASE UNCHANGED pinVars
  BY <1>3, SettlePins
<1> QED BY <1>1, <1>2, <1>3, MapSteps

-----------------------------------------------------------------------------
(* The types, and the maps of a running controller.                        *)

\* The memory of a process that does not run.
LEMMA NoProcess ==
  ASSUME NamesOK, MapsOK, parked = NoPins, phase = "off", wanted = NoConfig, fate = NoFates,
         todo = {}, half = FALSE, snapshot = NoSnapshots, failed = FALSE, late = {}
  PROVE  PinInv
<1>1. LoadOK
  BY DEF LoadOK, AfterLoad, NoFates, NoSnapshots
<1>2. ShapeInv /\ RecreateInv /\ AttachInv
  BY DEF ShapeInv, AfterLoad, RecreateInv, AttachInv, OnPins
<1>3. ParkInv
  BY DEF ParkInv, AfterLoad, Beside, NoPins
<1> QED BY <1>1, <1>2, <1>3 DEF PinInv

\* A node that nobody has started has no maps.
LEMMA FreshMaps ==
  ASSUME FreshNode, parked = NoPins
  PROVE  NamesOK /\ MapsOK
<1>1. NamesOK
  BY DEF FreshNode, NamesOK, NoPins
<1>2. maps = [name \in NameSet |-> [id \in MapIds |-> maps[name][id]]]
  BY DEF FreshNode
<1>3. ASSUME NEW name \in NameSet, NEW id \in MapIds
      PROVE  maps[name][id] = NoMap /\ id \notin Refs(name)
  <2>1. maps[name][id] = NoMap
    BY DEF FreshNode
  <2>2. \A x \in Refs(name) : x = None
    BY DEF FreshNode, Refs, NoPins
  <2> QED BY <2>1, <2>2, MapsAssumption DEF MapsAssumption
<1>4. NoMap = [shape |-> NoMap.shape, rows |-> NoMap.rows] /\ NoMap.rows = {}
  BY DEF NoMap
<1> QED BY <1>1, <1>2, <1>3, <1>4, TheNames DEF MapsOK, Rows, ShapeOf

\* One whose controller was stopped has one map of each name, with room for its rows.
LEMMA StoppedMaps ==
  ASSUME StoppedNode, parked = NoPins
  PROVE  NamesOK /\ MapsOK
<1>0. 1 \in MapIds /\ None \notin MapIds /\ Base \in Configs
  BY MapsAssumption, BaseAssumption DEF MapsAssumption, BaseAssumption
<1>1. NamesOK
  BY <1>0 DEF StoppedNode, NamesOK, NoPins, None
<1>2. maps = [name \in NameSet |-> [id \in MapIds |-> maps[name][id]]]
  BY DEF StoppedNode
<1>3. ASSUME NEW name \in NameSet
      PROVE  1 \in Refs(name) /\ \A id \in MapIds : id # 1 => maps[name][id] = NoMap /\ id \notin Refs(name)
  <2>1. \A x \in Refs(name) : x = None \/ x = 1
    BY DEF StoppedNode, Refs, NoPins
  <2>2. 1 \in Refs(name)
    BY DEF StoppedNode, Refs
  <2> QED BY <1>0, <2>1, <2>2 DEF StoppedNode
<1>4. NoMap = [shape |-> NoMap.shape, rows |-> NoMap.rows] /\ NoMap.rows = {}
  BY DEF NoMap
<1> DEFINE All == UNION {RowsOf(f) \cup {<<f, 0, 0>>} : f \in Fronts}
           one == CHOOSE k \in Flows : TRUE
<1>5. /\ maps["FRONT_META"][1] = [shape |-> Shapes[Base]["FRONT_META"], rows |-> Fronts]
      /\ maps["FRONT_ENDPOINTS"][1] = [shape |-> Shapes[Base]["FRONT_ENDPOINTS"], rows |-> All]
      /\ maps["FLOW_TABLE"][1] = [shape |-> Shapes[Base]["FLOW_TABLE"], rows |-> {one}]
  BY <1>0, TheNames DEF StoppedNode
<1>6. one \in Flows
  BY MapsAssumption DEF MapsAssumption
<1>7. IsFiniteSet(Fronts) /\ Cardinality(Fronts) <= Shapes[Base]["FRONT_META"].cap
  <2>1. FrontCount \in Nat /\ Fronts = 1 .. FrontCount
    BY MapsAssumption DEF MapsAssumption, Fronts
  <2>2. Cardinality(1 .. FrontCount) = FrontCount
    <3>1. Cardinality(1 .. FrontCount) = IF 1 <= FrontCount THEN FrontCount - 1 + 1 ELSE 0
      BY <2>1, FS_Interval
    <3> QED BY <2>1, <3>1
  <2> QED BY <2>1, <2>2, FrontsFinite, BaseAssumption DEF BaseAssumption
<1>8. IsFiniteSet(All) /\ Cardinality(All) <= Shapes[Base]["FRONT_ENDPOINTS"].cap
  <2>1. ASSUME NEW f \in Fronts PROVE IsFiniteSet(RowsOf(f) \cup {<<f, 0, 0>>})
    BY RowsCounted, FS_AddElement
  <2> DEFINE T == {RowsOf(f) \cup {<<f, 0, 0>>} : f \in Fronts}
             g == [f \in Fronts |-> RowsOf(f) \cup {<<f, 0, 0>>}]
  <2>2. g \in Surjection(Fronts, T)
    BY DEF Surjection
  <2>3. \A t \in T : IsFiniteSet(t)
    BY <2>1
  <2>4. Cardinality(UNION T) <= Shapes[Base]["FRONT_ENDPOINTS"].cap
    BY BaseAssumption DEF BaseAssumption
  <2> HIDE DEF g, T
  <2>5. IsFiniteSet(T)
    BY <1>7, <2>2, FS_Surjection
  <2>6. IsFiniteSet(UNION T)
    BY <2>3, <2>5, FS_UNION
  <2> QED BY <2>4, <2>6 DEF T
<1>9. IsFiniteSet({one}) /\ Cardinality({one}) <= Shapes[Base]["FLOW_TABLE"].cap
  <2>1. Shapes[Base]["FLOW_TABLE"].cap \in Nat \ {0}
    BY <1>0, MapsAssumption, TheNames DEF MapsAssumption
  <2>2. IsFiniteSet({one}) /\ Cardinality({one}) = 1
    BY FS_Singleton
  <2> QED BY <2>1, <2>2
<1> HIDE DEF All, one
<1>10. ASSUME NEW name \in NameSet, NEW id \in MapIds
       PROVE  /\ maps[name][id] = [shape |-> ShapeOf(name, id), rows |-> Rows(name, id)]
              /\ id \notin Refs(name) => maps[name][id] = NoMap
              /\ id \in Refs(name) =>
                   /\ ShapeOf(name, id) \in ShapesFor(name) /\ IsFiniteSet(Rows(name, id))
                   /\ Cardinality(Rows(name, id)) <= ShapeOf(name, id).cap
  <2>1. CASE id # 1
    BY <1>3, <1>4, <2>1 DEF Rows, ShapeOf
  <2>2. CASE id = 1
    BY <1>0, <1>3, <1>5, <1>7, <1>8, <1>9, <2>2, TheNames DEF Rows, ShapeOf, ShapesFor
  <2> QED BY <2>1, <2>2
<1>11. ASSUME NEW id \in MapIds
       PROVE  Rows("FRONT_META", id) \subseteq Fronts /\ Rows("FLOW_TABLE", id) \subseteq Flows
  BY <1>3, <1>4, <1>5, <1>6, TheNames DEF Rows
<1> QED BY <1>1, <1>2, <1>10, <1>11 DEF MapsOK

\* A fresh and a stopped node satisfy PinInv.
LEMMA PinInvInit == Init => PinInv
<1> SUFFICES ASSUME Init PROVE PinInv
  OBVIOUS
<1>1. NamesOK /\ MapsOK
  BY FreshMaps, StoppedMaps DEF Init
<1> QED BY <1>1, NoProcess DEF Init

\* The history knows the configuration of the process.
LEMMA TriedInit == Init => TriedInv
<1> SUFFICES ASSUME Init PROVE TriedInv
  OBVIOUS
<1>1. phase = "off" /\ \E S \in SUBSET Configs : starts = [tried |-> S, resumed |-> FALSE]
  BY BaseAssumption DEF BaseAssumption, Init, FreshNode, StoppedNode, Started
<1> QED BY <1>1 DEF TriedInv

LEMMA TriedStep == PinInv /\ TriedInv /\ [Next]_vars => TriedInv'
<1> SUFFICES ASSUME PinInv, TriedInv, [Next]_vars PROVE TriedInv'
  OBVIOUS
<1>1. ASSUME NEW config \in Configs, StartLoad(config) PROVE TriedInv'
  BY <1>1 DEF StartLoad, TriedInv
<1>2. CASE Settle
  <2>1. wanted \in Configs /\ phase' = phase /\ wanted' = wanted /\ starts' = Started(wanted)
    BY <1>2 DEF Settle, loadVars, TriedInv
  <2> QED BY <2>1 DEF TriedInv, Started
<1>3. CASE UNCHANGED starts /\ (phase' = "off" \/ (phase # "off" /\ UNCHANGED wanted) \/ UNCHANGED <<phase, wanted>>)
  BY <1>3 DEF TriedInv
<1>4. CASE LoadStep /\ ~\E config \in Configs : StartLoad(config)
  <2>1. CASE Park \/ Unpin \/ CreatePin \/ PlanRestore \/ Unpark
    BY <1>3, <2>1 DEF Park, Unpin, CreatePin, PlanRestore, Unpark, loadVars
  <2>2. CASE GiveUp
    BY <1>3, <2>2 DEF GiveUp
  <2>3. CASE RestoreWrite
    BY <1>3, <2>3 DEF RestoreWrite
  <2>4. CASE EndLoad \/ Forward \/ Die
    BY <1>3, <2>4 DEF EndLoad, Forward, Die
  <2> QED BY <1>4, <2>1, <2>2, <2>3, <2>4 DEF LoadStep
<1>5. CASE RunStep /\ ~Settle
  <2>1. CASE AttachTo(First(Hooks, todo))
    BY <1>3, <2>1 DEF AttachTo
  <2>2. CASE Detach \/ (\E f \in Fronts : WriteRows(f) \/ CommitFront(f)) \/ (\E k \in Flows : NewFlow(k))
    BY <1>3, <2>2 DEF Detach, WriteRows, CommitFront, NewFlow, loadVars
  <2> QED BY <1>5, <2>1, <2>2 DEF RunStep
<1>6. CASE UNCHANGED pinVars
  BY <1>3, <1>6 DEF pinVars, loadVars
<1> QED BY <1>1, <1>2, <1>4, <1>5, <1>6, MapSteps

\* The types of the node's own variables; mishaps are bounded.
NodeOK ==
    /\ geneve \in BOOLEAN /\ link \in [Links -> {"none", "live", "outdated", "severed"}]
    /\ mishaps \in 0 .. MaxMishaps

\* A step has at most one mishap.
LEMMA MishapSteps ==
  ASSUME [Next]_vars
  PROVE  UNCHANGED mishaps \/ Mishap
<1>1. CASE Load
  <2>1. CASE RestoreWrite
    BY <2>1 DEF RestoreWrite
  <2>2. CASE GiveUp
    BY <2>2 DEF GiveUp
  <2>3. CASE ~RestoreWrite /\ ~GiveUp
    BY <1>1, <2>3 DEF Load, StartLoad, Park, Unpin, CreatePin, PlanRestore, EndRestore, Unpark
  <2> QED BY <2>1, <2>2, <2>3
<1>2. CASE \/ EnsureGeneve \/ PopulateConfig \/ PutUplink \/ DropUplink \/ AttachUplink \/ PeerStart \/ PeerPopulate
           \/ Settle \/ (\E f \in Fronts : WriteRows(f) \/ CommitFront(f)) \/ UNCHANGED vars
  BY <1>2 DEF EnsureGeneve, PopulateConfig, PutUplink, DropUplink, AttachUplink, PeerStart, PeerPopulate, Settle,
              WriteRows, CommitFront, vars
<1>3. CASE Attach
  BY <1>3 DEF Attach
<1>4. CASE Traffic
  BY <1>4 DEF Traffic, NewFlow
<1>5. CASE Crash \/ GeneveGone \/ SecretEdited
  BY <1>5 DEF Crash, GeneveGone, SecretEdited
<1>6. ASSUME NEW n \in SeedNodes, SeedStep(n) \/ SeedTick(n) PROVE UNCHANGED mishaps \/ Mishap
  BY <1>6 DEF SeedStep, SeedTick
<1> QED BY <1>1, <1>2, <1>3, <1>4, <1>5, <1>6 DEF Next, Start, Loop

\* Every step keeps the types of the device, the links and the count.
LEMMA NodeOKStep == NodeOK /\ [Next]_vars => NodeOK'
<1> SUFFICES ASSUME NodeOK, [Next]_vars PROVE NodeOK'
  OBVIOUS
<1>1. mishaps' \in 0 .. MaxMishaps
  <2>1. MaxMishaps \in Nat
    BY MapsAssumption DEF MapsAssumption
  <2> QED BY <2>1, MishapSteps DEF NodeOK, Mishap
<1>2. CASE Attach \/ AttachUplink
  <2>1. geneve' = geneve /\ (link' = link \/ \E l : link' = [link EXCEPT ![l] = "live"])
    BY <1>2 DEF Attach, AttachUplink
  <2> QED BY <1>1, <2>1 DEF NodeOK
<1>3. CASE GeneveGone
  BY <1>1, <1>3 DEF GeneveGone, NodeOK
<1>4. CASE EnsureGeneve
  BY <1>1, <1>4 DEF EnsureGeneve, NodeOK
<1>5. CASE Load
  BY <1>1, <1>5 DEF Load, Outdated, NodeOK
<1>6. CASE \/ PopulateConfig \/ PutUplink \/ DropUplink \/ PeerStart \/ PeerPopulate
           \/ (\E n \in SeedNodes : SeedStep(n) \/ SeedTick(n))
           \/ (\E f \in Fronts : WriteRows(f) \/ CommitFront(f))
           \/ Settle \/ Traffic \/ Crash \/ SecretEdited \/ UNCHANGED vars
  <2>1. UNCHANGED <<geneve, link>>
    BY <1>6 DEF PopulateConfig, PutUplink, DropUplink, PeerStart, PeerPopulate, SeedStep,
                SeedTick, WriteRows, CommitFront, Settle, Traffic, Crash, SecretEdited, nodeVars, vars
  <2> QED BY <1>1, <2>1 DEF NodeOK
<1> QED BY <1>2, <1>3, <1>4, <1>5, <1>6 DEF Next, Start, Loop

\* The types of a node that nobody has started yet, or that was stopped.
LEMMA NodeOKInit == Init => NodeOK
<1> SUFFICES ASSUME Init PROVE NodeOK
  OBVIOUS
<1>1. mishaps \in 0 .. MaxMishaps
  <2>1. mishaps = 0 /\ MaxMishaps \in Nat
    BY MapsAssumption DEF MapsAssumption, Init
  <2> QED BY <2>1
<1>2. geneve = TRUE /\ link \in [Links -> {"none", "live", "outdated", "severed"}]
  BY DEF Init, FreshNode, StoppedNode
<1> QED BY <1>1, <1>2 DEF NodeOK

\* The invariants imply the types that the runs check.
LEMMA TypesImplied == PinInv /\ TriedInv /\ NodeOK /\ SeedOK => TypeOK
<1> SUFFICES ASSUME PinInv, TriedInv, NodeOK, SeedOK PROVE TypeOK
  OBVIOUS
<1>1. ASSUME NEW name \in NameSet
      PROVE  /\ {pin[name], parked[name]} \subseteq MapIds \cup {None}
             /\ \A m \in {pin[name], parked[name]} \cup {program[h][name] : h \in HookSet} :
                  m # None => maps[name][m] # NoMap
             /\ \A m \in MapIds : maps[name][m] # NoMap =>
                  Cardinality(maps[name][m].rows) <= maps[name][m].shape.cap
  <2>1. \A m \in Refs(name) : m \in MapIds \cup {None}
    BY DEF PinInv, NamesOK, Refs
  <2>2. \A m \in MapIds : m \in Refs(name) <=> maps[name][m] # NoMap
    BY RefsAreMaps DEF PinInv
  <2>3. \A m \in MapIds : m \in Refs(name) => Cardinality(maps[name][m].rows) <= maps[name][m].shape.cap
    BY DEF PinInv, MapsOK, Rows, ShapeOf
  <2> QED BY <2>1, <2>2, <2>3 DEF Refs
<1>2. /\ phase \in {"off", "recreate", "restore", "unpark", "seed", "uplinks", "attach", "run"}
      /\ wanted \in Configs \cup {NoConfig}
      /\ fate \in [NameSet -> {"none", "Keep", "Migrate", "RecreateEmpty"}]
      /\ half \in BOOLEAN /\ failed \in BOOLEAN /\ late \subseteq Flows
  BY DEF PinInv, LoadOK, AfterLoad
<1> QED BY <1>1, <1>2 DEF TypeOK, TriedInv, NodeOK, SeedOK

(***************************************************************************)
(* The types hold, every pin and every classifier refers to a map that the *)
(* kernel keeps, and no map holds more than its max_entries, however often *)
(* a migration is interrupted and whatever configuration follows.          *)
(***************************************************************************)
THEOREM TypeCorrect == Spec => []TypeOK
<1>1. Init => SeedOK
  BY SeedsAssumption DEF SeedsAssumption, Init, SeedInit, SeedSettled, SeedOK, SeedTypeOK, Starting, Ticking
<1> QED BY <1>1, NodeOKInit, PinInvInit, PinInvStep, TriedInit, TriedStep, NodeOKStep, SeedOKStep, TypesImplied, PTL DEF Spec

\* populate_uplink_config admits every uplink of the configuration before it
\* deletes a row, and attach_and_pin has brought the links of the hooks behind it
\* to the pinned maps.
UplinkInv ==
    /\ phase = "uplinks" => Uplinks[wanted] \ todo \subseteq uplinks
    /\ phase \in {"attach", "run"} => uplinks = Uplinks[wanted]
    /\ phase = "attach" => \A h \in UplinkHooks \ todo : \A i \in Uplinks[wanted] : link[<<h, i>>] = "live"
    /\ phase = "run" => \A h \in UplinkHooks : \A i \in Uplinks[wanted] : link[<<h, i>>] = "live"

\* The last interface of a hook: the links of the others are at the pinned maps.
LEMMA AttachLinks ==
  ASSUME PinInv, NodeOK, UplinkInv, Attach, phase' # "off"
  PROVE  UplinkInv'
<1> DEFINE hook == First(Hooks, todo)
<1>1. /\ phase = "attach" /\ Behind(hook) = {} /\ UNCHANGED <<uplinks, wanted>>
      /\ link' = [link EXCEPT ![<<hook, Main(hook)>>] = "live"]
      /\ todo' = todo \ {hook} /\ phase' = IF todo' = {} THEN "run" ELSE phase
  BY DEF Attach, Die
<1>2. wanted \in Configs
  BY <1>1 DEF PinInv, LoadOK
<1>3. hook \in HookSet
  BY <1>1, FirstHook DEF PinInv, AttachInv
<1> HIDE DEF hook
<1>4. ASSUME NEW h \in UplinkHooks, NEW i \in Uplinks[wanted], h \notin todo \/ h = hook
      PROVE  link'[<<h, i>>] = "live"
  <2>1. <<h, i>> \in Links
    <3>1. h \in HookSet
      BY TheNames DEF UplinkHooks
    <3> QED BY <1>2, <3>1 DEF Links
  <2>2. CASE h = hook
    <3>1. h # "geneve_ingress"
      BY DEF UplinkHooks
    <3>2. Main(h) = Followed /\ Devices(h) = Uplinks[wanted]
      BY <3>1 DEF Main, Devices
    <3>3. CASE i = Followed
      BY <1>1, <2>1, <2>2, <3>2, <3>3 DEF NodeOK
    <3>4. CASE i # Followed
      <4>1. link[<<h, i>>] = "live"
        BY <1>1, <2>2, <3>2, <3>4 DEF Behind
      <4> QED BY <1>1, <2>1, <4>1 DEF NodeOK
    <3> QED BY <3>3, <3>4
  <2>3. CASE h # hook
    <3>1. link[<<h, i>>] = "live"
      BY <1>1, <1>4, <2>3 DEF UplinkInv
    <3> QED BY <1>1, <2>1, <3>1 DEF NodeOK
  <2> QED BY <2>2, <2>3
<1>5. uplinks' = Uplinks[wanted']
  BY <1>1 DEF UplinkInv
<1>6. \A h \in UplinkHooks \ todo' : \A i \in Uplinks[wanted'] : link'[<<h, i>>] = "live"
  BY <1>1, <1>4
<1>7. todo' = {} => UplinkHooks \ todo' = UplinkHooks
  OBVIOUS
<1> QED BY <1>1, <1>5, <1>6, <1>7 DEF UplinkInv

\* A step that leaves uplinks, links and the start where they are.
LEMMA UplinksStill ==
  ASSUME UplinkInv, phase' = "off" \/ UNCHANGED <<phase, wanted, todo, uplinks, link>>
  PROVE  UplinkInv'
BY DEF UplinkInv

\* UplinkInv is inductive.
LEMMA UplinkInvStep == PinInv /\ NodeOK /\ UplinkInv /\ [Next]_vars => UplinkInv'
<1> SUFFICES ASSUME PinInv, NodeOK, UplinkInv, [Next]_vars PROVE UplinkInv'
  OBVIOUS
<1>1. CASE Load \/ EnsureGeneve
  <2>1. phase' \notin {"uplinks", "attach", "run"}
    <3>1. CASE EnsureGeneve
      BY <3>1 DEF EnsureGeneve
    <3>2. CASE RestoreWrite \/ GiveUp
      BY <3>2 DEF RestoreWrite, GiveUp
    <3>3. CASE Load /\ ~RestoreWrite /\ ~GiveUp
      BY <3>3 DEF Load, StartLoad, Park, Unpin, CreatePin, PlanRestore, EndRestore, Die, Unpark, loadVars
    <3> QED BY <1>1, <3>1, <3>2, <3>3
  <2> QED BY <2>1 DEF UplinkInv
<1>2. CASE PopulateConfig
  BY <1>2 DEF PopulateConfig, UplinkInv
<1>3. CASE PutUplink
  <2>1. PICK i : uplinks' = uplinks \cup {i} /\ todo' = todo \ {i}
    BY <1>3 DEF PutUplink
  <2>2. phase = "uplinks" /\ phase' = phase /\ wanted' = wanted
    BY <1>3 DEF PutUplink
  <2> QED BY <2>1, <2>2 DEF UplinkInv
<1>4. CASE DropUplink
  <2>1. phase = "uplinks" /\ todo = {} /\ wanted' = wanted /\ Uplinks[wanted] \subseteq uplinks
    BY <1>4 DEF DropUplink, UplinkInv
  <2>2. CASE \E i \in StaleUplinks(uplinks, Uplinks[wanted]) : uplinks' = uplinks \ {i} /\ UNCHANGED <<phase, todo>>
    BY <2>1, <2>2 DEF StaleUplinks, UplinkInv
  <2>3. CASE StaleUplinks(uplinks, Uplinks[wanted]) = {} /\ phase' = "attach" /\ todo' = HookSet /\ UNCHANGED uplinks
    <3>1. uplinks' = Uplinks[wanted]
      BY <2>1, <2>3 DEF StaleUplinks
    <3>2. UplinkHooks \ todo' = {}
      BY <2>3, TheNames DEF UplinkHooks
    <3> QED BY <2>1, <2>3, <3>1, <3>2 DEF UplinkInv
  <2> QED BY <1>4, <2>2, <2>3 DEF DropUplink
<1>5. CASE AttachUplink
  <2>1. PICK l : link' = [link EXCEPT ![l] = "live"]
    BY <1>5 DEF AttachUplink
  <2>2. \A k : link[k] = "live" => link'[k] = "live"
    BY <2>1 DEF NodeOK
  <2>3. UNCHANGED <<phase, wanted, todo, uplinks>>
    BY <1>5 DEF AttachUplink, pinVars, loadVars
  <2> QED BY <2>2, <2>3 DEF UplinkInv
<1>6. CASE Attach
  <2>1. CASE phase' = "off"
    BY <2>1, UplinksStill
  <2> QED BY <1>6, <2>1, AttachLinks
<1>7. CASE GeneveGone
  <2>1. \A h \in UplinkHooks : \A i : link'[<<h, i>>] = link[<<h, i>>]
    <3>1. PICK v : link' = [link EXCEPT ![<<"geneve_ingress", Geneve>>] = v]
      BY <1>7 DEF GeneveGone
    <3>2. \A h \in UplinkHooks : \A i : <<h, i>> # <<"geneve_ingress", Geneve>>
      BY DEF UplinkHooks
    <3> QED BY <3>1, <3>2 DEF NodeOK
  <2>2. UNCHANGED <<phase, wanted, todo, uplinks>>
    BY <1>7 DEF GeneveGone, loadVars
  <2> QED BY <2>1, <2>2 DEF UplinkInv
<1>8. CASE \/ PeerStart \/ PeerPopulate \/ (\E n \in SeedNodes : SeedStep(n) \/ SeedTick(n))
           \/ (\E f \in Fronts : WriteRows(f) \/ CommitFront(f))
           \/ Settle \/ Traffic \/ Crash \/ SecretEdited \/ UNCHANGED vars
  <2>1. phase' = "off" \/ UNCHANGED <<phase, wanted, todo, uplinks, link>>
    BY <1>8 DEF PeerStart, PeerPopulate, SeedStep, SeedTick, WriteRows, CommitFront, Settle, Traffic,
                NewFlow, Crash, Die, SecretEdited, pinVars, loadVars, nodeVars, vars
  <2> QED BY <2>1, UplinksStill
<1> QED BY <1>1, <1>2, <1>3, <1>4, <1>5, <1>6, <1>7, <1>8 DEF Next, Start, Loop

(***************************************************************************)
(* A running controller's classifiers on the Geneve device and on every    *)
(* uplink that it admits use the maps that it has pinned, and it admits    *)
(* the uplinks of its configuration and no others, wherever earlier starts *)
(* died and whichever uplinks they were given.                             *)
(***************************************************************************)
THEOREM ClassifiersUsePins == Spec => []RunsOnPins
<1>1. PinInv /\ UplinkInv => RunsOnPins
  BY DEF PinInv, AttachInv, UplinkInv, RunsOnPins, OnlyServed
<1>2. Init => UplinkInv
  BY DEF Init, UplinkInv
<1> QED BY <1>1, <1>2, NodeOKInit, NodeOKStep, PinInvInit, PinInvStep, UplinkInvStep, PTL DEF Spec

-----------------------------------------------------------------------------
(* FrontInv: no classifier ever resolves a front that is not whole.        *)

\* The plan depends on the configuration only through the room of the two maps.
LEMMA PlanSame ==
  ASSUME NEW metas, metas \subseteq Fronts, NEW endpoints, NEW c, NEW d,
         Shapes[c]["FRONT_META"].cap = Shapes[d]["FRONT_META"].cap,
         Shapes[c]["FRONT_ENDPOINTS"].cap = Shapes[d]["FRONT_ENDPOINTS"].cap
  PROVE  Admitted(metas, endpoints, c) = Admitted(metas, endpoints, d)
<1> DEFINE A == Admitted(metas, endpoints, c)
           B == Admitted(metas, endpoints, d)
           R == Restorable(metas, endpoints)
           D == {f \in R : ~(f \in A <=> f \in B)}
<1>1. /\ A \subseteq R /\ B \subseteq R /\ R \subseteq Fronts
      /\ \A f \in R : f \in A <=> Fits(f, {g \in A : g < f}, c)
      /\ \A f \in R : f \in B <=> Fits(f, {g \in B : g < f}, d)
  BY PlanChosen DEF Restorable
<1>2. \A f, S : Fits(f, S, c) <=> Fits(f, S, d)
  BY DEF Fits
<1>3. FrontCount \in Nat /\ \A f \in R : f \in Nat /\ f <= FrontCount
  BY <1>1, MapsAssumption DEF MapsAssumption, Fronts
<1> HIDE DEF A, B, R
<1>4. D = {}
  <2> SUFFICES ASSUME D # {} PROVE FALSE
    OBVIOUS
  <2>1. D \in SUBSET Nat /\ \A f \in D : f <= FrontCount
    BY <1>3
  <2>2. PICK f \in D : \A g \in D : f <= g
    BY <1>3, <2>1, LeastNatural
  <2>3. {g \in A : g < f} = {g \in B : g < f}
    <3>1. ASSUME NEW g \in R, g < f PROVE g \in A <=> g \in B
      <4>1. g \notin D
        <5>1. g \in Nat /\ f \in Nat /\ ~(f <= g)
          BY <1>3, <3>1
        <5> QED BY <2>2, <5>1
      <4> QED BY <4>1
    <3> QED BY <1>1, <3>1
  <2>4. Fits(f, {g \in A : g < f}, c) <=> Fits(f, {g \in B : g < f}, d)
    BY <1>2, <2>3
  <2> QED BY <1>1, <2>4
<1>5. A = B
  BY <1>1, <1>4
<1> QED BY <1>5 DEF A, B

\* Fronts that are whole in a map fit wherever its rows fit.
LEMMA WholeFits ==
  ASSUME NEW metas, metas \subseteq Fronts, NEW rows, IsFiniteSet(rows),
         \A f \in metas : Whole(f, rows), NEW cap \in Nat, Cardinality(rows) <= cap
  PROVE  Cardinality(UNION {RowsOf(f) : f \in metas}) <= cap
<1> DEFINE U == UNION {RowsOf(f) : f \in metas}
<1>1. U \in SUBSET rows
  BY DEF Whole
<1> HIDE DEF U
<1>2. Cardinality(U) <= Cardinality(rows) /\ IsFiniteSet(U)
  BY <1>1, FS_Subset
<1>3. Cardinality(U) \in Nat /\ Cardinality(rows) \in Nat
  BY <1>2, FS_CardinalityType
<1>4. Cardinality(U) <= cap
  BY <1>2, <1>3
<1> QED BY <1>4 DEF U

\* So do some of the fronts that the plan admits.
LEMMA SomeFit ==
  ASSUME NEW metas, metas \subseteq Fronts, NEW endpoints, NEW config \in Configs,
         NEW some, some \subseteq Admitted(metas, endpoints, config)
  PROVE  Cardinality(UNION {RowsOf(f) : f \in some}) <= Shapes[config]["FRONT_ENDPOINTS"].cap
<1> DEFINE A == Admitted(metas, endpoints, config)
           U == UNION {RowsOf(f) : f \in A}
<1>1. A \subseteq Fronts
  BY PlanChosen DEF Restorable
<1>2. IsFiniteSet(U) /\ Cardinality(U) <= Shapes[config]["FRONT_ENDPOINTS"].cap
  BY <1>1, AllRowsFinite, PlanFits
<1>3. \A f \in some : Whole(f, U)
  BY DEF Whole
<1>4. Shapes[config]["FRONT_ENDPOINTS"].cap \in Nat
  BY MapsAssumption, TheNames DEF MapsAssumption
<1> HIDE DEF A, U
<1>5. some \subseteq Fronts
  BY <1>1 DEF A
<1> QED BY <1>2, <1>3, <1>4, <1>5, WholeFits

\* The names of the front maps, and what they refer to.
LEMMA FrontNames ==
  ASSUME PinInv
  PROVE  /\ FrontMaps \subseteq NameSet /\ "FRONT_META" \in NameSet /\ "FRONT_ENDPOINTS" \in NameSet
         /\ None \notin MapIds
         /\ \A n \in NameSet : pin[n] \in MapIds \cup {None} /\ parked[n] \in MapIds \cup {None}
         /\ \A n \in NameSet : pin[n] \in Refs(n) /\ parked[n] \in Refs(n) /\ Source(n) \in Refs(n) /\ Ingress[n] \in Refs(n)
         /\ Ingress # NoPins => \A n \in NameSet : Ingress[n] \in MapIds
         /\ \A id \in MapIds : Rows("FRONT_META", id) \subseteq Fronts
<1>1. "uplink_ingress" \in HookSet /\ FrontMaps \subseteq NameSet /\ "FRONT_META" \in NameSet /\ "FRONT_ENDPOINTS" \in NameSet
  BY TheNames DEF FrontMaps
<1>2. None \notin MapIds
  BY MapsAssumption DEF MapsAssumption
<1>3. \A n \in NameSet : pin[n] \in MapIds \cup {None} /\ parked[n] \in MapIds \cup {None}
  BY DEF PinInv, NamesOK
<1>4. \A n \in NameSet : pin[n] \in Refs(n) /\ parked[n] \in Refs(n) /\ Source(n) \in Refs(n) /\ Ingress[n] \in Refs(n)
  BY <1>1 DEF Refs, Source, Ingress
<1>5. Ingress # NoPins => \A n \in NameSet : Ingress[n] \in MapIds
  BY <1>1 DEF PinInv, NamesOK, Ingress
<1>6. \A id \in MapIds : Rows("FRONT_META", id) \subseteq Fronts
  BY DEF PinInv, MapsOK
<1> QED BY <1>1, <1>2, <1>3, <1>4, <1>5, <1>6

\* A node at rest: one map of each name, and all fronts whole.
AtRest ==
    /\ PinInv /\ parked = NoPins /\ phase \notin {"restore", "unpark"}
    /\ pin["FRONT_META"] # None /\ pin["FRONT_ENDPOINTS"] # None
    /\ WholeIn(pin["FRONT_META"], pin["FRONT_ENDPOINTS"])
    /\ Ingress \in {NoPins, pin}
    /\ \E config \in starts.tried :
         /\ ShapeOf("FRONT_META", pin["FRONT_META"]) = Shapes[config]["FRONT_META"]
         /\ ShapeOf("FRONT_ENDPOINTS", pin["FRONT_ENDPOINTS"]) = Shapes[config]["FRONT_ENDPOINTS"]

\* ... satisfy FrontInv.
LEMMA RestFronts == AtRest => FrontInv
<1> SUFFICES ASSUME AtRest, Good PROVE LeftInv /\ SourceInv /\ ResumeInv /\ RestoreInv /\ IngressInv
  BY DEF FrontInv
<1>0. PinInv
  BY DEF AtRest
<1>1. \A n \in NameSet : parked[n] = None /\ Source(n) = pin[n]
  BY DEF AtRest, NoPins, Source
<1>2. LeftInv
  BY <1>0, <1>1, FrontNames DEF LeftInv, Beside
<1>3. RestoreInv /\ ResumeInv
  BY <1>0, <1>1, FrontNames DEF AtRest, RestoreInv, ResumeInv
<1>4. IngressInv
  BY DEF AtRest, IngressInv
<1>5. SourceInv
  <2>1. pin["FRONT_META"] \in MapIds /\ pin["FRONT_ENDPOINTS"] \in MapIds
    BY <1>0, FrontNames DEF AtRest
  <2> DEFINE metas == Rows("FRONT_META", pin["FRONT_META"])
             rows == Rows("FRONT_ENDPOINTS", pin["FRONT_ENDPOINTS"])
             cap == ShapeOf("FRONT_ENDPOINTS", pin["FRONT_ENDPOINTS"]).cap
  <2>2. metas \subseteq Fronts /\ \A f \in metas : Whole(f, rows)
    BY <1>0, <2>1, FrontNames DEF AtRest, WholeIn
  <2>3. IsFiniteSet(rows) /\ Cardinality(rows) <= cap /\ cap \in Nat
    BY <1>0, <2>1, FrontNames, ShapesHaveRoom DEF PinInv, MapsOK
  <2>4. PICK config \in starts.tried :
          /\ Shapes[config]["FRONT_META"] = ShapeOf("FRONT_META", pin["FRONT_META"])
          /\ Shapes[config]["FRONT_ENDPOINTS"].cap = cap
    BY DEF AtRest
  <2> HIDE DEF metas, rows, cap
  <2>5. Cardinality(UNION {RowsOf(f) : f \in metas}) <= cap
    BY <2>2, <2>3, WholeFits
  <2>6. Source("FRONT_META") = pin["FRONT_META"] /\ Source("FRONT_ENDPOINTS") = pin["FRONT_ENDPOINTS"]
    BY <1>0, <1>1, FrontNames
  <2>7. WholeIn(Source("FRONT_META"), Source("FRONT_ENDPOINTS"))
    BY <2>6 DEF AtRest
  <2>8. SourceMetas = metas
    BY <2>6 DEF SourceMetas, metas
  <2> QED BY <2>4, <2>5, <2>6, <2>7, <2>8 DEF SourceInv
<1> QED BY <1>2, <1>3, <1>4, <1>5

\* What an unfinished new FRONT_META holds is whole and fits.
LEMMA LeftFine ==
  ASSUME PinInv, TriedInv, LeftInv, Beside("FRONT_META")
  PROVE  /\ Source("FRONT_ENDPOINTS") # None => WholeIn(pin["FRONT_META"], Source("FRONT_ENDPOINTS"))
         /\ \E config \in starts.tried :
              /\ Shapes[config]["FRONT_META"] = ShapeOf("FRONT_META", pin["FRONT_META"])
              /\ Cardinality(UNION {RowsOf(f) : f \in PinMetas}) <= Shapes[config]["FRONT_ENDPOINTS"].cap
<1> DEFINE metas == Rows("FRONT_META", parked["FRONT_META"])
           rows == Rows("FRONT_ENDPOINTS", parked["FRONT_ENDPOINTS"])
<1>1. pin["FRONT_META"] \in MapIds /\ parked["FRONT_META"] \in MapIds /\ metas \subseteq Fronts
  BY FrontNames DEF Beside
<1>2. PICK config \in starts.tried :
        /\ Shapes[config]["FRONT_META"] = ShapeOf("FRONT_META", pin["FRONT_META"])
        /\ PinMetas # {} => parked["FRONT_ENDPOINTS"] # None /\ PinMetas \subseteq ParkedPlan(config)
  BY DEF LeftInv
<1>3. config \in Configs
  BY DEF TriedInv
<1>4. CASE PinMetas = {}
  <2>1. WholeIn(pin["FRONT_META"], Source("FRONT_ENDPOINTS"))
    BY <1>4 DEF WholeIn, PinMetas
  <2>2. UNION {RowsOf(f) : f \in PinMetas} = {}
    BY <1>4
  <2>3. Shapes[config]["FRONT_ENDPOINTS"].cap \in Nat
    BY <1>3, MapsAssumption, TheNames DEF MapsAssumption
  <2>4. Cardinality(UNION {RowsOf(f) : f \in PinMetas}) <= Shapes[config]["FRONT_ENDPOINTS"].cap
    BY <2>2, <2>3, FS_EmptySet
  <2> QED BY <1>2, <2>1, <2>4
<1>5. CASE PinMetas # {}
  <2>1. parked["FRONT_ENDPOINTS"] # None /\ PinMetas \subseteq Admitted(metas, rows, config)
    BY <1>2, <1>5 DEF ParkedPlan
  <2> HIDE DEF metas, rows
  <2>2. \A f \in PinMetas : Whole(f, rows)
    BY <1>1, <1>3, <2>1, PlanWhole DEF Whole
  <2>3. WholeIn(pin["FRONT_META"], Source("FRONT_ENDPOINTS"))
    BY <2>1, <2>2 DEF WholeIn, Source, PinMetas, rows
  <2>4. Cardinality(UNION {RowsOf(f) : f \in PinMetas}) <= Shapes[config]["FRONT_ENDPOINTS"].cap
    BY <1>1, <1>3, <2>1, SomeFit
  <2> QED BY <1>2, <2>3, <2>4
<1> QED BY <1>4, <1>5

\* The front maps of a state that a step leaves as they are.
SameFronts ==
    /\ \A n \in FrontMaps : pin'[n] = pin[n] /\ parked'[n] = parked[n]
    /\ Ingress' = Ingress /\ lossy \subseteq lossy'
    /\ starts.tried \subseteq starts'.tried /\ (starts.resumed => starts'.resumed)
    /\ \A n \in FrontMaps : \A m \in MapIds : m \in {pin[n], parked[n], Ingress[n]} => maps'[n][m] = maps[n][m]

\* ... keeps FrontInv.
LEMMA FrontFrame ==
  ASSUME PinInv, FrontInv, SameFronts, Good'
  PROVE  Good /\ LeftInv' /\ SourceInv' /\ IngressInv'
<1>0. LeftInv /\ SourceInv /\ IngressInv /\ Good
  BY DEF FrontInv, Good, Resized, PairedCaps, Unread, SameFronts
<1>1. /\ \A n \in FrontMaps : pin'[n] = pin[n] /\ parked'[n] = parked[n]
      /\ \A n \in FrontMaps : pin[n] # None => Rows(n, pin[n])' = Rows(n, pin[n]) /\ ShapeOf(n, pin[n])' = ShapeOf(n, pin[n])
      /\ \A n \in FrontMaps : parked[n] # None => Rows(n, parked[n])' = Rows(n, parked[n]) /\ ShapeOf(n, parked[n])' = ShapeOf(n, parked[n])
  BY FrontNames DEF SameFronts, Rows, ShapeOf
<1>2. "FRONT_META" \in FrontMaps /\ "FRONT_ENDPOINTS" \in FrontMaps
  BY DEF FrontMaps
<1>3. LeftInv'
  <2> SUFFICES ASSUME Beside("FRONT_META")'
               PROVE  \E config \in starts'.tried :
                        /\ Shapes[config]["FRONT_META"] = ShapeOf("FRONT_META", pin["FRONT_META"])'
                        /\ PinMetas' # {} => parked'["FRONT_ENDPOINTS"] # None /\ PinMetas' \subseteq ParkedPlan(config)'
    BY DEF LeftInv
  <2>1. Beside("FRONT_META") /\ pin["FRONT_META"] # None /\ parked["FRONT_META"] # None
    BY <1>1, <1>2 DEF Beside
  <2>2. PICK config \in starts.tried :
          /\ Shapes[config]["FRONT_META"] = ShapeOf("FRONT_META", pin["FRONT_META"])
          /\ PinMetas # {} => parked["FRONT_ENDPOINTS"] # None /\ PinMetas \subseteq ParkedPlan(config)
    BY <1>0, <2>1 DEF LeftInv
  <2>3. PinMetas' = PinMetas /\ ShapeOf("FRONT_META", pin["FRONT_META"])' = ShapeOf("FRONT_META", pin["FRONT_META"])
    BY <1>1, <1>2, <2>1 DEF PinMetas
  <2>4. parked["FRONT_ENDPOINTS"] # None => ParkedPlan(config)' = ParkedPlan(config)
    BY <1>1, <1>2, <2>1 DEF ParkedPlan
  <2> QED BY <1>1, <1>2, <2>2, <2>3, <2>4 DEF SameFronts
<1>4. \A n \in FrontMaps : /\ Source(n)' = Source(n)
                           /\ Source(n) # None => Rows(n, Source(n))' = Rows(n, Source(n)) /\ ShapeOf(n, Source(n))' = ShapeOf(n, Source(n))
  BY <1>1 DEF Source
<1>5. SourceInv'
  <2>1. Source("FRONT_META") # None => SourceMetas' = SourceMetas
    BY <1>2, <1>4 DEF SourceMetas
  <2> QED BY <1>0, <1>2, <1>4, <2>1 DEF SourceInv, WholeIn, SameFronts
<1>6. IngressInv'
  <2>1. Ingress # NoPins => \A n \in FrontMaps : Rows(n, Ingress[n])' = Rows(n, Ingress[n])
    BY FrontNames DEF SameFronts, Rows
  <2> QED BY <1>0, <1>2, <2>1 DEF IngressInv, WholeIn, SameFronts
<1> QED BY <1>0, <1>3, <1>5, <1>6

\* Steps that only free maps leave the rest as it is.
LEMMA KeptRows ==
  ASSUME PinInv, Kept, NamesOK', NEW n \in NameSet, NEW m, m \in Refs(n)', m # None
  PROVE  m \in MapIds /\ maps'[n][m] = maps[n][m]
<1>1. \A x \in Refs(n)' : x \in MapIds \cup {None}
  BY DEF NamesOK, Refs
<1> QED BY <1>1 DEF Kept

\* LeftInv, when an unfinished FRONT_META stays with what is parked.
LEMMA LeftKept ==
  ASSUME PinInv, LeftInv, Kept, NamesOK', UNCHANGED starts,
         Beside("FRONT_META")' =>
            /\ Beside("FRONT_META") /\ pin'["FRONT_META"] = pin["FRONT_META"]
            /\ parked'["FRONT_META"] = parked["FRONT_META"]
            /\ parked["FRONT_ENDPOINTS"] # None => parked'["FRONT_ENDPOINTS"] = parked["FRONT_ENDPOINTS"]
  PROVE  LeftInv'
<1> SUFFICES ASSUME Beside("FRONT_META")'
             PROVE  \E config \in starts.tried :
                      /\ Shapes[config]["FRONT_META"] = ShapeOf("FRONT_META", pin["FRONT_META"])'
                      /\ PinMetas' # {} => parked'["FRONT_ENDPOINTS"] # None /\ PinMetas' \subseteq ParkedPlan(config)'
  BY DEF LeftInv
<1>1. /\ Beside("FRONT_META") /\ pin'["FRONT_META"] = pin["FRONT_META"] /\ parked'["FRONT_META"] = parked["FRONT_META"]
      /\ pin["FRONT_META"] # None /\ parked["FRONT_META"] # None
  BY DEF Beside
<1>2. /\ maps'["FRONT_META"][pin["FRONT_META"]] = maps["FRONT_META"][pin["FRONT_META"]]
      /\ maps'["FRONT_META"][parked["FRONT_META"]] = maps["FRONT_META"][parked["FRONT_META"]]
  <2>1. pin["FRONT_META"] \in Refs("FRONT_META")' /\ parked["FRONT_META"] \in Refs("FRONT_META")'
    BY <1>1 DEF Refs
  <2> QED BY <1>1, <2>1, KeptRows, FrontNames
<1>3. PICK config \in starts.tried :
        /\ Shapes[config]["FRONT_META"] = ShapeOf("FRONT_META", pin["FRONT_META"])
        /\ PinMetas # {} => parked["FRONT_ENDPOINTS"] # None /\ PinMetas \subseteq ParkedPlan(config)
  BY <1>1 DEF LeftInv
<1>4. PinMetas' = PinMetas /\ ShapeOf("FRONT_META", pin["FRONT_META"])' = ShapeOf("FRONT_META", pin["FRONT_META"])
  BY <1>1, <1>2 DEF PinMetas, Rows, ShapeOf
<1>5. parked["FRONT_ENDPOINTS"] # None =>
        parked'["FRONT_ENDPOINTS"] = parked["FRONT_ENDPOINTS"] /\ ParkedPlan(config)' = ParkedPlan(config)
  <2> SUFFICES ASSUME parked["FRONT_ENDPOINTS"] # None
               PROVE  parked'["FRONT_ENDPOINTS"] = parked["FRONT_ENDPOINTS"] /\ ParkedPlan(config)' = ParkedPlan(config)
    OBVIOUS
  <2>1. parked'["FRONT_ENDPOINTS"] = parked["FRONT_ENDPOINTS"]
    BY <1>1
  <2>2. parked["FRONT_ENDPOINTS"] \in Refs("FRONT_ENDPOINTS")'
    BY <2>1 DEF Refs
  <2>3. maps'["FRONT_ENDPOINTS"][parked["FRONT_ENDPOINTS"]] = maps["FRONT_ENDPOINTS"][parked["FRONT_ENDPOINTS"]]
    BY <2>2, KeptRows, FrontNames
  <2> QED BY <1>1, <1>2, <2>1, <2>3 DEF ParkedPlan, Rows
<1> QED BY <1>3, <1>4, <1>5

\* SourceInv, when the sources stay.
LEMMA SourceKept ==
  ASSUME PinInv, SourceInv, Kept, NamesOK', UNCHANGED starts,
         \A n \in FrontMaps : Source(n)' \in {Source(n), None}
  PROVE  SourceInv'
<1>1. "FRONT_META" \in FrontMaps /\ "FRONT_ENDPOINTS" \in FrontMaps /\ FrontMaps \subseteq NameSet
  BY TheNames DEF FrontMaps
<1>2. ASSUME NEW n \in FrontMaps, Source(n)' # None
      PROVE  Source(n)' = Source(n) /\ Rows(n, Source(n))' = Rows(n, Source(n)) /\ ShapeOf(n, Source(n))' = ShapeOf(n, Source(n))
  <2>1. Source(n)' = Source(n) /\ Source(n)' \in Refs(n)'
    BY <1>2 DEF Source, Refs
  <2>2. maps'[n][Source(n)'] = maps[n][Source(n)']
    BY <1>1, <1>2, <2>1, KeptRows
  <2> QED BY <2>1, <2>2 DEF Rows, ShapeOf
<1>3. Source("FRONT_META")' # None => SourceMetas' = SourceMetas
  BY <1>1, <1>2 DEF SourceMetas
<1> QED BY <1>1, <1>2, <1>3 DEF SourceInv, WholeIn

\* IngressInv, when the ingress classifier stays.
LEMMA IngressKept ==
  ASSUME PinInv, IngressInv, Kept, NamesOK', Ingress' = Ingress
  PROVE  IngressInv'
<1> SUFFICES ASSUME Ingress # NoPins PROVE WholeIn(Ingress["FRONT_META"], Ingress["FRONT_ENDPOINTS"])'
  BY DEF IngressInv
<1>1. ASSUME NEW n \in NameSet PROVE maps'[n][Ingress[n]] = maps[n][Ingress[n]]
  <2>1. Ingress[n] \in MapIds /\ Ingress[n] # None
    BY FrontNames
  <2>2. Ingress[n] \in Refs(n)'
    <3>1. "uplink_ingress" \in HookSet /\ program'["uplink_ingress"] = program["uplink_ingress"]
      BY TheNames DEF Ingress
    <3> QED BY <3>1 DEF Refs, Ingress
  <2> QED BY <2>1, <2>2, KeptRows
<1> QED BY <1>1, FrontNames DEF IngressInv, WholeIn, Rows

\* The history only grows when the process starts.
LEMMA StartHistory ==
  ASSUME NEW config, StartLoad(config)
  PROVE  /\ starts.tried \subseteq starts'.tried /\ (starts.resumed => starts'.resumed)
         /\ starts'.resumed \/ parked'["FRONT_META"] = None
<1> DEFINE S == starts.tried \cup {config}
           B == starts.resumed \/ parked["FRONT_META"] # None
<1>1. starts' = [tried |-> S, resumed |-> B] /\ parked' = parked
  BY DEF StartLoad
<1> HIDE DEF S, B
<1>2. starts'.tried = S /\ starts'.resumed = B
  BY <1>1
<1> QED BY <1>1, <1>2 DEF S, B

\* The process starts, dies, or goes on after the restore: then all fronts it
\* found or wrote are whole.
LEMMA ProcessFronts ==
  ASSUME PinInv, FrontInv, (\E config \in Configs : StartLoad(config)) \/ Die \/ EndLoad \/ Forward
  PROVE  FrontInv'
<1> SUFFICES ASSUME Good' PROVE LeftInv' /\ SourceInv' /\ ResumeInv' /\ RestoreInv' /\ IngressInv'
  BY DEF FrontInv
<1>1. Still /\ UNCHANGED lossy
  BY DEF StartLoad, Die, EndLoad, Forward, Still
<1>2. SameFronts
  <2>1. starts.tried \subseteq starts'.tried /\ (starts.resumed => starts'.resumed)
    BY StartHistory DEF Die, EndLoad, Forward
  <2> QED BY <1>1, <2>1 DEF Still, SameFronts, Ingress
<1>3. Good /\ LeftInv' /\ SourceInv' /\ IngressInv'
  BY <1>2, FrontFrame
<1>4. RestoreInv'
  <2>1. CASE phase' \notin {"restore", "unpark"}
    BY <2>1 DEF RestoreInv
  <2>2. CASE EndLoad
    <3>1. phase = "restore" /\ ~failed /\ todo = {} /\ phase' = "unpark"
      BY <2>2 DEF EndLoad
    <3>2. RowsTodo("FRONT_META") = {} /\ RowsTodo("FRONT_ENDPOINTS") = {}
      BY <3>1 DEF RowsTodo
    <3>3. WholeIn(pin["FRONT_META"], pin["FRONT_ENDPOINTS"])
      <4>1. \A f \in Rows("FRONT_META", pin["FRONT_META"]) \cup {} :
              Whole(f, Rows("FRONT_ENDPOINTS", pin["FRONT_ENDPOINTS"]) \cup {})
        BY <1>3, <3>1, <3>2 DEF FrontInv, RestoreInv
      <4> QED BY <4>1 DEF WholeIn, Whole
    <3>4. WholeIn(pin["FRONT_META"], pin["FRONT_ENDPOINTS"])'
      BY <1>1, <3>3 DEF WholeIn, Rows, Still
    <3> QED BY <3>1, <3>4 DEF RestoreInv
  <2>3. CASE phase' \in {"restore", "unpark"} /\ ~EndLoad
    BY <2>3 DEF StartLoad, Die, Forward
  <2> QED BY <2>1, <2>2, <2>3
<1>5. ResumeInv'
  <2>1. phase' = "recreate" => starts'.resumed \/ parked'["FRONT_META"] = None
    BY StartHistory DEF Die, EndLoad, Forward
  <2> QED BY <2>1 DEF ResumeInv
<1> QED BY <1>3, <1>4, <1>5

\* A step that has nothing to do with the front maps.
LEMMA OtherFronts ==
  ASSUME PinInv, FrontInv, SameFronts, UNCHANGED <<starts, phase, wanted, todo, half, failed>>
  PROVE  FrontInv'
<1> SUFFICES ASSUME Good' PROVE LeftInv' /\ SourceInv' /\ ResumeInv' /\ RestoreInv' /\ IngressInv'
  BY DEF FrontInv
<1>1. Good /\ LeftInv' /\ SourceInv' /\ IngressInv'
  BY FrontFrame
<1>2. RestoreInv /\ ResumeInv /\ LeftInv
  BY <1>1 DEF FrontInv
<1>3. "FRONT_META" \in FrontMaps /\ "FRONT_ENDPOINTS" \in FrontMaps
  BY DEF FrontMaps
<1>4. /\ \A n \in FrontMaps : pin'[n] = pin[n] /\ parked'[n] = parked[n]
      /\ \A n \in FrontMaps : pin[n] # None => Rows(n, pin[n])' = Rows(n, pin[n])
      /\ \A n \in FrontMaps : parked[n] # None => Rows(n, parked[n])' = Rows(n, parked[n])
  BY FrontNames DEF SameFronts, Rows
<1>5. phase \in {"restore", "unpark"} => pin["FRONT_META"] # None /\ pin["FRONT_ENDPOINTS"] # None
  BY FrontNames DEF PinInv, ShapeInv
<1>6. phase = "restore" /\ RowsTodo("FRONT_META") # {} => parked["FRONT_META"] # None
  BY FrontNames DEF PinInv, ParkInv
<1>7. \A n : RowsTodo(n)' = RowsTodo(n)
  BY DEF RowsTodo
<1>8. phase \in {"restore", "unpark"} =>
        /\ Rows("FRONT_META", pin["FRONT_META"])' = Rows("FRONT_META", pin["FRONT_META"])
        /\ Rows("FRONT_ENDPOINTS", pin["FRONT_ENDPOINTS"])' = Rows("FRONT_ENDPOINTS", pin["FRONT_ENDPOINTS"])
  BY <1>3, <1>4, <1>5
<1>9. phase = "restore" /\ RowsTodo("FRONT_META") # {} => ParkedPlan(wanted)' = ParkedPlan(wanted)
  BY <1>2, <1>3, <1>4, <1>6 DEF ParkedPlan, RestoreInv
<1>10. phase = "restore" /\ Beside("FRONT_META")' /\ PinMetas' # {} => PinMetas' \subseteq ParkedPlan(wanted)'
  <2> SUFFICES ASSUME phase = "restore", Beside("FRONT_META")', PinMetas' # {}
               PROVE  PinMetas' \subseteq ParkedPlan(wanted)'
    OBVIOUS
  <2>1. Beside("FRONT_META") /\ parked["FRONT_META"] # None /\ PinMetas' = PinMetas
    BY <1>3, <1>4, <1>8 DEF Beside, PinMetas
  <2>2. PinMetas \subseteq ParkedPlan(wanted) /\ parked["FRONT_ENDPOINTS"] # None
    BY <1>2, <2>1 DEF RestoreInv, LeftInv
  <2>3. ParkedPlan(wanted)' = ParkedPlan(wanted)
    BY <1>3, <1>4, <2>1, <2>2 DEF ParkedPlan
  <2> QED BY <2>1, <2>2, <2>3
<1>11. RestoreInv'
  BY <1>2, <1>3, <1>4, <1>7, <1>8, <1>9, <1>10 DEF RestoreInv, WholeIn
<1>12. ResumeInv'
  <2>1. pin["FRONT_META"] # None => PinMetas' = PinMetas
    BY <1>3, <1>4 DEF PinMetas
  <2>2. Between("FRONT_META")' <=> Between("FRONT_META")
    BY DEF Between, Turn
  <2> QED BY <1>2, <1>3, <1>4, <2>1, <2>2 DEF ResumeInv
<1> QED BY <1>1, <1>11, <1>12

\* A migration that loses its parked FRONT_META goes on from the unfinished new one.
LEMMA FallBack ==
  ASSUME PinInv, TriedInv, LeftInv, Kept, NamesOK', UNCHANGED starts, Beside("FRONT_META"),
         Source("FRONT_META")' = pin["FRONT_META"], pin'["FRONT_META"] = pin["FRONT_META"],
         Source("FRONT_ENDPOINTS")' = Source("FRONT_ENDPOINTS")
  PROVE  SourceInv'
<1>1. pin["FRONT_META"] # None
  BY DEF Beside
<1>2. maps'["FRONT_META"][pin["FRONT_META"]] = maps["FRONT_META"][pin["FRONT_META"]]
  <2>1. pin["FRONT_META"] \in Refs("FRONT_META")'
    BY DEF Refs
  <2> QED BY <1>1, <2>1, KeptRows, FrontNames
<1>3. Source("FRONT_ENDPOINTS") # None =>
        maps'["FRONT_ENDPOINTS"][Source("FRONT_ENDPOINTS")] = maps["FRONT_ENDPOINTS"][Source("FRONT_ENDPOINTS")]
  <2>1. Source("FRONT_ENDPOINTS") \in Refs("FRONT_ENDPOINTS")'
    BY DEF Refs, Source
  <2> QED BY <2>1, KeptRows, FrontNames
<1>4. /\ Source("FRONT_ENDPOINTS") # None => WholeIn(pin["FRONT_META"], Source("FRONT_ENDPOINTS"))
      /\ \E config \in starts.tried :
           /\ Shapes[config]["FRONT_META"] = ShapeOf("FRONT_META", pin["FRONT_META"])
           /\ Cardinality(UNION {RowsOf(f) : f \in PinMetas}) <= Shapes[config]["FRONT_ENDPOINTS"].cap
  BY LeftFine
<1>5. Rows("FRONT_META", Source("FRONT_META"))' = Rows("FRONT_META", pin["FRONT_META"])
  BY <1>2 DEF Rows
<1>6. ShapeOf("FRONT_META", Source("FRONT_META"))' = ShapeOf("FRONT_META", pin["FRONT_META"])
  BY <1>2 DEF ShapeOf
<1>7. Source("FRONT_ENDPOINTS") # None =>
        Rows("FRONT_ENDPOINTS", Source("FRONT_ENDPOINTS"))' = Rows("FRONT_ENDPOINTS", Source("FRONT_ENDPOINTS"))
  BY <1>3 DEF Rows
<1>8. SourceMetas' = PinMetas
  BY <1>5 DEF SourceMetas, PinMetas
<1> QED BY <1>4, <1>5, <1>6, <1>7, <1>8 DEF SourceInv, WholeIn

\* A step of recreate_mismatched_pins: the sources of the fronts stay or go.
LEMMA RecreateFronts ==
  ASSUME PinInv, FrontInv, Good, Kept, NamesOK', phase' = "recreate", UNCHANGED <<program, starts>>,
         ResumeInv',
         \A n \in FrontMaps : Source(n)' \in {Source(n), None},
         Beside("FRONT_META")' =>
            /\ Beside("FRONT_META") /\ pin'["FRONT_META"] = pin["FRONT_META"]
            /\ parked'["FRONT_META"] = parked["FRONT_META"]
            /\ parked["FRONT_ENDPOINTS"] # None => parked'["FRONT_ENDPOINTS"] = parked["FRONT_ENDPOINTS"]
  PROVE  FrontInv'
<1>1. LeftInv /\ SourceInv /\ IngressInv
  BY DEF FrontInv
<1>2. LeftInv'
  BY <1>1, LeftKept
<1>3. SourceInv'
  BY <1>1, SourceKept
<1>4. IngressInv'
  BY <1>1, IngressKept DEF Ingress
<1>5. RestoreInv'
  BY DEF RestoreInv
<1> QED BY <1>2, <1>3, <1>4, <1>5 DEF FrontInv

\* ResumeInv, when FRONT_META is not the map between the two pin operations.
LEMMA ResumeKept ==
  ASSUME PinInv, ResumeInv, phase = "recreate", ~Between("FRONT_META"), Kept, NamesOK', UNCHANGED starts,
         pin'["FRONT_META"] \in {pin["FRONT_META"], None},
         parked'["FRONT_META"] \in {parked["FRONT_META"], None}
  PROVE  ResumeInv'
<1> SUFFICES ASSUME ~starts.resumed, parked'["FRONT_META"] # None, pin'["FRONT_META"] # None
             PROVE  pin'["FRONT_META"] # parked'["FRONT_META"] /\ PinMetas' = {}
  BY DEF ResumeInv
<1>1. pin'["FRONT_META"] = pin["FRONT_META"] /\ parked'["FRONT_META"] = parked["FRONT_META"]
  OBVIOUS
<1>2. pin["FRONT_META"] # parked["FRONT_META"] /\ PinMetas = {}
  BY <1>1 DEF ResumeInv
<1>3. maps'["FRONT_META"][pin["FRONT_META"]] = maps["FRONT_META"][pin["FRONT_META"]]
  <2>1. pin["FRONT_META"] \in Refs("FRONT_META")'
    BY <1>1 DEF Refs
  <2> QED BY <1>1, <2>1, KeptRows, FrontNames
<1> QED BY <1>1, <1>2, <1>3 DEF PinMetas, Rows

\* Park keeps FrontInv.
LEMMA ParkFronts ==
  ASSUME PinInv, FrontInv, Park
  PROVE  FrontInv'
<1> SUFFICES ASSUME Good' PROVE FrontInv'
  BY DEF FrontInv
<1>0. PICK name : name = Turn
  OBVIOUS
<1>1. /\ phase = "recreate" /\ UNCHANGED <<program, phase, lossy, starts>> /\ Kept /\ NamesOK'
      /\ \A n \in NameSet : Source(n)' = Source(n)
      /\ name \in NameSet
      /\ \/ /\ parked[name] = None /\ UNCHANGED pin /\ parked' = [parked EXCEPT ![name] = pin[name]]
         \/ /\ parked[name] # None /\ UNCHANGED parked
            /\ pin' = [pin EXCEPT ![name] = IF StalePlain(name) THEN None ELSE @]
  BY <1>0, ParkEffect
<1>2. Good
  BY <1>1 DEF Good, Resized, PairedCaps, Unread
<1>3. \A n \in FrontMaps : Source(n)' \in {Source(n), None}
  BY <1>1, FrontNames
<1>4. pin \in [NameSet -> MapIds \cup {None}] /\ parked \in [NameSet -> MapIds \cup {None}]
  BY DEF PinInv, NamesOK
<1>5. ASSUME Beside("FRONT_META")'
      PROVE  /\ Beside("FRONT_META") /\ pin'["FRONT_META"] = pin["FRONT_META"]
             /\ parked'["FRONT_META"] = parked["FRONT_META"]
             /\ parked["FRONT_ENDPOINTS"] # None => parked'["FRONT_ENDPOINTS"] = parked["FRONT_ENDPOINTS"]
  <2>1. CASE parked[name] = None /\ UNCHANGED pin /\ parked' = [parked EXCEPT ![name] = pin[name]]
    BY <1>4, <1>5, <2>1, FrontNames DEF Beside
  <2>2. CASE parked[name] # None /\ UNCHANGED parked /\ pin' = [pin EXCEPT ![name] = IF StalePlain(name) THEN None ELSE @]
    BY <1>4, <1>5, <2>2, FrontNames DEF Beside
  <2> QED BY <1>1, <2>1, <2>2
<1>6. ResumeInv'
  <2>1. ResumeInv /\ ~half
    BY <1>2 DEF FrontInv, Park
  <2>2. CASE name = "FRONT_META" /\ parked[name] = None
    <3>1. half' /\ UNCHANGED todo
      BY <1>0, <2>2 DEF Park
    <3>2. Between("FRONT_META")'
      BY <1>0, <2>2, <3>1 DEF Between, Turn
    <3> QED BY <3>2 DEF ResumeInv
  <2>3. CASE name # "FRONT_META" \/ parked[name] # None
    <3>1. /\ pin'["FRONT_META"] \in {pin["FRONT_META"], None}
          /\ parked'["FRONT_META"] \in {parked["FRONT_META"], None}
      BY <1>1, <1>4, <2>3, FrontNames
    <3> QED BY <1>1, <2>1, <3>1, ResumeKept DEF Between
  <2> QED BY <2>2, <2>3
<1> QED BY <1>1, <1>2, <1>3, <1>5, <1>6, RecreateFronts

\* Unpin keeps FrontInv.
LEMMA UnpinFronts ==
  ASSUME PinInv, FrontInv, Unpin
  PROVE  FrontInv'
<1> SUFFICES ASSUME Good' PROVE FrontInv'
  BY DEF FrontInv
<1>0. PICK name : name = Turn
  OBVIOUS
<1>1. /\ phase = "recreate" /\ UNCHANGED <<program, phase, lossy, starts, parked>> /\ Kept /\ NamesOK'
      /\ name \in NameSet /\ pin' = [pin EXCEPT ![name] = None]
  BY <1>0, UnpinEffect
<1>2. Good
  BY <1>1 DEF Good, Resized, PairedCaps, Unread
<1>3. pin \in [NameSet -> MapIds \cup {None}]
  BY DEF PinInv, NamesOK
<1>4. \A n \in NameSet : pin'[n] = IF n = name THEN None ELSE pin[n]
  BY <1>1, <1>3
<1>5. \A n \in FrontMaps : Source(n)' \in {Source(n), None}
  BY <1>1, <1>4, FrontNames DEF Source
<1>6. ASSUME Beside("FRONT_META")'
      PROVE  /\ Beside("FRONT_META") /\ pin'["FRONT_META"] = pin["FRONT_META"]
             /\ parked'["FRONT_META"] = parked["FRONT_META"]
             /\ parked["FRONT_ENDPOINTS"] # None => parked'["FRONT_ENDPOINTS"] = parked["FRONT_ENDPOINTS"]
  BY <1>1, <1>4, <1>6, FrontNames DEF Beside
<1>7. ResumeInv'
  <2>1. CASE name = "FRONT_META"
    BY <1>1, <1>4, <2>1 DEF ResumeInv
  <2>2. CASE name # "FRONT_META"
    <3>1. ~Between("FRONT_META") /\ pin'["FRONT_META"] = pin["FRONT_META"]
      BY <1>0, <1>4, <2>2, FrontNames DEF Between
    <3> QED BY <1>1, <1>2, <3>1, ResumeKept DEF FrontInv
  <2> QED BY <2>1, <2>2
<1> QED BY <1>1, <1>2, <1>5, <1>6, <1>7, RecreateFronts

\* FRONT_ENDPOINTS is only given up, but for a failed snapshot, after FRONT_META.
LEMMA EndpointsLast ==
  ASSUME PinInv, phase = "recreate", todo # {}, Turn = "FRONT_ENDPOINTS", fate["FRONT_ENDPOINTS"] = "RecreateEmpty"
  PROVE  pin["FRONT_META"] = None /\ parked["FRONT_META"] = None
<1>1. "FRONT_META" \notin todo /\ "FRONT_META" \in NameSet
  <2>1. "FRONT_META" # "FRONT_ENDPOINTS"
    OBVIOUS
  <2> QED BY <2>1, TurnIsNext, FrontNames
<1>2. NameInv("FRONT_META") /\ fate["FRONT_META"] \notin {"Keep", "Migrate"}
  BY <1>1 DEF PinInv, RecreateInv
<1>3. ~Taken("FRONT_META")
  BY <1>2 DEF NameInv
<1> QED BY <1>1, <1>2, <1>3 DEF NameInv

\* GiveUp keeps FrontInv.
LEMMA GiveUpFronts ==
  ASSUME PinInv, TriedInv, FrontInv, GiveUp
  PROVE  FrontInv'
<1> SUFFICES ASSUME Good' PROVE FrontInv'
  BY DEF FrontInv
<1>0. PICK name : name = Turn
  OBVIOUS
<1>1. /\ phase = "recreate" /\ todo # {} /\ UNCHANGED <<program, starts, phase>> /\ Kept /\ NamesOK'
      /\ name \in NameSet /\ fate[name] \in {"Migrate", "RecreateEmpty"}
      /\ lossy' = lossy \cup {<<name, IF fate[name] = "Migrate" THEN "snapshot" ELSE "layout">>}
      /\ \/ parked[name] = None /\ UNCHANGED parked /\ pin' = [pin EXCEPT ![name] = None]
         \/ parked[name] # None /\ UNCHANGED pin /\ parked' = [parked EXCEPT ![name] = None]
  BY <1>0, GiveUpEffect
<1>2. Good /\ (name = "FRONT_ENDPOINTS" => fate[name] = "RecreateEmpty")
  BY <1>1 DEF Good, Resized, PairedCaps, Unread
<1>3. pin \in [NameSet -> MapIds \cup {None}] /\ parked \in [NameSet -> MapIds \cup {None}]
  BY DEF PinInv, NamesOK
<1>4. \A n \in NameSet : n # name => pin'[n] = pin[n] /\ parked'[n] = parked[n]
  BY <1>1, <1>3
<1>5. parked'[name] = None /\ pin'[name] \in {pin[name], None}
  BY <1>1, <1>3
<1>6. parked[name] = None => pin'[name] = None
  BY <1>1, <1>3
<1> DEFINE Rest == Beside("FRONT_META")' =>
            /\ Beside("FRONT_META") /\ pin'["FRONT_META"] = pin["FRONT_META"]
            /\ parked'["FRONT_META"] = parked["FRONT_META"]
            /\ parked["FRONT_ENDPOINTS"] # None => parked'["FRONT_ENDPOINTS"] = parked["FRONT_ENDPOINTS"]
<1>7. Rest
  <2>1. CASE name = "FRONT_META"
    BY <1>5, <2>1 DEF Beside
  <2>2. CASE name = "FRONT_ENDPOINTS"
    <3>1. parked'["FRONT_META"] = None
      BY <1>0, <1>1, <1>2, <1>4, <2>2, EndpointsLast, FrontNames
    <3> QED BY <3>1 DEF Beside
  <2>3. CASE name \notin {"FRONT_META", "FRONT_ENDPOINTS"}
    BY <1>4, <2>3, FrontNames DEF Beside
  <2> QED BY <2>1, <2>2, <2>3
<1>8. LeftInv /\ SourceInv /\ IngressInv /\ ResumeInv
  BY <1>2 DEF FrontInv
<1>9. LeftInv' /\ IngressInv' /\ RestoreInv' /\ ResumeInv'
  <2>1. LeftInv'
    BY <1>1, <1>7, <1>8, LeftKept
  <2>2. IngressInv' /\ RestoreInv'
    BY <1>1, <1>8, IngressKept DEF Ingress, RestoreInv
  <2>3. /\ pin'["FRONT_META"] \in {pin["FRONT_META"], None} /\ parked'["FRONT_META"] \in {parked["FRONT_META"], None}
        /\ ~half
    BY <1>4, <1>5, FrontNames DEF GiveUp
  <2>4. ResumeInv'
    BY <1>1, <1>8, <2>3, ResumeKept DEF Between
  <2> QED BY <2>1, <2>2, <2>4
<1>10. CASE name # "FRONT_META"
  <2>1. ASSUME NEW n \in FrontMaps PROVE n # name \/ Source("FRONT_META")' = None
    <3>1. CASE name = "FRONT_ENDPOINTS"
      <4>1. pin["FRONT_META"] = None /\ parked["FRONT_META"] = None
        BY <1>0, <1>1, <1>2, <3>1, EndpointsLast
      <4> QED BY <1>4, <1>10, <4>1, FrontNames DEF Source
    <3>2. CASE name # "FRONT_ENDPOINTS"
      BY <1>10, <3>2 DEF FrontMaps
    <3> QED BY <3>1, <3>2
  <2>2. ASSUME Source("FRONT_META")' = None PROVE SourceInv'
    BY <2>2 DEF SourceInv
  <2>3. ASSUME \A n \in FrontMaps : n # name PROVE SourceInv'
    <3>1. \A n \in FrontMaps : Source(n)' \in {Source(n), None}
      BY <1>4, <2>3, FrontNames DEF Source
    <3> QED BY <1>1, <1>8, <3>1, SourceKept
  <2>4. SourceInv'
    BY <2>1, <2>2, <2>3
  <2> QED BY <1>9, <2>4 DEF FrontInv
<1>11. CASE name = "FRONT_META"
  <2>1. Source("FRONT_ENDPOINTS")' = Source("FRONT_ENDPOINTS")
    BY <1>4, <1>11, FrontNames DEF Source
  <2>2. CASE Source("FRONT_META")' \in {Source("FRONT_META"), None}
    <3>1. \A n \in FrontMaps : Source(n)' \in {Source(n), None}
      BY <2>1, <2>2 DEF FrontMaps
    <3>2. SourceInv'
      BY <1>1, <1>8, <3>1, SourceKept
    <3> QED BY <1>9, <3>2 DEF FrontInv
  <2>3. CASE Source("FRONT_META")' \notin {Source("FRONT_META"), None}
    <3>1. Beside("FRONT_META") /\ Source("FRONT_META")' = pin["FRONT_META"] /\ pin'["FRONT_META"] = pin["FRONT_META"]
      BY <1>5, <1>6, <1>11, <2>3 DEF Source, Beside
    <3>2. SourceInv'
      BY <1>1, <1>8, <2>1, <3>1, FallBack
    <3> QED BY <1>9, <3>2 DEF FrontInv
  <2> QED BY <2>2, <2>3
<1> QED BY <1>10, <1>11

\* aya creates a map: empty, and FRONT_ENDPOINTS only with an empty FRONT_META
\* unless its rows are parked.
LEMMA CreatePinFronts ==
  ASSUME PinInv, TriedInv, FrontInv, CreatePin
  PROVE  FrontInv'
<1> SUFFICES ASSUME Good' PROVE FrontInv'
  BY DEF FrontInv
<1>1. /\ phase = "recreate" /\ todo = {} /\ UNCHANGED <<parked, program, phase, wanted, lossy, starts>> /\ NamesOK'
  BY CreatePinEffect DEF loadVars
<1>2. PICK name \in NameSet, id \in MapIds :
        /\ pin[name] = None /\ id \notin Refs(name)
        /\ pin' = [pin EXCEPT ![name] = id]
        /\ maps'[name][id] = [shape |-> Wanted(name), rows |-> {}]
        /\ \A n \in NameSet : \A m \in MapIds : n # name \/ m # id => maps'[n][m] = maps[n][m]
  BY CreatePinEffect
<1>3. Good /\ LeftInv /\ SourceInv /\ ResumeInv /\ IngressInv
  BY <1>1 DEF Good, Resized, PairedCaps, Unread, FrontInv
<1>4. \A n \in NameSet : pin'[n] = IF n = name THEN id ELSE pin[n]
  BY <1>2 DEF PinInv, NamesOK
<1>5. \A n \in NameSet : \A m \in Refs(n) : m # None => maps'[n][m] = maps[n][m]
  <2>1. \A n \in NameSet : \A m \in Refs(n) : m \in MapIds \cup {None}
    BY DEF PinInv, NamesOK, Refs
  <2> QED BY <1>2, <2>1
<1>6. maps'[name][id].rows = {}
  BY <1>2
<1>7. LeftInv'
  <2>1. CASE name = "FRONT_META"
    <3>1. PinMetas' = {} /\ ShapeOf("FRONT_META", pin["FRONT_META"])' = Shapes[wanted]["FRONT_META"]
      BY <1>2, <1>4, <1>6, <2>1 DEF PinMetas, Rows, ShapeOf, Wanted
    <3>2. wanted \in starts.tried
      BY <1>1 DEF TriedInv
    <3> QED BY <1>1, <3>1, <3>2 DEF LeftInv
  <2>2. CASE name # "FRONT_META"
    <3>1. pin'["FRONT_META"] = pin["FRONT_META"]
      BY <1>4, <2>2, FrontNames
    <3>2. /\ \A n \in FrontMaps : parked[n] # None => Rows(n, parked[n])' = Rows(n, parked[n])
          /\ pin["FRONT_META"] # None =>
               /\ Rows("FRONT_META", pin["FRONT_META"])' = Rows("FRONT_META", pin["FRONT_META"])
               /\ ShapeOf("FRONT_META", pin["FRONT_META"])' = ShapeOf("FRONT_META", pin["FRONT_META"])
      BY <1>1, <1>5, <3>1, FrontNames DEF Rows, ShapeOf
    <3>3. "FRONT_META" \in FrontMaps /\ "FRONT_ENDPOINTS" \in FrontMaps
      BY DEF FrontMaps
    <3> QED BY <1>1, <1>3, <3>1, <3>2, <3>3 DEF LeftInv, Beside, ParkedPlan, PinMetas
  <2> QED BY <2>1, <2>2
<1>8. IngressInv'
  <2>1. Ingress # NoPins => \A n \in FrontMaps : Rows(n, Ingress[n])' = Rows(n, Ingress[n])
    BY <1>1, <1>5, FrontNames DEF Rows, Ingress
  <2>2. "FRONT_META" \in FrontMaps /\ "FRONT_ENDPOINTS" \in FrontMaps /\ Ingress' = Ingress
    BY <1>1 DEF FrontMaps, Ingress
  <2> QED BY <1>3, <2>1, <2>2 DEF IngressInv, WholeIn
<1>9. ASSUME NEW n \in NameSet, n # name \/ parked[n] # None, Source(n) # None
      PROVE  Source(n)' = Source(n) /\ Rows(n, Source(n))' = Rows(n, Source(n)) /\ ShapeOf(n, Source(n))' = ShapeOf(n, Source(n))
  <2>1. Source(n)' = Source(n) /\ Source(n) \in Refs(n)
    BY <1>1, <1>4, <1>9, FrontNames DEF Source
  <2> QED BY <1>5, <1>9, <2>1 DEF Rows, ShapeOf
<1>10. ASSUME NEW n \in NameSet, n # name \/ parked[n] # None
       PROVE  Source(n)' = Source(n)
  BY <1>1, <1>4, <1>10 DEF Source
<1>11. SourceInv'
  <2>1. CASE name \notin FrontMaps \/ parked[name] # None
    <3>1. ASSUME NEW n \in FrontMaps PROVE n \in NameSet /\ (n # name \/ parked[n] # None)
      BY <2>1, FrontNames
    <3>2. "FRONT_META" \in FrontMaps /\ "FRONT_ENDPOINTS" \in FrontMaps
      BY DEF FrontMaps
    <3>3. Source("FRONT_META") # None => SourceMetas' = SourceMetas
      BY <1>9, <3>1, <3>2 DEF SourceMetas
    <3> QED BY <1>1, <1>3, <1>9, <1>10, <3>1, <3>2, <3>3 DEF SourceInv, WholeIn
  <2>2. CASE name = "FRONT_META" /\ parked[name] = None
    <3>1. Source("FRONT_META")' = id /\ Rows("FRONT_META", Source("FRONT_META"))' = {}
      BY <1>1, <1>4, <1>6, <2>2 DEF Source, Rows
    <3>2. SourceMetas' = {} /\ UNION {RowsOf(f) : f \in {}} = {}
      BY <3>1 DEF SourceMetas
    <3>3. wanted \in starts.tried /\ wanted \in Configs
      BY <1>1 DEF TriedInv
    <3>4. Cardinality(UNION {RowsOf(f) : f \in {}}) <= Shapes[wanted]["FRONT_ENDPOINTS"].cap
      <4>1. Shapes[wanted]["FRONT_ENDPOINTS"].cap \in Nat
        BY <3>3, MapsAssumption, TheNames DEF MapsAssumption
      <4> QED BY <3>2, <4>1, FS_EmptySet
    <3>5. Shapes[wanted]["FRONT_META"] = ShapeOf("FRONT_META", Source("FRONT_META"))'
      BY <1>2, <2>2, <3>1 DEF ShapeOf, Wanted
    <3>6. WholeIn(Source("FRONT_META"), Source("FRONT_ENDPOINTS"))'
      BY <3>1 DEF WholeIn
    <3> QED BY <1>1, <3>2, <3>3, <3>4, <3>5, <3>6 DEF SourceInv
  <2>3. CASE name = "FRONT_ENDPOINTS" /\ parked[name] = None
    <3>1. NameInv("FRONT_META") /\ NameInv("FRONT_ENDPOINTS")
      BY <1>1, FrontNames DEF PinInv, RecreateInv
    <3>2. ~Taken("FRONT_ENDPOINTS") /\ fate["FRONT_ENDPOINTS"] # "Keep"
      BY <1>2, <2>3, <3>1 DEF NameInv
    <3>3. fate["FRONT_ENDPOINTS"] # "Migrate"
      BY <1>1, <1>3, <3>1, <3>2 DEF NameInv, GaveUp, Good, Unread
    <3>4. fate["FRONT_META"] \notin {"Keep", "Migrate"}
      BY <1>1, <3>2, <3>3 DEF PinInv, RecreateInv
    <3>5. ~Taken("FRONT_META")
      BY <3>1, <3>4 DEF NameInv
    <3>6. /\ parked["FRONT_META"] = None
          /\ pin["FRONT_META"] # None => Rows("FRONT_META", pin["FRONT_META"]) = {}
      BY <1>1, <3>1, <3>4, <3>5 DEF NameInv
    <3>7. "FRONT_META" \in NameSet /\ "FRONT_META" # name
      BY <2>3, FrontNames
    <3>8. Source("FRONT_META")' = Source("FRONT_META")
      BY <1>10, <3>7
    <3>9. Source("FRONT_META") # None => /\ Rows("FRONT_META", Source("FRONT_META"))' = {}
                                         /\ Rows("FRONT_META", Source("FRONT_META")) = {}
                                         /\ ShapeOf("FRONT_META", Source("FRONT_META"))' = ShapeOf("FRONT_META", Source("FRONT_META"))
      <4>1. Source("FRONT_META") # None => Rows("FRONT_META", Source("FRONT_META")) = {}
        BY <3>6 DEF Source
      <4> QED BY <1>9, <3>7, <4>1
    <3>10. Source("FRONT_META") # None => SourceMetas' = {} /\ SourceMetas = {}
      BY <3>9 DEF SourceMetas
    <3> QED BY <1>1, <1>3, <3>8, <3>9, <3>10 DEF SourceInv, WholeIn
  <2> QED BY <2>1, <2>2, <2>3 DEF FrontMaps
<1>12. RestoreInv'
  BY <1>1 DEF RestoreInv
<1>13. ResumeInv'
  <2>1. ~half
    BY <1>1 DEF PinInv, LoadOK
  <2>2. CASE name = "FRONT_META"
    <3>1. id \notin Refs("FRONT_META") /\ parked["FRONT_META"] \in Refs("FRONT_META")
      BY <1>2, <2>2 DEF Refs
    <3>2. pin'["FRONT_META"] = id /\ PinMetas' = {} /\ id # parked["FRONT_META"]
      BY <1>2, <1>4, <1>6, <2>2, <3>1 DEF PinMetas, Rows
    <3> QED BY <1>1, <3>2 DEF ResumeInv
  <2>3. CASE name # "FRONT_META"
    <3>1. pin'["FRONT_META"] = pin["FRONT_META"] /\ pin["FRONT_META"] \in Refs("FRONT_META")
      BY <1>4, <2>3, FrontNames
    <3>2. pin["FRONT_META"] # None => PinMetas' = PinMetas
      BY <1>5, <3>1, FrontNames DEF PinMetas, Rows
    <3> QED BY <1>1, <1>3, <2>1, <3>1, <3>2 DEF ResumeInv, Between
  <2> QED BY <2>2, <2>3
<1> QED BY <1>7, <1>8, <1>11, <1>12, <1>13 DEF FrontInv

\* plan_restore: whatever is in the new FRONT_META already is admitted again.
LEMMA PlanRestoreFronts ==
  ASSUME PinInv, TriedInv, FrontInv, PlanRestore
  PROVE  FrontInv'
<1> SUFFICES ASSUME Good' PROVE LeftInv' /\ SourceInv' /\ ResumeInv' /\ RestoreInv' /\ IngressInv'
  BY DEF FrontInv
<1>1. /\ phase = "recreate" /\ todo = {} /\ phase' = "restore" /\ Still /\ UNCHANGED <<starts, wanted>>
      /\ ~half /\ wanted \in starts.tried /\ wanted \in Configs /\ lossy \subseteq lossy'
      /\ Snapshot("FRONT_META") \subseteq Fronts
  BY PlanRestoreEffect DEF TriedInv
<1>2. ASSUME NEW n \in FrontMaps
      PROVE  /\ pin[n] \in MapIds /\ ShapeOf(n, pin[n]) = Wanted(n)
             /\ parked[n] # None <=> Taken(n)
             /\ Taken(n) => fate[n] = "Migrate" /\ parked[n] \in MapIds /\ Snapshot(n) = Rows(n, parked[n])
             /\ ~Taken(n) => Snapshot(n) = {}
  BY PlanRestoreEffect, FrontNames
<1>3. "FRONT_META" \in FrontMaps /\ "FRONT_ENDPOINTS" \in FrontMaps
  BY DEF FrontMaps
<1>4. SameFronts
  BY <1>1 DEF Still, SameFronts, Ingress
<1>5. Good /\ LeftInv' /\ SourceInv' /\ IngressInv'
  BY <1>4, FrontFrame
<1>6. LeftInv /\ SourceInv /\ ResumeInv
  BY <1>5 DEF FrontInv
<1>7. fate["FRONT_META"] = "Migrate" <=> fate["FRONT_ENDPOINTS"] = "Migrate"
  BY <1>1 DEF PinInv, RecreateInv
<1>8. NameInv("FRONT_META") /\ NameInv("FRONT_ENDPOINTS")
  BY <1>1, FrontNames DEF PinInv, RecreateInv
<1>9. Taken("FRONT_META") => Taken("FRONT_ENDPOINTS")
  <2>1. fate["FRONT_ENDPOINTS"] = "Migrate" => Taken("FRONT_ENDPOINTS") \/ GaveUp("FRONT_ENDPOINTS")
    BY <1>1, <1>8 DEF NameInv
  <2> QED BY <1>2, <1>3, <1>5, <1>7, <2>1 DEF GaveUp, Good, Unread
<1> DEFINE metas == Rows("FRONT_META", pin["FRONT_META"])
           plan == AdmittedFronts
           all == Rows("FRONT_ENDPOINTS", pin["FRONT_ENDPOINTS"]) \cup UNION {RowsOf(f) : f \in plan}
<1>10. plan # {} => Taken("FRONT_META")
  <2>1. plan \subseteq Snapshot("FRONT_META")
    BY <1>1, PlanChosen DEF AdmittedFronts, Restorable
  <2> QED BY <1>2, <1>3, <2>1
<1>11. Taken("FRONT_META") => plan = ParkedPlan(wanted) /\ parked["FRONT_ENDPOINTS"] # None /\ parked["FRONT_META"] \in MapIds
  BY <1>2, <1>3, <1>9 DEF AdmittedFronts, ParkedPlan
<1>12. RowsTodo("FRONT_META")' = plan /\ RowsTodo("FRONT_ENDPOINTS")' = UNION {RowsOf(f) : f \in plan}
  BY PlannedWrites
<1> HIDE DEF plan
<1>13. ASSUME NEW f \in plan PROVE Whole(f, all)
  BY DEF Whole
<1>14. starts.resumed => \A config \in starts.tried :
         Shapes[config]["FRONT_META"] = Shapes[wanted]["FRONT_META"]
           => Shapes[config]["FRONT_ENDPOINTS"].cap = Shapes[wanted]["FRONT_ENDPOINTS"].cap
  BY <1>1, <1>5 DEF Good, Resized, PairedCaps
<1>15. ASSUME Beside("FRONT_META"), PinMetas # {} PROVE PinMetas \subseteq ParkedPlan(wanted)
  <2>1. parked["FRONT_META"] \in MapIds /\ pin["FRONT_META"] # None /\ parked["FRONT_META"] # None
    BY <1>15, FrontNames DEF Beside
  <2>2. starts.resumed
    BY <1>1, <1>6, <1>15, <2>1 DEF ResumeInv, Between
  <2>3. PICK config \in starts.tried :
          /\ Shapes[config]["FRONT_META"] = ShapeOf("FRONT_META", pin["FRONT_META"])
          /\ PinMetas \subseteq ParkedPlan(config)
    BY <1>6, <1>15 DEF LeftInv
  <2>4. /\ Shapes[config]["FRONT_META"] = Shapes[wanted]["FRONT_META"]
        /\ Shapes[config]["FRONT_ENDPOINTS"].cap = Shapes[wanted]["FRONT_ENDPOINTS"].cap
    BY <1>2, <1>3, <1>14, <2>2, <2>3 DEF Wanted
  <2>5. Rows("FRONT_META", parked["FRONT_META"]) \subseteq Fronts
    BY <2>1, FrontNames
  <2>6. ParkedPlan(config) = ParkedPlan(wanted)
    BY <2>4, <2>5, PlanSame DEF ParkedPlan
  <2> QED BY <2>3, <2>6
<1>16. ASSUME NEW f \in metas PROVE Whole(f, all)
  <2>1. CASE ~Taken("FRONT_META")
    <3>1. parked["FRONT_META"] = None /\ Source("FRONT_META") = pin["FRONT_META"] /\ pin["FRONT_META"] # None
      BY <1>2, <1>3, <2>1, FrontNames DEF Source
    <3>2. fate["FRONT_META"] # "Migrate"
      BY <1>1, <1>8, <2>1, <3>1 DEF NameInv
    <3>3. parked["FRONT_ENDPOINTS"] = None
      BY <1>2, <1>3, <1>7, <3>2
    <3>4. Source("FRONT_ENDPOINTS") = pin["FRONT_ENDPOINTS"] /\ pin["FRONT_ENDPOINTS"] # None
      BY <1>2, <1>3, <3>3, FrontNames DEF Source
    <3> QED BY <1>6, <3>1, <3>4 DEF SourceInv, WholeIn, Whole
  <2>2. CASE Taken("FRONT_META") /\ pin["FRONT_META"] = parked["FRONT_META"]
    <3> DEFINE rows == Rows("FRONT_ENDPOINTS", parked["FRONT_ENDPOINTS"])
    <3>1. /\ Source("FRONT_META") = pin["FRONT_META"] /\ pin["FRONT_META"] # None
          /\ Source("FRONT_ENDPOINTS") = parked["FRONT_ENDPOINTS"] /\ Source("FRONT_ENDPOINTS") # None
      BY <1>2, <1>3, <1>11, <2>2, FrontNames DEF Source
    <3>2. \A g \in metas : Whole(g, rows)
      BY <1>6, <3>1 DEF SourceInv, WholeIn
    <3>3. /\ Cardinality(metas) <= Shapes[wanted]["FRONT_META"].cap /\ metas \subseteq Fronts
      BY <1>2, <1>3, FrontNames DEF PinInv, MapsOK, Wanted
    <3>4. Cardinality(UNION {RowsOf(g) : g \in metas}) <= Shapes[wanted]["FRONT_ENDPOINTS"].cap
      <4>1. Shapes[wanted]["FRONT_META"] = ShapeOf("FRONT_META", Source("FRONT_META"))
        BY <1>2, <1>3, <3>1 DEF Wanted
      <4>2. starts.resumed
        BY <1>1, <1>6, <2>2, <3>1 DEF ResumeInv, Between
      <4>3. PICK config \in starts.tried :
              /\ Shapes[config]["FRONT_META"] = ShapeOf("FRONT_META", Source("FRONT_META"))
              /\ Cardinality(UNION {RowsOf(g) : g \in SourceMetas}) <= Shapes[config]["FRONT_ENDPOINTS"].cap
        BY <1>6, <3>1 DEF SourceInv
      <4>4. SourceMetas = metas
        BY <3>1 DEF SourceMetas
      <4> QED BY <1>14, <4>1, <4>2, <4>3, <4>4
    <3>5. plan = Admitted(metas, rows, wanted)
      BY <1>11, <2>2 DEF ParkedPlan
    <3> HIDE DEF metas, rows, all
    <3>6. metas \subseteq plan
      BY <1>1, <3>2, <3>3, <3>4, <3>5, PlanTakesAll
    <3> QED BY <1>13, <3>6
  <2>3. CASE Taken("FRONT_META") /\ pin["FRONT_META"] # parked["FRONT_META"]
    <3>1. Beside("FRONT_META") /\ metas # {} /\ PinMetas = metas
      BY <1>2, <1>3, <2>3, FrontNames DEF Beside, PinMetas
    <3>2. metas \subseteq ParkedPlan(wanted)
      BY <1>15, <3>1
    <3> QED BY <1>11, <1>13, <2>3, <3>2
  <2> QED BY <2>1, <2>2, <2>3
<1>17. /\ Rows("FRONT_META", pin["FRONT_META"])' = metas
       /\ Rows("FRONT_ENDPOINTS", pin["FRONT_ENDPOINTS"])' = Rows("FRONT_ENDPOINTS", pin["FRONT_ENDPOINTS"])
       /\ ParkedPlan(wanted)' = ParkedPlan(wanted)
  BY <1>1 DEF Still, Rows, ParkedPlan
<1>18. RestoreInv'
  <2>1. plan # {} => parked'["FRONT_ENDPOINTS"] # None /\ plan \subseteq ParkedPlan(wanted)'
    BY <1>1, <1>10, <1>11, <1>17 DEF Still
  <2>2. \A f \in metas \cup plan : Whole(f, all)
    BY <1>13, <1>16
  <2>3. Beside("FRONT_META")' /\ PinMetas' # {} => PinMetas' \subseteq ParkedPlan(wanted)'
    <3>1. PinMetas' = PinMetas /\ (Beside("FRONT_META")' => Beside("FRONT_META"))
      BY <1>1 DEF Still, PinMetas, Rows, Beside
    <3> QED BY <1>17, <1>15, <3>1
  <2> QED BY <1>1, <1>12, <1>17, <2>1, <2>2, <2>3 DEF RestoreInv
<1>19. ResumeInv'
  BY <1>1 DEF ResumeInv
<1> QED BY <1>5, <1>18, <1>19

\* A write of the restore: the rows of a front before the front.
LEMMA RestoreWriteFronts ==
  ASSUME PinInv, TriedInv, FrontInv, RestoreWrite
  PROVE  FrontInv'
<1> SUFFICES ASSUME Good' PROVE LeftInv' /\ SourceInv' /\ ResumeInv' /\ RestoreInv' /\ IngressInv'
  BY DEF FrontInv
<1>1. /\ phase = "restore" /\ UNCHANGED <<pin, parked, program, phase, wanted, lossy, starts>>
      /\ todo' \subseteq todo
  BY RestoreWriteEffect
<1>2. Undisturbed
  BY RestoreWriteKeeps
<1>3. Good /\ LeftInv /\ SourceInv /\ RestoreInv /\ IngressInv
  BY <1>1 DEF Good, Resized, PairedCaps, Unread, FrontInv
<1>4. "FRONT_META" \in FrontMaps /\ "FRONT_ENDPOINTS" \in FrontMaps /\ FrontMaps \subseteq NameSet
      /\ "FRONT_META" \in NameSet /\ "FRONT_ENDPOINTS" \in NameSet
  BY TheNames DEF FrontMaps
<1>5. \A n \in NameSet : pin[n] \in MapIds
  BY <1>1 DEF PinInv, ShapeInv, NamesOK
<1>6. ASSUME NEW n \in FrontMaps
      PROVE  /\ Rows(n, pin[n])' \cup RowsTodo(n)' \subseteq Rows(n, pin[n]) \cup RowsTodo(n)
             /\ Rows(n, pin[n]) \subseteq Rows(n, pin[n])'
             /\ ~failed' => ~failed
             /\ ~failed' => Rows(n, pin[n]) \cup RowsTodo(n) \subseteq Rows(n, pin[n])' \cup RowsTodo(n)'
  BY <1>4, RestoreWriteRows
<1>7. \A n \in FrontMaps : ShapeOf(n, pin[n])' = ShapeOf(n, pin[n])
  BY <1>1, <1>2, <1>4, <1>5 DEF Undisturbed, ShapeOf
<1>8. \A n \in FrontMaps : parked[n] # None => Rows(n, parked[n])' = Rows(n, parked[n]) /\ ShapeOf(n, parked[n])' = ShapeOf(n, parked[n])
  BY <1>1, <1>2, <1>4, FrontNames DEF Undisturbed, Rows, ShapeOf
<1>9. IngressInv'
  <2>1. Ingress # NoPins => \A n \in FrontMaps : Rows(n, Ingress[n])' = Rows(n, Ingress[n])
    <3>1. "uplink_ingress" \in HookSet
      BY TheNames
    <3> QED BY <1>1, <1>2, <1>4, <3>1, FrontNames DEF Undisturbed, Rows, Ingress
  <2> QED BY <1>1, <1>3, <1>4, <2>1 DEF IngressInv, WholeIn, Ingress
<1>10. SourceInv'
  <2>1. ASSUME NEW n \in FrontMaps
        PROVE  /\ Source(n)' = Source(n)
               /\ Source(n) # None => Rows(n, Source(n))' = Rows(n, Source(n)) /\ ShapeOf(n, Source(n))' = ShapeOf(n, Source(n))
    <3>1. CASE parked[n] # None
      BY <1>1, <1>8, <3>1 DEF Source
    <3>2. CASE parked[n] = None
      <4>1. RowsTodo(n) = {}
        BY <1>1, <1>4, <3>2 DEF PinInv, ParkInv
      <4>2. Rows(n, pin[n])' = Rows(n, pin[n])
        BY <1>6, <4>1
      <4> QED BY <1>1, <1>7, <3>2, <4>2 DEF Source
    <3> QED BY <3>1, <3>2
  <2>2. Source("FRONT_META") # None => SourceMetas' = SourceMetas
    BY <1>4, <2>1 DEF SourceMetas
  <2> QED BY <1>1, <1>3, <1>4, <2>1, <2>2 DEF SourceInv, WholeIn
<1>11. ASSUME NEW r \in RowsTodo("FRONT_META")
       PROVE  /\ parked["FRONT_META"] # None /\ parked["FRONT_ENDPOINTS"] # None /\ r \in ParkedPlan(wanted)
  <2>1. parked["FRONT_META"] # None
    BY <1>1, <1>4 DEF PinInv, ParkInv
  <2> QED BY <1>1, <1>3, <2>1 DEF RestoreInv
<1>12. parked["FRONT_META"] # None /\ parked["FRONT_ENDPOINTS"] # None =>
         \A config : ParkedPlan(config)' = ParkedPlan(config)
  BY <1>1, <1>4, <1>8 DEF ParkedPlan
<1>13. ASSUME Beside("FRONT_META")', PinMetas' # {}
       PROVE  parked'["FRONT_ENDPOINTS"] # None /\ PinMetas' \subseteq ParkedPlan(wanted)'
  <2>1. Beside("FRONT_META") /\ parked["FRONT_META"] # None
    BY <1>1, <1>13 DEF Beside
  <2>2. \A r \in PinMetas' : r \in PinMetas \/ r \in RowsTodo("FRONT_META")
    BY <1>1, <1>4, <1>6 DEF PinMetas
  <2>3. ASSUME NEW r \in PinMetas' PROVE parked["FRONT_ENDPOINTS"] # None /\ r \in ParkedPlan(wanted)
    <3>1. CASE r \in PinMetas
      BY <1>1, <1>3, <2>1, <3>1 DEF LeftInv, RestoreInv
    <3>2. CASE r \in RowsTodo("FRONT_META")
      BY <1>11, <3>2
    <3> QED BY <2>2, <3>1, <3>2
  <2>4. parked["FRONT_ENDPOINTS"] # None
    BY <1>13, <2>3
  <2>5. ParkedPlan(wanted)' = ParkedPlan(wanted)
    BY <1>1, <1>4, <1>8, <2>1, <2>4 DEF ParkedPlan
  <2> QED BY <1>1, <2>3, <2>4, <2>5
<1>14. LeftInv'
  <2>1. ShapeOf("FRONT_META", pin["FRONT_META"])' = Shapes[wanted]["FRONT_META"]
    BY <1>1, <1>4, <1>7 DEF PinInv, ShapeInv, Wanted
  <2>2. wanted \in starts.tried
    BY <1>1 DEF TriedInv
  <2> QED BY <1>1, <1>13, <2>1, <2>2 DEF LeftInv
<1>15. \A n : RowsTodo(n)' \subseteq RowsTodo(n)
  BY <1>1 DEF RowsTodo
<1>16. RestoreInv'
  <2>1. RowsTodo("FRONT_META")' # {} =>
          parked'["FRONT_ENDPOINTS"] # None /\ RowsTodo("FRONT_META")' \subseteq ParkedPlan(wanted)'
    <3>1. ASSUME NEW r \in RowsTodo("FRONT_META")' PROVE parked["FRONT_ENDPOINTS"] # None /\ r \in ParkedPlan(wanted)'
      <4>1. r \in RowsTodo("FRONT_META")
        BY <1>15
      <4>2. ParkedPlan(wanted)' = ParkedPlan(wanted)
        BY <1>1, <1>11, <1>12, <4>1 DEF ParkedPlan
      <4> QED BY <1>11, <4>1, <4>2
    <3> QED BY <1>1, <3>1
  <2>2. ASSUME ~failed'
        PROVE  \A f \in Rows("FRONT_META", pin["FRONT_META"])' \cup RowsTodo("FRONT_META")' :
                 Whole(f, Rows("FRONT_ENDPOINTS", pin["FRONT_ENDPOINTS"])' \cup RowsTodo("FRONT_ENDPOINTS")')
    <3>1. ~failed
      BY <1>4, <1>6, <2>2
    <3>2. /\ Rows("FRONT_META", pin["FRONT_META"])' \cup RowsTodo("FRONT_META")'
               \subseteq Rows("FRONT_META", pin["FRONT_META"]) \cup RowsTodo("FRONT_META")
          /\ Rows("FRONT_ENDPOINTS", pin["FRONT_ENDPOINTS"]) \cup RowsTodo("FRONT_ENDPOINTS")
               \subseteq Rows("FRONT_ENDPOINTS", pin["FRONT_ENDPOINTS"])' \cup RowsTodo("FRONT_ENDPOINTS")'
      BY <1>4, <1>6, <2>2
    <3>3. \A f \in Rows("FRONT_META", pin["FRONT_META"]) \cup RowsTodo("FRONT_META") :
            Whole(f, Rows("FRONT_ENDPOINTS", pin["FRONT_ENDPOINTS"]) \cup RowsTodo("FRONT_ENDPOINTS"))
      BY <1>1, <1>3, <3>1 DEF RestoreInv
    <3> QED BY <3>2, <3>3 DEF Whole
  <2> QED BY <1>1, <1>13, <2>1, <2>2 DEF RestoreInv
<1>17. ResumeInv'
  BY <1>1 DEF ResumeInv
<1> QED BY <1>9, <1>10, <1>14, <1>16, <1>17

\* unpark_migrated: the restored maps have become the sources.
LEMMA UnparkFronts ==
  ASSUME PinInv, TriedInv, FrontInv, Unpark
  PROVE  FrontInv'
<1> SUFFICES ASSUME Good' PROVE LeftInv' /\ SourceInv' /\ ResumeInv' /\ RestoreInv' /\ IngressInv'
  BY DEF FrontInv
<1>0. PICK name : name = Turn
  OBVIOUS
<1>1. /\ phase = "unpark" /\ name \in todo /\ name \in NameSet
      /\ parked' = [parked EXCEPT ![name] = None]
      /\ UNCHANGED <<pin, program, phase, lossy, starts>> /\ Kept /\ NamesOK'
  BY <1>0, UnparkEffect
<1>2. Good /\ LeftInv /\ SourceInv /\ RestoreInv /\ IngressInv
  BY <1>1 DEF Good, Resized, PairedCaps, Unread, FrontInv
<1>3. \A n \in NameSet : parked'[n] = IF n = name THEN None ELSE parked[n]
  BY <1>1 DEF PinInv, NamesOK
<1>4. \A n \in NameSet : pin[n] \in MapIds
  BY <1>1 DEF PinInv, ShapeInv, NamesOK
<1>5. name = "FRONT_ENDPOINTS" => parked["FRONT_META"] = None
  <2>1. name = "FRONT_ENDPOINTS" => "FRONT_META" \notin todo
    BY <1>0, <1>1, TurnIsNext
  <2> QED BY <1>1, <2>1, FrontNames DEF PinInv, ParkInv
<1>6. IngressInv'
  BY <1>1, <1>2, IngressKept DEF Ingress
<1>7. LeftInv'
  <2>1. Beside("FRONT_META")' =>
            /\ Beside("FRONT_META") /\ pin'["FRONT_META"] = pin["FRONT_META"]
            /\ parked'["FRONT_META"] = parked["FRONT_META"]
            /\ parked["FRONT_ENDPOINTS"] # None => parked'["FRONT_ENDPOINTS"] = parked["FRONT_ENDPOINTS"]
    BY <1>1, <1>3, <1>5, FrontNames DEF Beside
  <2> QED BY <1>1, <1>2, <2>1, LeftKept
<1>8. \A n \in NameSet : maps'[n][pin[n]] = maps[n][pin[n]]
  <2>1. \A n \in NameSet : pin[n] \in Refs(n)' /\ pin[n] # None
    BY <1>1, <1>4, FrontNames DEF Refs
  <2> QED BY <1>1, <2>1, KeptRows
<1>9. RestoreInv'
  BY <1>1, <1>2, <1>8, FrontNames DEF RestoreInv, WholeIn, Rows
<1>10. SourceInv'
  <2>1. CASE name = "FRONT_META"
    <3>1. Source("FRONT_ENDPOINTS")' = Source("FRONT_ENDPOINTS") /\ Source("FRONT_META")' = pin["FRONT_META"]
      BY <1>1, <1>3, <2>1, FrontNames DEF Source
    <3>2. CASE Beside("FRONT_META")
      BY <1>1, <1>2, <3>1, <3>2, FallBack
    <3>3. CASE ~Beside("FRONT_META")
      <4>1. Source("FRONT_META") = pin["FRONT_META"]
        BY <1>4, <3>3, FrontNames DEF Beside, Source
      <4>2. \A n \in FrontMaps : Source(n)' \in {Source(n), None}
        BY <3>1, <4>1 DEF FrontMaps
      <4> QED BY <1>1, <1>2, <4>2, SourceKept
    <3> QED BY <3>2, <3>3
  <2>2. CASE name = "FRONT_ENDPOINTS"
    <3>1. /\ Source("FRONT_ENDPOINTS")' = pin["FRONT_ENDPOINTS"]
          /\ Source("FRONT_META")' = pin["FRONT_META"] /\ Source("FRONT_META") = pin["FRONT_META"]
          /\ Source("FRONT_META") # None
      BY <1>1, <1>3, <1>4, <1>5, <2>2, FrontNames DEF Source
    <3>2. WholeIn(pin["FRONT_META"], pin["FRONT_ENDPOINTS"])
      BY <1>1, <1>2 DEF RestoreInv
    <3>3. /\ Rows("FRONT_META", Source("FRONT_META"))' = Rows("FRONT_META", Source("FRONT_META"))
          /\ ShapeOf("FRONT_META", Source("FRONT_META"))' = ShapeOf("FRONT_META", Source("FRONT_META"))
          /\ Rows("FRONT_ENDPOINTS", Source("FRONT_ENDPOINTS"))' = Rows("FRONT_ENDPOINTS", pin["FRONT_ENDPOINTS"])
      BY <1>8, <3>1, FrontNames DEF Rows, ShapeOf
    <3>4. SourceMetas' = SourceMetas
      BY <3>3 DEF SourceMetas
    <3> QED BY <1>1, <1>2, <3>1, <3>2, <3>3, <3>4 DEF SourceInv, WholeIn
  <2>3. CASE name \notin {"FRONT_META", "FRONT_ENDPOINTS"}
    <3>1. \A n \in FrontMaps : Source(n)' \in {Source(n), None}
      BY <1>1, <1>3, <2>3, FrontNames DEF Source, FrontMaps
    <3> QED BY <1>1, <1>2, <3>1, SourceKept
  <2> QED BY <2>1, <2>2, <2>3
<1>11. ResumeInv'
  BY <1>1 DEF ResumeInv
<1> QED BY <1>6, <1>7, <1>9, <1>10, <1>11

\* A classifier takes over the pinned maps.
LEMMA AttachFronts ==
  ASSUME PinInv, FrontInv, AttachTo(First(Hooks, todo))
  PROVE  FrontInv'
<1> SUFFICES ASSUME Good' PROVE LeftInv' /\ SourceInv' /\ ResumeInv' /\ RestoreInv' /\ IngressInv'
  BY DEF FrontInv
<1>1. PICK hook \in HookSet :
        /\ phase = "attach" /\ program' = [program EXCEPT ![hook] = pin]
        /\ phase' = IF todo' = {} THEN "run" ELSE phase
        /\ UNCHANGED <<pin, parked, lossy, starts>>
        /\ parked = NoPins /\ Kept /\ NamesOK'
  BY AttachEffect
<1>2. Good /\ LeftInv /\ SourceInv /\ IngressInv
  BY <1>1 DEF Good, Resized, PairedCaps, Unread, FrontInv
<1>3. \A n \in NameSet : parked[n] = None /\ Source(n) = pin[n] /\ Source(n)' = Source(n)
  BY <1>1 DEF NoPins, Source
<1>4. \A n \in NameSet : pin[n] \in MapIds
  BY <1>1 DEF PinInv, ShapeInv, NamesOK, AfterLoad
<1>5. LeftInv'
  BY <1>1, <1>3, FrontNames DEF LeftInv, Beside
<1>6. SourceInv'
  <2>1. \A n \in FrontMaps : Source(n)' \in {Source(n), None}
    BY <1>3, FrontNames
  <2> QED BY <1>1, <1>2, <2>1, SourceKept
<1>7. RestoreInv'
  BY <1>1 DEF RestoreInv
<1>8. IngressInv'
  <2>1. program'["uplink_ingress"] = IF hook = "uplink_ingress" THEN pin ELSE program["uplink_ingress"]
    BY <1>1, TheNames DEF PinInv, NamesOK
  <2>2. CASE hook # "uplink_ingress"
    <3>1. Ingress' = Ingress
      BY <2>1, <2>2 DEF Ingress
    <3> QED BY <1>1, <1>2, <3>1, IngressKept
  <2>3. CASE hook = "uplink_ingress"
    <3>1. Ingress' = pin
      BY <2>1, <2>3 DEF Ingress
    <3>2. WholeIn(pin["FRONT_META"], pin["FRONT_ENDPOINTS"])
      BY <1>2, <1>3, <1>4, FrontNames DEF SourceInv
    <3>3. \A n \in NameSet : maps'[n][pin[n]] = maps[n][pin[n]]
      <4>1. \A n \in NameSet : pin[n] \in Refs(n)' /\ pin[n] # None
        BY <1>1, <1>4, FrontNames DEF Refs
      <4> QED BY <1>1, <4>1, KeptRows
    <3>4. WholeIn(Ingress["FRONT_META"], Ingress["FRONT_ENDPOINTS"])'
      BY <3>1, <3>2, <3>3, FrontNames DEF WholeIn, Rows
    <3> QED BY <3>4 DEF IngressInv
  <2> QED BY <2>2, <2>3
<1>9. ResumeInv'
  BY <1>1 DEF ResumeInv
<1> QED BY <1>5, <1>6, <1>7, <1>8, <1>9

\* A device goes, or a flow arrives: the front maps stay as they are.
LEMMA DetachFronts ==
  ASSUME PinInv, FrontInv, Detach
  PROVE  FrontInv'
<1>1. /\ UNCHANGED <<pin, parked, lossy, starts, phase, wanted, todo, half, failed>> /\ Kept /\ NamesOK'
      /\ program'["uplink_ingress"] = program["uplink_ingress"]
  BY DetachEffect DEF loadVars
<1>2. ASSUME NEW n \in FrontMaps, NEW m \in MapIds, m \in {pin[n], parked[n], Ingress[n]}
      PROVE  maps'[n][m] = maps[n][m]
  <2>1. m \in Refs(n)' /\ m # None
    BY <1>1, <1>2, TheNames, FrontNames DEF Refs, Ingress
  <2> QED BY <1>1, <2>1, KeptRows, FrontNames
<1>3. SameFronts
  BY <1>1, <1>2 DEF SameFronts, Ingress
<1> QED BY <1>1, <1>3, OtherFronts

\* NewFlow has nothing to do with the fronts.
LEMMA NewFlowFronts ==
  ASSUME PinInv, FrontInv, NEW k \in Flows, NewFlow(k)
  PROVE  FrontInv'
<1>1. UNCHANGED <<pin, parked, program, lossy, starts, phase, wanted, todo, half, failed>>
  BY NewFlowEffect
<1>2. ASSUME NEW n \in FrontMaps, NEW m \in MapIds PROVE maps'[n][m] = maps[n][m]
  <2>1. n # "FLOW_TABLE" /\ n \in NameSet
    BY FrontNames DEF FrontMaps
  <2> QED BY <2>1, NewFlowEffect DEF Written
<1>3. SameFronts
  BY <1>1, <1>2 DEF SameFronts, Ingress
<1> QED BY <1>1, <1>3, OtherFronts

\* A running controller is at rest once all of its fronts are whole.
LEMMA RunAtRest ==
  PinInv /\ TriedInv /\ phase = "run" /\ WholeIn(pin["FRONT_META"], pin["FRONT_ENDPOINTS"]) => AtRest
<1> SUFFICES ASSUME PinInv, TriedInv, phase = "run", WholeIn(pin["FRONT_META"], pin["FRONT_ENDPOINTS"])
             PROVE  AtRest
  OBVIOUS
<1>1. parked = NoPins
  BY DEF PinInv, ParkInv, AfterLoad
<1>2. /\ wanted \in starts.tried /\ \A n \in NameSet : pin[n] # None /\ ShapeOf(n, pin[n]) = Shapes[wanted][n]
  BY DEF PinInv, TriedInv, ShapeInv, AfterLoad, Wanted
<1>3. Ingress \in {NoPins, pin}
  BY TheNames DEF PinInv, AttachInv, OnPins, Ingress
<1> QED BY <1>1, <1>2, <1>3, FrontNames DEF AtRest

\* A running controller writes the rows of a front before the front; what was
\* lost counts as written again when every front is whole.
LEMMA RunFronts ==
  ASSUME PinInv, FrontInv, PinInv', TriedInv', Settle \/ \E f \in Fronts : WriteRows(f) \/ CommitFront(f)
  PROVE  FrontInv'
<1> SUFFICES ASSUME Good' PROVE FrontInv'
  BY DEF FrontInv
<1>1. phase = "run" /\ phase' = "run"
  BY DEF Settle, WriteRows, CommitFront, loadVars
<1>2. WholeIn(pin["FRONT_META"], pin["FRONT_ENDPOINTS"])'
  <2>1. CASE Settle
    BY <2>1 DEF Settle, Meta, Endpoints, WholeIn, Rows
  <2>2. ASSUME NEW f \in Fronts, WriteRows(f) \/ CommitFront(f)
        PROVE  WholeIn(pin["FRONT_META"], pin["FRONT_ENDPOINTS"])'
    <3>1. /\ parked = NoPins /\ UNCHANGED <<pin, lossy, starts>>
      BY <2>2, RunWrites
    <3>2. PICK name, new :
            /\ name \in FrontMaps /\ Written(name, pin[name], new) /\ Rows(name, pin[name]) \subseteq new
            /\ name = "FRONT_META" =>
                 new = Rows(name, pin[name]) \cup {f} /\ Whole(f, Rows("FRONT_ENDPOINTS", pin["FRONT_ENDPOINTS"]))
      BY <2>2, RunWrites
    <3>3. Good /\ SourceInv
      BY <3>1 DEF Good, Resized, PairedCaps, Unread, FrontInv
    <3>4. \A n \in NameSet : Source(n) = pin[n] /\ pin[n] \in MapIds
      BY <1>1, <3>1 DEF Source, NoPins, PinInv, ShapeInv, NamesOK, AfterLoad
    <3>5. WholeIn(pin["FRONT_META"], pin["FRONT_ENDPOINTS"])
      BY <3>3, <3>4, FrontNames DEF SourceInv
    <3>6. \A n \in NameSet : Rows(n, pin[n])' = IF n = name THEN new ELSE Rows(n, pin[n])
      BY <3>1, <3>2, <3>4 DEF Written, Rows
    <3>7. CASE name = "FRONT_META"
      <4>1. /\ Rows("FRONT_META", pin["FRONT_META"])' = Rows("FRONT_META", pin["FRONT_META"]) \cup {f}
            /\ Rows("FRONT_ENDPOINTS", pin["FRONT_ENDPOINTS"])' = Rows("FRONT_ENDPOINTS", pin["FRONT_ENDPOINTS"])
        BY <3>2, <3>6, <3>7, FrontNames
      <4> QED BY <3>2, <3>5, <3>7, <4>1 DEF WholeIn
    <3>8. CASE name = "FRONT_ENDPOINTS"
      <4>1. /\ Rows("FRONT_META", pin["FRONT_META"])' = Rows("FRONT_META", pin["FRONT_META"])
            /\ Rows("FRONT_ENDPOINTS", pin["FRONT_ENDPOINTS"]) \subseteq Rows("FRONT_ENDPOINTS", pin["FRONT_ENDPOINTS"])'
        BY <3>2, <3>6, <3>8, FrontNames
      <4> QED BY <3>5, <4>1 DEF WholeIn, Whole
    <3> QED BY <3>2, <3>7, <3>8 DEF FrontMaps
  <2> QED BY <2>1, <2>2
<1>3. PinInv' /\ TriedInv' /\ (phase = "run")' /\ WholeIn(pin["FRONT_META"], pin["FRONT_ENDPOINTS"])' => AtRest'
  BY RunAtRest, PTL
<1>4. AtRest' => FrontInv'
  BY RestFronts, PTL
<1> QED BY <1>1, <1>2, <1>3, <1>4

\* FrontInv is inductive.
LEMMA FrontInvStep == PinInv /\ TriedInv /\ FrontInv /\ [Next]_vars => FrontInv'
<1> SUFFICES ASSUME PinInv, TriedInv, FrontInv, [Next]_vars PROVE FrontInv'
  OBVIOUS
<1>1. CASE LoadStep
  BY <1>1, ProcessFronts, ParkFronts, GiveUpFronts, UnpinFronts, CreatePinFronts, PlanRestoreFronts,
     RestoreWriteFronts, UnparkFronts DEF LoadStep
<1>2. CASE RunStep
  BY <1>2, PinInvStep, TriedStep, AttachFronts, DetachFronts, RunFronts, NewFlowFronts DEF RunStep
<1>3. CASE UNCHANGED pinVars
  <2>1. SameFronts /\ UNCHANGED <<starts, phase, wanted, todo, half, failed>>
    BY <1>3 DEF pinVars, loadVars, SameFronts, Ingress
  <2> QED BY <2>1, OtherFronts
<1> QED BY <1>1, <1>2, <1>3, MapSteps

\* A fresh and a stopped node satisfy FrontInv.
LEMMA FrontInvInit == Init => FrontInv
<1> SUFFICES ASSUME Init PROVE FrontInv
  OBVIOUS
<1>1. PinInv /\ parked = NoPins /\ phase = "off"
  BY PinInvInit DEF Init
<1>2. CASE FreshNode
  <2>1. \A n \in NameSet : parked[n] = None /\ Source(n) = None
    BY <1>1, <1>2 DEF FreshNode, NoPins, Source
  <2>2. Ingress = NoPins
    BY <1>2, TheNames DEF FreshNode, Ingress
  <2> QED BY <1>1, <2>1, <2>2, FrontNames DEF FrontInv, LeftInv, Beside, SourceInv, ResumeInv, RestoreInv, IngressInv
<1>3. CASE StoppedNode
  <2>1. 1 \in MapIds /\ Base \in Configs /\ None # 1
    BY MapsAssumption, BaseAssumption DEF MapsAssumption, BaseAssumption, None
  <2>2. (\A n \in NameSet : pin[n] = 1) /\ Ingress = pin
    BY <1>3, TheNames DEF StoppedNode, Ingress
  <2>3. /\ Rows("FRONT_META", 1) = Fronts
        /\ Rows("FRONT_ENDPOINTS", 1) = UNION {RowsOf(f) \cup {<<f, 0, 0>>} : f \in Fronts}
        /\ \A n \in NameSet : ShapeOf(n, 1) = Shapes[Base][n]
    BY <1>3, <2>1, TheNames DEF StoppedNode, Rows, ShapeOf
  <2>4. WholeIn(1, 1)
    BY <2>3 DEF WholeIn, Whole
  <2>5. Base \in starts.tried
    BY <1>3 DEF StoppedNode, Started
  <2>6. AtRest
    BY <1>1, <2>1, <2>2, <2>3, <2>4, <2>5, FrontNames DEF AtRest
  <2> QED BY <2>6, RestFronts
<1> QED BY <1>2, <1>3 DEF Init

(***************************************************************************)
(* The followed classifier that admits flows never resolves a front some   *)
(* of whose endpoint rows are missing in its maps, for every set of        *)
(* configurations and wherever migrations are cut off, until one of two    *)
(* things has happened since all fronts were last whole: FRONT_ENDPOINTS   *)
(* could not be read, or --endpoints-per-front alone was changed between   *)
(* starts of which one resumed an interrupted migration.  The runs show    *)
(* that the code does break fronts in either case.                         *)
(***************************************************************************)
THEOREM FrontsStayWhole == Spec => []FrontsWhole
<1>1. FrontInv => FrontsWhole
  BY DEF FrontInv, Good, IngressInv, WholeIn, FrontsWhole, AllWhole, FrontsOf, RowsIn, Rows
<1> QED BY <1>1, PinInvInit, PinInvStep, TriedInit, TriedStep, FrontInvInit, FrontInvStep, PTL DEF Spec

-----------------------------------------------------------------------------
(* CarryInv: the fronts that a classifier resolves are carried over.       *)

\* A map of FRONT_META that a step leaves as it is.
SameMeta ==
    /\ pin'["FRONT_META"] = pin["FRONT_META"] /\ parked'["FRONT_META"] = parked["FRONT_META"]
    /\ \A h \in HookSet : program'[h] \in {program[h], NoPins}
    /\ \A m \in MapIds : m \in Refs("FRONT_META")' =>
         maps'["FRONT_META"][m].rows = maps["FRONT_META"][m].rows

\* What a program refers to.
LEMMA ProgramRefs ==
  ASSUME NamesOK, NEW h \in HookSet, program[h] # NoPins, NEW n \in NameSet
  PROVE  program[h][n] \in MapIds /\ program[h][n] \in Refs(n)
BY DEF NamesOK, Refs

\* A step that leaves FRONT_META keeps CarryInv.
LEMMA CarryFrame ==
  ASSUME PinInv, CarryInv, NamesOK', SameMeta, lossy \subseteq lossy', UNCHANGED phase,
         phase = "restore" => UNCHANGED <<todo, failed>>
  PROVE  CarryInv'
<1> SUFFICES ASSUME FrontsKept'
             PROVE  /\ \A h \in HookSet : program'[h] # NoPins =>
                         /\ Source("FRONT_META")' # None
                         /\ Rows("FRONT_META", program[h]["FRONT_META"])' \subseteq Rows("FRONT_META", Source("FRONT_META"))'
                    /\ phase' = "restore" /\ ~failed' /\ parked'["FRONT_META"] # None =>
                         Rows("FRONT_META", parked["FRONT_META"])'
                           \subseteq Rows("FRONT_META", pin["FRONT_META"])' \cup RowsTodo("FRONT_META")'
                    /\ phase' = "unpark" /\ parked'["FRONT_META"] # None =>
                         Rows("FRONT_META", parked["FRONT_META"])' \subseteq Rows("FRONT_META", pin["FRONT_META"])'
  BY DEF CarryInv
<1>1. FrontsKept
  BY DEF FrontsKept
<1>2. /\ pin'["FRONT_META"] = pin["FRONT_META"] /\ parked'["FRONT_META"] = parked["FRONT_META"]
      /\ Source("FRONT_META")' = Source("FRONT_META")
  BY DEF SameMeta, Source
<1>3. ASSUME NEW m \in Refs("FRONT_META")', m # None
      PROVE  maps'["FRONT_META"][m].rows = maps["FRONT_META"][m].rows
  <2>1. m \in MapIds
    BY <1>3, FrontNames DEF NamesOK, Refs
  <2> QED BY <2>1 DEF SameMeta
<1>4. /\ pin["FRONT_META"] # None => Rows("FRONT_META", pin["FRONT_META"])' = Rows("FRONT_META", pin["FRONT_META"])
      /\ parked["FRONT_META"] # None => Rows("FRONT_META", parked["FRONT_META"])' = Rows("FRONT_META", parked["FRONT_META"])
  BY <1>2, <1>3 DEF Refs, Rows
<1>5. Source("FRONT_META") # None => Rows("FRONT_META", Source("FRONT_META"))' = Rows("FRONT_META", Source("FRONT_META"))
  BY <1>2, <1>4 DEF Source
<1>6. ASSUME NEW h \in HookSet, program'[h] # NoPins
      PROVE  /\ Source("FRONT_META")' # None
             /\ Rows("FRONT_META", program[h]["FRONT_META"])' \subseteq Rows("FRONT_META", Source("FRONT_META"))'
  <2>1. program'[h] = program[h]
    BY <1>6 DEF SameMeta
  <2>2. program[h]["FRONT_META"] \in MapIds /\ program[h]["FRONT_META"] # None
    BY <1>6, <2>1, ProgramRefs, FrontNames DEF PinInv
  <2>3. program[h]["FRONT_META"] \in Refs("FRONT_META")'
    BY <2>1 DEF Refs
  <2>4. Rows("FRONT_META", program[h]["FRONT_META"])' = Rows("FRONT_META", program[h]["FRONT_META"])
    BY <1>3, <2>1, <2>2, <2>3 DEF Rows
  <2> QED BY <1>1, <1>2, <1>5, <1>6, <2>1, <2>4 DEF CarryInv
<1>7. phase \in {"restore", "unpark"} => pin["FRONT_META"] # None
  BY FrontNames DEF PinInv, ShapeInv
<1>8. phase = "restore" => RowsTodo("FRONT_META")' = RowsTodo("FRONT_META") /\ failed' = failed
  BY DEF RowsTodo
<1> QED BY <1>1, <1>2, <1>4, <1>6, <1>7, <1>8 DEF CarryInv

\* The process starts, dies, or goes on after the restore.
LEMMA ProcessCarry ==
  ASSUME PinInv, CarryInv, (\E config \in Configs : StartLoad(config)) \/ Die \/ EndLoad \/ Forward
  PROVE  CarryInv'
<1>1. Still /\ UNCHANGED lossy
  BY DEF StartLoad, Die, EndLoad, Forward, Still
<1>2. \A id : Rows("FRONT_META", id)' = Rows("FRONT_META", id)
  BY <1>1 DEF Still, Rows
<1> SUFFICES ASSUME FrontsKept'
             PROVE  /\ \A h \in HookSet : program'[h] # NoPins =>
                         /\ Source("FRONT_META")' # None
                         /\ Rows("FRONT_META", program[h]["FRONT_META"])' \subseteq Rows("FRONT_META", Source("FRONT_META"))'
                    /\ phase' = "restore" /\ ~failed' /\ parked'["FRONT_META"] # None =>
                         Rows("FRONT_META", parked["FRONT_META"])'
                           \subseteq Rows("FRONT_META", pin["FRONT_META"])' \cup RowsTodo("FRONT_META")'
                    /\ phase' = "unpark" /\ parked'["FRONT_META"] # None =>
                         Rows("FRONT_META", parked["FRONT_META"])' \subseteq Rows("FRONT_META", pin["FRONT_META"])'
  BY DEF CarryInv
<1>3. FrontsKept
  BY <1>1 DEF FrontsKept
<1>4. \A h \in HookSet : program'[h] # NoPins =>
         /\ Source("FRONT_META")' # None
         /\ Rows("FRONT_META", program[h]["FRONT_META"])' \subseteq Rows("FRONT_META", Source("FRONT_META"))'
  BY <1>1, <1>3 DEF CarryInv, Still, Source, Rows
<1>5. phase' # "restore"
  BY DEF StartLoad, Die, EndLoad, Forward
<1>6. ASSUME phase' = "unpark", parked'["FRONT_META"] # None
      PROVE  Rows("FRONT_META", parked["FRONT_META"])' \subseteq Rows("FRONT_META", pin["FRONT_META"])'
  <2>1. EndLoad
    BY <1>6 DEF StartLoad, Die, Forward
  <2>2. phase = "restore" /\ ~failed /\ todo = {}
    BY <2>1 DEF EndLoad
  <2>3. RowsTodo("FRONT_META") = {}
    BY <2>2 DEF RowsTodo
  <2>4. parked["FRONT_META"] # None
    BY <1>1, <1>6 DEF Still
  <2>5. Rows("FRONT_META", parked["FRONT_META"]) \subseteq Rows("FRONT_META", pin["FRONT_META"]) \cup {}
    BY <1>3, <2>2, <2>3, <2>4 DEF CarryInv
  <2> QED BY <1>1, <2>5 DEF Still, Rows
<1> QED BY <1>4, <1>5, <1>6

\* recreate_mismatched_pins: a source that goes is reported.
LEMMA RecreateCarry ==
  ASSUME PinInv, CarryInv, Kept, NamesOK', phase' = "recreate", UNCHANGED program, lossy \subseteq lossy',
         FrontsKept' => Source("FRONT_META")' = Source("FRONT_META")
  PROVE  CarryInv'
<1> SUFFICES ASSUME FrontsKept', NEW h \in HookSet, program'[h] # NoPins
             PROVE  /\ Source("FRONT_META")' # None
                    /\ Rows("FRONT_META", program[h]["FRONT_META"])' \subseteq Rows("FRONT_META", Source("FRONT_META"))'
  BY DEF CarryInv
<1>1. /\ FrontsKept /\ Source("FRONT_META")' = Source("FRONT_META") /\ program[h] # NoPins
  BY DEF FrontsKept
<1>2. /\ Source("FRONT_META") # None
      /\ Rows("FRONT_META", program[h]["FRONT_META"]) \subseteq Rows("FRONT_META", Source("FRONT_META"))
  BY <1>1 DEF CarryInv
<1>3. program[h]["FRONT_META"] # None /\ program[h]["FRONT_META"] \in Refs("FRONT_META")' /\ Source("FRONT_META") \in Refs("FRONT_META")'
  <2>1. program[h]["FRONT_META"] # None
    BY <1>1, ProgramRefs, FrontNames DEF PinInv
  <2> QED BY <1>1, <2>1 DEF Refs, Source
<1>4. /\ maps'["FRONT_META"][program[h]["FRONT_META"]] = maps["FRONT_META"][program[h]["FRONT_META"]]
      /\ maps'["FRONT_META"][Source("FRONT_META")] = maps["FRONT_META"][Source("FRONT_META")]
  BY <1>2, <1>3, KeptRows, FrontNames
<1>5. Rows("FRONT_META", program[h]["FRONT_META"])' = Rows("FRONT_META", program[h]["FRONT_META"])
  BY <1>4 DEF Rows
<1>6. Rows("FRONT_META", Source("FRONT_META"))' = Rows("FRONT_META", Source("FRONT_META"))
  BY <1>1, <1>4 DEF Rows
<1> QED BY <1>1, <1>2, <1>5, <1>6

\* Park, GiveUp and Unpin keep CarryInv.
LEMMA RecreatedCarry ==
  ASSUME PinInv, CarryInv, Park \/ GiveUp \/ Unpin
  PROVE  CarryInv'
<1>0. PICK name : name = Turn
  OBVIOUS
<1>1. CASE Park
  <2>1. /\ phase' = "recreate" /\ UNCHANGED <<program, lossy, starts>> /\ Kept /\ NamesOK'
        /\ Source("FRONT_META")' = Source("FRONT_META")
    BY <1>1, ParkEffect, FrontNames
  <2> QED BY <2>1, RecreateCarry
<1>2. CASE GiveUp
  <2>1. /\ phase' = "recreate" /\ UNCHANGED program /\ Kept /\ NamesOK' /\ name \in NameSet
        /\ lossy' = lossy \cup {<<name, IF fate[name] = "Migrate" THEN "snapshot" ELSE "layout">>}
        /\ \/ UNCHANGED parked /\ pin' = [pin EXCEPT ![name] = None]
           \/ UNCHANGED pin /\ parked' = [parked EXCEPT ![name] = None]
    BY <1>0, <1>2, GiveUpEffect
  <2>2. FrontsKept' => name # "FRONT_META"
    BY <2>1 DEF FrontsKept
  <2>3. name # "FRONT_META" => Source("FRONT_META")' = Source("FRONT_META")
    BY <2>1, FrontNames DEF PinInv, NamesOK, Source
  <2> QED BY <2>1, <2>2, <2>3, RecreateCarry
<1>3. CASE Unpin
  <2>1. /\ phase' = "recreate" /\ UNCHANGED <<program, lossy, starts, parked>> /\ Kept /\ NamesOK' /\ name \in NameSet
        /\ Taken(name) => parked[name] # None
        /\ ~Taken(name) => GaveUp(name)
        /\ pin' = [pin EXCEPT ![name] = None]
    BY <1>0, <1>3, UnpinEffect
  <2>2. name # "FRONT_META" => Source("FRONT_META")' = Source("FRONT_META")
    BY <2>1, FrontNames DEF PinInv, NamesOK, Source
  <2>3. FrontsKept' /\ name = "FRONT_META" => parked["FRONT_META"] # None
    BY <2>1 DEF FrontsKept, GaveUp
  <2>4. FrontsKept' => Source("FRONT_META")' = Source("FRONT_META")
    BY <2>1, <2>2, <2>3 DEF Source
  <2> QED BY <2>1, <2>4, RecreateCarry
<1> QED BY <1>1, <1>2, <1>3

\* CreatePin keeps CarryInv: a new pin is not a source.
LEMMA CreatePinCarry ==
  ASSUME PinInv, CarryInv, CreatePin
  PROVE  CarryInv'
<1>1. /\ phase = "recreate" /\ UNCHANGED <<parked, program, phase, lossy, starts>> /\ NamesOK'
  BY CreatePinEffect DEF loadVars
<1>2. PICK name \in NameSet, id \in MapIds :
        /\ pin[name] = None /\ id \notin Refs(name)
        /\ pin' = [pin EXCEPT ![name] = id]
        /\ \A n \in NameSet : \A m \in MapIds : n # name \/ m # id => maps'[n][m] = maps[n][m]
  BY CreatePinEffect
<1> SUFFICES ASSUME FrontsKept, NEW h \in HookSet, program[h] # NoPins
             PROVE  /\ Source("FRONT_META")' # None
                    /\ Rows("FRONT_META", program[h]["FRONT_META"])' \subseteq Rows("FRONT_META", Source("FRONT_META"))'
  BY <1>1 DEF CarryInv, FrontsKept
<1>3. /\ Source("FRONT_META") # None
      /\ Rows("FRONT_META", program[h]["FRONT_META"]) \subseteq Rows("FRONT_META", Source("FRONT_META"))
  BY DEF CarryInv
<1>4. Source("FRONT_META")' = Source("FRONT_META")
  BY <1>1, <1>2, <1>3, FrontNames DEF Source, PinInv, NamesOK
<1>5. \A m \in Refs("FRONT_META") : m # None => maps'["FRONT_META"][m] = maps["FRONT_META"][m]
  <2>1. \A m \in Refs("FRONT_META") : m \in MapIds \cup {None}
    BY FrontNames DEF PinInv, NamesOK, Refs
  <2> QED BY <1>2, <2>1, FrontNames
<1>6. program[h]["FRONT_META"] \in Refs("FRONT_META") /\ program[h]["FRONT_META"] # None /\ Source("FRONT_META") \in Refs("FRONT_META")
  BY ProgramRefs, FrontNames DEF PinInv
<1>7. /\ Rows("FRONT_META", program[h]["FRONT_META"])' = Rows("FRONT_META", program[h]["FRONT_META"])
      /\ Rows("FRONT_META", Source("FRONT_META"))' = Rows("FRONT_META", Source("FRONT_META"))
  BY <1>1, <1>3, <1>4, <1>5, <1>6 DEF Rows
<1> QED BY <1>3, <1>4, <1>7

\* Unless it says so, the plan takes all fronts of the snapshot.
LEMMA PlanRestoreCarry ==
  ASSUME PinInv, CarryInv, PlanRestore
  PROVE  CarryInv'
<1>1. /\ phase' = "restore" /\ Still /\ lossy \subseteq lossy'
      /\ parked["FRONT_META"] # None <=> Taken("FRONT_META")
      /\ Taken("FRONT_META") => Snapshot("FRONT_META") = Rows("FRONT_META", parked["FRONT_META"])
  <2>1. "FRONT_META" \in FrontMaps /\ "FRONT_META" \in NameSet
    BY FrontNames DEF FrontMaps
  <2> QED BY <2>1, PlanRestoreEffect
<1> SUFFICES ASSUME FrontsKept'
             PROVE  /\ \A h \in HookSet : program'[h] # NoPins =>
                         /\ Source("FRONT_META")' # None
                         /\ Rows("FRONT_META", program[h]["FRONT_META"])' \subseteq Rows("FRONT_META", Source("FRONT_META"))'
                    /\ parked'["FRONT_META"] # None =>
                         Rows("FRONT_META", parked["FRONT_META"])' \subseteq RowsTodo("FRONT_META")'
  BY <1>1 DEF CarryInv
<1>2. FrontsKept
  BY <1>1 DEF FrontsKept
<1>3. RowsTodo("FRONT_META")' = Snapshot("FRONT_META")
  <2>1. <<"FRONT_META", "room">> \notin lossy'
    BY DEF FrontsKept
  <2>2. AdmittedFronts = Snapshot("FRONT_META")
    BY <2>1 DEF PlanRestore
  <2> QED BY <2>2, PlannedWrites
<1>4. \A h \in HookSet : program'[h] # NoPins =>
         /\ Source("FRONT_META")' # None
         /\ Rows("FRONT_META", program[h]["FRONT_META"])' \subseteq Rows("FRONT_META", Source("FRONT_META"))'
  BY <1>1, <1>2 DEF CarryInv, Still, Source, Rows
<1>5. parked'["FRONT_META"] # None => Rows("FRONT_META", parked["FRONT_META"])' \subseteq RowsTodo("FRONT_META")'
  BY <1>1, <1>3 DEF Still, Rows
<1> QED BY <1>4, <1>5

\* RestoreWrite keeps CarryInv: what landed is in the new map.
LEMMA RestoreWriteCarry ==
  ASSUME PinInv, CarryInv, RestoreWrite
  PROVE  CarryInv'
<1>1. phase = "restore" /\ UNCHANGED <<pin, parked, program, phase, lossy, starts>>
  BY RestoreWriteEffect
<1>2. Undisturbed
  BY RestoreWriteKeeps
<1>3. "FRONT_META" \in FrontMaps /\ "FRONT_META" \in NameSet
  BY FrontNames DEF FrontMaps
<1>4. /\ Rows("FRONT_META", pin["FRONT_META"]) \subseteq Rows("FRONT_META", pin["FRONT_META"])'
      /\ ~failed' => ~failed
      /\ ~failed' => Rows("FRONT_META", pin["FRONT_META"]) \cup RowsTodo("FRONT_META")
                       \subseteq Rows("FRONT_META", pin["FRONT_META"])' \cup RowsTodo("FRONT_META")'
  BY <1>3, RestoreWriteRows
<1>5. parked["FRONT_META"] # None => Rows("FRONT_META", parked["FRONT_META"])' = Rows("FRONT_META", parked["FRONT_META"])
  BY <1>1, <1>2, <1>3 DEF Undisturbed, Rows
<1> SUFFICES ASSUME FrontsKept
             PROVE  /\ \A h \in HookSet : program[h] # NoPins =>
                         /\ Source("FRONT_META")' # None
                         /\ Rows("FRONT_META", program[h]["FRONT_META"])' \subseteq Rows("FRONT_META", Source("FRONT_META"))'
                    /\ ~failed' /\ parked["FRONT_META"] # None =>
                         Rows("FRONT_META", parked["FRONT_META"])'
                           \subseteq Rows("FRONT_META", pin["FRONT_META"])' \cup RowsTodo("FRONT_META")'
  BY <1>1 DEF CarryInv, FrontsKept
<1>6. ASSUME NEW h \in HookSet, program[h] # NoPins
      PROVE  /\ Source("FRONT_META")' # None
             /\ Rows("FRONT_META", program[h]["FRONT_META"])' \subseteq Rows("FRONT_META", Source("FRONT_META"))'
  <2>1. /\ Source("FRONT_META") # None
        /\ Rows("FRONT_META", program[h]["FRONT_META"]) \subseteq Rows("FRONT_META", Source("FRONT_META"))
    BY <1>6 DEF CarryInv
  <2>2. Rows("FRONT_META", program[h]["FRONT_META"])' = Rows("FRONT_META", program[h]["FRONT_META"])
    <3>1. program[h]["FRONT_META"] # None
      BY <1>3, <1>6, ProgramRefs, FrontNames DEF PinInv
    <3> QED BY <1>1, <1>2, <1>3, <3>1 DEF Undisturbed, Rows
  <2>3. Rows("FRONT_META", Source("FRONT_META")) \subseteq Rows("FRONT_META", Source("FRONT_META"))'
    BY <1>1, <1>4, <1>5 DEF Source
  <2>4. Source("FRONT_META")' = Source("FRONT_META")
    BY <1>1 DEF Source
  <2> QED BY <2>1, <2>2, <2>3, <2>4
<1>7. ASSUME ~failed', parked["FRONT_META"] # None
      PROVE  Rows("FRONT_META", parked["FRONT_META"])'
               \subseteq Rows("FRONT_META", pin["FRONT_META"])' \cup RowsTodo("FRONT_META")'
  <2>1. ~failed
    BY <1>4, <1>7
  <2>2. Rows("FRONT_META", parked["FRONT_META"]) \subseteq Rows("FRONT_META", pin["FRONT_META"]) \cup RowsTodo("FRONT_META")
    BY <1>1, <1>7, <2>1 DEF CarryInv
  <2> QED BY <1>4, <1>5, <1>7, <2>2
<1> QED BY <1>6, <1>7

\* Unpark keeps CarryInv: the new map has all fronts of the parked one.
LEMMA UnparkCarry ==
  ASSUME PinInv, CarryInv, Unpark
  PROVE  CarryInv'
<1>0. PICK name : name = Turn
  OBVIOUS
<1>1. /\ phase = "unpark" /\ name \in NameSet /\ parked' = [parked EXCEPT ![name] = None]
      /\ UNCHANGED <<pin, program, phase, lossy, starts>> /\ Kept /\ NamesOK'
  BY <1>0, UnparkEffect
<1>2. \A n \in NameSet : parked'[n] = IF n = name THEN None ELSE parked[n]
  BY <1>1 DEF PinInv, NamesOK
<1>3. CASE name # "FRONT_META"
  <2>1. \A m \in MapIds : m \in Refs("FRONT_META")' => maps'["FRONT_META"][m].rows = maps["FRONT_META"][m].rows
    BY <1>1, FrontNames DEF Kept
  <2>2. SameMeta
    BY <1>1, <1>2, <1>3, <2>1, FrontNames DEF SameMeta
  <2> QED BY <1>1, <2>2, CarryFrame
<1>4. CASE name = "FRONT_META"
  <2> SUFFICES ASSUME FrontsKept, NEW h \in HookSet, program[h] # NoPins
               PROVE  /\ Source("FRONT_META")' # None
                      /\ Rows("FRONT_META", program[h]["FRONT_META"])' \subseteq Rows("FRONT_META", Source("FRONT_META"))'
    BY <1>1, <1>2, <1>4 DEF CarryInv, FrontsKept
  <2>1. pin["FRONT_META"] # None /\ Source("FRONT_META")' = pin["FRONT_META"]
    BY <1>1, <1>2, <1>4, FrontNames DEF PinInv, ShapeInv, Source
  <2>2. Rows("FRONT_META", program[h]["FRONT_META"]) \subseteq Rows("FRONT_META", pin["FRONT_META"])
    BY <1>1 DEF CarryInv, Source
  <2>3. program[h]["FRONT_META"] # None /\ program[h]["FRONT_META"] \in Refs("FRONT_META")' /\ pin["FRONT_META"] \in Refs("FRONT_META")'
    <3>1. program[h]["FRONT_META"] # None
      BY ProgramRefs, FrontNames DEF PinInv
    <3> QED BY <1>1, <3>1 DEF Refs
  <2>4. /\ maps'["FRONT_META"][program[h]["FRONT_META"]] = maps["FRONT_META"][program[h]["FRONT_META"]]
        /\ maps'["FRONT_META"][pin["FRONT_META"]] = maps["FRONT_META"][pin["FRONT_META"]]
    BY <1>1, <2>1, <2>3, KeptRows, FrontNames
  <2> QED BY <1>1, <2>1, <2>2, <2>4 DEF Rows
<1> QED BY <1>3, <1>4

\* From the attach on every map is its own source.
LEMMA AttachCarry ==
  ASSUME PinInv, CarryInv, AttachTo(First(Hooks, todo))
  PROVE  CarryInv'
<1>1. PICK hook \in HookSet :
        /\ phase = "attach" /\ program' = [program EXCEPT ![hook] = pin]
        /\ phase' = IF todo' = {} THEN "run" ELSE phase
        /\ UNCHANGED <<pin, parked, lossy, starts>>
        /\ parked = NoPins /\ Kept /\ NamesOK'
  BY AttachEffect
<1>2. /\ Source("FRONT_META") = pin["FRONT_META"] /\ Source("FRONT_META")' = pin["FRONT_META"]
      /\ pin["FRONT_META"] # None
  BY <1>1, FrontNames DEF NoPins, Source, PinInv, ShapeInv, AfterLoad
<1>3. \A g \in HookSet : program'[g] = IF g = hook THEN pin ELSE program[g]
  BY <1>1 DEF PinInv, NamesOK
<1> SUFFICES ASSUME FrontsKept, NEW h \in HookSet, program'[h] # NoPins
             PROVE  Rows("FRONT_META", program[h]["FRONT_META"])' \subseteq Rows("FRONT_META", Source("FRONT_META"))'
  BY <1>1, <1>2 DEF CarryInv, FrontsKept
<1>4. CASE h = hook
  BY <1>1, <1>2, <1>3, <1>4 DEF Rows
<1>5. CASE h # hook
  <2>1. program[h] # NoPins /\ program'[h] = program[h]
    BY <1>3, <1>5
  <2>2. Rows("FRONT_META", program[h]["FRONT_META"]) \subseteq Rows("FRONT_META", pin["FRONT_META"])
    BY <1>2, <2>1 DEF CarryInv
  <2>3. program[h]["FRONT_META"] # None /\ program[h]["FRONT_META"] \in Refs("FRONT_META")' /\ pin["FRONT_META"] \in Refs("FRONT_META")'
    <3>1. program[h]["FRONT_META"] # None
      BY <2>1, ProgramRefs, FrontNames DEF PinInv
    <3> QED BY <1>1, <2>1, <3>1 DEF Refs
  <2>4. /\ maps'["FRONT_META"][program[h]["FRONT_META"]] = maps["FRONT_META"][program[h]["FRONT_META"]]
        /\ maps'["FRONT_META"][pin["FRONT_META"]] = maps["FRONT_META"][pin["FRONT_META"]]
    BY <1>1, <1>2, <2>3, KeptRows, FrontNames
  <2> QED BY <1>2, <2>1, <2>2, <2>4 DEF Rows
<1> QED BY <1>4, <1>5

\* A running controller and its classifiers use the same map.
LEMMA RunCarry == PinInv /\ phase = "run" => CarryInv
<1> SUFFICES ASSUME PinInv, phase = "run" PROVE CarryInv
  OBVIOUS
<1>1. Source("FRONT_META") = pin["FRONT_META"] /\ pin["FRONT_META"] # None
  BY FrontNames DEF NoPins, Source, PinInv, ParkInv, ShapeInv, AfterLoad
<1>2. \A h \in HookSet : program[h] # NoPins => program[h] = pin
  BY DEF PinInv, AttachInv, OnPins
<1> QED BY <1>1, <1>2 DEF CarryInv

\* CarryInv is inductive.
LEMMA CarryInvStep == PinInv /\ CarryInv /\ [Next]_vars => CarryInv'
<1> SUFFICES ASSUME PinInv, CarryInv, [Next]_vars PROVE CarryInv'
  OBVIOUS
<1>0. PinInv'
  BY PinInvStep
<1>1. CASE LoadStep
  BY <1>1, ProcessCarry, RecreatedCarry, CreatePinCarry, PlanRestoreCarry, RestoreWriteCarry, UnparkCarry DEF LoadStep
<1>2. CASE AttachTo(First(Hooks, todo))
  BY <1>2, AttachCarry
<1>3. CASE Settle \/ \E f \in Fronts : WriteRows(f) \/ CommitFront(f)
  <2>1. (phase = "run")'
    BY <1>3 DEF Settle, WriteRows, CommitFront, loadVars
  <2>2. PinInv' /\ (phase = "run")' => CarryInv'
    BY RunCarry, PTL
  <2> QED BY <1>0, <2>1, <2>2
<1>4. CASE Detach
  <2>1. /\ UNCHANGED <<pin, parked, lossy, starts, phase, todo, failed>> /\ Kept /\ NamesOK'
        /\ \A h \in HookSet : program'[h] \in {program[h], NoPins}
    BY <1>4, DetachEffect DEF loadVars
  <2>2. SameMeta
    BY <2>1, FrontNames DEF SameMeta, Kept
  <2> QED BY <2>1, <2>2, CarryFrame
<1>5. CASE UNCHANGED pinVars
  BY <1>0, <1>5, CarryFrame DEF pinVars, loadVars, SameMeta, PinInv
<1>6. ASSUME NEW k \in Flows, NewFlow(k) PROVE CarryInv'
  <2>1. UNCHANGED <<pin, parked, program, lossy, starts, phase, todo, failed>> /\ NamesOK'
    BY <1>6, NewFlowEffect
  <2>2. \A m \in MapIds : maps'["FRONT_META"][m] = maps["FRONT_META"][m]
    BY <1>6, NewFlowEffect, FrontNames DEF Written
  <2>3. SameMeta
    BY <2>1, <2>2 DEF SameMeta
  <2> QED BY <2>1, <2>3, CarryFrame
<1> QED BY <1>1, <1>2, <1>3, <1>4, <1>5, <1>6, MapSteps DEF RunStep

-----------------------------------------------------------------------------
(* RoomInv and FlowInv: the flows are carried over.                        *)

\* What FLOW_TABLE refers to.
LEMMA FlowNames ==
  ASSUME PinInv
  PROVE  /\ "FLOW_TABLE" \in NameSet /\ "FLOW_TABLE" \notin FrontMaps /\ "uplink_ingress" \in HookSet
         /\ pin["FLOW_TABLE"] \in MapIds \cup {None} /\ parked["FLOW_TABLE"] \in MapIds \cup {None}
         /\ Ingress # NoPins => Ingress["FLOW_TABLE"] \in MapIds
         /\ Ingress["FLOW_TABLE"] # None => Ingress # NoPins
         /\ None \notin MapIds
         /\ phase \in {"restore", "unpark"} \cup AfterLoad => pin["FLOW_TABLE"] \in MapIds
<1>1. "FLOW_TABLE" \in NameSet /\ "FLOW_TABLE" \notin FrontMaps /\ "uplink_ingress" \in HookSet
  BY TheNames DEF FrontMaps
<1>2. pin["FLOW_TABLE"] \in MapIds \cup {None} /\ parked["FLOW_TABLE"] \in MapIds \cup {None} /\ None \notin MapIds
  BY <1>1, FrontNames
<1>3. Ingress # NoPins => Ingress["FLOW_TABLE"] \in MapIds
  BY <1>1, FrontNames
<1>4. Ingress["FLOW_TABLE"] # None => Ingress # NoPins
  BY <1>1 DEF NoPins
<1>5. phase \in {"restore", "unpark"} \cup AfterLoad => pin["FLOW_TABLE"] \in MapIds
  BY <1>1, <1>2 DEF PinInv, ShapeInv
<1> QED BY <1>1, <1>2, <1>3, <1>4, <1>5

\* A step that leaves FLOW_TABLE as it is.
SameFlows ==
    /\ pin'["FLOW_TABLE"] = pin["FLOW_TABLE"] /\ parked'["FLOW_TABLE"] = parked["FLOW_TABLE"]
    /\ Ingress' = Ingress /\ late' = late /\ lossy \subseteq lossy'
    /\ \A h \in HookSet : program'[h] \in {program[h], NoPins}
    /\ \A m \in MapIds : m \in Refs("FLOW_TABLE")' =>
         maps'["FLOW_TABLE"][m].rows = maps["FLOW_TABLE"][m].rows

\* What such a step leaves.
LEMMA SameFlowRows ==
  ASSUME PinInv, NamesOK', SameFlows
  PROVE  /\ pin["FLOW_TABLE"] # None => PinFlows' = PinFlows
         /\ parked["FLOW_TABLE"] # None =>
              Rows("FLOW_TABLE", parked["FLOW_TABLE"])' = Rows("FLOW_TABLE", parked["FLOW_TABLE"])
         /\ Ingress # NoPins => IngressFlows' = IngressFlows
         /\ Source("FLOW_TABLE")' = Source("FLOW_TABLE") /\ Beside("FLOW_TABLE")' = Beside("FLOW_TABLE")
         /\ Source("FLOW_TABLE") # None =>
              Rows("FLOW_TABLE", Source("FLOW_TABLE"))' = Rows("FLOW_TABLE", Source("FLOW_TABLE"))
         /\ FlowsKept' => FlowsKept
<1>1. /\ pin'["FLOW_TABLE"] = pin["FLOW_TABLE"] /\ parked'["FLOW_TABLE"] = parked["FLOW_TABLE"]
      /\ Source("FLOW_TABLE")' = Source("FLOW_TABLE")
      /\ Ingress' = Ingress /\ late' = late
  BY DEF SameFlows, Source
<1>2. Beside("FLOW_TABLE")' = Beside("FLOW_TABLE")
  BY <1>1 DEF Beside
<1>3. ASSUME NEW m \in MapIds, m \in {pin["FLOW_TABLE"], parked["FLOW_TABLE"], Ingress["FLOW_TABLE"]}
      PROVE  maps'["FLOW_TABLE"][m].rows = maps["FLOW_TABLE"][m].rows
  <2>1. m \in Refs("FLOW_TABLE")'
    BY <1>1, <1>3, FlowNames DEF Refs, Ingress
  <2> QED BY <2>1 DEF SameFlows
<1>4. pin["FLOW_TABLE"] # None => PinFlows' = PinFlows
  BY <1>1, <1>3, FlowNames DEF PinFlows, Rows
<1>5. parked["FLOW_TABLE"] # None => Rows("FLOW_TABLE", parked["FLOW_TABLE"])' = Rows("FLOW_TABLE", parked["FLOW_TABLE"])
  BY <1>1, <1>3, FlowNames DEF Rows
<1>6. Ingress # NoPins => IngressFlows' = IngressFlows
  BY <1>1, <1>3, FlowNames DEF IngressFlows, Rows
<1>7. Source("FLOW_TABLE") # None => Rows("FLOW_TABLE", Source("FLOW_TABLE"))' = Rows("FLOW_TABLE", Source("FLOW_TABLE"))
  BY <1>1, <1>3, FlowNames DEF Rows, Source
<1>8. FlowsKept' => FlowsKept
  BY DEF FlowsKept, SameFlows
<1> QED BY <1>1, <1>2, <1>4, <1>5, <1>6, <1>7, <1>8

\* ... it keeps RoomInv and FlowInv.
LEMMA FlowFrame ==
  ASSUME PinInv, RoomInv, FlowInv, NamesOK', SameFlows, UNCHANGED phase,
         phase = "recreate" => /\ Taken("FLOW_TABLE")' <=> Taken("FLOW_TABLE")
                               /\ Taken("FLOW_TABLE") => snapshot'["FLOW_TABLE"] = snapshot["FLOW_TABLE"],
         phase = "restore" => UNCHANGED <<todo, failed, wanted>>
  PROVE  RoomInv' /\ FlowInv'
<1>1. /\ pin["FLOW_TABLE"] # None => PinFlows' = PinFlows
      /\ parked["FLOW_TABLE"] # None =>
           Rows("FLOW_TABLE", parked["FLOW_TABLE"])' = Rows("FLOW_TABLE", parked["FLOW_TABLE"])
      /\ Ingress # NoPins => IngressFlows' = IngressFlows
      /\ Source("FLOW_TABLE")' = Source("FLOW_TABLE") /\ Beside("FLOW_TABLE")' = Beside("FLOW_TABLE")
      /\ Source("FLOW_TABLE") # None =>
           Rows("FLOW_TABLE", Source("FLOW_TABLE"))' = Rows("FLOW_TABLE", Source("FLOW_TABLE"))
      /\ FlowsKept' => FlowsKept
  BY SameFlowRows
<1>2. Beside("FLOW_TABLE") => pin["FLOW_TABLE"] # None /\ parked["FLOW_TABLE"] # None
  BY DEF Beside
<1>3. phase \in {"restore", "unpark"} \cup AfterLoad => pin["FLOW_TABLE"] # None
  BY FlowNames
<1>4. phase = "restore" => RowsTodo("FLOW_TABLE")' = RowsTodo("FLOW_TABLE") /\ Cap("FLOW_TABLE")' = Cap("FLOW_TABLE") /\ failed' = failed
  BY DEF RowsTodo, Cap, Wanted
<1>5. RoomInv'
  BY <1>1, <1>2, <1>4 DEF RoomInv
<1>6. Ingress' = Ingress
  BY DEF SameFlows
<1>7. FlowInv'
  BY <1>1, <1>3, <1>4, <1>6 DEF FlowInv
<1> QED BY <1>5, <1>7

\* The process starts, dies, or goes on after the restore.
LEMMA ProcessFlows ==
  ASSUME PinInv, RoomInv, FlowInv, (\E config \in Configs : StartLoad(config)) \/ Die \/ EndLoad \/ Forward
  PROVE  RoomInv' /\ FlowInv'
<1>1. Still /\ UNCHANGED <<lossy, late>> /\ NamesOK'
  <2>1. Still /\ UNCHANGED <<lossy, late>>
    BY DEF StartLoad, Die, EndLoad, Forward, Still
  <2> QED BY <2>1, StillMaps DEF PinInv
<1>2. /\ PinFlows' = PinFlows /\ IngressFlows' = IngressFlows /\ Ingress' = Ingress
      /\ \A id : Rows("FLOW_TABLE", id)' = Rows("FLOW_TABLE", id)
      /\ parked' = parked /\ pin' = pin
      /\ Source("FLOW_TABLE")' = Source("FLOW_TABLE") /\ Beside("FLOW_TABLE")' = Beside("FLOW_TABLE")
      /\ FlowsKept' = FlowsKept
  BY <1>1 DEF Still, PinFlows, IngressFlows, Ingress, Rows, Source, Beside, FlowsKept
<1>3. phase' # "restore" /\ ~(phase' = "recreate" /\ Taken("FLOW_TABLE")')
  <2>1. phase = "off" => ~Taken("FLOW_TABLE")
    BY DEF PinInv, LoadOK, Taken
  <2>2. ASSUME NEW config, StartLoad(config) PROVE phase = "off" /\ snapshot' = snapshot /\ phase' = "recreate"
    BY <2>2 DEF StartLoad
  <2>3. Die \/ EndLoad \/ Forward => phase' \notin {"restore", "recreate"}
    BY DEF Die, EndLoad, Forward
  <2> QED BY <2>1, <2>2, <2>3 DEF Taken
<1>4. Rows("FLOW_TABLE", parked["FLOW_TABLE"])' = Rows("FLOW_TABLE", parked["FLOW_TABLE"])
  BY <1>1 DEF Still, Rows
<1>5. RoomInv'
  BY <1>2, <1>3, <1>4 DEF RoomInv
<1>6. FlowsKept /\ Ingress # NoPins /\ phase' \in {"unpark"} \cup AfterLoad => IngressFlows \subseteq PinFlows
  <2>1. CASE EndLoad
    <3>1. phase = "restore" /\ ~failed /\ todo = {}
      BY <2>1 DEF EndLoad
    <3>2. RowsTodo("FLOW_TABLE") = {}
      BY <3>1 DEF RowsTodo
    <3>3. FlowsKept /\ Ingress # NoPins => IngressFlows \subseteq PinFlows \cup {}
      BY <3>1, <3>2 DEF FlowInv
    <3> QED BY <3>3
  <2>2. CASE Forward
    BY <2>2 DEF Forward, FlowInv, AfterLoad
  <2>3. CASE (\E config \in Configs : StartLoad(config)) \/ Die
    BY <2>3 DEF StartLoad, Die, AfterLoad
  <2> QED BY <2>1, <2>2, <2>3
<1>7. Rows("FLOW_TABLE", Source("FLOW_TABLE"))' = Rows("FLOW_TABLE", Source("FLOW_TABLE"))
  BY <1>1 DEF Still, Rows, Source
<1>8. FlowInv'
  BY <1>2, <1>3, <1>6, <1>7 DEF FlowInv
<1> QED BY <1>5, <1>8

\* A step of recreate_mismatched_pins frees maps; those that are still used keep
\* their flows.
LEMMA RecreateRows ==
  ASSUME PinInv, Kept, NamesOK', UNCHANGED program
  PROVE  /\ Ingress' = Ingress
         /\ Ingress # NoPins => Rows("FLOW_TABLE", Ingress["FLOW_TABLE"])' = Rows("FLOW_TABLE", Ingress["FLOW_TABLE"])
         /\ Source("FLOW_TABLE")' # None =>
              Rows("FLOW_TABLE", Source("FLOW_TABLE"))' = maps["FLOW_TABLE"][Source("FLOW_TABLE")'].rows
         /\ pin'["FLOW_TABLE"] # None => PinFlows' = maps["FLOW_TABLE"][pin'["FLOW_TABLE"]].rows
         /\ parked'["FLOW_TABLE"] # None =>
              Rows("FLOW_TABLE", parked["FLOW_TABLE"])' = maps["FLOW_TABLE"][parked'["FLOW_TABLE"]].rows
<1>1. Ingress' = Ingress
  BY DEF Ingress
<1>2. ASSUME NEW m \in Refs("FLOW_TABLE")', m # None PROVE maps'["FLOW_TABLE"][m] = maps["FLOW_TABLE"][m]
  BY <1>2, KeptRows, FlowNames
<1>3. /\ pin'["FLOW_TABLE"] \in Refs("FLOW_TABLE")' /\ parked'["FLOW_TABLE"] \in Refs("FLOW_TABLE")'
      /\ Source("FLOW_TABLE")' \in Refs("FLOW_TABLE")' /\ Ingress["FLOW_TABLE"] \in Refs("FLOW_TABLE")'
  BY <1>1, FlowNames DEF Refs, Source, Ingress
<1>4. Ingress # NoPins => Ingress["FLOW_TABLE"] # None
  BY FlowNames
<1> QED BY <1>1, <1>2, <1>3, <1>4 DEF Rows, PinFlows

\* A map is given up, or unpinned: the flows of a source that goes are reported.
LEMMA RecreateFlows ==
  ASSUME PinInv, RoomInv, FlowInv, Kept, NamesOK', phase = "recreate", phase' = "recreate",
         UNCHANGED <<program, snapshot, late>>, lossy \subseteq lossy',
         FlowsKept' => Source("FLOW_TABLE")' = Source("FLOW_TABLE"),
         Beside("FLOW_TABLE")' => Beside("FLOW_TABLE") /\ pin'["FLOW_TABLE"] = pin["FLOW_TABLE"]
                                    /\ parked'["FLOW_TABLE"] = parked["FLOW_TABLE"]
  PROVE  RoomInv' /\ FlowInv'
<1>1. /\ Ingress' = Ingress
      /\ Ingress # NoPins => IngressFlows' = IngressFlows
      /\ Taken("FLOW_TABLE")' <=> Taken("FLOW_TABLE")
      /\ FlowsKept' => FlowsKept
  BY RecreateRows DEF IngressFlows, Taken, FlowsKept
<1>2. Source("FLOW_TABLE")' # None /\ Source("FLOW_TABLE")' = Source("FLOW_TABLE") =>
        Rows("FLOW_TABLE", Source("FLOW_TABLE"))' = Rows("FLOW_TABLE", Source("FLOW_TABLE"))
  BY RecreateRows DEF Rows
<1>3. Beside("FLOW_TABLE")' => /\ PinFlows' = PinFlows
                               /\ Rows("FLOW_TABLE", parked["FLOW_TABLE"])' = Rows("FLOW_TABLE", parked["FLOW_TABLE"])
  BY RecreateRows DEF PinFlows, Rows, Beside
<1>4. RoomInv'
  BY <1>1, <1>3 DEF RoomInv
<1>5. FlowInv'
  BY <1>1, <1>2 DEF FlowInv, AfterLoad
<1> QED BY <1>4, <1>5

\* GiveUp and Unpin keep RoomInv and FlowInv.
LEMMA GiveUpFlows ==
  ASSUME PinInv, RoomInv, FlowInv, GiveUp \/ Unpin
  PROVE  RoomInv' /\ FlowInv'
<1>0. PICK name : name = Turn
  OBVIOUS
<1>1. CASE GiveUp
  <2>1. /\ phase = "recreate" /\ UNCHANGED <<phase, program, snapshot, late>> /\ Kept /\ NamesOK' /\ name \in NameSet
        /\ lossy' = lossy \cup {<<name, IF fate[name] = "Migrate" THEN "snapshot" ELSE "layout">>}
        /\ \/ parked[name] = None /\ UNCHANGED parked /\ pin' = [pin EXCEPT ![name] = None]
           \/ UNCHANGED pin /\ parked' = [parked EXCEPT ![name] = None]
    BY <1>0, <1>1, GiveUpEffect
  <2>2. FlowsKept' => name # "FLOW_TABLE"
    BY <2>1 DEF FlowsKept
  <2>3. name # "FLOW_TABLE" => pin'["FLOW_TABLE"] = pin["FLOW_TABLE"] /\ parked'["FLOW_TABLE"] = parked["FLOW_TABLE"]
    BY <2>1, FlowNames DEF PinInv, NamesOK
  <2>4. name = "FLOW_TABLE" => parked'["FLOW_TABLE"] = None
    BY <2>1, FlowNames DEF PinInv, NamesOK
  <2>5. FlowsKept' => Source("FLOW_TABLE")' = Source("FLOW_TABLE")
    BY <2>2, <2>3 DEF Source
  <2>6. Beside("FLOW_TABLE")' => Beside("FLOW_TABLE") /\ pin'["FLOW_TABLE"] = pin["FLOW_TABLE"]
                                    /\ parked'["FLOW_TABLE"] = parked["FLOW_TABLE"]
    BY <2>3, <2>4 DEF Beside
  <2> QED BY <2>1, <2>5, <2>6, RecreateFlows
<1>2. CASE Unpin
  <2>1. /\ phase = "recreate" /\ UNCHANGED <<phase, program, snapshot, late, lossy, starts, parked>> /\ Kept /\ NamesOK'
        /\ name \in NameSet /\ pin' = [pin EXCEPT ![name] = None]
        /\ Taken(name) => parked[name] # None
        /\ ~Taken(name) => GaveUp(name)
    BY <1>0, <1>2, UnpinEffect
  <2>2. pin'["FLOW_TABLE"] = IF name = "FLOW_TABLE" THEN None ELSE pin["FLOW_TABLE"]
    BY <2>1, FlowNames DEF PinInv, NamesOK
  <2>3. FlowsKept' /\ name = "FLOW_TABLE" => parked["FLOW_TABLE"] # None
    BY <2>1 DEF FlowsKept, GaveUp
  <2>4. FlowsKept' => Source("FLOW_TABLE")' = Source("FLOW_TABLE")
    BY <2>1, <2>2, <2>3 DEF Source
  <2>5. Beside("FLOW_TABLE")' => Beside("FLOW_TABLE") /\ pin'["FLOW_TABLE"] = pin["FLOW_TABLE"]
                                    /\ parked'["FLOW_TABLE"] = parked["FLOW_TABLE"]
    BY <2>1, <2>2 DEF Beside
  <2> QED BY <2>1, <2>4, <2>5, RecreateFlows
<1> QED BY <1>1, <1>2

\* A snapshot has all flows that the classifiers wrote until then.
LEMMA ParkFlows ==
  ASSUME PinInv, RoomInv, FlowInv, Park
  PROVE  RoomInv' /\ FlowInv'
<1>0. PICK name : name = Turn
  OBVIOUS
<1>1. /\ phase = "recreate" /\ UNCHANGED <<program, phase, lossy, starts>> /\ Kept /\ NamesOK' /\ name \in NameSet
      /\ \A n \in NameSet : Source(n)' = Source(n)
      /\ DOMAIN snapshot' = DOMAIN snapshot \cup {name}
      /\ snapshot'[name] = Rows(name, Source(name)) /\ Source(name) \in MapIds
      /\ \A n \in DOMAIN snapshot : n # name => snapshot'[n] = snapshot[n]
      /\ \/ /\ parked[name] = None /\ UNCHANGED pin /\ parked' = [parked EXCEPT ![name] = pin[name]]
         \/ /\ parked[name] # None /\ UNCHANGED parked
            /\ pin' = [pin EXCEPT ![name] = IF StalePlain(name) THEN None ELSE @]
      /\ late' = late \/ (late' = {} /\ name = "FLOW_TABLE" /\ Source(name) = Ingress[name])
  BY <1>0, ParkEffect
<1>2. Beside("FLOW_TABLE")' => Beside("FLOW_TABLE") /\ pin'["FLOW_TABLE"] = pin["FLOW_TABLE"]
                                  /\ parked'["FLOW_TABLE"] = parked["FLOW_TABLE"]
  <2>1. pin \in [NameSet -> MapIds \cup {None}] /\ parked \in [NameSet -> MapIds \cup {None}]
    BY DEF PinInv, NamesOK
  <2>2. CASE parked[name] = None /\ UNCHANGED pin /\ parked' = [parked EXCEPT ![name] = pin[name]]
    BY <1>1, <2>1, <2>2, FlowNames DEF Beside
  <2>3. CASE parked[name] # None /\ UNCHANGED parked /\ pin' = [pin EXCEPT ![name] = IF StalePlain(name) THEN None ELSE @]
    BY <1>1, <2>1, <2>3, FlowNames DEF Beside
  <2> QED BY <1>1, <2>2, <2>3
<1>3. Source("FLOW_TABLE")' = Source("FLOW_TABLE") /\ Ingress' = Ingress
  BY <1>1, FlowNames DEF Ingress
<1>4. Source("FLOW_TABLE") # None => Rows("FLOW_TABLE", Source("FLOW_TABLE"))' = Rows("FLOW_TABLE", Source("FLOW_TABLE"))
  BY <1>1, <1>3, RecreateRows DEF Rows
<1>5. Beside("FLOW_TABLE")' => /\ PinFlows' = PinFlows
                               /\ Rows("FLOW_TABLE", parked["FLOW_TABLE"])' = Rows("FLOW_TABLE", parked["FLOW_TABLE"])
  BY <1>1, <1>2, RecreateRows DEF PinFlows, Rows, Beside
<1>6. RoomInv'
  <2>1. Beside("FLOW_TABLE")' => PinFlows' \subseteq Rows("FLOW_TABLE", parked["FLOW_TABLE"])'
    BY <1>2, <1>5 DEF RoomInv
  <2>2. ASSUME Taken("FLOW_TABLE")', Beside("FLOW_TABLE")' PROVE PinFlows' \subseteq snapshot'["FLOW_TABLE"]
    <3>1. CASE name = "FLOW_TABLE"
      <4>1. Source("FLOW_TABLE") = parked["FLOW_TABLE"]
        BY <1>2, <2>2 DEF Beside, Source
      <4> QED BY <1>1, <1>2, <1>5, <2>2, <3>1, <4>1 DEF RoomInv
    <3>2. CASE name # "FLOW_TABLE"
      BY <1>1, <1>2, <1>5, <2>2, <3>2 DEF RoomInv, Taken
    <3> QED BY <3>1, <3>2
  <2> QED BY <1>1, <2>1, <2>2 DEF RoomInv
<1>7. FlowInv'
  <2> SUFFICES ASSUME FlowsKept, Ingress # NoPins
               PROVE  /\ Source("FLOW_TABLE")' # None
                      /\ IngressFlows' \subseteq Rows("FLOW_TABLE", Source("FLOW_TABLE"))'
                      /\ Taken("FLOW_TABLE")' => IngressFlows' \subseteq snapshot'["FLOW_TABLE"]
    BY <1>1, <1>3 DEF FlowInv, FlowsKept, AfterLoad
  <2>1. Source("FLOW_TABLE") # None /\ IngressFlows \subseteq Rows("FLOW_TABLE", Source("FLOW_TABLE"))
    BY DEF FlowInv
  <2>2. Rows("FLOW_TABLE", Ingress["FLOW_TABLE"])' = Rows("FLOW_TABLE", Ingress["FLOW_TABLE"])
    BY <1>1, RecreateRows
  <2>3. IngressFlows' \subseteq Rows("FLOW_TABLE", Source("FLOW_TABLE"))
    BY <1>1, <2>1, <2>2 DEF IngressFlows
  <2>4. ASSUME name # "FLOW_TABLE", Taken("FLOW_TABLE")' PROVE IngressFlows' \subseteq snapshot'["FLOW_TABLE"]
    <3>1. IngressFlows' = IngressFlows
      BY <1>1, <2>2, <2>4 DEF IngressFlows
    <3>2. Taken("FLOW_TABLE") /\ snapshot'["FLOW_TABLE"] = snapshot["FLOW_TABLE"]
      BY <1>1, <2>4 DEF Taken
    <3> QED BY <1>1, <3>1, <3>2 DEF FlowInv
  <2>5. name = "FLOW_TABLE" => snapshot'["FLOW_TABLE"] = Rows("FLOW_TABLE", Source("FLOW_TABLE"))
    BY <1>1
  <2> QED BY <1>3, <1>4, <2>1, <2>3, <2>4, <2>5
<1> QED BY <1>6, <1>7

\* CreatePin keeps RoomInv and FlowInv: a new map is empty.
LEMMA CreatePinFlows ==
  ASSUME PinInv, RoomInv, FlowInv, CreatePin
  PROVE  RoomInv' /\ FlowInv'
<1>1. /\ phase = "recreate" /\ todo = {} /\ UNCHANGED <<parked, program, phase, snapshot, lossy, starts, late>> /\ NamesOK'
  BY CreatePinEffect DEF loadVars
<1>2. PICK name \in NameSet, id \in MapIds :
        /\ pin[name] = None /\ id \notin Refs(name)
        /\ pin' = [pin EXCEPT ![name] = id]
        /\ maps'[name][id] = [shape |-> Wanted(name), rows |-> {}]
        /\ \A n \in NameSet : \A m \in MapIds : n # name \/ m # id => maps'[n][m] = maps[n][m]
  BY CreatePinEffect
<1>3. CASE name # "FLOW_TABLE"
  <2>1. pin'["FLOW_TABLE"] = pin["FLOW_TABLE"] /\ \A m \in MapIds : maps'["FLOW_TABLE"][m] = maps["FLOW_TABLE"][m]
    BY <1>2, <1>3, FlowNames DEF PinInv, NamesOK
  <2>2. SameFlows
    BY <1>1, <2>1 DEF SameFlows, Ingress
  <2>3. Taken("FLOW_TABLE")' <=> Taken("FLOW_TABLE")
    BY <1>1 DEF Taken
  <2> QED BY <1>1, <2>2, <2>3, FlowFrame
<1>4. CASE name = "FLOW_TABLE"
  <2>1. pin["FLOW_TABLE"] = None /\ pin'["FLOW_TABLE"] = id /\ id # None /\ PinFlows' = {}
    BY <1>2, <1>4, FlowNames DEF PinInv, NamesOK, PinFlows, Rows
  <2>2. RoomInv'
    BY <1>1, <2>1 DEF RoomInv
  <2>3. FlowInv'
    <3> SUFFICES ASSUME FlowsKept, Ingress # NoPins
                 PROVE  /\ Source("FLOW_TABLE")' # None
                        /\ IngressFlows' \subseteq Rows("FLOW_TABLE", Source("FLOW_TABLE"))'
                        /\ Taken("FLOW_TABLE")' => IngressFlows' \subseteq snapshot'["FLOW_TABLE"]
      BY <1>1 DEF FlowInv, FlowsKept, AfterLoad, Ingress
    <3>1. Source("FLOW_TABLE") # None /\ IngressFlows \subseteq Rows("FLOW_TABLE", Source("FLOW_TABLE"))
      BY DEF FlowInv
    <3>2. parked["FLOW_TABLE"] # None /\ Source("FLOW_TABLE") = parked["FLOW_TABLE"] /\ Source("FLOW_TABLE")' = parked["FLOW_TABLE"]
      BY <1>1, <2>1, <3>1 DEF Source
    <3>3. ASSUME NEW m \in MapIds, m \in Refs("FLOW_TABLE") PROVE maps'["FLOW_TABLE"][m] = maps["FLOW_TABLE"][m]
      BY <1>2, <1>4, <3>3, FlowNames
    <3>4. parked["FLOW_TABLE"] \in Refs("FLOW_TABLE") /\ Ingress["FLOW_TABLE"] \in Refs("FLOW_TABLE")
      BY FlowNames DEF Refs, Ingress
    <3>5. Rows("FLOW_TABLE", Source("FLOW_TABLE"))' = Rows("FLOW_TABLE", Source("FLOW_TABLE"))
      BY <3>2, <3>3, <3>4, FlowNames DEF Rows
    <3>6. IngressFlows' = IngressFlows
      BY <1>1, <3>3, <3>4, FlowNames DEF IngressFlows, Rows, Ingress
    <3> QED BY <1>1, <3>1, <3>2, <3>5, <3>6 DEF FlowInv, Taken
  <2> QED BY <2>2, <2>3
<1> QED BY <1>3, <1>4

\* Unless it says so, the plan takes all flows of the snapshot, and they fit.
LEMMA PlanRestoreFlows ==
  ASSUME PinInv, RoomInv, FlowInv, PlanRestore
  PROVE  RoomInv' /\ FlowInv'
<1> DEFINE flows == Snapshot("FLOW_TABLE")
<1>1. /\ phase = "recreate" /\ phase' = "restore" /\ Still /\ UNCHANGED <<wanted, late>>
      /\ wanted \in Configs /\ lossy \subseteq lossy' /\ flows \subseteq Flows
  BY PlanRestoreEffect
<1>2. /\ parked["FLOW_TABLE"] # None <=> Taken("FLOW_TABLE")
      /\ Taken("FLOW_TABLE") => parked["FLOW_TABLE"] \in MapIds /\ flows \subseteq Rows("FLOW_TABLE", parked["FLOW_TABLE"])
      /\ Taken("FLOW_TABLE") => flows = snapshot["FLOW_TABLE"]
  BY PlanRestoreEffect, FlowNames DEF Snapshot, Taken
<1>3. /\ PinFlows' = PinFlows /\ IngressFlows' = IngressFlows /\ Ingress' = Ingress
      /\ Rows("FLOW_TABLE", parked["FLOW_TABLE"])' = Rows("FLOW_TABLE", parked["FLOW_TABLE"])
      /\ Source("FLOW_TABLE")' = Source("FLOW_TABLE") /\ Beside("FLOW_TABLE")' = Beside("FLOW_TABLE")
      /\ Rows("FLOW_TABLE", Source("FLOW_TABLE"))' = Rows("FLOW_TABLE", Source("FLOW_TABLE"))
      /\ FlowsKept' => FlowsKept
      /\ Cap("FLOW_TABLE")' = Cap("FLOW_TABLE")
  BY <1>1 DEF Still, PinFlows, IngressFlows, Ingress, Rows, Source, Beside, FlowsKept, Cap, Wanted
<1>4. FlowsKept' => AdmittedFlows = flows /\ RowsTodo("FLOW_TABLE")' = flows
  <2>1. FlowsKept' => <<"FLOW_TABLE", "room">> \notin lossy'
    BY DEF FlowsKept
  <2>2. FlowsKept' => AdmittedFlows = flows
    BY <2>1 DEF PlanRestore
  <2> QED BY <2>2, PlannedWrites
<1>5. ASSUME FlowsKept', Taken("FLOW_TABLE") PROVE Cardinality(flows) <= Cap("FLOW_TABLE")
  <2>1. Cap("FLOW_TABLE") \in Nat
    BY <1>1, MapsAssumption, FlowNames DEF MapsAssumption, Cap, Wanted
  <2>2. flows \in SUBSET Nat
    BY <1>1, MapsAssumption DEF MapsAssumption
  <2>3. IsFiniteSet(flows)
    <3>1. IsFiniteSet(Rows("FLOW_TABLE", parked["FLOW_TABLE"]))
      BY <1>2, <1>5, FlowNames DEF PinInv, MapsOK, Refs
    <3> QED BY <1>2, <1>5, <3>1, FS_Subset
  <2>4. \A k \in flows : Cardinality({j \in flows : j < k}) < Cap("FLOW_TABLE")
    BY <1>4, <1>5 DEF AdmittedFlows
  <2> HIDE DEF flows
  <2> QED BY <2>1, <2>2, <2>3, <2>4, FlowsFit
<1>6. RoomInv'
  <2>1. ASSUME FlowsKept', Beside("FLOW_TABLE") PROVE Cardinality(PinFlows \cup flows) <= Cap("FLOW_TABLE")
    <3>1. Taken("FLOW_TABLE")
      BY <1>2, <2>1 DEF Beside
    <3>2. PinFlows \subseteq flows
      BY <1>1, <1>2, <2>1, <3>1 DEF RoomInv
    <3>3. PinFlows \cup flows = flows
      BY <3>2
    <3> QED BY <1>5, <2>1, <3>1, <3>3
  <2> QED BY <1>1, <1>3, <1>4, <2>1 DEF RoomInv
<1>7. FlowInv'
  <2> SUFFICES ASSUME FlowsKept', Ingress # NoPins
               PROVE  /\ Source("FLOW_TABLE") # None
                      /\ IngressFlows \subseteq Rows("FLOW_TABLE", Source("FLOW_TABLE"))
                      /\ IngressFlows \subseteq PinFlows \cup flows
    BY <1>1, <1>3, <1>4 DEF FlowInv, AfterLoad
  <2>1. Source("FLOW_TABLE") # None /\ IngressFlows \subseteq Rows("FLOW_TABLE", Source("FLOW_TABLE"))
    BY <1>3 DEF FlowInv
  <2>2. CASE Taken("FLOW_TABLE")
    <3>1. IngressFlows \subseteq flows
      BY <1>1, <1>2, <1>3, <2>2 DEF FlowInv
    <3> QED BY <2>1, <3>1
  <2>3. CASE ~Taken("FLOW_TABLE")
    <3>1. Source("FLOW_TABLE") = pin["FLOW_TABLE"]
      BY <1>2, <2>3 DEF Source
    <3> QED BY <2>1, <3>1 DEF PinFlows
  <2> QED BY <2>2, <2>3
<1> QED BY <1>6, <1>7

\* The restore has room for what it writes: it evicts no flow.
LEMMA NoEviction ==
  ASSUME PinInv, RoomInv, FlowsKept, phase = "restore", NEW r \in RowsTodo("FLOW_TABLE")
  PROVE  r \in PinFlows \/ Cardinality(PinFlows) < Cap("FLOW_TABLE")
<1> SUFFICES ASSUME r \notin PinFlows PROVE Cardinality(PinFlows) < Cap("FLOW_TABLE")
  OBVIOUS
<1>1. /\ parked["FLOW_TABLE"] # None /\ pin["FLOW_TABLE"] # None /\ parked["FLOW_TABLE"] \in MapIds /\ pin["FLOW_TABLE"] \in MapIds
      /\ \A x \in RowsTodo("FLOW_TABLE") : x \in Rows("FLOW_TABLE", parked["FLOW_TABLE"])
  BY FlowNames DEF PinInv, ParkInv
<1>2. Beside("FLOW_TABLE")
  BY <1>1 DEF Beside, PinFlows
<1> DEFINE all == PinFlows \cup RowsTodo("FLOW_TABLE")
<1>3. Cardinality(all) <= Cap("FLOW_TABLE")
  BY <1>2 DEF RoomInv
<1>4. IsFiniteSet(PinFlows) /\ IsFiniteSet(Rows("FLOW_TABLE", parked["FLOW_TABLE"]))
  BY <1>1, FlowNames DEF PinInv, MapsOK, Refs, PinFlows
<1>5. IsFiniteSet(all)
  <2>1. IsFiniteSet(RowsTodo("FLOW_TABLE"))
    BY <1>1, <1>4, FS_Subset
  <2> QED BY <1>4, <2>1, FS_Union
<1>6. PinFlows \in SUBSET all /\ PinFlows # all
  OBVIOUS
<1>7. Cap("FLOW_TABLE") \in Nat
  BY MapsAssumption, FlowNames DEF MapsAssumption, Cap, Wanted, PinInv, LoadOK
<1> HIDE DEF all
<1>8. Cardinality(PinFlows) <= Cardinality(all) /\ Cardinality(PinFlows) # Cardinality(all)
  BY <1>5, <1>6, FS_Subset
<1>9. Cardinality(PinFlows) \in Nat /\ Cardinality(all) \in Nat
  BY <1>4, <1>5, FS_CardinalityType
<1> QED BY <1>3, <1>7, <1>8, <1>9

\* RestoreWrite keeps RoomInv and FlowInv.
LEMMA RestoreWriteFlows ==
  ASSUME PinInv, RoomInv, FlowInv, RestoreWrite
  PROVE  RoomInv' /\ FlowInv'
<1>1. phase = "restore" /\ UNCHANGED <<pin, parked, program, phase, wanted, lossy, starts, late>> /\ todo' \subseteq todo
  BY RestoreWriteEffect
<1>2. Undisturbed
  BY RestoreWriteKeeps
<1>3. FlowsKept' = FlowsKept /\ Cap("FLOW_TABLE")' = Cap("FLOW_TABLE") /\ Ingress' = Ingress
      /\ Beside("FLOW_TABLE")' = Beside("FLOW_TABLE") /\ Source("FLOW_TABLE")' = Source("FLOW_TABLE")
  BY <1>1 DEF FlowsKept, Cap, Wanted, Ingress, Beside, Source
<1>4. parked["FLOW_TABLE"] # None => Rows("FLOW_TABLE", parked["FLOW_TABLE"])' = Rows("FLOW_TABLE", parked["FLOW_TABLE"])
  BY <1>1, <1>2, FlowNames DEF Undisturbed, Rows
<1>5. Ingress # NoPins => IngressFlows' = IngressFlows
  BY <1>1, <1>2, FlowNames DEF Undisturbed, Rows, IngressFlows, Ingress
<1>6. FlowsKept => /\ PinFlows \subseteq PinFlows'
                   /\ PinFlows' \cup RowsTodo("FLOW_TABLE")' \subseteq PinFlows \cup RowsTodo("FLOW_TABLE")
                   /\ ~failed' => ~failed
                   /\ ~failed' => PinFlows \cup RowsTodo("FLOW_TABLE") \subseteq PinFlows' \cup RowsTodo("FLOW_TABLE")'
  <2>1. FlowsKept => \A r \in RowsTodo("FLOW_TABLE") : r \in Rows("FLOW_TABLE", pin["FLOW_TABLE"])
                         \/ Cardinality(Rows("FLOW_TABLE", pin["FLOW_TABLE"])) < Cap("FLOW_TABLE")
    BY <1>1, NoEviction DEF PinFlows
  <2> QED BY <2>1, RestoreWriteRows, FlowNames DEF PinFlows
\* Also when it evicts, what it writes was in the parked map.
<1>7. Beside("FLOW_TABLE") => PinFlows' \subseteq Rows("FLOW_TABLE", parked["FLOW_TABLE"])
  <2> SUFFICES ASSUME Beside("FLOW_TABLE") PROVE PinFlows' \subseteq Rows("FLOW_TABLE", parked["FLOW_TABLE"])
    OBVIOUS
  <2>1. PinFlows \subseteq Rows("FLOW_TABLE", parked["FLOW_TABLE"])
    BY DEF RoomInv
  <2>2. PICK name, row :
          /\ name \in NameSet /\ row \in Rows(name, parked[name])
          /\ \/ UNCHANGED maps
             \/ Written(name, pin[name], Rows(name, pin[name]))
             \/ Written(name, pin[name], Rows(name, pin[name]) \cup {row})
             \/ \E old : Written(name, pin[name], (Rows(name, pin[name]) \ {old}) \cup {row})
    BY RestoreWriteEffect
  <2>3. CASE UNCHANGED maps
    BY <1>1, <2>1, <2>3 DEF PinFlows, Rows
  <2>4. ASSUME NEW new, Written(name, pin[name], new), new \subseteq Rows(name, pin[name]) \cup {row}
        PROVE  PinFlows' \subseteq Rows("FLOW_TABLE", parked["FLOW_TABLE"])
    <3>1. pin["FLOW_TABLE"] \in MapIds
      BY <1>1, FlowNames
    <3>2. CASE name = "FLOW_TABLE"
      <4>1. PinFlows' = new
        BY <1>1, <2>4, <3>1, <3>2, FlowNames DEF Written, PinFlows, Rows
      <4> QED BY <2>1, <2>2, <2>4, <3>2, <4>1 DEF PinFlows
    <3>3. CASE name # "FLOW_TABLE"
      <4>1. PinFlows' = PinFlows
        BY <1>1, <2>4, <3>1, <3>3, FlowNames DEF Written, PinFlows, Rows
      <4> QED BY <2>1, <4>1
    <3> QED BY <3>2, <3>3
  <2>5. CASE Written(name, pin[name], Rows(name, pin[name]))
    BY <2>4, <2>5
  <2>6. CASE Written(name, pin[name], Rows(name, pin[name]) \cup {row})
    BY <2>4, <2>6
  <2>7. ASSUME NEW old, Written(name, pin[name], (Rows(name, pin[name]) \ {old}) \cup {row})
        PROVE  PinFlows' \subseteq Rows("FLOW_TABLE", parked["FLOW_TABLE"])
    <3>1. (Rows(name, pin[name]) \ {old}) \cup {row} \subseteq Rows(name, pin[name]) \cup {row}
      OBVIOUS
    <3> QED BY <2>4, <2>7, <3>1
  <2> QED BY <2>2, <2>3, <2>5, <2>6, <2>7
<1>8. FlowsKept /\ Beside("FLOW_TABLE") => Cardinality(PinFlows' \cup RowsTodo("FLOW_TABLE")') <= Cap("FLOW_TABLE")
  <2> SUFFICES ASSUME FlowsKept, Beside("FLOW_TABLE")
               PROVE  Cardinality(PinFlows' \cup RowsTodo("FLOW_TABLE")') <= Cap("FLOW_TABLE")
    OBVIOUS
  <2> DEFINE all == PinFlows \cup RowsTodo("FLOW_TABLE")
             some == PinFlows' \cup RowsTodo("FLOW_TABLE")'
  <2>1. Cardinality(all) <= Cap("FLOW_TABLE")
    BY <1>1 DEF RoomInv
  <2>2. some \in SUBSET all
    BY <1>6
  <2>3. IsFiniteSet(all)
    <3>1. parked["FLOW_TABLE"] \in MapIds /\ pin["FLOW_TABLE"] \in MapIds
      BY FlowNames DEF Beside
    <3>2. IsFiniteSet(PinFlows) /\ IsFiniteSet(Rows("FLOW_TABLE", parked["FLOW_TABLE"]))
      BY <3>1, FlowNames DEF PinInv, MapsOK, Refs, PinFlows
    <3>3. RowsTodo("FLOW_TABLE") \in SUBSET Rows("FLOW_TABLE", parked["FLOW_TABLE"])
      BY <1>1, FlowNames DEF PinInv, ParkInv
    <3>4. IsFiniteSet(RowsTodo("FLOW_TABLE"))
      BY <3>2, <3>3, FS_Subset
    <3> QED BY <3>2, <3>4, FS_Union
  <2>4. Cap("FLOW_TABLE") \in Nat
    BY <1>1, MapsAssumption, FlowNames DEF MapsAssumption, Cap, Wanted, PinInv, LoadOK
  <2> HIDE DEF all, some
  <2>5. Cardinality(some) <= Cardinality(all) /\ IsFiniteSet(some)
    BY <2>2, <2>3, FS_Subset
  <2>6. Cardinality(some) \in Nat /\ Cardinality(all) \in Nat
    BY <2>3, <2>5, FS_CardinalityType
  <2>7. Cardinality(some) <= Cap("FLOW_TABLE")
    BY <2>1, <2>4, <2>5, <2>6
  <2> QED BY <2>7 DEF some
<1>9. RoomInv'
  <2>1. Beside("FLOW_TABLE") => parked["FLOW_TABLE"] # None
    BY DEF Beside
  <2> QED BY <1>1, <1>3, <1>4, <1>7, <1>8, <2>1 DEF RoomInv
<1>10. FlowInv'
  <2> SUFFICES ASSUME FlowsKept, Ingress # NoPins
               PROVE  /\ Source("FLOW_TABLE") # None
                      /\ IngressFlows \subseteq Rows("FLOW_TABLE", Source("FLOW_TABLE"))'
                      /\ ~failed' => IngressFlows \subseteq PinFlows' \cup RowsTodo("FLOW_TABLE")'
    BY <1>1, <1>3, <1>5 DEF FlowInv, AfterLoad
  <2>1. Source("FLOW_TABLE") # None /\ IngressFlows \subseteq Rows("FLOW_TABLE", Source("FLOW_TABLE"))
    BY DEF FlowInv
  <2>2. Rows("FLOW_TABLE", Source("FLOW_TABLE")) \subseteq Rows("FLOW_TABLE", Source("FLOW_TABLE"))'
    BY <1>1, <1>4, <1>6 DEF Source, PinFlows
  <2>3. ~failed' => IngressFlows \subseteq PinFlows' \cup RowsTodo("FLOW_TABLE")'
    <3>1. ~failed' => IngressFlows \subseteq PinFlows \cup RowsTodo("FLOW_TABLE")
      BY <1>1, <1>6 DEF FlowInv
    <3> QED BY <1>6, <3>1
  <2> QED BY <2>1, <2>2, <2>3
<1> QED BY <1>9, <1>10

\* A FLOW_TABLE is given up when the new one has its flows.
LEMMA UnparkFlows ==
  ASSUME PinInv, RoomInv, FlowInv, Unpark
  PROVE  RoomInv' /\ FlowInv'
<1>0. PICK name \in NameSet : name = Turn
  BY UnparkEffect
<1>1. /\ phase = "unpark" /\ parked' = [parked EXCEPT ![name] = None]
      /\ UNCHANGED <<pin, program, phase, lossy, starts, late>> /\ Kept /\ NamesOK'
  BY <1>0, UnparkEffect
<1>2. parked'["FLOW_TABLE"] = IF name = "FLOW_TABLE" THEN None ELSE parked["FLOW_TABLE"]
  BY <1>1, FlowNames DEF PinInv, NamesOK
<1>3. CASE name # "FLOW_TABLE"
  <2>1. SameFlows
    BY <1>1, <1>2, <1>3, FlowNames DEF SameFlows, Ingress, Kept
  <2> QED BY <1>1, <2>1, FlowFrame
<1>4. CASE name = "FLOW_TABLE"
  <2>1. RoomInv'
    BY <1>1, <1>2, <1>4 DEF RoomInv, Beside
  <2>2. /\ Ingress' = Ingress /\ FlowsKept' = FlowsKept
        /\ Ingress # NoPins => IngressFlows' = IngressFlows
        /\ PinFlows' = PinFlows
    <3>1. pin["FLOW_TABLE"] # None
      BY <1>1, FlowNames
    <3> QED BY <1>1, <3>1, RecreateRows DEF FlowsKept, PinFlows, Rows, IngressFlows
  <2>3. Source("FLOW_TABLE")' # None /\ Rows("FLOW_TABLE", Source("FLOW_TABLE"))' = PinFlows'
    BY <1>1, <1>2, <1>4, FlowNames DEF Source, PinFlows
  <2>4. FlowsKept /\ Ingress # NoPins => IngressFlows \subseteq PinFlows
    BY <1>1 DEF FlowInv
  <2>5. FlowInv'
    BY <1>1, <2>2, <2>3, <2>4 DEF FlowInv
  <2> QED BY <2>1, <2>5
<1> QED BY <1>3, <1>4

\* After the load nothing is parked, and the ingress classifier's flows are in
\* the pinned map; once a start has attached it they are the same.
LEMMA LoadedFlows ==
  phase \in AfterLoad /\ parked["FLOW_TABLE"] = None /\ pin["FLOW_TABLE"] # None
    /\ (FlowsKept /\ Ingress # NoPins => IngressFlows \subseteq PinFlows)
  => RoomInv /\ FlowInv
<1> SUFFICES ASSUME phase \in AfterLoad, parked["FLOW_TABLE"] = None, pin["FLOW_TABLE"] # None,
                    FlowsKept /\ Ingress # NoPins => IngressFlows \subseteq PinFlows
             PROVE  RoomInv /\ FlowInv
  OBVIOUS
<1>1. Source("FLOW_TABLE") = pin["FLOW_TABLE"] /\ ~Beside("FLOW_TABLE")
  BY DEF Source, Beside
<1>2. phase \notin {"recreate", "restore"}
  BY DEF AfterLoad
<1>3. RoomInv
  BY <1>1, <1>2 DEF RoomInv
<1>4. FlowInv
  BY <1>1, <1>2 DEF FlowInv, PinFlows
<1> QED BY <1>3, <1>4

\* A hook that is attached keeps RoomInv and FlowInv.
LEMMA AttachFlows ==
  ASSUME PinInv, RoomInv, FlowInv, AttachTo(First(Hooks, todo))
  PROVE  RoomInv' /\ FlowInv'
<1>1. PICK hook \in HookSet :
           /\ phase = "attach"
           /\ program' = [program EXCEPT ![hook] = pin]
           /\ phase' = IF todo' = {} THEN "run" ELSE phase
           /\ late' = IF hook = "uplink_ingress" THEN {} ELSE late
           /\ UNCHANGED <<pin, parked, lossy, starts>>
           /\ parked = NoPins /\ Kept /\ NamesOK'
  BY AttachEffect
<1>2. phase \in AfterLoad /\ phase' \in AfterLoad
  BY <1>1 DEF AfterLoad
<1>3. parked'["FLOW_TABLE"] = None /\ pin'["FLOW_TABLE"] = pin["FLOW_TABLE"] /\ pin["FLOW_TABLE"] # None
      /\ FlowsKept' = FlowsKept
  BY <1>1, <1>2, FlowNames DEF NoPins, FlowsKept
<1>4. FlowsKept' /\ Ingress' # NoPins => IngressFlows' \subseteq PinFlows'
  <2>1. CASE hook = "uplink_ingress"
    <3>1. Ingress' = pin
      BY <1>1, <2>1 DEF Ingress, PinInv, NamesOK
    <3>2. Rows("FLOW_TABLE", Ingress["FLOW_TABLE"])' = PinFlows'
      BY <1>1, <3>1 DEF PinFlows, Rows
    <3> QED BY <3>2 DEF IngressFlows
  <2>2. CASE hook # "uplink_ingress"
    <3>1. Ingress' = Ingress
      BY <1>1, <2>2, FlowNames DEF Ingress, PinInv, NamesOK
    <3>2. ASSUME Ingress # NoPins PROVE PinFlows' = PinFlows /\ IngressFlows' = IngressFlows
      <4>1. pin["FLOW_TABLE"] \in Refs("FLOW_TABLE")' /\ Ingress["FLOW_TABLE"] \in Refs("FLOW_TABLE")'
        BY <1>3, <3>1, FlowNames DEF Refs, Ingress
      <4>2. /\ maps'["FLOW_TABLE"][pin["FLOW_TABLE"]] = maps["FLOW_TABLE"][pin["FLOW_TABLE"]]
            /\ maps'["FLOW_TABLE"][Ingress["FLOW_TABLE"]] = maps["FLOW_TABLE"][Ingress["FLOW_TABLE"]]
        BY <1>1, <1>3, <3>2, <4>1, FlowNames DEF Kept
      <4>3. late' = late
        BY <1>1, <2>2
      <4> QED BY <1>3, <3>1, <4>2, <4>3 DEF PinFlows, IngressFlows, Rows
    <3>3. FlowsKept /\ Ingress # NoPins => IngressFlows \subseteq PinFlows
      BY <1>2 DEF FlowInv
    <3> QED BY <1>3, <3>1, <3>2, <3>3
  <2> QED BY <2>1, <2>2
<1>5. /\ (phase \in AfterLoad)' /\ (parked["FLOW_TABLE"] = None)' /\ (pin["FLOW_TABLE"] # None)'
      /\ (FlowsKept /\ Ingress # NoPins => IngressFlows \subseteq PinFlows)'
      => RoomInv' /\ FlowInv'
  BY LoadedFlows, PTL
<1> QED BY <1>2, <1>3, <1>4, <1>5

\* A running controller and its classifiers use the same map.
LEMMA RunFlows == PinInv /\ phase = "run" => RoomInv /\ FlowInv
<1> SUFFICES ASSUME PinInv, phase = "run" PROVE RoomInv /\ FlowInv
  OBVIOUS
<1>1. phase \in AfterLoad /\ parked = NoPins
  BY DEF AfterLoad, PinInv, ParkInv
<1>2. parked["FLOW_TABLE"] = None /\ pin["FLOW_TABLE"] # None
  BY <1>1, FlowNames DEF NoPins
<1>3. Ingress # NoPins => Ingress = pin
  BY FlowNames DEF PinInv, AttachInv, OnPins, Ingress
<1>4. Ingress # NoPins => IngressFlows \subseteq PinFlows
  BY <1>3 DEF IngressFlows, PinFlows
<1> QED BY <1>1, <1>2, <1>4, LoadedFlows

\* A new flow is late, or it is in the source and will be in its snapshot.
LEMMA NewFlowFlows ==
  ASSUME PinInv, RoomInv, FlowInv, NEW k \in Flows, NewFlow(k)
  PROVE  RoomInv' /\ FlowInv'
<1> DEFINE m == Ingress["FLOW_TABLE"]
           out == \/ m \notin {pin["FLOW_TABLE"], parked["FLOW_TABLE"]}
                  \/ m = parked["FLOW_TABLE"] /\ Taken("FLOW_TABLE")
<1>1. /\ UNCHANGED <<pin, parked, program, lossy, starts, phase, wanted, todo, snapshot, failed>>
      /\ m \in MapIds
      /\ Written("FLOW_TABLE", m, Rows("FLOW_TABLE", m) \cup {k})
  BY NewFlowEffect
<1>2. /\ out => late' = late \cup {k}
      /\ ~out => late' = late
  BY NewFlowEffect
<1>3. /\ Source("FLOW_TABLE")' = Source("FLOW_TABLE") /\ Beside("FLOW_TABLE")' = Beside("FLOW_TABLE")
      /\ FlowsKept' = FlowsKept /\ RowsTodo("FLOW_TABLE")' = RowsTodo("FLOW_TABLE")
      /\ Cap("FLOW_TABLE")' = Cap("FLOW_TABLE") /\ Taken("FLOW_TABLE")' = Taken("FLOW_TABLE")
      /\ Ingress' = Ingress
  BY <1>1 DEF Source, Beside, FlowsKept, RowsTodo, Cap, Wanted, Taken, Ingress
<1>4. \A id \in MapIds :
        maps'["FLOW_TABLE"][id].rows = IF id = m THEN maps["FLOW_TABLE"][m].rows \cup {k} ELSE maps["FLOW_TABLE"][id].rows
  BY <1>1, FlowNames DEF Written, Rows
<1>5. m # pin["FLOW_TABLE"] \/ ~Beside("FLOW_TABLE")
  BY FlowNames DEF PinInv, ParkInv, Ingress
<1>6. IngressFlows' = (Rows("FLOW_TABLE", m) \cup {k}) \ late'
  BY <1>1, <1>3, <1>4 DEF IngressFlows, Rows
<1>7. pin["FLOW_TABLE"] # None => /\ PinFlows \subseteq PinFlows'
                                  /\ m = pin["FLOW_TABLE"] => k \in PinFlows'
                                  /\ m # pin["FLOW_TABLE"] => PinFlows' = PinFlows
  BY <1>1, <1>4, FlowNames DEF PinFlows, Rows
<1>8. parked["FLOW_TABLE"] # None => Rows("FLOW_TABLE", parked["FLOW_TABLE"]) \subseteq Rows("FLOW_TABLE", parked["FLOW_TABLE"])'
  BY <1>1, <1>4, FlowNames DEF Rows
<1>9. Source("FLOW_TABLE") # None =>
        /\ Rows("FLOW_TABLE", Source("FLOW_TABLE")) \subseteq Rows("FLOW_TABLE", Source("FLOW_TABLE"))'
        /\ m = Source("FLOW_TABLE") => k \in Rows("FLOW_TABLE", Source("FLOW_TABLE"))'
  <2>1. Source("FLOW_TABLE") # None => Source("FLOW_TABLE") \in MapIds
    BY FlowNames DEF Source
  <2> QED BY <1>3, <1>4, <2>1 DEF Rows
<1>10. RoomInv'
  <2>1. Beside("FLOW_TABLE") =>
          /\ PinFlows' = PinFlows
          /\ Rows("FLOW_TABLE", parked["FLOW_TABLE"]) \subseteq Rows("FLOW_TABLE", parked["FLOW_TABLE"])'
    BY <1>5, <1>7, <1>8 DEF Beside
  <2> QED BY <1>1, <1>3, <2>1 DEF RoomInv
<1>11. FlowInv'
  <2> SUFFICES ASSUME FlowsKept
               PROVE  /\ Source("FLOW_TABLE") # None /\ IngressFlows' \subseteq Rows("FLOW_TABLE", Source("FLOW_TABLE"))'
                      /\ phase = "recreate" /\ Taken("FLOW_TABLE") => IngressFlows' \subseteq snapshot["FLOW_TABLE"]
                      /\ phase = "restore" /\ ~failed => IngressFlows' \subseteq PinFlows' \cup RowsTodo("FLOW_TABLE")
                      /\ phase \in {"unpark"} \cup AfterLoad => IngressFlows' \subseteq PinFlows'
    BY <1>1, <1>3 DEF FlowInv
  <2>1. Ingress # NoPins
    BY <1>1, FlowNames
  <2>2. /\ Source("FLOW_TABLE") # None /\ IngressFlows \subseteq Rows("FLOW_TABLE", Source("FLOW_TABLE"))
        /\ phase = "recreate" /\ Taken("FLOW_TABLE") => IngressFlows \subseteq snapshot["FLOW_TABLE"]
        /\ phase = "restore" /\ ~failed => IngressFlows \subseteq PinFlows \cup RowsTodo("FLOW_TABLE")
        /\ phase \in {"unpark"} \cup AfterLoad => IngressFlows \subseteq PinFlows
    BY <2>1 DEF FlowInv
  <2>3. phase \in {"restore", "unpark"} \cup AfterLoad => PinFlows \subseteq PinFlows'
    BY <1>7, FlowNames
  <2>4. CASE out
    <3>1. IngressFlows' \subseteq IngressFlows
      BY <1>2, <1>6, <2>4 DEF IngressFlows
    <3> QED BY <1>9, <2>2, <2>3, <3>1
  <2>5. CASE ~out
    <3>1. IngressFlows' \subseteq IngressFlows \cup {k}
      BY <1>2, <1>6, <2>5 DEF IngressFlows
    <3>2. m = pin["FLOW_TABLE"] \/ m = parked["FLOW_TABLE"]
      BY <2>5
    <3>3. m = parked["FLOW_TABLE"] => ~Taken("FLOW_TABLE")
      BY <2>5
    <3>4. CASE m = pin["FLOW_TABLE"]
      <4>1. parked["FLOW_TABLE"] \in {None, m}
        BY <1>1, <1>5, <3>4, FlowNames DEF Beside
      <4>2. Source("FLOW_TABLE") = m /\ k \in PinFlows'
        BY <1>1, <1>7, <3>4, <4>1, FlowNames DEF Source
      <4>3. phase = "recreate" => ~Taken("FLOW_TABLE")
        <5>1. phase = "recreate" /\ Taken("FLOW_TABLE") => parked["FLOW_TABLE"] # None
          BY FlowNames DEF PinInv, RecreateInv, NameInv
        <5> QED BY <3>3, <4>1, <5>1
      <4> QED BY <1>9, <2>2, <2>3, <3>1, <4>2, <4>3
    <3>5. CASE m = parked["FLOW_TABLE"]
      <4>1. Source("FLOW_TABLE") = m /\ parked["FLOW_TABLE"] # None /\ ~Taken("FLOW_TABLE")
        BY <1>1, <3>3, <3>5, FlowNames DEF Source
      <4>2. phase \notin {"restore", "unpark"}
        BY <4>1, FlowNames DEF PinInv, ParkInv, Taken
      <4>3. phase \notin AfterLoad
        BY <4>1, FlowNames DEF PinInv, ParkInv, NoPins
      <4> QED BY <1>9, <2>2, <3>1, <4>1, <4>2, <4>3
    <3> QED BY <3>2, <3>4, <3>5
  <2> QED BY <2>4, <2>5
<1> QED BY <1>10, <1>11

\* RoomInv and FlowInv are inductive.
LEMMA FlowInvStep == PinInv /\ RoomInv /\ FlowInv /\ [Next]_vars => RoomInv' /\ FlowInv'
<1> SUFFICES ASSUME PinInv, RoomInv, FlowInv, [Next]_vars PROVE RoomInv' /\ FlowInv'
  OBVIOUS
<1>0. PinInv'
  BY PinInvStep
<1>1. CASE LoadStep
  BY <1>1, ProcessFlows, ParkFlows, GiveUpFlows, CreatePinFlows, PlanRestoreFlows, RestoreWriteFlows,
     UnparkFlows DEF LoadStep
<1>2. CASE AttachTo(First(Hooks, todo))
  BY <1>2, AttachFlows
<1>3. CASE Settle \/ \E f \in Fronts : WriteRows(f) \/ CommitFront(f)
  <2>1. (phase = "run")'
    BY <1>3 DEF Settle, WriteRows, CommitFront, loadVars
  <2>2. PinInv' /\ (phase = "run")' => RoomInv' /\ FlowInv'
    BY RunFlows, PTL
  <2> QED BY <1>0, <2>1, <2>2
<1>4. CASE Detach \/ UNCHANGED pinVars
  <2>1. /\ UNCHANGED <<pin, parked, lossy, starts, late, phase, todo, failed, wanted, snapshot>> /\ Ingress' = Ingress
        /\ \A h \in HookSet : program'[h] \in {program[h], NoPins}
        /\ \A m \in MapIds : m \in Refs("FLOW_TABLE")' => maps'["FLOW_TABLE"][m] = maps["FLOW_TABLE"][m]
    <3>1. CASE Detach
      BY <3>1, DetachEffect, FlowNames DEF loadVars, Ingress, Kept
    <3>2. CASE UNCHANGED pinVars
      BY <3>2 DEF pinVars, loadVars, Ingress
    <3> QED BY <1>4, <3>1, <3>2
  <2>2. SameFlows
    BY <2>1 DEF SameFlows
  <2>3. NamesOK' /\ (Taken("FLOW_TABLE")' <=> Taken("FLOW_TABLE"))
    BY <1>0, <2>1 DEF PinInv, Taken
  <2> QED BY <2>1, <2>2, <2>3, FlowFrame
<1>5. ASSUME NEW k \in Flows, NewFlow(k) PROVE RoomInv' /\ FlowInv'
  BY <1>5, NewFlowFlows
<1> QED BY <1>1, <1>2, <1>3, <1>4, <1>5, MapSteps DEF RunStep

\* The start: no classifier, or classifiers that all use the pinned maps.
LEMMA CarriedInit == Init => CarryInv /\ RoomInv /\ FlowInv
<1> SUFFICES ASSUME Init PROVE CarryInv /\ RoomInv /\ FlowInv
  OBVIOUS
<1>1. PinInv /\ parked = NoPins /\ phase = "off"
  BY PinInvInit DEF Init
<1>2. \A n \in NameSet : parked[n] = None /\ Source(n) = pin[n] /\ ~Beside(n)
  BY <1>1 DEF NoPins, Source, Beside
<1>3. (\A h \in HookSet : program[h] = NoPins) \/ (\A h \in HookSet : program[h] = pin /\ \A n \in NameSet : pin[n] # None)
  BY DEF Init, FreshNode, StoppedNode, None
<1>4. CarryInv
  BY <1>1, <1>2, <1>3, FrontNames DEF CarryInv
<1>5. RoomInv
  BY <1>1, <1>2, FlowNames DEF RoomInv
<1>6. FlowInv
  BY <1>1, <1>2, <1>3, FlowNames DEF FlowInv, AfterLoad, Ingress, IngressFlows
<1> QED BY <1>4, <1>5, <1>6

\* Only the attach gives a hook other maps.
LEMMA OnlyAttach ==
  ASSUME PinInv, [Next]_vars, NEW h \in HookSet, program'[h] \notin {NoPins, program[h]}
  PROVE  AttachTo(First(Hooks, todo))
<1>1. CASE LoadStep
  <2>1. UNCHANGED program
    BY <1>1 DEF LoadStep, StartLoad, Park, GiveUp, Unpin, CreatePin, PlanRestore, RestoreWrite,
                EndLoad, Unpark, Forward, Die
  <2> QED BY <2>1
<1>2. CASE Detach
  BY <1>2, DetachEffect
<1>3. CASE Settle \/ (\E f \in Fronts : WriteRows(f) \/ CommitFront(f)) \/ (\E k \in Flows : NewFlow(k))
             \/ UNCHANGED pinVars
  BY <1>3 DEF Settle, WriteRows, CommitFront, NewFlow, pinVars
<1> QED BY <1>1, <1>2, <1>3, MapSteps DEF RunStep

(***************************************************************************)
(* Nothing is lost without a message: the classifier that takes over on a  *)
(* hook has every front that its predecessor resolved and, on the ingress  *)
(* hook, every flow but the ones written after the last snapshot, however  *)
(* many starts the migration took and wherever they were cut off.          *)
(***************************************************************************)
THEOREM NothingLost == Spec => CarriedOver
<1> DEFINE Takes ==
      \A h \in HookSet :
         program[h] # NoPins /\ program'[h] \notin {NoPins, program[h]} =>
           LET fronts == maps["FRONT_META"][program[h]["FRONT_META"]].rows
               flows == maps["FLOW_TABLE"][program[h]["FLOW_TABLE"]].rows
           IN /\ (\A why \in {"layout", "snapshot", "room"} :
                    {<<"FRONT_META", why>>, <<"FRONT_ENDPOINTS", why>>} \cap lossy = {})
                 => fronts \subseteq maps'["FRONT_META"][program'[h]["FRONT_META"]].rows
              /\ h = "uplink_ingress" /\ (\A why \in {"layout", "snapshot", "room"} :
                    <<"FLOW_TABLE", why>> \notin lossy)
                 => flows \ late \subseteq maps'["FLOW_TABLE"][program'[h]["FLOW_TABLE"]].rows
<1>1. ASSUME PinInv, CarryInv, FlowInv, [Next]_vars PROVE Takes
  <2> SUFFICES ASSUME NEW h \in HookSet, program[h] # NoPins, program'[h] \notin {NoPins, program[h]}
               PROVE  /\ FrontsKept => Rows("FRONT_META", program[h]["FRONT_META"])
                                         \subseteq maps'["FRONT_META"][program'[h]["FRONT_META"]].rows
                      /\ h = "uplink_ingress" /\ FlowsKept =>
                           Rows("FLOW_TABLE", program[h]["FLOW_TABLE"]) \ late
                             \subseteq maps'["FLOW_TABLE"][program'[h]["FLOW_TABLE"]].rows
    BY DEF FrontsKept, FlowsKept, Rows
  <2>1. PICK hook \in HookSet :
           /\ phase = "attach" /\ program' = [program EXCEPT ![hook] = pin]
           /\ UNCHANGED pin /\ parked = NoPins /\ Kept /\ NamesOK'
    BY <1>1, OnlyAttach, AttachEffect
  <2>2. program'[h] = pin
    BY <1>1, <2>1 DEF PinInv, NamesOK
  <2>3. phase \in AfterLoad /\ \A n \in NameSet : pin[n] # None /\ Source(n) = pin[n]
    BY <1>1, <2>1 DEF PinInv, ShapeInv, AfterLoad, NoPins, Source
  <2>4. \A n \in NameSet : maps'[n][pin[n]] = maps[n][pin[n]]
    <3>1. \A n \in NameSet : pin[n] \in Refs(n)' /\ pin[n] \in MapIds
      BY <1>1, <2>1, <2>3 DEF Refs, PinInv, NamesOK
    <3> QED BY <2>1, <3>1 DEF Kept
  <2>5. FrontsKept => Rows("FRONT_META", program[h]["FRONT_META"]) \subseteq Rows("FRONT_META", pin["FRONT_META"])
    BY <1>1, <2>3, TheNames DEF CarryInv
  <2>6. h = "uplink_ingress" /\ FlowsKept =>
           Rows("FLOW_TABLE", program[h]["FLOW_TABLE"]) \ late \subseteq Rows("FLOW_TABLE", pin["FLOW_TABLE"])
    BY <1>1, <2>3 DEF FlowInv, Ingress, IngressFlows, PinFlows
  <2> QED BY <2>2, <2>4, <2>5, <2>6, TheNames DEF Rows
<1>2. PinInv /\ CarryInv /\ FlowInv /\ [Next]_vars => [Takes]_vars
  BY <1>1
<1> QED BY <1>2, PinInvInit, PinInvStep, CarriedInit, CarryInvStep, FlowInvStep, PTL DEF Spec, CarriedOver
=============================================================================
