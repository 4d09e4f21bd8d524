---------------------------- MODULE PinMigration ----------------------------
(***************************************************************************)
(* load_ebpf of one node (src/lib.rs, src/pin_migrate.rs): the pinned maps *)
(* are reused, or recreated when their shape differs from the wanted one,  *)
(* and then refilled from the old map, which stays pinned as _migrating    *)
(* until that is done.  The programs of the previous run keep the old maps *)
(* meanwhile.  The process may die between any two steps and be started    *)
(* again with another configuration.                                       *)
(*                                                                         *)
(* FLOW_TABLE stands for the maps other than the two front maps: all are   *)
(* treated alike.                                                          *)
(***************************************************************************)
EXTENDS Naturals, FiniteSets

CONSTANTS
    Configs,     \* what the process may be started with
    Shapes,      \* Shapes[config][name]: [layout, cap, flags], see MapShape
    FrontCount,  \* fronts are 1 .. FrontCount, in key order
    Slots,       \* Slots[front]: FrontMeta.count
    Flows,       \* keys of FLOW_TABLE, numbers in key order
    MapIds,      \* identities of the maps of one name
    MaxMishaps   \* crashes, failing calls and changes of the surroundings

Names == <<"FRONT_META", "FRONT_ENDPOINTS", "FLOW_TABLE">>
NameSet == {Names[i] : i \in 1 .. 3}
FrontMaps == {"FRONT_META", "FRONT_ENDPOINTS"}
Hooks == <<"uplink_ingress", "geneve_ingress", "uplink_egress_return">>
HookSet == {Hooks[i] : i \in 1 .. 3}
Fronts == 1 .. FrontCount
None == 0
NoConfig == "none"
NoMap == [shape |-> [layout |-> 0, cap |-> 0, flags |-> 0], rows |-> {}]
NoPins == [name \in NameSet |-> None]
NoFates == [name \in NameSet |-> "none"]
NoSnapshots == [name \in {} |-> {}]

ASSUME MapsAssumption ==
    /\ NoConfig \notin Configs /\ MaxMishaps \in Nat
    /\ \A config \in Configs : \A name \in NameSet : Shapes[config][name].cap \in Nat \ {0}
    /\ FrontCount \in Nat /\ Slots \in [Fronts -> Nat]
    /\ Flows \subseteq Nat /\ Flows # {}
    /\ 1 \in MapIds /\ None \notin MapIds
    \* a parked map and those of three classifiers: there is always another one
    /\ \A a, b, c, d \in MapIds : \E m \in MapIds : m \notin {a, b, c, d}

\* The first of S in the order of a list.
First(order, S) ==
    order[CHOOSE i \in 1 .. 3 : order[i] \in S /\ \A j \in 1 .. 3 : order[j] \in S => i <= j]

VARIABLES
    maps,     \* maps[name][id]: [shape, rows] of a map in the kernel
    pin,      \* pin[name]: the map pinned under its name, or None
    parked,   \* parked[name]: the map pinned as <name>_migrating, or None
    program,  \* program[hook][name]: the map the hook's classifier uses
    phase,    \* where load_ebpf is; "off" outside of the process
    wanted,   \* the configuration it was started with
    fate,     \* fate[name]: the fates of recreate_mismatched_pins
    todo,     \* the names, writes, uplinks or hooks that the phase has before it
    half,     \* the first of the two pin operations for the first name is done
    snapshot, \* snapshot[name]: the entries to carry over, for names that have some
    failed,   \* a restore write failed
    lossy,    \* what the migration gave up with a message: <<name, why>>
    starts,   \* history: the starts since all fronts were whole, see StartLoad
    late,     \* flows that the old programs wrote after the snapshot
    mishaps

loadVars == <<phase, wanted, fate, todo, half, snapshot, failed>>
pinVars == <<maps, pin, parked, program, lossy, starts, late, loadVars>>

Wanted(name) == Shapes[wanted][name]
Cap(name) == Wanted(name).cap
Mishap == mishaps < MaxMishaps /\ mishaps' = mishaps + 1

\* A row of FRONT_ENDPOINTS is <<front, generation, slot>>; generation 1 is
\* the live one, 0 the previous one, kept for the grace of a swap.
RowsOf(f) == {<<f, 1, s>> : s \in 0 .. Slots[f] - 1}
Whole(f, rows) == RowsOf(f) \subseteq rows

\* The kernel frees a map when no pin and no program refers to it.
Freed(ms, pins, parks, programs) ==
    [name \in NameSet |-> [id \in MapIds |->
        IF id \in {pins[name], parks[name]} \cup {programs[h][name] : h \in HookSet}
        THEN ms[name][id] ELSE NoMap]]

\* The fronts that a classifier using these maps resolves.
FrontsOf(use) == maps["FRONT_META"][use["FRONT_META"]].rows
RowsIn(use) == maps["FRONT_ENDPOINTS"][use["FRONT_ENDPOINTS"]].rows

-----------------------------------------------------------------------------
(* recreate_mismatched_pins                                                *)

\* map_shape_mismatches finds none
SameShape(shape, want) == shape = want

\* pin_fate
PinFate(shape, name, config) ==
    LET want == Shapes[config][name]
    IN CASE SameShape(shape, want) -> "Keep"
         [] ~SameShape(shape, want) /\ shape.layout = want.layout -> "Migrate"
         [] OTHER -> "RecreateEmpty"

\* Faulty: a pin of the wanted shape is taken for the finished new map.
PlainFirst(name, config) ==
    CASE pin[name] # None -> PinFate(maps[name][pin[name]].shape, name, config)
      [] pin[name] = None /\ parked[name] # None -> "Migrate"
      [] OTHER -> "none"

\* pin_source: a _migrating pin is the source whatever else is there, and
\* never "Keep".
SourceFate(name, config) ==
    IF parked[name] # None
    THEN LET f == PinFate(maps[name][parked[name]].shape, name, config)
         IN IF f = "Keep" THEN "Migrate" ELSE f
    ELSE IF pin[name] # None THEN PinFate(maps[name][pin[name]].shape, name, config)
    ELSE "none"

\* Faulty: each front map goes its own way.
Uncoupled(meta, endpoints, name) == IF name = "FRONT_META" THEN meta ELSE endpoints

\* couple_front_fates
CoupleFrontFates(meta, endpoints, name) ==
    CASE {meta, endpoints} = {"Keep"} -> "Keep"
      [] {meta, endpoints} = {"none"} -> "none"
      [] {meta, endpoints} \subseteq {"Keep", "Migrate"} /\ {meta, endpoints} # {"Keep"} -> "Migrate"
      [] OTHER -> "RecreateEmpty"

Fate(name, config) ==
    IF name \notin FrontMaps THEN SourceFate(name, config)
    ELSE IF SourceFate(name, config) = "none" THEN "none"
    ELSE CoupleFrontFates(SourceFate("FRONT_META", config),
                          SourceFate("FRONT_ENDPOINTS", config), name)

\* The process starts: the fates are settled before any pin is touched.  The
\* history keeps the configurations tried, and whether one of the starts found
\* the FRONT_META of an interrupted migration parked and resumed it.
StartLoad(config) ==
    /\ phase = "off"
    /\ wanted' = config
    /\ fate' = [name \in NameSet |-> Fate(name, config)]
    /\ todo' = {name \in NameSet : fate'[name] \in {"Migrate", "RecreateEmpty"}}
    /\ phase' = "recreate"
    /\ starts' = [tried |-> starts.tried \cup {config},
                  resumed |-> starts.resumed \/ parked["FRONT_META"] # None]
    /\ UNCHANGED <<maps, pin, parked, program, half, failed, snapshot, lossy, late, mishaps>>

\* The maps of the classifier that admits flows.
Ingress == program["uplink_ingress"]

\* The name whose turn it is.
Turn == First(Names, todo)

Source(name) == IF parked[name] # None THEN parked[name] ELSE pin[name]

\* A stale plain pin beside the parked one: the new map of an interrupted run
\* is reused if it has the wanted shape.
StalePlain(name) == pin[name] # None /\ ~SameShape(maps[name][pin[name]].shape, Wanted(name))

\* A map that migrates is snapshotted and its old map parked: pinned again as
\* _migrating and then unpinned (repin).
Park ==
    /\ phase = "recreate" /\ todo # {} /\ ~half /\ fate[Turn] = "Migrate"
    /\ LET name == Turn
       IN /\ snapshot' = [n \in DOMAIN snapshot \cup {name} |->
                            IF n = name THEN maps[name][Source(name)].rows ELSE snapshot[n]]
          /\ \/ /\ parked[name] = None
                /\ parked' = [parked EXCEPT ![name] = pin[name]] /\ half' = TRUE
                /\ UNCHANGED <<pin, todo>>
             \/ /\ parked[name] # None
                /\ pin' = [pin EXCEPT ![name] = IF StalePlain(name) THEN None ELSE @]
                /\ todo' = todo \ {name} /\ UNCHANGED <<parked, half>>
          /\ late' = IF name = "FLOW_TABLE" /\ Source(name) = Ingress[name] THEN {} ELSE late
    /\ maps' = Freed(maps, pin', parked', program)
    /\ UNCHANGED <<program, phase, wanted, fate, failed, lossy, starts, mishaps>>

\* A map whose layout changed, or whose snapshot failed, is given up.
GiveUp ==
    /\ phase = "recreate" /\ todo # {} /\ ~half
    /\ LET name == Turn
       IN /\ \/ /\ fate[name] = "RecreateEmpty" /\ UNCHANGED mishaps
                /\ lossy' = lossy \cup {<<name, "layout">>}
             \/ /\ fate[name] = "Migrate" /\ Mishap
                /\ lossy' = lossy \cup {<<name, "snapshot">>}
          /\ \/ /\ parked[name] = None
                /\ pin' = [pin EXCEPT ![name] = None] /\ todo' = todo \ {name}
                /\ UNCHANGED <<parked, half>>
             \/ /\ parked[name] # None
                /\ parked' = [parked EXCEPT ![name] = None] /\ half' = TRUE
                /\ UNCHANGED <<pin, todo>>
    /\ maps' = Freed(maps, pin', parked', program)
    /\ UNCHANGED <<program, starts, phase, wanted, fate, snapshot, failed, late>>

\* The second pin operation of either.
Unpin ==
    /\ phase = "recreate" /\ half
    /\ pin' = [pin EXCEPT ![Turn] = None]
    /\ todo' = todo \ {Turn} /\ half' = FALSE
    /\ maps' = Freed(maps, pin', parked, program)
    /\ UNCHANGED <<parked, program, phase, wanted, fate, snapshot, failed, lossy, starts, late, mishaps>>

-----------------------------------------------------------------------------
(* The load, and the restore.                                              *)

\* aya creates every map that has no pin, one after the other.
Unpinned == {name \in NameSet : pin[name] = None}
CreatePin ==
    /\ phase = "recreate" /\ todo = {} /\ Unpinned # {}
    /\ LET name == First(Names, Unpinned)
           id == CHOOSE m \in MapIds : maps[name][m] = NoMap
       IN /\ pin' = [pin EXCEPT ![name] = id]
          /\ maps' = [maps EXCEPT ![name][id] = [shape |-> Wanted(name), rows |-> {}]]
    /\ UNCHANGED <<parked, program, loadVars, lossy, starts, late, mishaps>>

Snapshot(name) == IF name \in DOMAIN snapshot THEN snapshot[name] ELSE {}

\* plan_restore: the fronts that are whole in the snapshot, one after the other
\* in key order, as long as they fit whole beside the ones admitted before.
Restorable(metas, endpoints) == {f \in metas : Whole(f, endpoints)}
Fits(f, before, config) ==
    /\ Cardinality(before) < Shapes[config]["FRONT_META"].cap
    /\ Cardinality(UNION {RowsOf(g) : g \in before}) + Slots[f]
          <= Shapes[config]["FRONT_ENDPOINTS"].cap
Admitted(metas, endpoints, config) ==
    CHOOSE A \in SUBSET Restorable(metas, endpoints) :
        \A f \in Restorable(metas, endpoints) : f \in A <=> Fits(f, {g \in A : g < f}, config)
AdmittedFronts == Admitted(Snapshot("FRONT_META"), Snapshot("FRONT_ENDPOINTS"), wanted)

\* The entries of FLOW_TABLE that fit, in key order.
AdmittedFlows ==
    {k \in Snapshot("FLOW_TABLE") :
       Cardinality({j \in Snapshot("FLOW_TABLE") : j < k}) < Cap("FLOW_TABLE")}

Writes(name, entries) == {name} \X entries

\* apply_plan: the generic maps, the rows of every front, then the fronts.
RestoreOrder == <<"FLOW_TABLE", "FRONT_ENDPOINTS", "FRONT_META">>

PlanRestore ==
    /\ phase = "recreate" /\ todo = {} /\ Unpinned = {}
    /\ todo' = Writes("FLOW_TABLE", AdmittedFlows) \cup Writes("FRONT_META", AdmittedFronts)
                 \cup Writes("FRONT_ENDPOINTS", UNION {RowsOf(f) : f \in AdmittedFronts})
    /\ lossy' = lossy
         \cup (IF AdmittedFronts = Snapshot("FRONT_META") THEN {} ELSE {<<"FRONT_META", "room">>})
         \cup (IF AdmittedFlows = Snapshot("FLOW_TABLE") THEN {} ELSE {<<"FLOW_TABLE", "room">>})
    /\ phase' = "restore"
    /\ fate' = NoFates /\ snapshot' = [name \in DOMAIN snapshot |-> {}]
    /\ UNCHANGED <<maps, pin, parked, program, starts, wanted, half, failed, late, mishaps>>

\* Faulty: an entry that is there already counts as a failure.
OnlyNew(rows, row, ok) == ok /\ row \notin rows

\* write_landed with BPF_NOEXIST: EEXIST is as good as written.
WriteLanded(rows, row, ok) == ok \/ row \in rows

\* The insert: a full FLOW_TABLE, an LRU map, makes room.
Inserted(name, rows, row) ==
    IF row \in rows THEN {rows}
    ELSE IF name = "FLOW_TABLE" /\ Cardinality(rows) >= Cap(name)
    THEN {(rows \ {old}) \cup {row} : old \in rows}
    ELSE {rows \cup {row}}

\* The next write of the plan.  A full front map refuses it.  A front whose
\* rows did not all land is left out; the other writes are still tried.
RestoreWrite ==
    /\ phase = "restore" /\ todo # {}
    /\ LET name == First(RestoreOrder, {x[1] : x \in todo})
           row == (CHOOSE x \in todo : x[1] = name)[2]
           rows == maps[name][pin[name]].rows
           full == name \in FrontMaps /\ row \notin rows /\ Cardinality(rows) >= Cap(name)
       IN \E ok \in {~full, FALSE} :
            /\ IF ok \/ full \/ row \in rows THEN UNCHANGED mishaps ELSE Mishap
            /\ IF WriteLanded(rows, row, ok)
               THEN /\ \E new \in Inserted(name, rows, row) :
                         maps' = [maps EXCEPT ![name][pin[name]].rows = new]
                    /\ todo' = todo \ {<<name, row>>} /\ UNCHANGED failed
               ELSE /\ failed' = TRUE /\ UNCHANGED maps
                    /\ todo' = todo \ ({<<name, row>>} \cup
                                 IF name = "FRONT_ENDPOINTS" THEN {<<"FRONT_META", row[1]>>} ELSE {})
    /\ UNCHANGED <<pin, parked, program, phase, wanted, fate, half, snapshot, lossy, starts, late>>

\* The process dies; what it had in memory is gone, the pins stay.
Die ==
    /\ phase' = "off" /\ wanted' = NoConfig /\ fate' = NoFates
    /\ todo' = {} /\ half' = FALSE /\ snapshot' = NoSnapshots /\ failed' = FALSE
    /\ UNCHANGED <<maps, pin, parked, program, lossy, starts, late>>

\* Every write tried: after a failure the process reports it and exits, and
\* the parked maps stay for the next start.
EndRestore ==
    /\ phase = "restore" /\ todo = {}
    /\ \/ failed /\ Die
       \/ /\ ~failed
          /\ phase' = "unpark"
          /\ todo' = DOMAIN snapshot
          /\ UNCHANGED <<maps, pin, parked, program, wanted, fate, half, snapshot, failed, lossy, starts, late>>
    /\ UNCHANGED mishaps

\* unpark_migrated
Unpark ==
    /\ phase = "unpark" /\ todo # {}
    /\ parked' = [parked EXCEPT ![Turn] = None]
    /\ maps' = Freed(maps, pin, parked', program)
    /\ todo' = todo \ {Turn}
    /\ UNCHANGED <<pin, program, phase, wanted, fate, half, snapshot, failed, lossy, starts, late, mishaps>>

Loaded == phase = "unpark" /\ todo = {}

-----------------------------------------------------------------------------
(* The attached classifiers.                                               *)

\* A classifier of this or the previous run admits a new flow.
NewFlow(k) ==
    LET m == Ingress["FLOW_TABLE"]
    IN /\ m # None
       /\ k \notin maps["FLOW_TABLE"][m].rows
       /\ Cardinality(maps["FLOW_TABLE"][m].rows) < maps["FLOW_TABLE"][m].shape.cap
       /\ maps' = [maps EXCEPT !["FLOW_TABLE"][m].rows = @ \cup {k}]
       /\ late' = IF \/ m \notin {pin["FLOW_TABLE"], parked["FLOW_TABLE"]}
                     \/ m = parked["FLOW_TABLE"] /\ "FLOW_TABLE" \in DOMAIN snapshot
                  THEN late \cup {k} ELSE late
       /\ UNCHANGED <<pin, parked, program, loadVars, lossy, starts, mishaps>>

=============================================================================
