------------------------------ MODULE Startup ------------------------------
(***************************************************************************)
(* A node's controller from its start until it serves (main of             *)
(* controller/src/main.rs): it loads the maps, migrating the pinned ones,  *)
(* fetches the cluster's seed, fills CONFIG and UPLINK_CONFIG, attaches    *)
(* the three classifiers one after the other, two of them to every uplink, *)
(* and then reconciles the fronts.  It can die between any two steps while *)
(* the classifiers of its predecessor go on; of the peer's controller only *)
(* the seed is modelled.                                                   *)
(*                                                                         *)
(* The maps of a classifier are followed on the Geneve device and on one   *)
(* uplink that every configuration has; of the other uplinks, which a      *)
(* configuration may drop or add, it is kept whether the classifier on the *)
(* link still uses the pinned maps.                                        *)
(*                                                                         *)
(* The maps and the seed meet in nothing but the process that handles      *)
(* both.  To keep the product of the two small a behaviour has one focus:  *)
(* "pins", where the configuration changes and flows arrive but the Secret *)
(* is stable, or "seed", where two controllers contend for the Secret.     *)
(***************************************************************************)
EXTENDS PinMigration, FlowSeed

CONSTANTS
    Node, Peer,  \* the two of SeedNodes
    Base,        \* the configuration of a behaviour that is about the seed
    Uplinks,     \* Uplinks[config]: the ifindexes of its --uplink-iface
    Followed     \* the uplink that program is about, the last of each list

ASSUME NodesAssumption == SeedNodes = {Node, Peer} /\ Node # Peer

\* No ifindex is 0, which stands for the Geneve device.
Geneve == 0
ASSUME UplinksAssumption ==
    \A config \in Configs : Followed \in Uplinks[config] /\ Geneve \notin Uplinks[config]

UplinkHooks == {"uplink_ingress", "uplink_egress_return"}
Links == HookSet \X (UNION {Uplinks[config] : config \in Configs} \cup {Geneve})

\* Base has room for all fronts, with the generation before.
ASSUME BaseAssumption ==
    /\ Base \in Configs /\ FrontCount <= Shapes[Base]["FRONT_META"].cap
    /\ Cardinality(UNION {RowsOf(f) \cup {<<f, 0, 0>>} : f \in Fronts})
         <= Shapes[Base]["FRONT_ENDPOINTS"].cap

VARIABLES
    uplinks,     \* the rows of UPLINK_CONFIG, pinned
    link,        \* link[hook, interface], pinned: "none", "severed", "live" with a
                 \* classifier on the pinned maps, or "outdated" with one on older maps
    geneve,      \* the Geneve device exists
    focus

nodeVars == <<uplinks, link, geneve, focus>>
vars == <<pinVars, seedVars, nodeVars, mishaps>>

-----------------------------------------------------------------------------
(* The steps of the start.                                                 *)

\* When a pin is replaced, the classifiers on the links keep the old map.
Outdated == [l \in Links |-> IF link[l] = "live" THEN "outdated" ELSE link[l]]

Load ==
    /\ \/ \E config \in IF focus = "pins" THEN Configs ELSE {Base} : StartLoad(config)
       \/ Park \/ GiveUp \/ Unpin \/ CreatePin
       \/ PlanRestore \/ RestoreWrite \/ EndRestore \/ Unpark
    /\ link' = IF pin' = pin THEN link ELSE Outdated
    /\ UNCHANGED <<seedVars, uplinks, geneve, focus>>

\* ensure_geneve_iface, then load_or_create_seed begins.
EnsureGeneve ==
    /\ Loaded /\ phase' = "seed" /\ Draw(Node)
    /\ geneve' = TRUE
    /\ UNCHANGED <<maps, pin, parked, program, lossy, starts, late, wanted, fate, todo, half,
                   snapshot, failed, uplinks, link, focus, mishaps>>

\* The requests of create_or_read; a start that fails there exits.
SeedStep(n) ==
    /\ stage[n] \in Starting \cup Ticking
    /\ \/ Post(n) /\ UNCHANGED mishaps
       \/ PostFails(n) /\ focus = "seed" /\ Mishap
       \/ Get(n) /\ UNCHANGED mishaps
       \/ Adopt(n, TRUE) /\ UNCHANGED mishaps
       \/ Adopt(n, FALSE) /\ focus = "seed" /\ Mishap
    /\ IF n = Node /\ stage'[n] = "off" THEN Die ELSE UNCHANGED pinVars
    /\ UNCHANGED nodeVars

\* populate_config; then populate_uplink_config has its rows to insert.
PopulateConfig ==
    /\ phase = "seed" /\ Populate(Node)
    /\ phase' = "uplinks" /\ todo' = Uplinks[wanted]
    /\ UNCHANGED <<maps, pin, parked, program, lossy, starts, late, wanted, fate, half,
                   snapshot, failed, nodeVars, mishaps>>

\* stale_uplink_ifindexes
StaleUplinks(existing, configured) == existing \ configured

\* populate_uplink_config: the configured rows one by one, then the deletes.
PutUplink ==
    /\ phase = "uplinks" /\ todo # {}
    /\ LET i == CHOOSE j \in todo : TRUE
       IN uplinks' = uplinks \cup {i} /\ todo' = todo \ {i}
    /\ UNCHANGED <<maps, pin, parked, program, lossy, starts, late, phase, wanted, fate, half,
                   snapshot, failed, link, geneve, focus, seedVars, mishaps>>

DropUplink ==
    /\ phase = "uplinks" /\ todo = {}
    /\ LET stale == StaleUplinks(uplinks, Uplinks[wanted])
       IN \/ \E i \in stale : uplinks' = uplinks \ {i} /\ UNCHANGED <<phase, todo>>
          \/ stale = {} /\ phase' = "attach" /\ todo' = HookSet /\ UNCHANGED uplinks
    /\ UNCHANGED <<maps, pin, parked, program, lossy, starts, late, wanted, fate, half,
                   snapshot, failed, link, geneve, focus, seedVars, mishaps>>

\* The interfaces that attach_and_pin is called with for a hook, and the one of
\* them whose classifier's maps are followed.
Devices(hook) == IF hook = "geneve_ingress" THEN {Geneve} ELSE Uplinks[wanted]
Main(hook) == IF hook = "geneve_ingress" THEN Geneve ELSE Followed

\* attach_and_pin, the interfaces before the last: whose link has an older
\* classifier or does not exist yet.  It leaves the links of all others alone.
Behind(hook) == {i \in Devices(hook) \ {Main(hook)} : link[<<hook, i>>] # "live"}

AttachUplink ==
    /\ phase = "attach"
    /\ LET hook == First(Hooks, todo)
       IN \E i \in Behind(hook) : link' = [link EXCEPT ![<<hook, i>>] = "live"]
    /\ UNCHANGED <<pinVars, seedVars, uplinks, geneve, focus, mishaps>>

\* Faulty: a link that is there is left as it is.
Reused(hook) ==
    IF link[<<hook, Main(hook)>>] \in {"live", "outdated"} THEN program
    ELSE [program EXCEPT ![hook] = pin]

\* attach_and_pin: the classifier loaded against the pinned maps takes the place
\* of the one on the existing link; a severed link is replaced by a new one.
Attached(hook) == [program EXCEPT ![hook] = pin]

\* attach_and_pin for the last interface of the next hook; the last hook completes
\* the start.  On a device that is gone again the attach fails and the process exits.
Attach ==
    /\ phase = "attach" /\ Behind(First(Hooks, todo)) = {}
    /\ LET hook == First(Hooks, todo)
       IN IF hook = "geneve_ingress" /\ ~geneve
          THEN Die /\ SeedLost(Node) /\ UNCHANGED link
          ELSE /\ program' = Attached(hook)
               /\ link' = [link EXCEPT ![<<hook, Main(hook)>>] = "live"]
               /\ maps' = Freed(maps, pin, parked, program')
               /\ todo' = todo \ {hook}
               /\ phase' = IF todo' = {} THEN "run" ELSE phase
               /\ snapshot' = IF todo' = {} THEN NoSnapshots ELSE snapshot
               /\ late' = IF hook = "uplink_ingress" THEN {} ELSE late
               /\ UNCHANGED <<pin, parked, lossy, starts, wanted, fate, half, failed, seedVars>>
    /\ UNCHANGED <<uplinks, geneve, focus, mishaps>>

-----------------------------------------------------------------------------
(* The running controller, as far as it concerns the start.                *)

Meta == maps["FRONT_META"][pin["FRONT_META"]]
Endpoints == maps["FRONT_ENDPOINTS"][pin["FRONT_ENDPOINTS"]]

\* A front's rows, beside the row of the generation before, if they fit.
WriteRows(f) ==
    /\ phase = "run" /\ focus = "pins" /\ ~Whole(f, Endpoints.rows)
    /\ LET rows == Endpoints.rows \cup RowsOf(f) \cup {<<f, 0, 0>>}
       IN /\ Cardinality(rows) <= Endpoints.shape.cap
          /\ maps' = [maps EXCEPT !["FRONT_ENDPOINTS"][pin["FRONT_ENDPOINTS"]].rows = rows]
    /\ UNCHANGED <<pin, parked, program, lossy, starts, late, loadVars, seedVars, nodeVars, mishaps>>

CommitFront(f) ==
    /\ phase = "run" /\ Whole(f, Endpoints.rows) /\ f \notin Meta.rows
    /\ Cardinality(Meta.rows) < Meta.shape.cap
    /\ maps' = [maps EXCEPT !["FRONT_META"][pin["FRONT_META"]].rows = @ \cup {f}]
    /\ UNCHANGED <<pin, parked, program, lossy, starts, late, loadVars, seedVars, nodeVars, mishaps>>

\* The history of a node that has run with one configuration.
Started(config) == [tried |-> {config}, resumed |-> FALSE]

\* What a migration lost has been written again, as far as it fits, and the
\* history begins anew.
Settle ==
    /\ phase = "run" /\ (lossy # {} \/ starts # Started(wanted))
    /\ \A f \in Meta.rows : Whole(f, Endpoints.rows)
    /\ lossy' = {} /\ starts' = Started(wanted)
    /\ UNCHANGED <<maps, pin, parked, program, late, loadVars, seedVars, nodeVars, mishaps>>

\* run_seed_loop
SeedTick(n) ==
    /\ n = Node => phase = "run"
    /\ Tick(n)
    /\ UNCHANGED <<pinVars, nodeVars, mishaps>>

PeerStart ==
    /\ Draw(Peer)
    /\ UNCHANGED <<pinVars, nodeVars, mishaps>>

PeerPopulate ==
    /\ Populate(Peer)
    /\ UNCHANGED <<pinVars, nodeVars, mishaps>>

-----------------------------------------------------------------------------
(* The surroundings.                                                       *)

Traffic ==
    /\ focus = "pins" /\ \E k \in Flows : NewFlow(k)
    /\ UNCHANGED <<seedVars, nodeVars>>

Crash ==
    /\ phase # "off" /\ Mishap
    /\ Die /\ SeedLost(Node)
    /\ UNCHANGED nodeVars

\* The device is deleted: its link is severed and its classifier gone.
GeneveGone ==
    /\ geneve /\ focus = "pins" /\ Mishap
    /\ geneve' = FALSE
    /\ link' = [link EXCEPT ![<<"geneve_ingress", Geneve>>] =
                  IF @ = "none" THEN @ ELSE "severed"]
    /\ program' = [program EXCEPT !["geneve_ingress"] = NoPins]
    /\ maps' = Freed(maps, pin, parked, program')
    /\ UNCHANGED <<pin, parked, lossy, starts, late, loadVars, seedVars, uplinks, focus>>

SecretEdited ==
    /\ focus = "seed" /\ Mishap /\ EditSecret
    /\ UNCHANGED <<pinVars, nodeVars>>

\* A node that nobody has started yet, and one whose controller ran with Base,
\* wrote all fronts and was stopped: its classifiers still serve.
FreshNode ==
    /\ maps = [name \in NameSet |-> [id \in MapIds |-> NoMap]]
    /\ pin = NoPins /\ program = [h \in HookSet |-> NoPins]
    /\ uplinks = {} /\ link = [l \in Links |-> "none"]
    /\ starts = [tried |-> {}, resumed |-> FALSE]

StoppedNode ==
    /\ maps = [name \in NameSet |-> [id \in MapIds |->
                 IF id # 1 THEN NoMap
                 ELSE [shape |-> Shapes[Base][name],
                       rows |-> CASE name = "FRONT_META" -> Fronts
                                  [] name = "FRONT_ENDPOINTS" ->
                                       UNION {RowsOf(f) \cup {<<f, 0, 0>>} : f \in Fronts}
                                  [] OTHER -> {CHOOSE k \in Flows : TRUE}]]]
    /\ pin = [name \in NameSet |-> 1] /\ program = [h \in HookSet |-> pin]
    /\ uplinks = Uplinks[Base]
    /\ link = [l \in Links |-> IF \/ l[1] \in UplinkHooks /\ l[2] \in Uplinks[Base]
                                 \/ l = <<"geneve_ingress", Geneve>>
                              THEN "live" ELSE "none"]
    /\ starts = Started(Base)

Init ==
    /\ \/ focus = "seed" /\ FreshNode /\ SeedInit
       \/ focus = "pins" /\ StoppedNode /\ SeedSettled(Peer)
    /\ parked = NoPins /\ geneve = TRUE
    /\ phase = "off" /\ wanted = NoConfig /\ fate = NoFates /\ todo = {}
    /\ half = FALSE /\ snapshot = NoSnapshots /\ failed = FALSE
    /\ lossy = {} /\ late = {} /\ mishaps = 0

Start ==
    \/ Load \/ EnsureGeneve \/ PopulateConfig \/ PutUplink \/ DropUplink
    \/ AttachUplink \/ Attach \/ PeerStart \/ PeerPopulate

Loop ==
    \/ \E n \in SeedNodes : SeedStep(n) \/ SeedTick(n)
    \/ \E f \in Fronts : WriteRows(f) \/ CommitFront(f)
    \/ Settle

Next == Start \/ Loop \/ Traffic \/ Crash \/ GeneveGone \/ SecretEdited

Spec == Init /\ [][Next]_vars

\* Neither process is stopped for good, and the apiserver answers in the end.
FairSpec ==
    /\ Spec
    /\ WF_vars(Load \/ EnsureGeneve \/ PopulateConfig \/ PutUplink \/ DropUplink
               \/ AttachUplink \/ Attach \/ SeedStep(Node) \/ SeedTick(Node))
    /\ WF_vars(PeerStart \/ PeerPopulate \/ SeedStep(Peer) \/ SeedTick(Peer))

-----------------------------------------------------------------------------
(* Properties.                                                             *)

\* Types; every pin and program refers to a map that exists, no map exceeds its
\* max_entries, and a controller past its start has a seed.
TypeOK ==
    /\ SeedTypeOK
    /\ \A name \in NameSet :
         /\ {pin[name], parked[name]} \subseteq MapIds \cup {None}
         /\ \A m \in {pin[name], parked[name]} \cup {program[h][name] : h \in HookSet} :
              m # None => maps[name][m] # NoMap
         /\ \A m \in MapIds : maps[name][m] # NoMap =>
              Cardinality(maps[name][m].rows) <= maps[name][m].shape.cap
    /\ phase \in {"off", "recreate", "restore", "unpark", "seed", "uplinks", "attach", "run"}
    /\ wanted \in Configs \cup {NoConfig}
    /\ fate \in [NameSet -> {"none", "Keep", "Migrate", "RecreateEmpty"}]
    /\ half \in BOOLEAN /\ failed \in BOOLEAN /\ geneve \in BOOLEAN
    /\ link \in [Links -> {"none", "live", "outdated", "severed"}]
    /\ starts \in [tried : SUBSET Configs, resumed : BOOLEAN]
    /\ late \subseteq Flows /\ mishaps \in 0 .. MaxMishaps

\* Configurations that agree on the shape of FRONT_META agree on the size of
\* FRONT_ENDPOINTS too: --endpoints-per-front is not changed alone.
PairedCaps(configs) ==
    \A c, d \in configs : Shapes[c]["FRONT_META"] = Shapes[d]["FRONT_META"]
        => Shapes[c]["FRONT_ENDPOINTS"].cap = Shapes[d]["FRONT_ENDPOINTS"].cap

\* Since all fronts were whole, a start found an interrupted migration, and
\* --endpoints-per-front alone was raised or lowered from one start to another.
Resized == starts.resumed /\ ~PairedCaps(starts.tried)

\* FRONT_ENDPOINTS could not be read any more, see GiveUp.
Unread == <<"FRONT_ENDPOINTS", "snapshot">> \in lossy

AllWhole == Ingress # NoPins => \A f \in FrontsOf(Ingress) : Whole(f, RowsIn(Ingress))

\* The followed classifier never resolves a front some of whose endpoint rows are
\* not in its maps (couple_front_fates, plan_restore, apply_plan): fronts are
\* carried over whole or not at all, whatever the order of crashes and restarts.
\* The two exceptions are WholeThoughResized and WholeThoughUnread.
FrontsWhole == Resized \/ Unread \/ AllWhole

\* ... also when --endpoints-per-front is changed while a migration is unfinished.
\* The code does not keep this: it reuses a FRONT_META of the wanted shape that an
\* interrupted start left, with fronts that the new plan does not admit.
WholeThoughResized == Unread \/ AllWhole

\* ... also when FRONT_ENDPOINTS cannot be read.  The code does not keep this: the
\* FRONT_META of an interrupted start is reused beside an empty FRONT_ENDPOINTS.
WholeThoughUnread == Resized \/ AllWhole

\* A classifier that takes over on a hook knows every front that its
\* predecessor resolved, and every flow but the ones written after the last
\* snapshot, unless the migration said that it gave them up
\* (recreate_mismatched_pins, restore_migrated).
CarriedOver ==
    [][\A h \in HookSet :
         program[h] # NoPins /\ program'[h] \notin {NoPins, program[h]} =>
           LET fronts == maps["FRONT_META"][program[h]["FRONT_META"]].rows
               flows == maps["FLOW_TABLE"][program[h]["FLOW_TABLE"]].rows
           IN /\ (\A why \in {"layout", "snapshot", "room"} :
                    {<<"FRONT_META", why>>, <<"FRONT_ENDPOINTS", why>>} \cap lossy = {})
                 => fronts \subseteq maps'["FRONT_META"][program'[h]["FRONT_META"]].rows
              /\ h = "uplink_ingress" /\ (\A why \in {"layout", "snapshot", "room"} :
                    <<"FLOW_TABLE", why>> \notin lossy)
                 => flows \ late \subseteq maps'["FLOW_TABLE"][program'[h]["FLOW_TABLE"]].rows]_vars

\* The followed classifiers of a running controller use the maps it has pinned.
OnPins == phase = "run" => \A h \in HookSet : program[h] # NoPins => program[h] = pin

\* A running controller admits the uplinks of its configuration and no others, and
\* each has both of its classifiers on the pinned maps.
OnlyServed ==
    phase = "run" =>
      /\ uplinks = Uplinks[wanted]
      /\ \A h \in UplinkHooks : \A i \in uplinks : link[<<h, i>>] = "live"

\* Every classifier that a running controller lets work uses the maps that it has
\* pinned and writes, wherever earlier starts died and whatever uplinks they had
\* (populate_uplink_config, attach_and_pin).  The classifier of a dropped uplink
\* stays on its link and on its old maps, but UPLINK_CONFIG does not admit it.
RunsOnPins == OnPins /\ OnlyServed

\* No node's classifiers hash with a seed that was never the cluster's
\* (load_or_create_seed before the attach, seed_tick).
SharedSeed == \A n \in SeedNodes : configSeed[n] # NoSeed => configSeed[n] \in issued

\* Once crashes, failures and edits have stopped, the node ends up running,
\* with no migration left over: no combination of pins that an interrupted
\* start leaves makes the following starts fail again and again (load_ebpf).
Recovers == <>[](phase = "run" /\ parked = NoPins)

\* ... and all nodes with the seed that the Secret holds.
SeedsAgree == <>[](secret # NoSeed /\ \A n \in SeedNodes : configSeed[n] = secret)
=============================================================================
