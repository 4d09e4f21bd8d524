-------------------------- MODULE MCFlowPinsFocus --------------------------
(* Two kinds of behaviours of one flow.  Those about affinity have one packet *)
(* at a time, on one CPU, a list that changes, the LRU, faults and crashes,   *)
(* any two of them; those about the sweep have client and return packets on   *)
(* two CPUs that close the flow, and one list.                                *)
EXTENDS MCFlowPins

VARIABLE focus

Busy(c) == cpu[c].at # "idle"

FocusInit ==
    /\ Init
    /\ pool = <<a>> /\ \A class \in Protos : ~parity[class]
    /\ focus \in {"affinity", "sweep"}

FocusNext ==
    /\ Next /\ UNCHANGED focus
    /\ focus = "affinity" => /\ ~Busy(2)' /\ (Busy(1)' => cpu'[1].tcp = {})
                             /\ changes' + lru' + faults' + crashes' <= 2
    /\ focus = "sweep" => /\ changes' = 0 /\ lru' = 0
                          /\ Busy(1)' => cpu'[1].side = "Client"

\* Neither kind keeps a started packet, the controller or a sweep from going on.
FocusSpec == FocusInit /\ [][FocusNext]_<<vars, focus>> /\ Fairness
=============================================================================
