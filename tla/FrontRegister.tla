---------------------------- MODULE FrontRegister ----------------------------
(***************************************************************************)
(* What the front maps promise to a packet: every front is one register.   *)
(* It either does not exist or holds one endpoint set, complete, with its  *)
(* local count and flags.  A register only ever takes the value the        *)
(* reconciler asks for at that moment, in one step, and no other register  *)
(* moves with it.  FrontSwap, the generation-swap writer of                *)
(* src/front_swap.rs, implements this module.                              *)
(***************************************************************************)
EXTENDS DesiredFronts

VARIABLES
    want,            \* what the reconciler asks for
    value            \* what a packet is served from

regVars == <<want, value>>

\* The register value that serves a wanted front.
Served(w) ==
    IF w = Nothing THEN Nothing
    ELSE [endpoints |-> w.endpoints, localCount |-> LocalCount(w), flags |-> w.flags]

Init ==
    /\ want \in [Fronts -> Wants \cup {Nothing}]
    /\ value = [f \in Fronts |-> Served(want[f])]

\* A Service, EndpointSlice or Node change, whatever it touches.
Ask ==
    /\ want' \in [Fronts -> Wants \cup {Nothing}]
    /\ UNCHANGED value

\* One front takes its wanted value, or is withdrawn.
Publish(f) ==
    /\ value' = [value EXCEPT ![f] = Served(want[f])]
    /\ UNCHANGED want

Next == Ask \/ \E f \in Fronts : Publish(f)

Spec == Init /\ [][Next]_regVars
=============================================================================
