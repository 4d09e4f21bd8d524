--------------------------- MODULE DesiredFronts ---------------------------
(***************************************************************************)
(* The DesiredFront values a reconcile pass asks the front writer for      *)
(* (src/front_swap.rs), and the part of a FRONT_META row derived from one. *)
(***************************************************************************)
EXTENDS Naturals, Sequences, FiniteSets

CONSTANTS
    Fronts,          \* front keys; naturals, in the order of the key's bytes
    Endpoints,       \* FrontEndpoint values
    LocalEndpoints,  \* those flagged ENDPOINT_FLAG_IS_LOCAL
    Wants,           \* the DesiredFront values a reconcile can produce
    MaxSlots,        \* longest endpoint list in Wants
    Nothing          \* no value

ASSUME DesiredAssumption ==
    /\ Fronts \subseteq Nat /\ IsFiniteSet(Fronts)
    /\ LocalEndpoints \subseteq Endpoints
    /\ MaxSlots \in Nat
    /\ Nothing \notin Endpoints /\ Nothing \notin Fronts /\ Nothing \notin Wants
    /\ \A w \in Wants :
          /\ w.preferLocal \in BOOLEAN
          /\ w.flags \in {0, 1}
          /\ w.endpoints \in Seq(Endpoints)
          /\ Len(w.endpoints) <= MaxSlots

(***************************************************************************)
(* Length of the leading run of local endpoints when new flows prefer      *)
(* local ones, else 0.                                                     *)
(***************************************************************************)
LocalCount(w) ==
    IF w.preferLocal
    THEN Cardinality({n \in 1..Len(w.endpoints) :
                        \A i \in 1..n : w.endpoints[i] \in LocalEndpoints})
    ELSE 0
=============================================================================
