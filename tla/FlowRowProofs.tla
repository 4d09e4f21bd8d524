---------------------------- MODULE FlowRowProofs ----------------------------
(***************************************************************************)
(* What one packet does to the flag word of a FLOW_TABLE row, for the      *)
(* proofs about the forward rows (FlowPinsProofs) and the reverse rows     *)
(* (BackendPortsProofs).                                                   *)
(***************************************************************************)
EXTENDS FlowRow, TLAPS

\* A row belongs to one of the two sweep classes (sweep_class).
LEMMA SweepClassType ==
  ASSUME NEW flags, NEW proto \in Protos
  PROVE  SweepClass(flags, proto) \in Protos
BY DEF SweepClass, Protos

\* FINs and RSTs leave the parity bits alone (flow_step_flags).
LEMMA ClosingType ==
  ASSUME NEW flags \in Flags, NEW proto, NEW tcp, NEW side
  PROVE  /\ Closing(flags, proto, tcp, side) \in Flags
         /\ Closing(flags, proto, tcp, side).parity = flags.parity
<1>1. CASE proto # "TCP"
  BY <1>1 DEF Closing, Flags
<1>2. CASE proto = "TCP"
  BY <1>2 DEF Closing, Flags
<1> QED BY <1>1, <1>2

(***************************************************************************)
(* A packet marks its row for the sweep class the row has after it, also   *)
(* when the packet itself moves the row to the other class: the row is not *)
(* swept as long as that class keeps the parity the packet used            *)
(* (flow_step_flags against parity_sweep_deletes).                         *)
(***************************************************************************)
LEMMA SteppedMarked ==
  ASSUME NEW flags \in Flags, NEW proto \in Protos, NEW tcp, NEW side, NEW par \in GcParity
  PROVE  LET new == Stepped(flags, proto, tcp, side, par)
             class == SweepClass(new, proto)
         IN  new \in Flags /\ class \in Protos /\ new.parity[class] = par[class]
<1> DEFINE c == Closing(flags, proto, tcp, side)
           new == Stepped(flags, proto, tcp, side, par)
           class == SweepClass(c, proto)
<1>1. c \in Flags
  BY ClosingType
<1>2. class \in Protos
  BY SweepClassType
<1> HIDE DEF c, class
<1>3. new = [c EXCEPT !.parity[class] = par[class]]
  BY DEF Stepped, c, class
<1>4. /\ c.parity \in [Protos -> BOOLEAN] /\ par \in [Protos -> BOOLEAN]
      /\ [c.parity EXCEPT ![class] = par[class]] \in [Protos -> BOOLEAN]
  BY <1>1, <1>2 DEF Flags, GcParity
<1>5. new \in Flags /\ new.parity = [c.parity EXCEPT ![class] = par[class]]
        /\ new.closed = c.closed
  BY <1>1, <1>3, <1>4 DEF Flags, GcParity
<1> HIDE DEF new
<1>6. SweepClass(new, proto) = class
  BY <1>5 DEF SweepClass, class
<1>7. new.parity[class] = par[class]
  BY <1>2, <1>4, <1>5
<1> QED BY <1>2, <1>5, <1>6, <1>7 DEF new

\* A new row's flag word is one.
LEMMA NoFlagsType == NoFlags \in Flags
BY DEF NoFlags, Flags, GcParity, Protos
=============================================================================
