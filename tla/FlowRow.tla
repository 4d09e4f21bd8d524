------------------------------- MODULE FlowRow -------------------------------
(***************************************************************************)
(* The flag word of a FLOW_TABLE row and what one packet does to it        *)
(* (common/src/lib.rs).  A flag word is a record of its five bits.  The    *)
(* two sweep classes are named after their protocols, "UDP" and "TCP".     *)
(***************************************************************************)

Protos == {"UDP", "TCP"}
Sides  == {"Client", "Pod"}

\* Config::udp_parity and Config::tcp_parity.
GcParity == [Protos -> BOOLEAN]

Flags == [finClient : BOOLEAN, finPod : BOOLEAN, closed : BOOLEAN, parity : GcParity]

NoFlags == [finClient |-> FALSE, finPod |-> FALSE, closed |-> FALSE,
            parity |-> [p \in Protos |-> FALSE]]

\* The flags of a TCP segment this code looks at.
Segments == SUBSET {"SYN", "FIN", "RST"}

\* A closed TCP row lingers only until the short sweep.
SweepClass(flags, proto) ==
    IF proto = "TCP" /\ flags.closed THEN "UDP" ELSE proto

ParitySweepDeletes(flags, proto, parity) ==
    LET class == SweepClass(flags, proto)
    IN  flags.parity[class] # parity[class]

\* The FIN and closed bits after a segment from one side.
Closing(flags, proto, tcp, side) ==
    IF proto # "TCP" THEN flags
    ELSE LET clear == "SYN" \in tcp
             client == (flags.finClient /\ ~clear) \/ (side = "Client" /\ "FIN" \in tcp)
             pod == (flags.finPod /\ ~clear) \/ (side = "Pod" /\ "FIN" \in tcp)
         IN  [flags EXCEPT
                !.finClient = client,
                !.finPod = pod,
                !.closed = (@ /\ ~clear) \/ "RST" \in tcp \/ (client /\ pod)]

\* Faulty: the parity is not copied into the row.
SteppedUnmarked(flags, proto, tcp, side, parity) == Closing(flags, proto, tcp, side)

\* The whole flag word after it: the row's own class bit follows the parity.
Stepped(flags, proto, tcp, side, parity) ==
    LET closing == Closing(flags, proto, tcp, side)
        class   == SweepClass(closing, proto)
    IN  [closing EXCEPT !.parity[class] = parity[class]]

\* FlowStep::Skip: an RST without a row creates none.
SkipsRow(exists, proto, tcp) == ~exists /\ proto = "TCP" /\ "RST" \in tcp
=============================================================================
