----------------------------- MODULE MCFlowPins -----------------------------
(* Small instances of FlowPins for TLC: one flow and the lists of one or two *)
(* pods, so that a change of the list moves the flow's hash to another pod.  *)
EXTENDS FlowPins

CONSTANTS f1, a, b

MCFlows == {f1}
MCPods == {a, b}
MCHash == [f \in MCFlows |-> 0]
MCUdp == [f \in MCFlows |-> "UDP"]
MCTcp == [f \in MCFlows |-> "TCP"]
MCPools == {<<a>>, <<b, a>>, <<>>}
MCSegments == {{}, {"FIN"}, {"RST"}}
MCData == {{}}
=============================================================================
