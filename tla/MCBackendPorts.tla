--------------------------- MODULE MCBackendPorts ---------------------------
(* A small instance of BackendPorts for TLC: two fronts behind one pod, one *)
(* client port used towards both, and one client port equal to the first    *)
(* synthetic port the other flow would be given.                            *)
EXTENDS BackendPorts

MCFlows == {<<1, 1>>, <<2, 1>>, <<2, 3>>}
MCSeed == <<1, 1>>
MCSegments == {{}, {"RST"}}
=============================================================================
