--------------------------- MODULE MCIngressStatus ---------------------------
(* Two nodes and a peer, in two kinds of behaviours.  In one, n1 runs alone   *)
(* and meets every kind of trouble, the writes of the peer among them; in the *)
(* other, n1 and n2 start at any moment of each other's work and answer one   *)
(* another's writes, with no further trouble and without the peer.            *)
EXTENDS IngressStatus

CONSTANTS n1, n2, p

MCNodes == {n1, n2}
MCPeers == {p}

VARIABLE alone

Runs(n) == alone => n = n1

MCInit ==
    /\ Init
    /\ alone \in BOOLEAN
    /\ Service.ingress \subseteq {n \in Nodes : Runs(n)} \cup {q \in Peers : alone}
    /\ \A n \in Nodes : ~Runs(n) => ~local[n]

MCNext ==
    /\ Next /\ UNCHANGED alone
    /\ \A n \in Nodes : ~Runs(n) => listed'[n] = {} /\ ~local'[n]
    /\ ~alone => troubles' = 0

\* A node that does not run never starts; nothing else is withheld from it.
MCFairness == \A n \in Nodes : GoesOn(n) /\ WF_vars(Runs(n) /\ StartUp(n))

MCSpec == MCInit /\ [][MCNext]_<<vars, alone>> /\ MCFairness
=============================================================================
