---------------------------- MODULE MCReconcile -----------------------------
(* A Service of two slices on two nodes: pod p1 on this node, which has both *)
(* families, and p2 on the peer.  The address of p1 can pass to another pod. *)
EXTENDS Reconcile, TLC

CONSTANTS a4, a6, b4, p1, p2, n1, n2, s1, s2, svc

MCNodes == {n1, n2}
MCSlices == {s1, s2}
MCIps == {a4, a6, b4, p1, p2}
MCRank == (a4 :> 1) @@ (a6 :> 5) @@ (b4 :> 2) @@ (p2 :> 3) @@ (p1 :> 4)

Pod(ip, uid, node, ready) ==
    [ip |-> ip, uid |-> uid, node |-> node, ready |-> ready, serving |-> TRUE,
     terminating |-> ~ready]
LB(families, external, distribution) ==
    [type |-> "LoadBalancer", families |-> families, external |-> external,
     distribution |-> distribution]

MCVersions ==
    (svc :> {LB({4, 6}, "Cluster", "PreferClose"), LB({4}, "Local", "none"), Nothing}) @@
    (s1 :> {[port |-> TRUE, endpoints |-> {Pod(p1, "u1", n1, TRUE)}],
            [port |-> TRUE, endpoints |-> {Pod(p1, "u3", n1, FALSE)}],
            [port |-> TRUE, endpoints |-> {}]}) @@
    (s2 :> {[port |-> TRUE, endpoints |-> {Pod(p2, "u2", n2, TRUE)}]}) @@
    (n1 :> {[internal |-> {a4}, external |-> {a6}], [internal |-> {}, external |-> {}]}) @@
    (n2 :> {[internal |-> {b4}, external |-> {}], [internal |-> {}, external |-> {}], Nothing})

MCAtFirst ==
    (svc :> LB({4, 6}, "Cluster", "PreferClose")) @@
    (s1 :> [port |-> TRUE, endpoints |-> {Pod(p1, "u1", n1, TRUE)}]) @@
    (s2 :> [port |-> TRUE, endpoints |-> {Pod(p2, "u2", n2, TRUE)}]) @@
    (n1 :> [internal |-> {a4}, external |-> {a6}]) @@
    (n2 :> [internal |-> {b4}, external |-> {}])
=============================================================================
