---------------------------- MODULE MCClusterNode ----------------------------
(* Instances of ClusterNode for TLC. *)
EXTENDS ClusterNode, TLC

CONSTANTS n1, n2

(* Two other nodes that may run NAT64: the set a route's gateway is chosen *)
(* from is empty, one node, or both.                                       *)
TwoNatNodes == {n1, n2}

(* Nodes are only compared for equality. *)
Symmetry == Permutations(NatNodes)
=============================================================================
