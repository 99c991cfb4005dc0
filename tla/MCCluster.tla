----------------------------- MODULE MCCluster -----------------------------
(* Instances of Cluster for TLC. *)
EXTENDS Cluster

CONSTANTS m1, n1

(* A master and a minion: minions do not interact. *)
OneMinion == {n1}
=============================================================================
