------------------------------ MODULE MCUpDown ------------------------------
(* Instances of UpDown for TLC. *)
EXTENDS UpDown

CONSTANTS n1, n2

(* A cluster of three nodes: two to route to. *)
TwoOthers == {n1, n2}
=============================================================================
