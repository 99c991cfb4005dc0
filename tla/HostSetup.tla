----------------------------- MODULE HostSetup -----------------------------
(***************************************************************************)
(* What a pair of lazyjack commands promises about a host: one sets it up, *)
(* the other takes that down again.  `up` and `down` are such a pair       *)
(* (UpDown), `prepare` and `clean` two more, of the support servers        *)
(* (SupportServers) and of the node itself (ClusterNode); all three        *)
(* implement this specification.                                           *)
(*                                                                         *)
(* What a setup makes is a set of items.  An item may be whole, and of one *)
(* that is not whole something may be left.  Commands run one at a time    *)
(* and may end at any point without having got to their end.  The promise  *)
(* is in what they may do on the way and in what a command that reports    *)
(* success has done:                                                       *)
(*   - a setup takes nothing away but what it makes anew, a teardown adds  *)
(*     nothing;                                                            *)
(*   - a setup is done only when all it is for is whole, but for what has  *)
(*     stopped working by itself since it began;                           *)
(*   - a teardown is done only when nothing is left but what it keeps;     *)
(*   - when no command runs, nothing but use and decay changes the host.   *)
(***************************************************************************)

CONSTANTS
  Items,     \* what a setup may make
  Rebuilt,   \* items that a setup removes to make them anew
  Kept,      \* items that a teardown need not remove
  Volatile,  \* items that stop working by themselves, or in a reboot
  Used,      \* items that come with the use of a host ...
  NeedsUse   \* ... that has these

VARIABLES
  goal,    \* the items the setup of this host is for
  whole,   \* items that are in place
  left,    \* items of which something is on the host
  decayed, \* items that have stopped working since the command began
  task,    \* the running command, or the last one to run
  outcome  \* how it ended

vars == <<goal, whole, left, decayed, task, outcome>>

Tasks    == {"setup", "teardown"}
Outcomes == {"none", "running", "done", "incomplete"}

Init ==
  /\ goal \subseteq Items /\ whole \subseteq Items /\ left \subseteq Items
  /\ decayed = {} /\ task = "none" /\ outcome = "none"

(* A command is started, or refused at once. *)
Begin ==
  /\ outcome # "running"
  /\ task' \in Tasks /\ outcome' \in {"running", "incomplete"}
  /\ decayed' = {}
  /\ UNCHANGED <<goal, whole, left>>

(* One change that the running command makes to a set of items. *)
Changes(items, items2) ==
  /\ items2 \subseteq Items
  /\ task = "setup" => items \ Rebuilt \subseteq items2
  /\ task = "teardown" => items2 \subseteq items

(* When the running command may report success. *)
Complete(whole2, left2) ==
  /\ task = "setup" => goal \subseteq whole2 \union decayed
  /\ task = "teardown" => left2 \subseteq Kept

Work ==
  /\ outcome = "running"
  /\ Changes(whole, whole') /\ Changes(left, left')
  /\ outcome' \in {"running", "done", "incomplete"}
  /\ outcome' = "done" => Complete(whole', left')
  /\ UNCHANGED <<goal, decayed, task>>

Use ==
  /\ NeedsUse \subseteq whole
  /\ whole' = whole \union Used /\ left' = left \union Used
  /\ UNCHANGED <<goal, decayed, task, outcome>>

Decay ==
  /\ whole' \subseteq whole /\ whole \ whole' \subseteq decayed'
  /\ decayed \subseteq decayed' /\ decayed' \subseteq decayed \union Volatile
  /\ UNCHANGED <<goal, left, task, outcome>>

(* With what is volatile put back, the host has what it had before, or     *)
(* what the running command has made of that.                              *)
Survives(items, items2) ==
  LET others == items2 \union (items \intersect Volatile)
  IN  IF outcome = "running" THEN Changes(items, others) ELSE others = items

(* A reboot ends the command; so may what takes the ground from under an   *)
(* item, such as the link that a route goes through.                       *)
Reboot ==
  /\ Survives(whole, whole') /\ Survives(left, left')
  /\ decayed \subseteq decayed' /\ decayed' \subseteq decayed \union Volatile
  /\ outcome' = "incomplete"
  /\ UNCHANGED <<goal, task>>

Next == Begin \/ Work \/ Use \/ Decay \/ Reboot

Spec == Init /\ [][Next]_vars

=============================================================================
