------------------------------- MODULE UpDown -------------------------------
(***************************************************************************)
(* The `up` and `down` commands of lazyjack on one node of the cluster:    *)
(* up.go, down.go, the pod network routes of plugin.go, the two CNI        *)
(* plugins, and the part of netmgr.go they call.                           *)
(*                                                                         *)
(* A command is a process that makes one change of the host after another  *)
(* and stops at its first fatal error without rolling anything back.  The  *)
(* host outlives the process: what a command that failed, was killed, or   *)
(* was cut short by a reboot left behind is what the next one starts from. *)
(* Each change is an action here, so that a command can be interrupted     *)
(* between any two of them, and inside the ones that are not atomic.       *)
(*                                                                         *)
(* Left out: the text of the CNI configuration and of the kubeadm command  *)
(* line, and the addresses in a route (a route is the pair of the pod      *)
(* network and the node it leads to).                                      *)
(***************************************************************************)
EXTENDS Naturals

CONSTANTS
  Others,     \* the other master and minion nodes of the topology
  DualStack,  \* TRUE when a second pod network is configured
  MaxFaults   \* bound on failing calls, kills and reboots in a behaviour

ASSUME DualStackAssumption == DualStack \in BOOLEAN
ASSUME MaxFaultsAssumption == MaxFaults \in Nat

VARIABLES
  role,     \* role of the node that `lazyjack` runs on
  plugin,   \* General.CNIPlugin, "nil" when ValidatePlugin left it unset
  cmd,      \* the running command, or the last one to run
  pc,       \* its next step, "idle" when no command runs
  todo,     \* routes the loop of DoRouteOpsOnNodes has not reached
  cur,      \* certificate file being copied
  linkErr,  \* RemoveBridge could not shut the link down
  warned,   \* the command logged a warning and went on
  result,   \* how the last command ended
  routes,   \* pod network routes of the host
  cni,      \* /etc/cni/net.d and the plugin's configuration file in it
  bridge,   \* link br0
  certs,    \* ca.crt and ca.key in the Kubernetes area
  member,   \* kubeadm init/join has taken effect on the host
  faults,   \* faults so far
  faulty,   \* a fault hit the last command
  found     \* routes, membership and link that the last command started on

config  == <<role, plugin>>
command == <<cmd, found>>
loop    == <<todo, cur, linkErr>>
host    == <<routes, cni, bridge, certs, member>>
vars    == <<config, command, loop, host, pc, warned, result, faults, faulty>>

-----------------------------------------------------------------------------
(* Configuration and domains *)

PodNets   == IF DualStack THEN {1, 2} ELSE {1}
Dest      == PodNets \X Others
CertFiles == {"ca.crt", "ca.key"}

Roles == {"master", "minion", "none"}

(* The plugin object that goes with General.Plugin.  An empty name becomes *)
(* "bridge", but the function returns before it makes the object.          *)
ValidatePlugin(name) == IF name = "" THEN "nil" ELSE name

Plugins == {ValidatePlugin(name) : name \in {"", "bridge", "ptp"}}

UpSteps   == {"rmArea", "mkArea", "openConf", "writeConf", "addRoutes",
              "kubelet", "openCert", "writeCert", "kubeadm"}
DownSteps == {"reset", "delRoutes", "linkDown", "linkDel", "rmCNI"}
Results   == {"none", "running", "ok", "warned", "skipped", "fatal",
              "panic", "killed"}

Init ==
  /\ role \in Roles
  /\ plugin \in Plugins
  /\ cmd = "none"
  /\ pc = "idle" /\ warned = FALSE /\ result = "none"
  /\ todo = {} /\ cur = "ca.crt" /\ linkErr = FALSE
  /\ routes = {} /\ bridge = "absent" /\ member = FALSE
  /\ cni \in {"absent", "empty"}
  /\ certs = [f \in CertFiles |-> "absent"]
  /\ found = [routes |-> routes, member |-> member, bridge |-> bridge]
  /\ faults = 0 /\ faulty = FALSE

-----------------------------------------------------------------------------
(* How a step ends *)

Then(step) == pc' = step /\ UNCHANGED <<result, faults, faulty>>

End(r) == pc' = "idle" /\ result' = r /\ UNCHANGED <<faults, faulty>>

Fault == faults < MaxFaults /\ faults' = faults + 1 /\ faulty' = TRUE

Fails(r) == Fault /\ pc' = "idle" /\ result' = r

Start(first) ==
  /\ pc = "idle"
  /\ found' = [routes |-> routes, member |-> member, bridge |-> bridge]
  /\ IF role = "none" THEN pc' = "idle" /\ result' = "skipped"
                      ELSE pc' = first /\ result' = "running"
  /\ warned' = FALSE /\ faulty' = FALSE
  /\ UNCHANGED <<config, loop, host, faults>>

-----------------------------------------------------------------------------
(* up *)

BringUp == cmd' = "up" /\ Start("rmArea")

(* EnsureCNIAreaExists: the area is removed with all it holds, then made.  *)
RemoveCNIArea ==
  /\ pc = "rmArea"
  /\ \/ Then("mkArea") /\ cni' = "absent"
     \/ Fails("fatal") /\ cni' \in {cni, "absent"}
  /\ UNCHANGED <<config, command, loop, warned, routes, bridge, certs, member>>

MakeCNIArea ==
  /\ pc = "mkArea"
  /\ \/ Then("openConf") /\ cni' = "empty"
     \/ Fails("fatal") /\ UNCHANGED cni
  /\ UNCHANGED <<config, command, loop, warned, routes, bridge, certs, member>>

(* CreateCNIConfigFile opens the file, and then calls the plugin to write  *)
(* it: a nil plugin is a nil pointer dereference.                          *)
OpenCNIConfig ==
  /\ pc = "openConf"
  /\ \/ Then("writeConf") /\ cni' = "partial"
     \/ Fails("fatal") /\ UNCHANGED cni
  /\ UNCHANGED <<config, command, loop, warned, routes, bridge, certs, member>>

WriteCNIConfig ==
  /\ pc = "writeConf"
  /\ \/ plugin = "nil" /\ End("panic") /\ UNCHANGED <<cni, todo>>
     \/ plugin # "nil" /\ Then("addRoutes") /\ cni' = "conf" /\ todo' = Dest
     \/ plugin # "nil" /\ Fails("fatal") /\ UNCHANGED <<cni, todo>>
  /\ UNCHANGED <<config, command, cur, linkErr, warned, routes, bridge, certs,
                 member>>

(* mutant: down undoes what up did in the reverse order *)
NextRouteReversed(d) ==
  /\ d \in todo
  /\ \A e \in todo : IF pc = "delRoutes" THEN e[1] <= d[1] ELSE d[1] <= e[1]

(* The first pod network comes first, the nodes of the topology, a map, in *)
(* any order.                                                              *)
NextRoute(d) == d \in todo /\ \A e \in todo : d[1] <= e[1]

(* mutant: an existing route ends the loop without a warning *)
SkipRouteSilently(d) ==
  d \in routes /\ todo' = {} /\ Then("kubelet") /\ UNCHANGED <<routes, warned>>

(* mutant: an existing route is deleted, to add it anew *)
SkipRouteAnew(d) ==
  /\ d \in routes
  /\ routes' = routes \ {d} /\ Then("addRoutes") /\ UNCHANGED <<todo, warned>>

(* The first route that exists ends the loop, with an error that BringUp   *)
(* only warns of.                                                          *)
SkipRoute(d) ==
  /\ d \in routes
  /\ warned' = TRUE /\ todo' = {} /\ Then("kubelet") /\ UNCHANGED routes

(* DoRouteOpsOnNodes "add" *)
AddRoute(d) ==
  /\ pc = "addRoutes"
  /\ NextRoute(d)
  /\ \/ /\ d \notin routes
        /\ routes' = routes \union {d} /\ todo' = todo \ {d}
        /\ Then("addRoutes") /\ UNCHANGED warned
     \/ SkipRoute(d)
     \/ Fails("fatal") /\ UNCHANGED <<routes, todo, warned>>
  /\ UNCHANGED <<config, command, cur, linkErr, cni, bridge, certs, member>>

(* mutant: Setup goes on to remove a stale bridge *)
RoutesAddedThenLink ==
  /\ pc = "addRoutes" /\ todo = {}
  /\ Then("linkDown")
  /\ UNCHANGED <<config, command, loop, warned, host>>

RoutesAdded ==
  /\ pc = "addRoutes" /\ todo = {}
  /\ Then("kubelet")
  /\ UNCHANGED <<config, command, loop, warned, host>>

(* mutant: the CA files are not placed *)
RestartKubeletOnly ==
  /\ pc = "kubelet"
  /\ Then("kubeadm") \/ Fails("fatal")
  /\ cur' = "ca.crt"
  /\ UNCHANGED <<config, command, todo, linkErr, warned, host>>

(* systemctl daemon-reload and restart.  Only the master places the CA     *)
(* files afterwards.                                                       *)
RestartKubeletService ==
  /\ pc = "kubelet"
  /\ \/ Then(IF role = "master" THEN "openCert" ELSE "kubeadm")
     \/ Fails("fatal")
  /\ cur' = "ca.crt"
  /\ UNCHANGED <<config, command, todo, linkErr, warned, host>>

(* CopyFile truncates the destination, then fills it. *)
OpenCertificate ==
  /\ pc = "openCert"
  /\ \/ Then("writeCert") /\ certs' = [certs EXCEPT ![cur] = "torn"]
     \/ Fails("fatal") /\ UNCHANGED certs
  /\ UNCHANGED <<config, command, loop, warned, routes, cni, bridge, member>>

WriteCertificate ==
  /\ pc = "writeCert"
  /\ \/ /\ certs' = [certs EXCEPT ![cur] = "whole"]
        /\ cur' = "ca.key"
        /\ Then(IF cur = "ca.crt" THEN "openCert" ELSE "kubeadm")
     \/ Fails("fatal") /\ UNCHANGED <<certs, cur>>
  /\ UNCHANGED <<config, command, todo, linkErr, warned, routes, cni, bridge,
                 member>>

(* kubeadm init or join.  It may refuse a host that is a member already    *)
(* (not when it is told to ignore preflight errors, in insecure mode), and *)
(* one that fails may have changed the host before.                        *)
StartKubernetes ==
  /\ pc = "kubeadm"
  /\ \/ member' = TRUE /\ End(IF warned THEN "warned" ELSE "ok")
     \/ member /\ End("fatal") /\ UNCHANGED member
     \/ Fails("fatal") /\ member' \in {member, TRUE}
  /\ UNCHANGED <<config, command, loop, warned, routes, cni, bridge, certs>>

-----------------------------------------------------------------------------
(* down *)

TearDown == cmd' = "down" /\ Start("reset")

(* What kubeadm reset deletes of the CNI and Kubernetes areas depends on   *)
(* its version.                                                            *)
KubeadmReset ==
  /\ member' = FALSE
  /\ cni' \in {cni, IF cni = "absent" THEN "absent" ELSE "empty"}
  /\ certs' \in {certs, [f \in CertFiles |-> "absent"]}

(* mutant: TearDown returns when the reset fails *)
StopKubernetesOrReturn ==
  /\ pc = "reset"
  /\ \/ KubeadmReset /\ Then("delRoutes") /\ UNCHANGED warned
     \/ Fails("warned") /\ warned' = TRUE /\ UNCHANGED <<member, cni, certs>>
  /\ todo' = Dest
  /\ UNCHANGED <<config, command, cur, linkErr, routes, bridge>>

(* A failed reset is only warned of.  The plugin's Cleanup is called next, *)
(* through the nil pointer when there is no plugin.                        *)
StopKubernetes ==
  /\ pc = "reset"
  /\ \/ /\ KubeadmReset /\ UNCHANGED warned
        /\ IF plugin = "nil" THEN End("panic") ELSE Then("delRoutes")
     \/ /\ Fault /\ warned' = TRUE
        /\ IF plugin = "nil" THEN pc' = "idle" /\ result' = "panic"
                             ELSE pc' = "delRoutes" /\ UNCHANGED result
        /\ UNCHANGED <<member, cni, certs>>
  /\ todo' = Dest
  /\ UNCHANGED <<config, command, cur, linkErr, routes, bridge>>

(* DoRouteOpsOnNodes "delete": the first missing route makes the function  *)
(* return an error, the plugin's Cleanup with it, and TearDown warns.      *)
DeleteRoute(d) ==
  /\ pc = "delRoutes"
  /\ NextRoute(d)
  /\ \/ /\ d \in routes
        /\ routes' = routes \ {d} /\ todo' = todo \ {d} /\ Then("delRoutes")
     \/ d \notin routes /\ End("warned") /\ UNCHANGED <<routes, todo>>
     \/ Fails("warned") /\ UNCHANGED <<routes, todo>>
  /\ UNCHANGED <<config, command, cur, linkErr, warned, cni, bridge, certs,
                 member>>

(* mutant: no plugin removes the link *)
RoutesDeletedNoLink ==
  /\ pc = "delRoutes" /\ todo = {}
  /\ Then("rmCNI")
  /\ UNCHANGED <<config, command, loop, warned, host>>

(* Only the bridge plugin removes a link. *)
RoutesDeleted ==
  /\ pc = "delRoutes" /\ todo = {}
  /\ Then(IF plugin = "bridge" THEN "linkDown" ELSE "rmCNI")
  /\ UNCHANGED <<config, command, loop, warned, host>>

(* mutant: a link that is down already counts as a failure *)
BringLinkDownOnce ==
  /\ pc = "linkDown"
  /\ \/ /\ bridge = "up"
        /\ bridge' = "down" /\ linkErr' = FALSE /\ Then("linkDel")
     \/ /\ bridge # "up"
        /\ linkErr' = TRUE /\ Then("linkDel") /\ UNCHANGED bridge
  /\ UNCHANGED <<config, command, todo, cur, warned, routes, cni, certs,
                 member>>

(* RemoveBridge deletes the link even when it could not shut it down, and  *)
(* reports either failure.                                                 *)
BringLinkDown ==
  /\ pc = "linkDown"
  /\ \/ /\ bridge # "absent"
        /\ bridge' = "down" /\ linkErr' = FALSE /\ Then("linkDel")
     \/ /\ bridge = "absent"
        /\ linkErr' = TRUE /\ Then("linkDel") /\ UNCHANGED bridge
     \/ /\ Fault /\ linkErr' = TRUE
        /\ pc' = "linkDel" /\ UNCHANGED <<bridge, result>>
  /\ UNCHANGED <<config, command, todo, cur, warned, routes, cni, certs,
                 member>>

DeleteLink ==
  /\ pc = "linkDel"
  /\ \/ /\ bridge # "absent" /\ bridge' = "absent"
        /\ IF linkErr THEN End("warned") ELSE Then("rmCNI")
     \/ bridge = "absent" /\ End("warned") /\ UNCHANGED bridge
     \/ Fails("warned") /\ UNCHANGED bridge
  /\ UNCHANGED <<config, command, loop, warned, routes, cni, certs, member>>

CleanupCNIArea ==
  /\ pc = "rmCNI"
  /\ \/ cni' = "absent" /\ End(IF warned THEN "warned" ELSE "ok")
     \/ Fails("warned") /\ cni' \in {cni, "absent"}
  /\ UNCHANGED <<config, command, loop, warned, routes, bridge, certs, member>>

-----------------------------------------------------------------------------
(* The host and its user *)

(* The first pod on a member makes the bridge plugin create br0. *)
PodStarted ==
  /\ member /\ plugin = "bridge" /\ cni = "conf" /\ bridge # "up"
  /\ bridge' = "up"
  /\ UNCHANGED <<config, command, loop, pc, warned, result, faults, faulty,
                 routes, cni, certs, member>>

(* When a command is cut short, the kubeadm it was waiting for may have    *)
(* got its way.                                                            *)
CutShort ==
  /\ Fails("killed")
  /\ \/ UNCHANGED <<cni, certs, member>>
     \/ pc = "kubeadm" /\ member' = TRUE /\ UNCHANGED <<cni, certs>>
     \/ pc = "reset" /\ KubeadmReset

Kill ==
  /\ pc # "idle" /\ CutShort
  /\ UNCHANGED <<config, command, loop, warned, routes, bridge>>

(* Routes and links are gone after a reboot, files are not.  An up that    *)
(* was complete is not any more: its result is forgotten.                  *)
Reboot ==
  /\ CutShort
  /\ routes' = {} /\ bridge' = "absent"
  /\ UNCHANGED <<config, command, loop, warned>>

-----------------------------------------------------------------------------
Step ==
  \/ RemoveCNIArea \/ MakeCNIArea \/ OpenCNIConfig \/ WriteCNIConfig
  \/ \E d \in Dest : AddRoute(d)
  \/ RoutesAdded \/ RestartKubeletService
  \/ OpenCertificate \/ WriteCertificate \/ StartKubernetes
  \/ StopKubernetes
  \/ \E d \in Dest : DeleteRoute(d)
  \/ RoutesDeleted \/ BringLinkDown \/ DeleteLink \/ CleanupCNIArea

Environment == PodStarted \/ Kill \/ Reboot

Next == BringUp \/ TearDown \/ Step \/ Environment

Spec == Init /\ [][Next]_vars

(* Go goes over a map from a random place: no node of the topology is      *)
(* passed over for ever by the loops that could reach it.  Nothing is      *)
(* assumed of the user, and nothing of the calls, which may hang.          *)
Fairness == \A d \in Dest : SF_vars(DeleteRoute(d))

FairSpec == Spec /\ Fairness

-----------------------------------------------------------------------------
(* Properties *)

ControlOK ==
  /\ cmd \in {"none", "up", "down"}
  /\ pc \in {"idle"} \union UpSteps \union DownSteps
  /\ pc \in UpSteps => cmd = "up"
  /\ pc \in DownSteps => cmd = "down"
  /\ result \in Results
  /\ linkErr \in BOOLEAN /\ warned \in BOOLEAN
  /\ faulty \in BOOLEAN

HostOK ==
  /\ role \in Roles /\ plugin \in Plugins
  /\ todo \subseteq Dest
  /\ routes \subseteq Dest
  /\ cni \in {"absent", "empty", "partial", "conf"}
  /\ bridge \in {"absent", "down", "up"}
  /\ member \in BOOLEAN
  /\ found \in [routes : SUBSET Dest, member : BOOLEAN,
                bridge : {"absent", "down", "up"}]

FilesOK ==
  /\ cur \in CertFiles
  /\ certs \in [CertFiles -> {"absent", "torn", "whole"}]

(* Every variable keeps to its domain, and a step belongs to its command. *)
TypeOK == ControlOK /\ HostOK /\ FilesOK /\ faults \in 0..MaxFaults

CertsInPlace == role = "master" => \A f \in CertFiles : certs[f] = "whole"

(* An up that ends without a fatal error (BringUp reaching "brought up")   *)
(* leaves a whole CNI configuration, the CA files on a master and a member *)
(* of the cluster; one that logged no warning also leaves the route to     *)
(* every pod network of every other node, whatever earlier commands that   *)
(* failed, were killed or were cut short by a reboot had left behind.      *)
UpComplete ==
  cmd = "up" /\ result \in {"ok", "warned"} =>
    /\ cni = "conf" /\ member /\ CertsInPlace
    /\ result = "ok" => routes = Dest

(* A down that logged no warning leaves no route, no br0, no CNI area and  *)
(* no member (TearDown), from whatever state it was started in, and no pod *)
(* brings the bridge back afterwards.                                      *)
DownComplete ==
  cmd = "down" /\ result = "ok" =>
    routes = {} /\ bridge = "absent" /\ cni = "absent" /\ ~member

(* kubeadm, which runs pods and signs certificates, is started only when   *)
(* the whole CNI configuration is on the disk and, on the master, both CA  *)
(* files are: never on a torn file (the order of calls in BringUp).        *)
ReadyForKubeadm ==
  pc = "kubeadm" => cni = "conf" /\ CertsInPlace

(* A command that meets no fault complains of what it found and of nothing *)
(* else: an up warns when some route was there already and only then, and  *)
(* fails only on a member; a down warns when a route was missing, or the   *)
(* link of the bridge plugin, and never ends well with a route missing.    *)
(* So it is for any routes and links that earlier commands left or lost.   *)
NoFalseAlarm ==
  pc = "idle" /\ ~faulty /\ role # "none" /\ plugin # "nil" =>
    /\ cmd = "up" =>
         \/ result = "ok" /\ found.routes = {}
         \/ result = "warned" /\ found.routes # {}
         \/ result = "fatal" /\ found.member
    /\ cmd = "down" =>
         \/ result = "ok" /\ found.routes = Dest
         \/ /\ result = "warned"
            /\ \/ found.routes # Dest
               \/ plugin = "bridge" /\ found.bridge = "absent"

(* A down that started on a node that up had made and pods had used. *)
FoundComplete ==
  found.routes = Dest /\ (plugin = "bridge" => found.bridge = "up")

(* A failing kubeadm reset does not keep down from cleaning the network:   *)
(* a down that gets past its routes removes the link and the CNI area or   *)
(* meets another failure, so that reset's warning alone leaves br0 to the  *)
(* pods that are still running, but no route and no CNI area.              *)
ResetFailureOnlyWarns ==
  cmd = "down" /\ pc = "idle" /\ result = "warned" /\ FoundComplete
    /\ faults = 1 /\ warned /\ plugin # "nil" => routes = {} /\ cni = "absent"

Complete ==
  pc = "idle" /\ cni = "conf" /\ member /\ routes = Dest /\ CertsInPlace

(* The loops over the routes stop at the first one that another command    *)
(* left or lost, so neither up nor down need get to its end after a        *)
(* command that was cut short.  A user who keeps running both nevertheless *)
(* gets a complete node, again and again: since the loops take the nodes   *)
(* in any order, some down begins with a route that is there.              *)
RetriesConverge ==
  role # "none" /\ plugin # "nil"
    /\ []<><<BringUp>>_vars /\ []<><<TearDown>>_vars => []<>Complete

-----------------------------------------------------------------------------
(* UpDown as an implementation of HostSetup *)

Items == {"cni", "routes", "member", "bridge"} \union CertFiles

(* An item is whole ... *)
Whole(i) ==
  CASE i = "cni"    -> cni = "conf"
    [] i = "routes" -> routes = Dest
    [] i = "member" -> member
    [] i = "bridge" -> bridge = "up"
    [] OTHER        -> certs[i] = "whole"

(* ... or something of it is left. *)
Left(i) ==
  CASE i = "cni"    -> cni # "absent"
    [] i = "routes" -> routes # {}
    [] i = "member" -> member
    [] i = "bridge" -> bridge # "absent"
    [] OTHER        -> certs[i] # "absent"

Goal ==
  {"cni", "routes", "member"} \union (IF role = "master" THEN CertFiles ELSE {})

Task == CASE cmd = "up" -> "setup" [] cmd = "down" -> "teardown" [] OTHER -> "none"

Outcome ==
  CASE pc # "idle"     -> "running"
    [] pc = "idle" /\ result = "ok"   -> "done"
    [] pc = "idle" /\ result = "none" -> "none"
    [] OTHER           -> "incomplete"

Setup == INSTANCE HostSetup WITH
  Rebuilt  <- {"cni"} \union CertFiles,
  Kept     <- CertFiles,
  Volatile <- {"routes", "bridge"},
  Used     <- {"bridge"},
  NeedsUse <- {"cni", "member"},
  goal     <- Goal,
  whole    <- {i \in Items : Whole(i)},
  left     <- {i \in Items : Left(i)},
  decayed  <- {},
  task     <- Task,
  outcome  <- Outcome

(* up and down keep the promise of HostSetup: an up takes no route and no  *)
(* link away, a down makes nothing, each reports success only for the      *)
(* whole of its work, and nothing changes the host between commands but a  *)
(* pod that starts or a reboot, wherever earlier commands were cut short.  *)
RefinesHostSetup == Setup!Spec

-----------------------------------------------------------------------------
(* What the documents promise and the code does not do *)

(* "Create routes for each of the pod networks on other nodes", for an up  *)
(* that reports the node as brought up.                                    *)
UpCreatesRoutes ==
  cmd = "up" /\ result \in {"ok", "warned"} => routes = Dest

=============================================================================
