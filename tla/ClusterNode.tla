---------------------------- MODULE ClusterNode ----------------------------
(***************************************************************************)
(* What `prepare` and `clean` do to a master or minion node itself:        *)
(* PrepareClusterNode and CleanupClusterNode, the files they save through  *)
(* file.go, and the addresses and routes they set through netmgr.go.       *)
(*                                                                         *)
(* prepare stops at its first error, clean collects errors and goes on.    *)
(* Neither undoes anything, so that the state a command starts from is     *)
(* whatever the commands before it, complete or not, have left.            *)
(*                                                                         *)
(* A configuration file is reduced to two facts: whether it is whole (or   *)
(* was cut short by a write that did not end), and whether it has this     *)
(* tool's marked entries, which prepare adds and clean takes out again.    *)
(* The support services of an IPv6 cluster are in SupportServers; only     *)
(* whether their network is up is seen here.                               *)
(***************************************************************************)
EXTENDS Naturals, FiniteSets

CONSTANTS
  NatNodes,   \* the other nodes of the topology that may run NAT64
  MaxFaults,  \* bound on failing calls in a behaviour
  MaxKills    \* bound on kills and reboots in a behaviour

ASSUME NatNodesAssumption == IsFiniteSet(NatNodes) /\ "none" \notin NatNodes
ASSUME MaxFaultsAssumption == MaxFaults \in Nat
ASSUME MaxKillsAssumption == MaxKills \in Nat

VARIABLES
  mode,      \* General.Mode
  master,    \* the node is the master, a minion otherwise
  support,   \* the node is the DNS64 and NAT64 server
  gateways,  \* the nodes FindHostIPForNAT64 chooses from
  cmd,       \* the running command, or the last one to run
  pc,        \* its next step, "idle" when no command runs
  file,      \* the file being saved
  buf,       \* its new contents
  exists,    \* SaveFileContents found the file and backed it up
  errs,      \* Cleanup has collected an error
  result,    \* how the last command ended
  addrs,     \* management addresses, by index in Mgmt.Info, on the interface
  mtu,       \* MTU of the interface
  disk,      \* the files that are saved with a backup
  bak,       \* their backups
  dropin,    \* kubelet drop-in file
  dnsRoute,  \* gateway of the route to the DNS64 network
  supRoute,  \* gateway of the route to the support network
  supNet,    \* the support network of SupportServers is up
  faults,    \* failing calls so far
  kills,     \* kills and reboots so far
  faulty,    \* one of them hit the last command
  lost       \* RecoverFile could not put a backup back

config  == <<mode, master, support, gateways>>
control == <<cmd, errs>>
save    == <<file, buf, exists>>
link    == <<addrs, mtu>>
files   == <<disk, bak, dropin>>
links   == <<dnsRoute, supRoute>>
budget  == <<faults, kills, faulty>>
vars    == <<config, control, save, pc, result, link, files, links, supNet,
             budget, lost>>

-----------------------------------------------------------------------------
(* Configuration and domains *)

EtcFiles == {"hosts", "resolv"}
Files    == EtcFiles \union {"kubeadm"}

Absent   == [there |-> FALSE, whole |-> TRUE, ours |-> FALSE]
Present  == [there : {TRUE}, whole : BOOLEAN, ours : BOOLEAN]
Original == [there |-> TRUE, whole |-> TRUE, ours |-> FALSE]

(* What a write of c that did not end leaves, with or without a mark that  *)
(* is still to be recognised.                                              *)
Torn(c) == {[c EXCEPT !.whole = FALSE, !.ours = o] : o \in {FALSE, c.ours}}

(* UpdateHostsInfo and UpdateResolvConfInfo, RevertConfigInfo *)
Updated(c)  == [c EXCEPT !.ours = TRUE]
Reverted(c) == [c EXCEPT !.ours = FALSE]

(* The contents of kubeadm.conf are made anew. *)
KubeAdmConf == [there |-> TRUE, whole |-> TRUE, ours |-> TRUE]

DualStack == mode = "dual-stack"
IPv6      == mode = "ipv6"
MgmtNets  == IF DualStack THEN {1, 2} ELSE {1}

PrepareSteps == {"addr1", "addr2", "mtu", "hosts", "resolv", "dropin",
                 "kubeadm", "dnsRoute", "supRoute"}
CleanSteps   == {"rmDropin", "rmAddr1", "rmAddr2", "hosts", "resolv",
                 "rmDnsRoute", "rmSupRoute"}
SaveSteps    == {"backup", "write"}

Init ==
  /\ mode \in {"ipv4", "ipv6", "dual-stack"} /\ master \in BOOLEAN
  /\ support \in BOOLEAN /\ (support => IPv6)
  /\ gateways \in SUBSET NatNodes
  /\ cmd = "none" /\ pc = "idle" /\ errs = FALSE /\ result = "none"
  /\ file = "hosts" /\ buf = Original /\ exists = FALSE
  /\ addrs = {} /\ mtu = "original"
  /\ disk = [f \in Files |-> IF f = "kubeadm" THEN Absent ELSE Original]
  /\ bak = [f \in Files |-> Absent]
  /\ dropin = Absent /\ dnsRoute = "none" /\ supRoute = "none"
  /\ supNet = FALSE
  /\ faults = 0 /\ kills = 0 /\ faulty = FALSE /\ lost = FALSE

Goto(step) == pc' = step /\ UNCHANGED result

End(r) == pc' = "idle" /\ result' = r

Fault == faults < MaxFaults /\ faults' = faults + 1 /\ faulty' = TRUE
           /\ UNCHANGED kills

NoFault == UNCHANGED budget

Start(c, first) ==
  /\ pc = "idle"
  /\ cmd' = c /\ pc' = first /\ result' = "running"
  /\ errs' = FALSE /\ faulty' = FALSE
  /\ UNCHANGED <<config, save, link, files, links, faults, kills, lost>>

(* An error ends prepare; clean notes it and takes the step that follows.  *)
Error(next) ==
  IF cmd = "prepare" THEN End("error") /\ UNCHANGED errs
  ELSE /\ errs' = TRUE
       /\ IF next = "idle" THEN End("warned") ELSE Goto(next)

Done(next) ==
  /\ UNCHANGED errs
  /\ IF next = "idle" THEN End(IF errs THEN "warned" ELSE "ok") ELSE Goto(next)

-----------------------------------------------------------------------------
(* Saving a file *)

(* mutant: clean goes on as prepare does *)
AfterAsPrepare(f) ==
  CASE f = "hosts"   -> "resolv"
    [] f = "kubeadm" -> IF IPv6 THEN "dnsRoute" ELSE "idle"
    [] f = "resolv"  -> "dropin"

(* mutant: the drop-in file comes with kubeadm.conf, on the master only *)
AfterOnMaster(f) ==
  CASE f = "hosts"   -> "resolv"
    [] f = "kubeadm" -> IF IPv6 THEN "dnsRoute" ELSE "idle"
    [] f = "resolv"  -> IF cmd = "prepare"
                        THEN IF master THEN "dropin"
                             ELSE IF IPv6 THEN "dnsRoute" ELSE "idle"
                        ELSE IF IPv6 THEN "rmDnsRoute" ELSE "idle"

(* The step that comes after file f is saved, or could not be. *)
After(f) ==
  CASE f = "hosts"   -> "resolv"
    [] f = "kubeadm" -> IF IPv6 THEN "dnsRoute" ELSE "idle"
    [] f = "resolv"  -> IF cmd = "prepare" THEN "dropin"
                        ELSE IF IPv6 THEN "rmDnsRoute" ELSE "idle"

(* AddHostEntries, AddResolvConfEntry and RevertEntries read the file and  *)
(* edit what they have read.                                               *)
ReadFile(f) ==
  /\ pc = f
  /\ \/ /\ disk[f].there /\ NoFault
        /\ buf' = IF cmd = "prepare" THEN Updated(disk[f]) ELSE Reverted(disk[f])
        /\ file' = f
        /\ Goto("backup") /\ UNCHANGED errs
     \/ ~disk[f].there /\ NoFault /\ Error(After(f)) /\ UNCHANGED <<buf, file>>
     \/ Fault /\ Error(After(f)) /\ UNCHANGED <<buf, file>>
  /\ UNCHANGED <<config, cmd, exists, link, files, links, supNet, lost>>

CreateKubeAdmConfigFile ==
  /\ pc = "kubeadm"
  /\ file' = "kubeadm" /\ buf' = KubeAdmConf
  /\ NoFault /\ Goto("backup")
  /\ UNCHANGED <<config, control, exists, link, files, links, supNet, lost>>

(* mutant: the old file is removed instead of renamed *)
RemoveOldFile ==
  /\ pc = "backup"
  /\ exists' = disk[file].there
  /\ disk' = [disk EXCEPT ![file] = Absent]
  /\ NoFault /\ Goto("write")
  /\ UNCHANGED <<config, control, file, buf, link, bak, dropin, links, supNet,
                 lost>>

(* SaveFileContents first renames the file, when there is one. *)
BackUpFile ==
  /\ pc = "backup"
  /\ \/ /\ NoFault /\ Goto("write") /\ UNCHANGED errs
        /\ exists' = disk[file].there
        /\ IF disk[file].there
           THEN /\ bak' = [bak EXCEPT ![file] = disk[file]]
                /\ disk' = [disk EXCEPT ![file] = Absent]
           ELSE UNCHANGED <<bak, disk>>
     \/ /\ Fault /\ disk[file].there /\ Error(After(file))
        /\ UNCHANGED <<bak, disk, exists>>
  /\ UNCHANGED <<config, cmd, file, buf, link, dropin, links, supNet, lost>>

(* mutant: a failed write is not followed by RecoverFile *)
WriteFileOrStop ==
  /\ pc = "write"
  /\ \/ NoFault /\ Done(After(file)) /\ disk' = [disk EXCEPT ![file] = buf]
     \/ /\ Fault /\ Error(After(file))
        /\ \E c \in Torn(buf) : disk' = [disk EXCEPT ![file] = c]
  /\ UNCHANGED <<config, cmd, save, link, bak, dropin, links, supNet, lost>>

(* A write that fails leaves nothing, or a part.  RecoverFile renames the  *)
(* backup over it, and may fail as well.                                   *)
WriteFile ==
  /\ pc = "write"
  /\ \/ /\ NoFault /\ Done(After(file))
        /\ disk' = [disk EXCEPT ![file] = buf] /\ UNCHANGED <<bak, lost>>
     \/ /\ Fault /\ Error(After(file)) /\ exists
        /\ disk' = [disk EXCEPT ![file] = bak[file]]
        /\ bak' = [bak EXCEPT ![file] = Absent] /\ UNCHANGED lost
     \/ /\ Fault /\ Error(After(file))
        /\ \E c \in {Absent} \union Torn(buf) : disk' = [disk EXCEPT ![file] = c]
        /\ lost' = (lost \/ exists) /\ UNCHANGED bak
  /\ UNCHANGED <<config, cmd, save, link, dropin, links, supNet>>

-----------------------------------------------------------------------------
(* prepare *)

(* The servers of a support node are prepared first, or Prepare does not   *)
(* get here.                                                               *)
Prepare == Start("prepare", "addr1") /\ supNet' = support

(* AddrReplace: an address that is there already is no error. *)
AddAddress(i) ==
  /\ pc = (IF i = 1 THEN "addr1" ELSE "addr2")
  /\ \/ /\ NoFault /\ addrs' = addrs \union {i}
        /\ Done(IF i = 1 /\ DualStack THEN "addr2" ELSE "mtu")
     \/ Fault /\ Error("idle") /\ UNCHANGED addrs
  /\ UNCHANGED <<config, cmd, save, mtu, files, links, supNet, lost>>

SetLinkMTU ==
  /\ pc = "mtu"
  /\ \/ NoFault /\ mtu' = "pod" /\ Done("hosts")
     \/ Fault /\ Error("idle") /\ UNCHANGED mtu
  /\ UNCHANGED <<config, cmd, save, addrs, files, links, supNet, lost>>

CreateKubeletDropInFile ==
  /\ pc = "dropin"
  /\ \/ /\ NoFault /\ dropin' = KubeAdmConf
        /\ Done(IF master THEN "kubeadm" ELSE After("kubeadm"))
     \/ Fault /\ Error("idle") /\ dropin' \in {dropin} \union Torn(KubeAdmConf)
  /\ UNCHANGED <<config, cmd, save, link, disk, bak, links, supNet, lost>>

(* The gateways a route may be given: the server itself on a support node, *)
(* else any node with NAT64, the topology being a map.                     *)
Gateways == IF support THEN {"local"} ELSE gateways

(* mutant: a route that exists already is an error *)
RouteOnce(route) == IF route = "none" THEN Gateways ELSE {}

(* RouteAdd: the first route to a destination stays, whichever its gateway *)
(* is, and "file exists" is no error.  None can be added without a node    *)
(* with NAT64.                                                             *)
RouteAdd(route) ==
  IF route = "none" \/ Gateways = {} THEN Gateways ELSE {route}

CreateRouteToNAT64ServerForDNS64Subnet ==
  /\ pc = "dnsRoute"
  /\ \/ /\ NoFault /\ dnsRoute' \in RouteAdd(dnsRoute)
        /\ Done(IF support THEN "idle" ELSE "supRoute")
     \/ NoFault /\ RouteAdd(dnsRoute) = {} /\ Error("idle") /\ UNCHANGED dnsRoute
     \/ Fault /\ Error("idle") /\ UNCHANGED dnsRoute
  /\ UNCHANGED <<config, cmd, save, link, files, supRoute, supNet, lost>>

CreateRouteToSupportNetworkForOtherNodes ==
  /\ pc = "supRoute"
  /\ \/ NoFault /\ supRoute' \in RouteAdd(supRoute) /\ Done("idle")
     \/ NoFault /\ RouteAdd(supRoute) = {} /\ Error("idle") /\ UNCHANGED supRoute
     \/ Fault /\ Error("idle") /\ UNCHANGED supRoute
  /\ UNCHANGED <<config, cmd, save, link, files, dnsRoute, supNet, lost>>

-----------------------------------------------------------------------------
(* clean *)

Cleanup == Start("clean", "rmDropin") /\ UNCHANGED supNet

RemoveDropInFile ==
  /\ pc = "rmDropin"
  /\ \/ dropin.there /\ NoFault /\ dropin' = Absent /\ Done("rmAddr1")
     \/ ~dropin.there /\ NoFault /\ Error("rmAddr1") /\ UNCHANGED dropin
     \/ Fault /\ Error("rmAddr1") /\ UNCHANGED dropin
  /\ UNCHANGED <<config, cmd, save, link, disk, bak, links, supNet, lost>>

(* mutant: the second address is forgotten *)
RemoveFirstManagementIP(i) ==
  /\ pc = (IF i = 1 THEN "rmAddr1" ELSE "rmAddr2")
  /\ \/ i \in addrs /\ NoFault /\ addrs' = addrs \ {i} /\ Done("hosts")
     \/ i \notin addrs /\ NoFault /\ Error("hosts") /\ UNCHANGED addrs
  /\ UNCHANGED <<config, cmd, save, mtu, files, links, supNet, lost>>

(* mutant: clean stops at an error as prepare does *)
RemoveManagementIPOrStop(i) ==
  /\ pc = (IF i = 1 THEN "rmAddr1" ELSE "rmAddr2")
  /\ NoFault /\ addrs' = addrs \ {i} /\ UNCHANGED errs
  /\ IF i \in addrs THEN Goto(IF i = 1 /\ DualStack THEN "rmAddr2" ELSE "hosts")
                    ELSE End("warned")
  /\ UNCHANGED <<config, cmd, save, mtu, files, links, supNet, lost>>

(* The first address that is not there, or cannot be removed, makes        *)
(* RemoveManagementIP return.                                              *)
RemoveManagementIP(i) ==
  /\ pc = (IF i = 1 THEN "rmAddr1" ELSE "rmAddr2")
  /\ \/ /\ i \in addrs /\ NoFault /\ addrs' = addrs \ {i}
        /\ Done(IF i = 1 /\ DualStack THEN "rmAddr2" ELSE "hosts")
     \/ i \notin addrs /\ NoFault /\ Error("hosts") /\ UNCHANGED addrs
     \/ Fault /\ Error("hosts") /\ UNCHANGED addrs
  /\ UNCHANGED <<config, cmd, save, mtu, files, links, supNet, lost>>

(* RouteDel is given a gateway and fails when the route has another one.   *)
RouteDel(route) == route \in Gateways

RemoveRouteForDNS64 ==
  /\ pc = "rmDnsRoute"
  /\ LET next == IF support THEN "idle" ELSE "rmSupRoute"
     IN \/ /\ RouteDel(dnsRoute) /\ (support => supNet) /\ NoFault
           /\ dnsRoute' = "none" /\ Done(next)
        \/ /\ Gateways # {dnsRoute} \/ (support /\ ~supNet)
           /\ NoFault /\ Error(next) /\ UNCHANGED dnsRoute
        \/ Fault /\ Error(next) /\ UNCHANGED dnsRoute
  /\ UNCHANGED <<config, cmd, save, link, files, supRoute, supNet, lost>>

RemoveRouteForNAT64 ==
  /\ pc = "rmSupRoute"
  /\ \/ RouteDel(supRoute) /\ NoFault /\ supRoute' = "none" /\ Done("idle")
     \/ Gateways # {supRoute} /\ NoFault /\ Error("idle") /\ UNCHANGED supRoute
     \/ Fault /\ Error("idle") /\ UNCHANGED supRoute
  /\ UNCHANGED <<config, cmd, save, link, files, dnsRoute, supNet, lost>>

-----------------------------------------------------------------------------
(* The host *)

(* Cleanup removes the support network last, and with it the routes that   *)
(* go through its link.                                                    *)
SupportNetworkRemoved ==
  /\ pc = "idle" /\ cmd = "clean" /\ supNet
  /\ supNet' = FALSE
  /\ dnsRoute' = (IF support THEN "none" ELSE dnsRoute)
  /\ UNCHANGED <<config, control, save, pc, result, link, files, supRoute,
                 budget, lost>>

Interrupt == kills < MaxKills /\ kills' = kills + 1 /\ faulty' = TRUE
               /\ pc' = "idle" /\ result' = "killed" /\ UNCHANGED faults

(* The files as a command leaves them that is cut short, in the middle of  *)
(* a write perhaps.                                                        *)
CutShort ==
  {disk} \union
    {[disk EXCEPT ![file] = c] : c \in IF pc = "write" THEN Torn(buf) ELSE {}}

DropInCutShort ==
  {dropin} \union IF pc = "dropin" THEN Torn(KubeAdmConf) ELSE {}

Kill ==
  /\ pc # "idle" /\ Interrupt
  /\ disk' \in CutShort /\ dropin' \in DropInCutShort
  /\ UNCHANGED <<config, control, save, link, bak, links, supNet, lost>>

(* Files outlive a reboot, kubeadm.conf only if the work area does. *)
Reboot ==
  /\ Interrupt
  /\ addrs' = {} /\ mtu' = "original"
  /\ dnsRoute' = "none" /\ supRoute' = "none"
  /\ \E left \in CutShort : disk' \in {left, [left EXCEPT !["kubeadm"] = Absent]}
  /\ dropin' \in DropInCutShort
  /\ UNCHANGED <<config, control, save, bak, supNet, lost>>

-----------------------------------------------------------------------------
SaveStep ==
  \/ \E f \in EtcFiles : ReadFile(f)
  \/ CreateKubeAdmConfigFile \/ BackUpFile \/ WriteFile

PrepareStep ==
  \/ \E i \in {1, 2} : AddAddress(i)
  \/ SetLinkMTU \/ CreateKubeletDropInFile
  \/ CreateRouteToNAT64ServerForDNS64Subnet
  \/ CreateRouteToSupportNetworkForOtherNodes

CleanStep ==
  \/ RemoveDropInFile
  \/ \E i \in {1, 2} : RemoveManagementIP(i)
  \/ RemoveRouteForDNS64 \/ RemoveRouteForNAT64

Environment == SupportNetworkRemoved \/ Kill \/ Reboot

Next == Prepare \/ Cleanup \/ SaveStep \/ PrepareStep \/ CleanStep \/ Environment

Spec == Init /\ [][Next]_vars

-----------------------------------------------------------------------------
(* Properties *)

Contents == Present \union {Absent}

ControlOK ==
  /\ mode \in {"ipv4", "ipv6", "dual-stack"} /\ master \in BOOLEAN
  /\ support \in BOOLEAN /\ gateways \subseteq NatNodes
  /\ cmd \in {"none", "prepare", "clean"}
  /\ pc \in {"idle"} \union PrepareSteps \union CleanSteps \union SaveSteps
  /\ pc \in PrepareSteps \ CleanSteps => cmd = "prepare"
  /\ pc \in CleanSteps \ PrepareSteps => cmd = "clean"
  /\ result \in {"none", "running", "ok", "warned", "error", "killed"}
  /\ errs \in BOOLEAN

FilesOK ==
  /\ file \in Files /\ buf \in Present /\ exists \in BOOLEAN
  /\ disk \in [Files -> Contents] /\ bak \in [Files -> Contents]
  /\ dropin \in Contents

HostOK ==
  /\ addrs \subseteq MgmtNets /\ mtu \in {"original", "pod"}
  /\ {dnsRoute, supRoute} \subseteq NatNodes \union {"none", "local"}
  /\ supNet \in BOOLEAN

FaultsOK ==
  /\ faults \in 0..MaxFaults /\ kills \in 0..MaxKills
  /\ faulty \in BOOLEAN /\ lost \in BOOLEAN

(* Every variable keeps to its domain, and a step belongs to its command. *)
TypeOK == ControlOK /\ FilesOK /\ HostOK /\ FaultsOK

(* A PrepareClusterNode that returns nil has everything in place that up   *)
(* relies on, whatever it found: the addresses and the MTU, the marked     *)
(* entries in both files, a whole drop-in file, on the master a whole      *)
(* kubeadm.conf, in IPv6 the routes.                                       *)
PrepareIsComplete ==
  cmd = "prepare" /\ result = "ok" =>
    /\ addrs = MgmtNets /\ mtu = "pod"
    /\ \A f \in EtcFiles : disk[f].there /\ disk[f].ours
    /\ dropin = KubeAdmConf
    /\ master => disk["kubeadm"] = KubeAdmConf
    /\ IPv6 => dnsRoute # "none" /\ (support \/ supRoute # "none")

(* A prepare that meets no fault fails for two reasons only: a file it     *)
(* edits is gone, or no node has NAT64; never because of what an earlier   *)
(* prepare has done already.                                               *)
PrepareResumes ==
  cmd = "prepare" /\ result = "error" /\ ~faulty =>
    \/ \E f \in EtcFiles : ~disk[f].there
    \/ IPv6 /\ Gateways = {}

Restored ==
  /\ addrs = {} /\ ~dropin.there
  /\ \A f \in EtcFiles : ~disk[f].ours
  /\ supRoute = "none" /\ dnsRoute = "none"

(* A CleanupClusterNode that reports no error has taken everything back    *)
(* that prepare adds: what RefinesHostSetup says of a clean that succeeds, *)
(* in the node's own terms.                                                *)
CleanIsComplete == cmd = "clean" /\ result = "ok" => Restored

(* A clean that meets no fault takes everything back, from whatever state, *)
(* when there is one management network and one node with NAT64, and the   *)
(* support network, with the route through it, goes away last.             *)
CleanConverges ==
  cmd = "clean" /\ pc = "idle" /\ ~faulty /\ ~DualStack
    /\ Cardinality(gateways) = 1 => Restored

(* Calls that fail never cost a file: as long as nothing is killed and     *)
(* RecoverFile itself does not fail, both files are there and whole when   *)
(* no command runs (SaveFileContents).                                     *)
FilesSurviveFaults ==
  pc = "idle" /\ kills = 0 /\ ~lost =>
    \A f \in EtcFiles : disk[f].there /\ disk[f].whole

(* The file or its backup has everything its user has written. *)
HasCopy(f) ==
  \E c \in {disk[f], bak[f]} : c.there /\ c.whole

(* Neither a failing call nor a kill loses the last whole copy of a file:  *)
(* only a later command that backs a torn file up over it does.            *)
LastCopyLostByResaveOnly ==
  [][\A f \in EtcFiles :
       HasCopy(f) => HasCopy(f)' \/ (pc = "backup" /\ ~disk[f].whole)]_vars

-----------------------------------------------------------------------------
(* PrepareClusterNode and CleanupClusterNode as an implementation of       *)
(* HostSetup                                                               *)

Items == {"addr1", "addr2", "mtu", "dropin", "dnsRoute", "supRoute"}
           \union Files

(* While a file is not there, its contents are in its backup.              *)
Current(f) == IF disk[f].there THEN disk[f] ELSE bak[f]

(* An item is whole ... *)
Whole(i) ==
  CASE i = "addr1"    -> 1 \in addrs
    [] i = "addr2"    -> 2 \in addrs
    [] i = "mtu"      -> mtu = "pod"
    [] i = "dropin"   -> dropin = KubeAdmConf
    [] i = "kubeadm"  -> disk["kubeadm"] = KubeAdmConf
    [] i = "dnsRoute" -> dnsRoute # "none"
    [] i = "supRoute" -> supRoute # "none"
    [] OTHER          -> Current(i).ours

(* ... or something of it is left. *)
Left(i) ==
  CASE i = "dropin"  -> dropin.there
    [] i = "kubeadm" -> disk["kubeadm"].there
    [] OTHER         -> Whole(i)

(* What PrepareClusterNode is for, on a node of this role in this mode.    *)
Goal ==
  {"addr1", "mtu", "dropin"} \union EtcFiles
    \union (IF DualStack THEN {"addr2"} ELSE {})
    \union (IF master THEN {"kubeadm"} ELSE {})
    \union (IF IPv6 THEN {"dnsRoute"} ELSE {})
    \union (IF IPv6 /\ ~support THEN {"supRoute"} ELSE {})

Task ==
  CASE cmd = "prepare" -> "setup" [] cmd = "clean" -> "teardown" [] OTHER -> "none"

Outcome ==
  CASE pc # "idle"     -> "running"
    [] pc = "idle" /\ result = "ok"   -> "done"
    [] pc = "idle" /\ result = "none" -> "none"
    [] OTHER           -> "incomplete"

Setup == INSTANCE HostSetup WITH
  Rebuilt  <- Files \union {"dropin"},
  Kept     <- {"mtu", "kubeadm"},
  Volatile <- Items \ (EtcFiles \union {"dropin"}),
  Used     <- {},
  NeedsUse <- Items,
  goal     <- Goal,
  whole    <- {i \in Items : Whole(i)},
  left     <- {i \in Items : Left(i)},
  decayed  <- {},
  task     <- Task,
  outcome  <- Outcome

(* prepare and clean of a node keep the promise of HostSetup: prepare      *)
(* takes nothing away but entries in files that it writes anew; clean adds *)
(* nothing, not when it puts a backup back either; each reports success    *)
(* only for the whole of its work, which for clean is all but the MTU and  *)
(* kubeadm.conf.                                                           *)
RefinesHostSetup == Setup!Spec

-----------------------------------------------------------------------------
(* What the documents promise and the code does not do *)

(* "If for some reason the prepare fails after updating /etc/resolv.conf   *)
(* or /etc/hosts, you can recover the originals from the .bak files".      *)
BackupHoldsOriginal ==
  cmd = "prepare" /\ result = "error" =>
    \A f \in EtcFiles : disk[f].there /\ disk[f].ours => bak[f] = Original

(* "The tool is designed to allow multiple invocations": a prepare that    *)
(* meets no fault succeeds, after one that was killed too.                 *)
PrepareAlwaysResumes ==
  cmd = "prepare" /\ pc = "idle" /\ ~faulty /\ Gateways # {} => result = "ok"

=============================================================================
