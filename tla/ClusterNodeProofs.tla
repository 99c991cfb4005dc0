------------------------- MODULE ClusterNodeProofs -------------------------
(***************************************************************************)
(* Proofs about ClusterNode, for any set of other nodes with NAT64 and any *)
(* number of failing calls, kills and reboots.                             *)
(***************************************************************************)
EXTENDS ClusterNode, FiniteSetTheorems, TLAPS

-----------------------------------------------------------------------------
(* The inductive invariant *)

(* The steps of a command that come after each file, and the drop-in.      *)
Saves(f)   == pc \in SaveSteps /\ file = f
RouteSteps == {"dnsRoute", "supRoute", "rmDnsRoute", "rmSupRoute"}
PastDropIn == pc \in {"kubeadm", "dnsRoute", "supRoute"} \/ Saves("kubeadm")
PastResolv == pc \in {"dropin", "kubeadm"} \union RouteSteps \/ Saves("kubeadm")
PastHosts  == pc = "resolv" \/ Saves("resolv") \/ PastResolv

(* Which steps a command takes on a node, and when it has ended.           *)
RunInv ==
  /\ pc = "idle" <=> result # "running"
  /\ cmd = "none" => result \in {"none", "killed"}
  /\ result = "none" => cmd = "none"
  /\ errs => cmd = "clean"
  /\ pc \in {"addr2", "rmAddr2"} => DualStack
  /\ pc = "kubeadm" \/ Saves("kubeadm") => master /\ cmd = "prepare"
  /\ pc \in RouteSteps => IPv6
  /\ pc \in {"supRoute", "rmSupRoute"} => ~support

(* A route has one of the gateways that clean will ask for, and the        *)
(* support node's own is there with its support network only.              *)
RouteInv ==
  /\ support => IPv6 /\ supRoute = "none"
  /\ {dnsRoute, supRoute} \subseteq {"none"} \union Gateways
  /\ ~IPv6 => dnsRoute = "none" /\ supRoute = "none"
  /\ support /\ (cmd = "prepare" \/ dnsRoute # "none") => supNet

(* A file that is being saved: it is in one place or the other, as whole   *)
(* as the contents that will replace it.                                   *)
SaveInv ==
  /\ pc \in SaveSteps => (buf.ours <=> cmd = "prepare")
  /\ Saves("kubeadm") => buf = KubeAdmConf
  /\ pc = "backup" /\ file \in EtcFiles =>
       disk[file].there /\ (buf.whole <=> disk[file].whole)
  /\ pc = "write" => ~disk[file].there
  /\ pc = "write" /\ file \in EtcFiles =>
       exists /\ bak[file].there /\ (buf.whole <=> bak[file].whole)

(* FilesSurviveFaults, at the steps in between.                            *)
SurviveInv ==
  kills = 0 /\ ~lost =>
    \A f \in EtcFiles :
      IF pc = "write" /\ file = f THEN bak[f].there /\ bak[f].whole
                                  ELSE disk[f].there /\ disk[f].whole

(* What prepare has in place when it gets to a step.                       *)
PrepareInv ==
  /\ cmd = "prepare" /\ pc # "idle" =>
       /\ pc # "addr1" => 1 \in addrs
       /\ pc \notin {"addr1", "addr2"} => addrs = MgmtNets
       /\ pc \notin {"addr1", "addr2", "mtu"} => mtu = "pod"
       /\ PastHosts => disk["hosts"].there /\ disk["hosts"].ours
       /\ PastResolv => disk["resolv"].there /\ disk["resolv"].ours
       /\ PastDropIn => dropin = KubeAdmConf
       /\ pc \in RouteSteps /\ master => disk["kubeadm"] = KubeAdmConf
       /\ pc = "supRoute" => dnsRoute # "none"
  /\ PrepareIsComplete /\ PrepareResumes

(* What clean has taken back when it gets to a step: everything, as long   *)
(* as it has no error to report, and all but what a second address or a    *)
(* second gateway can hide from it, if no call has failed.                 *)
SingleGateway == \E g \in NatNodes : gateways = {g}

CleanInv ==
  /\ cmd = "clean" /\ pc # "idle" =>
       /\ pc # "rmDropin" /\ (errs => ~faulty) => ~dropin.there
       /\ pc = "rmAddr2" /\ ~errs => 1 \notin addrs
       /\ pc \notin {"rmDropin", "rmAddr1", "rmAddr2"}
            /\ (errs => ~faulty /\ ~DualStack) => addrs = {}
       /\ PastHosts /\ (errs => ~faulty) => ~disk["hosts"].ours
       /\ PastResolv /\ (errs => ~faulty) => ~disk["resolv"].ours
       /\ PastHosts /\ ~errs => disk["hosts"].there
       /\ PastResolv /\ ~errs => disk["resolv"].there
       /\ pc = "rmSupRoute" /\ (errs => ~faulty /\ SingleGateway)
            => dnsRoute = "none"
  /\ CleanIsComplete
  /\ cmd = "clean" /\ result = "ok" => \A f \in EtcFiles : disk[f].there
  /\ cmd = "clean" /\ pc = "idle" /\ ~faulty /\ ~DualStack /\ SingleGateway
       => Restored

IInv ==
  TypeOK /\ RunInv /\ RouteInv /\ SaveInv /\ SurviveInv /\ PrepareInv /\ CleanInv

-----------------------------------------------------------------------------
(* It holds initially and is kept by every step *)

LEMMA InitFaults == Init => FaultsOK
<1> SUFFICES ASSUME Init PROVE FaultsOK
  OBVIOUS
<1>1. faults = 0 /\ kills = 0
  BY DEF Init
<1>2. faults \in 0..MaxFaults /\ kills \in 0..MaxKills
  BY <1>1, MaxFaultsAssumption, MaxKillsAssumption
<1>3. faulty \in BOOLEAN /\ lost \in BOOLEAN
  BY DEF Init
<1>4. QED
  BY <1>2, <1>3 DEF FaultsOK

LEMMA InitInv == Init => IInv
<1> SUFFICES ASSUME Init PROVE IInv
  OBVIOUS
<1> USE DEF Init, Files, EtcFiles, Absent, Original, Present, Contents,
            PrepareSteps, CleanSteps, SaveSteps, RouteSteps, Saves
<1>1. TypeOK
  <2>1. ControlOK /\ FaultsOK
    <3>1. ControlOK
      BY DEF ControlOK
    <3>2. FaultsOK
      BY InitFaults
    <3>3. QED
      BY <3>1, <3>2
  <2>2. FilesOK
    BY DEF FilesOK
  <2>3. HostOK
    BY DEF HostOK, MgmtNets
  <2>4. QED
    BY <2>1, <2>2, <2>3 DEF TypeOK
<1>2. RunInv /\ RouteInv /\ SaveInv
  BY DEF RunInv, RouteInv, SaveInv, IPv6
<1>3. SurviveInv
  BY DEF SurviveInv
<1>4. PrepareInv /\ CleanInv
  BY DEF PrepareInv, CleanInv, PrepareIsComplete, PrepareResumes,
         CleanIsComplete
<1>5. QED
  BY <1>1, <1>2, <1>3, <1>4 DEF IInv

LEMMA Shapes ==
  /\ KubeAdmConf \in Present /\ Present \subseteq Contents /\ Absent \in Contents
  /\ \A c \in Present : /\ c.there
                       /\ \A d \in Torn(c) : /\ d \in Present /\ ~d.whole
                                             /\ d.ours => c.ours
  /\ \A c \in Contents :
       c.there => /\ Updated(c) \in Present /\ Updated(c).ours
                  /\ Reverted(c) \in Present /\ ~Reverted(c).ours
                  /\ Updated(c).whole = c.whole /\ Reverted(c).whole = c.whole
  /\ \A c \in Contents : c.there \in BOOLEAN
<1> USE DEF Present, Absent, Contents
<1>1. KubeAdmConf \in Present /\ Present \subseteq Contents /\ Absent \in Contents
  BY DEF KubeAdmConf
<1>2. ASSUME NEW c \in Present
      PROVE  c.there /\ \A d \in Torn(c) : d \in Present /\ ~d.whole /\ (d.ours => c.ours)
  <2>1. ASSUME NEW o \in {FALSE, c.ours}, NEW d,
               d = [c EXCEPT !.whole = FALSE, !.ours = o]
        PROVE  d \in Present /\ ~d.whole /\ (d.ours => c.ours)
    <3>1. /\ c = [there |-> TRUE, whole |-> c.whole, ours |-> c.ours]
          /\ c.ours \in BOOLEAN
      OBVIOUS
    <3>2. d = [there |-> TRUE, whole |-> FALSE, ours |-> o]
      BY <2>1, <3>1
    <3>3. o \in BOOLEAN /\ (o => c.ours)
      BY <2>1, <3>1
    <3>4. QED
      BY <3>2, <3>3
  <2>2. QED
    BY <2>1 DEF Torn
<1>3. ASSUME NEW c \in Contents, c.there
      PROVE  /\ Updated(c) \in Present /\ Updated(c).ours
             /\ Reverted(c) \in Present /\ ~Reverted(c).ours
             /\ Updated(c).whole = c.whole /\ Reverted(c).whole = c.whole
  <2>1. ~Absent.there
    OBVIOUS
  <2>2. c \in Present
    <3> HIDE DEF Absent, Present
    <3>1. QED
      BY <1>3, <2>1
  <2>3. QED
    BY <2>2 DEF Updated, Reverted
<1>4. ASSUME NEW c \in Contents PROVE c.there \in BOOLEAN
  <2>1. CASE c = Absent
    BY <2>1
  <2>2. CASE c \in Present
    BY <2>2
  <2>3. QED
    BY <2>1, <2>2
<1>5. QED
  BY <1>1, <1>2, <1>3, <1>4

(* One file written among the others. *)
LEMMA OneFile ==
  ASSUME NEW g \in [Files -> Contents], NEW x, NEW c \in Contents
  PROVE  [g EXCEPT ![x] = c] \in [Files -> Contents]
OBVIOUS

(* What is left of the files when a command is cut short. *)
LEMMA CutHas ==
  ASSUME FilesOK, NEW d \in CutShort
  PROVE  /\ d \in [Files -> Contents]
         /\ \/ d = disk
            \/ /\ pc = "write"
               /\ \E c \in Torn(buf) : d = [disk EXCEPT ![file] = c]
<1>1. CASE d = disk
  BY <1>1 DEF FilesOK
<1>2. ASSUME pc = "write", NEW c \in Torn(buf), d = [disk EXCEPT ![file] = c]
      PROVE  d \in [Files -> Contents]
  <2>1. c \in Contents
    BY Shapes DEF FilesOK
  <2>2. QED
    BY <1>2, <2>1 DEF FilesOK
<1>3. d = disk \/ (pc = "write" /\ \E c \in Torn(buf) : d = [disk EXCEPT ![file] = c])
  BY DEF CutShort
<1>4. QED
  BY <1>1, <1>2, <1>3

LEMMA DropInCutHas ==
  ASSUME dropin \in Contents, NEW d \in DropInCutShort
  PROVE  d \in Contents /\ (d = dropin \/ pc = "dropin")
BY Shapes DEF DropInCutShort

LEMMA AbsentIsNotOurs == ASSUME NEW c \in Contents, ~c.there PROVE ~c.ours
<1>1. \A d \in Present : d.there
  BY DEF Present
<1>2. c = Absent
  BY <1>1 DEF Contents
<1>3. QED
  BY <1>2 DEF Absent

LEMMA RouteAddIsRoute ==
  ASSUME TypeOK, NEW r
  PROVE  "none" \notin RouteAdd(r) /\ (RouteAdd(r) = {} => Gateways = {})
BY NatNodesAssumption DEF TypeOK, ControlOK, RouteAdd, Gateways

LEMMA ControlNext == TypeOK /\ RunInv /\ [Next]_vars => ControlOK'
<1> SUFFICES ASSUME TypeOK, RunInv, [Next]_vars PROVE ControlOK'
  OBVIOUS
<1> USE  DEF TypeOK, ControlOK, FilesOK, RunInv, EtcFiles, Files, Saves,
            PrepareSteps, CleanSteps, SaveSteps, config, control, save
<1>1. CASE Prepare
  BY <1>1 DEF Prepare, Start
<1>2. CASE Cleanup
  BY <1>2 DEF Cleanup, Start
<1>3. ASSUME NEW f \in EtcFiles, ReadFile(f) PROVE ControlOK'
  BY <1>3 DEF ReadFile, After, Error, Done, End, Goto, Fault, NoFault
<1>4. CASE CreateKubeAdmConfigFile
  BY <1>4 DEF CreateKubeAdmConfigFile, Error, Done, End, Goto, Fault,
              NoFault
<1>5. CASE BackUpFile
  BY <1>5 DEF BackUpFile, After, Error, Done, End, Goto, Fault, NoFault
<1>6. CASE WriteFile
  BY <1>6 DEF WriteFile, After, Error, Done, End, Goto, Fault, NoFault
<1>7. ASSUME NEW i \in {1, 2}, AddAddress(i) PROVE ControlOK'
  BY <1>7 DEF AddAddress, Error, Done, End, Goto, Fault, NoFault
<1>8. CASE SetLinkMTU
  BY <1>8 DEF SetLinkMTU, Error, Done, End, Goto, Fault, NoFault
<1>9. CASE CreateKubeletDropInFile
  BY <1>9 DEF CreateKubeletDropInFile, After, Error, Done, End, Goto,
              Fault, NoFault
<1>10. CASE CreateRouteToNAT64ServerForDNS64Subnet
  BY <1>10 DEF CreateRouteToNAT64ServerForDNS64Subnet, Error, Done, End,
              Goto, Fault, NoFault
<1>11. CASE CreateRouteToSupportNetworkForOtherNodes
  BY <1>11 DEF CreateRouteToSupportNetworkForOtherNodes, Error, Done, End,
              Goto, Fault, NoFault
<1>12. CASE RemoveDropInFile
  BY <1>12 DEF RemoveDropInFile, Error, Done, End, Goto, Fault, NoFault
<1>13. ASSUME NEW i \in {1, 2}, RemoveManagementIP(i) PROVE ControlOK'
  BY <1>13 DEF RemoveManagementIP, Error, Done, End, Goto, Fault, NoFault
<1>14. CASE RemoveRouteForDNS64
  BY <1>14 DEF RemoveRouteForDNS64, Error, Done, End, Goto, Fault, NoFault
<1>15. CASE RemoveRouteForNAT64
  BY <1>15 DEF RemoveRouteForNAT64, Error, Done, End, Goto, Fault, NoFault
<1>16. CASE SupportNetworkRemoved
  BY <1>16 DEF SupportNetworkRemoved
<1>17. CASE Kill
  BY <1>17 DEF Kill, Interrupt, CutShort, DropInCutShort
<1>18. CASE Reboot
  BY <1>18 DEF Reboot, Interrupt, CutShort, DropInCutShort
<1>19. CASE UNCHANGED vars
  BY <1>19 DEF vars
<1>20. QED
  BY <1>1, <1>2, <1>3, <1>4, <1>5, <1>6, <1>7, <1>8, <1>9, <1>10, <1>11,
     <1>12, <1>13, <1>14, <1>15, <1>16, <1>17, <1>18, <1>19
  DEF Next, SaveStep, PrepareStep, CleanStep, Environment

LEMMA FilesNext == TypeOK /\ RunInv /\ [Next]_vars => FilesOK'
<1> SUFFICES ASSUME TypeOK, RunInv, [Next]_vars PROVE FilesOK'
  OBVIOUS
<1>0. /\ FilesOK /\ disk[file] \in Contents /\ bak[file] \in Contents
      /\ Absent \in Contents /\ buf \in Contents /\ KubeAdmConf \in Contents
      /\ disk[file].there \in BOOLEAN
  BY Shapes DEF TypeOK, FilesOK
<1> USE DEF TypeOK, ControlOK, FilesOK, EtcFiles, Files, save, files
<1>1. CASE Prepare
  BY <1>1 DEF Prepare, Start
<1>2. CASE Cleanup
  BY <1>2 DEF Cleanup, Start
<1>3. ASSUME NEW f \in EtcFiles, ReadFile(f) PROVE FilesOK'
  <2>1. /\ UNCHANGED <<exists, disk, bak, dropin>> /\ file' \in {file, f}
        /\ \/ buf' = buf
           \/ disk[f].there /\ buf' \in {Updated(disk[f]), Reverted(disk[f])}
    BY <1>3 DEF ReadFile
  <2>2. disk[f] \in Contents
    OBVIOUS
  <2>3. buf' \in Present
    <3>1. CASE buf' = buf
      BY <3>1
    <3>2. CASE disk[f].there /\ buf' \in {Updated(disk[f]), Reverted(disk[f])}
      <4>1. Updated(disk[f]) \in Present /\ Reverted(disk[f]) \in Present
        BY <2>2, <3>2, Shapes
      <4>2. buf' = Updated(disk[f]) \/ buf' = Reverted(disk[f])
        BY <3>2
      <4>3. QED
        BY <4>1, <4>2, Zenon
    <3>3. QED
      BY <2>1, <3>1, <3>2
  <2>4. file' \in Files
    BY <2>1
  <2>5. QED
    BY <2>1, <2>3, <2>4
<1>4. CASE CreateKubeAdmConfigFile
  <2>1. /\ UNCHANGED <<exists, disk, bak, dropin>>
        /\ file' = "kubeadm" /\ buf' = KubeAdmConf
    BY <1>4 DEF CreateKubeAdmConfigFile
  <2>2. KubeAdmConf \in Present
    BY Shapes
  <2>3. QED
    BY <2>1, <2>2
<1>5. CASE BackUpFile
  <2>1. /\ UNCHANGED <<file, buf, dropin>>
        /\ exists' \in {exists, disk[file].there}
        /\ disk' \in {disk, [disk EXCEPT ![file] = Absent]}
        /\ bak' \in {bak, [bak EXCEPT ![file] = disk[file]]}
    BY <1>5 DEF BackUpFile
  <2>2. [disk EXCEPT ![file] = Absent] \in [Files -> Contents]
    BY ONLY <1>0, OneFile DEF FilesOK
  <2>3. [bak EXCEPT ![file] = disk[file]] \in [Files -> Contents]
    BY ONLY <1>0, OneFile DEF FilesOK
  <2>4. exists' \in BOOLEAN
    BY <1>0, <2>1
  <2>5. disk' \in [Files -> Contents] /\ bak' \in [Files -> Contents]
    BY ONLY <1>0, <2>1, <2>2, <2>3 DEF FilesOK
  <2>6. QED
    BY <2>1, <2>4, <2>5
<1>6. CASE WriteFile
  <2>1. /\ UNCHANGED <<file, buf, exists, dropin>>
        /\ \E c \in {buf, bak[file], Absent} \union Torn(buf) :
             disk' = [disk EXCEPT ![file] = c]
        /\ bak' \in {bak, [bak EXCEPT ![file] = Absent]}
    BY <1>6 DEF WriteFile
  <2>2. PICK c \in {buf, bak[file], Absent} \union Torn(buf) :
          disk' = [disk EXCEPT ![file] = c]
    BY <2>1
  <2>3. Torn(buf) \subseteq Contents
    BY <1>0, Shapes DEF FilesOK
  <2>4. c \in Contents
    BY <1>0, <2>2, <2>3
  <2>5. disk' \in [Files -> Contents]
    BY ONLY <1>0, <2>2, <2>4, OneFile DEF FilesOK
  <2>6. [bak EXCEPT ![file] = Absent] \in [Files -> Contents]
    BY ONLY <1>0, OneFile DEF FilesOK
  <2>7. bak' \in [Files -> Contents]
    BY ONLY <1>0, <2>1, <2>6 DEF FilesOK
  <2>8. QED
    BY <2>1, <2>5, <2>7
<1>7. ASSUME NEW i \in {1, 2}, AddAddress(i) PROVE FilesOK'
  BY <1>7 DEF AddAddress, Error, Done, End, Goto, Fault, NoFault
<1>8. CASE SetLinkMTU
  BY <1>8 DEF SetLinkMTU, Error, Done, End, Goto, Fault, NoFault
<1>9. CASE CreateKubeletDropInFile
  <2>1. UNCHANGED <<file, buf, exists, disk, bak>>
        /\ dropin' \in {KubeAdmConf, dropin} \union Torn(KubeAdmConf)
    BY <1>9 DEF CreateKubeletDropInFile
  <2>2. QED
    BY <2>1, Shapes
<1>10. CASE CreateRouteToNAT64ServerForDNS64Subnet
  BY <1>10 DEF CreateRouteToNAT64ServerForDNS64Subnet, Error, Done, End,
              Goto, Fault, NoFault
<1>11. CASE CreateRouteToSupportNetworkForOtherNodes
  BY <1>11 DEF CreateRouteToSupportNetworkForOtherNodes, Error, Done, End,
              Goto, Fault, NoFault
<1>12. CASE RemoveDropInFile
  <2>1. /\ UNCHANGED <<file, buf, exists, disk, bak>>
        /\ dropin' = Absent \/ dropin' = dropin
    BY <1>12 DEF RemoveDropInFile
  <2>2. QED
    BY <1>0, <2>1
<1>13. ASSUME NEW i \in {1, 2}, RemoveManagementIP(i) PROVE FilesOK'
  BY <1>13 DEF RemoveManagementIP, Error, Done, End, Goto, Fault, NoFault
<1>14. CASE RemoveRouteForDNS64
  BY <1>14 DEF RemoveRouteForDNS64, Error, Done, End, Goto, Fault, NoFault
<1>15. CASE RemoveRouteForNAT64
  BY <1>15 DEF RemoveRouteForNAT64, Error, Done, End, Goto, Fault, NoFault
<1>16. CASE SupportNetworkRemoved
  BY <1>16 DEF SupportNetworkRemoved
<1>17. CASE Kill
  <2>1. /\ UNCHANGED <<file, buf, exists, bak>>
        /\ disk' \in CutShort /\ dropin' \in DropInCutShort
    BY <1>17 DEF Kill
  <2>2. QED
    BY <2>1, CutHas, DropInCutHas
<1>18. CASE Reboot
  <2>1. /\ UNCHANGED <<file, buf, exists, bak>> /\ dropin' \in DropInCutShort
    BY <1>18 DEF Reboot
  <2>2. PICK left \in CutShort : disk' \in {left, [left EXCEPT !["kubeadm"] = Absent]}
    BY <1>18 DEF Reboot
  <2>3. left \in [Files -> Contents]
    BY CutHas
  <2>4. [left EXCEPT !["kubeadm"] = Absent] \in [Files -> Contents]
    BY ONLY <1>0, <2>3, OneFile
  <2>5. disk' \in [Files -> Contents]
    BY ONLY <2>2, <2>3, <2>4
  <2>6. QED
    BY <2>1, <2>5, DropInCutHas
<1>19. CASE UNCHANGED vars
  BY <1>19 DEF vars
<1>20. QED
  BY <1>1, <1>2, <1>3, <1>4, <1>5, <1>6, <1>7, <1>8, <1>9, <1>10, <1>11,
     <1>12, <1>13, <1>14, <1>15, <1>16, <1>17, <1>18, <1>19
  DEF Next, SaveStep, PrepareStep, CleanStep, Environment

LEMMA HostNext == TypeOK /\ RunInv /\ [Next]_vars => HostOK'
<1> SUFFICES ASSUME TypeOK, RunInv, [Next]_vars PROVE HostOK'
  OBVIOUS
<1> USE  DEF TypeOK, HostOK, ControlOK, RunInv, MgmtNets, DualStack,
            Gateways, RouteAdd, config, link, links
<1>1. CASE Prepare
  BY <1>1 DEF Prepare, Start
<1>2. CASE Cleanup
  BY <1>2 DEF Cleanup, Start
<1>3. ASSUME NEW f \in EtcFiles, ReadFile(f) PROVE HostOK'
  BY <1>3 DEF ReadFile, After, Error, Done, End, Goto, Fault, NoFault
<1>4. CASE CreateKubeAdmConfigFile
  BY <1>4 DEF CreateKubeAdmConfigFile, Error, Done, End, Goto, Fault,
              NoFault
<1>5. CASE BackUpFile
  BY <1>5 DEF BackUpFile, After, Error, Done, End, Goto, Fault, NoFault
<1>6. CASE WriteFile
  BY <1>6 DEF WriteFile, After, Error, Done, End, Goto, Fault, NoFault
<1>7. ASSUME NEW i \in {1, 2}, AddAddress(i) PROVE HostOK'
  BY <1>7 DEF AddAddress, Error, Done, End, Goto, Fault, NoFault
<1>8. CASE SetLinkMTU
  BY <1>8 DEF SetLinkMTU, Error, Done, End, Goto, Fault, NoFault
<1>9. CASE CreateKubeletDropInFile
  BY <1>9 DEF CreateKubeletDropInFile, After, Error, Done, End, Goto,
              Fault, NoFault
<1>10. CASE CreateRouteToNAT64ServerForDNS64Subnet
  BY <1>10 DEF CreateRouteToNAT64ServerForDNS64Subnet, Error, Done, End,
              Goto, Fault, NoFault
<1>11. CASE CreateRouteToSupportNetworkForOtherNodes
  BY <1>11 DEF CreateRouteToSupportNetworkForOtherNodes, Error, Done, End,
              Goto, Fault, NoFault
<1>12. CASE RemoveDropInFile
  BY <1>12 DEF RemoveDropInFile, Error, Done, End, Goto, Fault, NoFault
<1>13. ASSUME NEW i \in {1, 2}, RemoveManagementIP(i) PROVE HostOK'
  BY <1>13 DEF RemoveManagementIP, Error, Done, End, Goto, Fault, NoFault
<1>14. CASE RemoveRouteForDNS64
  BY <1>14 DEF RemoveRouteForDNS64, Error, Done, End, Goto, Fault, NoFault
<1>15. CASE RemoveRouteForNAT64
  BY <1>15 DEF RemoveRouteForNAT64, Error, Done, End, Goto, Fault, NoFault
<1>16. CASE SupportNetworkRemoved
  BY <1>16 DEF SupportNetworkRemoved
<1>17. CASE Kill
  BY <1>17 DEF Kill, Interrupt, CutShort, DropInCutShort
<1>18. CASE Reboot
  BY <1>18 DEF Reboot, Interrupt, CutShort, DropInCutShort
<1>19. CASE UNCHANGED vars
  BY <1>19 DEF vars
<1>20. QED
  BY <1>1, <1>2, <1>3, <1>4, <1>5, <1>6, <1>7, <1>8, <1>9, <1>10, <1>11,
     <1>12, <1>13, <1>14, <1>15, <1>16, <1>17, <1>18, <1>19
  DEF Next, SaveStep, PrepareStep, CleanStep, Environment

LEMMA FaultOrNot ==
  [Next]_vars => \/ Fault \/ NoFault \/ Interrupt
                 \/ UNCHANGED <<faults, kills>> /\ faulty' = FALSE
<1>1. SaveStep => Fault \/ NoFault
  BY DEF SaveStep, ReadFile, CreateKubeAdmConfigFile, BackUpFile, WriteFile
<1>2. PrepareStep => Fault \/ NoFault
  BY DEF PrepareStep, AddAddress, SetLinkMTU, CreateKubeletDropInFile,
         CreateRouteToNAT64ServerForDNS64Subnet,
         CreateRouteToSupportNetworkForOtherNodes
<1>3. CleanStep => Fault \/ NoFault
  BY DEF CleanStep, RemoveDropInFile, RemoveManagementIP,
         RemoveRouteForDNS64, RemoveRouteForNAT64
<1>4. Environment => Interrupt \/ NoFault
  BY DEF Environment, SupportNetworkRemoved, Kill, Reboot, NoFault
<1>5. Prepare \/ Cleanup => UNCHANGED <<faults, kills>> /\ faulty' = FALSE
  BY DEF Prepare, Cleanup, Start
<1>6. UNCHANGED vars => NoFault
  BY DEF vars, NoFault
<1>7. QED
  BY <1>1, <1>2, <1>3, <1>4, <1>5, <1>6 DEF Next

LEMMA LostStep ==
  [Next]_vars => lost' = lost \/ lost' = (lost \/ exists)
<1>1. SaveStep => lost' = lost \/ lost' = (lost \/ exists)
  BY DEF SaveStep, ReadFile, CreateKubeAdmConfigFile, BackUpFile, WriteFile
<1>2. PrepareStep => lost' = lost
  BY DEF PrepareStep, AddAddress, SetLinkMTU, CreateKubeletDropInFile,
         CreateRouteToNAT64ServerForDNS64Subnet,
         CreateRouteToSupportNetworkForOtherNodes
<1>3. CleanStep => lost' = lost
  BY DEF CleanStep, RemoveDropInFile, RemoveManagementIP,
         RemoveRouteForDNS64, RemoveRouteForNAT64
<1>4. Environment => lost' = lost
  BY DEF Environment, SupportNetworkRemoved, Kill, Reboot
<1>5. Prepare \/ Cleanup => lost' = lost
  BY DEF Prepare, Cleanup, Start
<1>6. UNCHANGED vars => lost' = lost
  BY DEF vars
<1>7. QED
  BY <1>1, <1>2, <1>3, <1>4, <1>5, <1>6 DEF Next

LEMMA FaultsNext == TypeOK /\ [Next]_vars => FaultsOK'
<1> SUFFICES ASSUME TypeOK, [Next]_vars PROVE FaultsOK'
  OBVIOUS
<1>1. /\ faults' \in 0..MaxFaults /\ kills' \in 0..MaxKills
      /\ faulty' \in BOOLEAN
  <2>1. CASE Fault
    BY <2>1, MaxFaultsAssumption, MaxKillsAssumption
    DEF Fault, TypeOK, FaultsOK
  <2>2. CASE NoFault
    BY <2>2 DEF NoFault, budget, TypeOK, FaultsOK
  <2>3. CASE Interrupt
    BY <2>3, MaxFaultsAssumption, MaxKillsAssumption
    DEF Interrupt, TypeOK, FaultsOK
  <2>4. CASE UNCHANGED <<faults, kills>> /\ faulty' = FALSE
    BY <2>4 DEF TypeOK, FaultsOK
  <2>5. QED
    BY <2>1, <2>2, <2>3, <2>4, FaultOrNot
<1>2. lost' \in BOOLEAN
  BY LostStep DEF TypeOK, FaultsOK, FilesOK
<1>3. QED
  BY <1>1, <1>2 DEF FaultsOK

LEMMA TypeNext == TypeOK /\ RunInv /\ [Next]_vars => TypeOK'
BY ControlNext, FilesNext, HostNext, FaultsNext DEF TypeOK

LEMMA RunNext == TypeOK /\ RunInv /\ RouteInv /\ [Next]_vars => RunInv'
<1> SUFFICES ASSUME TypeOK, RunInv, RouteInv, [Next]_vars PROVE RunInv'
  OBVIOUS
<1> USE  DEF TypeOK, ControlOK, FilesOK, Files, RunInv, RouteInv,
            DualStack, IPv6, Saves, RouteSteps, EtcFiles, PrepareSteps,
            CleanSteps, SaveSteps, config, control, save, budget
<1>1. CASE Prepare
  BY <1>1 DEF Prepare, Start
<1>2. CASE Cleanup
  BY <1>2 DEF Cleanup, Start
<1>3. ASSUME NEW f \in EtcFiles, ReadFile(f) PROVE RunInv'
  BY <1>3 DEF ReadFile, After, Error, Done, End, Goto, Fault, NoFault
<1>4. CASE CreateKubeAdmConfigFile
  BY <1>4 DEF CreateKubeAdmConfigFile, Error, Done, End, Goto, Fault,
              NoFault
<1>5. CASE BackUpFile
  BY <1>5 DEF BackUpFile, After, Error, Done, End, Goto, Fault, NoFault
<1>6. CASE WriteFile
  BY <1>6 DEF WriteFile, After, Error, Done, End, Goto, Fault, NoFault
<1>7. ASSUME NEW i \in {1, 2}, AddAddress(i) PROVE RunInv'
  BY <1>7 DEF AddAddress, Error, Done, End, Goto, Fault, NoFault
<1>8. CASE SetLinkMTU
  BY <1>8 DEF SetLinkMTU, Error, Done, End, Goto, Fault, NoFault
<1>9. CASE CreateKubeletDropInFile
  BY <1>9 DEF CreateKubeletDropInFile, After, Error, Done, End, Goto,
              Fault, NoFault
<1>10. CASE CreateRouteToNAT64ServerForDNS64Subnet
  BY <1>10 DEF CreateRouteToNAT64ServerForDNS64Subnet, Error, Done, End,
              Goto, Fault, NoFault
<1>11. CASE CreateRouteToSupportNetworkForOtherNodes
  BY <1>11 DEF CreateRouteToSupportNetworkForOtherNodes, Error, Done, End,
              Goto, Fault, NoFault
<1>12. CASE RemoveDropInFile
  BY <1>12 DEF RemoveDropInFile, Error, Done, End, Goto, Fault, NoFault
<1>13. ASSUME NEW i \in {1, 2}, RemoveManagementIP(i) PROVE RunInv'
  BY <1>13 DEF RemoveManagementIP, Error, Done, End, Goto, Fault, NoFault
<1>14. CASE RemoveRouteForDNS64
  BY <1>14 DEF RemoveRouteForDNS64, Error, Done, End, Goto, Fault, NoFault
<1>15. CASE RemoveRouteForNAT64
  BY <1>15 DEF RemoveRouteForNAT64, Error, Done, End, Goto, Fault, NoFault
<1>16. CASE SupportNetworkRemoved
  BY <1>16 DEF SupportNetworkRemoved
<1>17. CASE Kill
  BY <1>17 DEF Kill, Interrupt, CutShort, DropInCutShort
<1>18. CASE Reboot
  BY <1>18 DEF Reboot, Interrupt, CutShort, DropInCutShort
<1>19. CASE UNCHANGED vars
  BY <1>19 DEF vars
<1>20. QED
  BY <1>1, <1>2, <1>3, <1>4, <1>5, <1>6, <1>7, <1>8, <1>9, <1>10, <1>11,
     <1>12, <1>13, <1>14, <1>15, <1>16, <1>17, <1>18, <1>19
  DEF Next, SaveStep, PrepareStep, CleanStep, Environment

LEMMA RouteNext == TypeOK /\ RunInv /\ RouteInv /\ [Next]_vars => RouteInv'
<1> SUFFICES ASSUME TypeOK, RunInv, RouteInv, [Next]_vars PROVE RouteInv'
  OBVIOUS
<1> USE NatNodesAssumption DEF TypeOK, ControlOK, HostOK, RunInv, RouteInv,
            IPv6, Gateways, RouteAdd, RouteDel, RouteSteps, config,
            control, links
<1>1. CASE Prepare
  BY <1>1 DEF Prepare, Start
<1>2. CASE Cleanup
  BY <1>2 DEF Cleanup, Start
<1>3. ASSUME NEW f \in EtcFiles, ReadFile(f) PROVE RouteInv'
  BY <1>3 DEF ReadFile, After, Error, Done, End, Goto, Fault, NoFault
<1>4. CASE CreateKubeAdmConfigFile
  BY <1>4 DEF CreateKubeAdmConfigFile, Error, Done, End, Goto, Fault,
              NoFault
<1>5. CASE BackUpFile
  BY <1>5 DEF BackUpFile, After, Error, Done, End, Goto, Fault, NoFault
<1>6. CASE WriteFile
  BY <1>6 DEF WriteFile, After, Error, Done, End, Goto, Fault, NoFault
<1>7. ASSUME NEW i \in {1, 2}, AddAddress(i) PROVE RouteInv'
  BY <1>7 DEF AddAddress, Error, Done, End, Goto, Fault, NoFault
<1>8. CASE SetLinkMTU
  BY <1>8 DEF SetLinkMTU, Error, Done, End, Goto, Fault, NoFault
<1>9. CASE CreateKubeletDropInFile
  BY <1>9 DEF CreateKubeletDropInFile, After, Error, Done, End, Goto,
              Fault, NoFault
<1>10. CASE CreateRouteToNAT64ServerForDNS64Subnet
  <2>1. /\ UNCHANGED <<support, mode, gateways, cmd, supRoute, supNet>>
        /\ IPv6 /\ cmd = "prepare"
        /\ dnsRoute' = dnsRoute \/ dnsRoute' \in RouteAdd(dnsRoute)
    BY <1>10 DEF CreateRouteToNAT64ServerForDNS64Subnet, PrepareSteps, CleanSteps
  <2>2. dnsRoute' \in {"none"} \union Gateways
    BY <2>1
  <2>3. QED
    BY <2>1, <2>2
<1>11. CASE CreateRouteToSupportNetworkForOtherNodes
  BY <1>11 DEF CreateRouteToSupportNetworkForOtherNodes, Error, Done, End,
              Goto, Fault, NoFault
<1>12. CASE RemoveDropInFile
  BY <1>12 DEF RemoveDropInFile, Error, Done, End, Goto, Fault, NoFault
<1>13. ASSUME NEW i \in {1, 2}, RemoveManagementIP(i) PROVE RouteInv'
  BY <1>13 DEF RemoveManagementIP, Error, Done, End, Goto, Fault, NoFault
<1>14. CASE RemoveRouteForDNS64
  BY <1>14 DEF RemoveRouteForDNS64, Error, Done, End, Goto, Fault, NoFault
<1>15. CASE RemoveRouteForNAT64
  BY <1>15 DEF RemoveRouteForNAT64, Error, Done, End, Goto, Fault, NoFault
<1>16. CASE SupportNetworkRemoved
  BY <1>16 DEF SupportNetworkRemoved
<1>17. CASE Kill
  BY <1>17 DEF Kill, Interrupt, CutShort, DropInCutShort
<1>18. CASE Reboot
  BY <1>18 DEF Reboot, Interrupt, CutShort, DropInCutShort
<1>19. CASE UNCHANGED vars
  BY <1>19 DEF vars
<1>20. QED
  BY <1>1, <1>2, <1>3, <1>4, <1>5, <1>6, <1>7, <1>8, <1>9, <1>10, <1>11,
     <1>12, <1>13, <1>14, <1>15, <1>16, <1>17, <1>18, <1>19
  DEF Next, SaveStep, PrepareStep, CleanStep, Environment

LEMMA SaveNext == TypeOK /\ RunInv /\ SaveInv /\ [Next]_vars => SaveInv'
<1> SUFFICES ASSUME TypeOK, RunInv, SaveInv, [Next]_vars PROVE SaveInv'
  OBVIOUS
<1> USE  DEF TypeOK, ControlOK, FilesOK, RunInv, SaveInv, Saves,
            KubeAdmConf, Absent, Original, Torn, Updated, Reverted,
            Contents, Present, Files, EtcFiles, PrepareSteps, CleanSteps,
            SaveSteps, config, control, save, files
<1>1. CASE Prepare
  BY <1>1 DEF Prepare, Start
<1>2. CASE Cleanup
  BY <1>2 DEF Cleanup, Start
<1>3. ASSUME NEW f \in EtcFiles, ReadFile(f) PROVE SaveInv'
  <2>1. UNCHANGED <<cmd, disk, bak, exists>> /\ pc = f
    BY <1>3 DEF ReadFile
  <2>2. CASE pc' = "backup" /\ file' = f /\ disk[f].there
               /\ buf' = IF cmd = "prepare" THEN Updated(disk[f])
                                          ELSE Reverted(disk[f])
    <3>1. buf'.whole = disk[f].whole /\ (buf'.ours <=> cmd = "prepare")
      BY <2>2, Shapes
    <3>2. QED
      BY <2>1, <2>2, <3>1
  <2>3. CASE pc' \notin SaveSteps
    BY <2>1, <2>3
  <2>4. QED
    BY <1>3, <2>2, <2>3 DEF ReadFile, After, Error, End, Goto
<1>4. CASE CreateKubeAdmConfigFile
  BY <1>4 DEF CreateKubeAdmConfigFile, Error, Done, End, Goto, Fault,
              NoFault
<1>5. CASE BackUpFile
  BY <1>5 DEF BackUpFile, After, Error, Done, End, Goto, Fault, NoFault
<1>6. CASE WriteFile
  BY <1>6 DEF WriteFile, After, Error, Done, End, Goto, Fault, NoFault
<1>7. ASSUME NEW i \in {1, 2}, AddAddress(i) PROVE SaveInv'
  BY <1>7 DEF AddAddress, Error, Done, End, Goto, Fault, NoFault
<1>8. CASE SetLinkMTU
  BY <1>8 DEF SetLinkMTU, Error, Done, End, Goto, Fault, NoFault
<1>9. CASE CreateKubeletDropInFile
  BY <1>9 DEF CreateKubeletDropInFile, After, Error, Done, End, Goto,
              Fault, NoFault
<1>10. CASE CreateRouteToNAT64ServerForDNS64Subnet
  BY <1>10 DEF CreateRouteToNAT64ServerForDNS64Subnet, Error, Done, End,
              Goto, Fault, NoFault
<1>11. CASE CreateRouteToSupportNetworkForOtherNodes
  BY <1>11 DEF CreateRouteToSupportNetworkForOtherNodes, Error, Done, End,
              Goto, Fault, NoFault
<1>12. CASE RemoveDropInFile
  BY <1>12 DEF RemoveDropInFile, Error, Done, End, Goto, Fault, NoFault
<1>13. ASSUME NEW i \in {1, 2}, RemoveManagementIP(i) PROVE SaveInv'
  BY <1>13 DEF RemoveManagementIP, Error, Done, End, Goto, Fault, NoFault
<1>14. CASE RemoveRouteForDNS64
  BY <1>14 DEF RemoveRouteForDNS64, Error, Done, End, Goto, Fault, NoFault
<1>15. CASE RemoveRouteForNAT64
  BY <1>15 DEF RemoveRouteForNAT64, Error, Done, End, Goto, Fault, NoFault
<1>16. CASE SupportNetworkRemoved
  BY <1>16 DEF SupportNetworkRemoved
<1>17. CASE Kill
  BY <1>17 DEF Kill, Interrupt, CutShort, DropInCutShort
<1>18. CASE Reboot
  BY <1>18 DEF Reboot, Interrupt, CutShort, DropInCutShort
<1>19. CASE UNCHANGED vars
  BY <1>19 DEF vars
<1>20. QED
  BY <1>1, <1>2, <1>3, <1>4, <1>5, <1>6, <1>7, <1>8, <1>9, <1>10, <1>11,
     <1>12, <1>13, <1>14, <1>15, <1>16, <1>17, <1>18, <1>19
  DEF Next, SaveStep, PrepareStep, CleanStep, Environment

LEMMA SurviveNext == TypeOK /\ RunInv /\ SaveInv /\ SurviveInv /\ [Next]_vars
  => SurviveInv'
<1> SUFFICES ASSUME TypeOK, RunInv, SaveInv, SurviveInv, [Next]_vars PROVE
             SurviveInv'
  OBVIOUS
<1> USE  DEF TypeOK, ControlOK, FilesOK, FaultsOK, SaveInv, SurviveInv,
            KubeAdmConf, Absent, Original, Torn, Updated, Reverted,
            Contents, Present, Files, EtcFiles, PrepareSteps, CleanSteps,
            SaveSteps, save, files, budget
<1>1. CASE Prepare
  BY <1>1 DEF Prepare, Start
<1>2. CASE Cleanup
  BY <1>2 DEF Cleanup, Start
<1>3. ASSUME NEW f \in EtcFiles, ReadFile(f) PROVE SurviveInv'
  BY <1>3 DEF ReadFile, After, Error, Done, End, Goto, Fault, NoFault
<1>4. CASE CreateKubeAdmConfigFile
  BY <1>4 DEF CreateKubeAdmConfigFile, Error, Done, End, Goto, Fault,
              NoFault
<1>5. CASE BackUpFile
  BY <1>5 DEF BackUpFile, After, Error, Done, End, Goto, Fault, NoFault
<1>6. CASE WriteFile
  BY <1>6 DEF WriteFile, After, Error, Done, End, Goto, Fault, NoFault
<1>7. ASSUME NEW i \in {1, 2}, AddAddress(i) PROVE SurviveInv'
  BY <1>7 DEF AddAddress, Error, Done, End, Goto, Fault, NoFault
<1>8. CASE SetLinkMTU
  BY <1>8 DEF SetLinkMTU, Error, Done, End, Goto, Fault, NoFault
<1>9. CASE CreateKubeletDropInFile
  BY <1>9 DEF CreateKubeletDropInFile, After, Error, Done, End, Goto,
              Fault, NoFault
<1>10. CASE CreateRouteToNAT64ServerForDNS64Subnet
  BY <1>10 DEF CreateRouteToNAT64ServerForDNS64Subnet, Error, Done, End,
              Goto, Fault, NoFault
<1>11. CASE CreateRouteToSupportNetworkForOtherNodes
  BY <1>11 DEF CreateRouteToSupportNetworkForOtherNodes, Error, Done, End,
              Goto, Fault, NoFault
<1>12. CASE RemoveDropInFile
  BY <1>12 DEF RemoveDropInFile, Error, Done, End, Goto, Fault, NoFault
<1>13. ASSUME NEW i \in {1, 2}, RemoveManagementIP(i) PROVE SurviveInv'
  BY <1>13 DEF RemoveManagementIP, Error, Done, End, Goto, Fault, NoFault
<1>14. CASE RemoveRouteForDNS64
  BY <1>14 DEF RemoveRouteForDNS64, Error, Done, End, Goto, Fault, NoFault
<1>15. CASE RemoveRouteForNAT64
  BY <1>15 DEF RemoveRouteForNAT64, Error, Done, End, Goto, Fault, NoFault
<1>16. CASE SupportNetworkRemoved
  BY <1>16 DEF SupportNetworkRemoved
<1>17. CASE Kill
  BY <1>17 DEF Kill, Interrupt, CutShort, DropInCutShort
<1>18. CASE Reboot
  BY <1>18 DEF Reboot, Interrupt, CutShort, DropInCutShort
<1>19. CASE UNCHANGED vars
  BY <1>19 DEF vars
<1>20. QED
  BY <1>1, <1>2, <1>3, <1>4, <1>5, <1>6, <1>7, <1>8, <1>9, <1>10, <1>11,
     <1>12, <1>13, <1>14, <1>15, <1>16, <1>17, <1>18, <1>19
  DEF Next, SaveStep, PrepareStep, CleanStep, Environment

LEMMA PrepareNext == TypeOK /\ RunInv /\ RouteInv /\ SaveInv /\ PrepareInv /\
  [Next]_vars => PrepareInv'
<1> SUFFICES ASSUME TypeOK, RunInv, RouteInv, SaveInv, PrepareInv, [Next]_vars
             PROVE PrepareInv'
  OBVIOUS
<1> USE  DEF TypeOK, ControlOK, FilesOK, HostOK, RunInv, RouteInv, SaveInv,
            PrepareInv, PrepareIsComplete, PrepareResumes, PastHosts,
            PastResolv, PastDropIn, RouteSteps, Saves, DualStack, IPv6,
            MgmtNets, Gateways, RouteAdd, KubeAdmConf, Absent, Original,
            Torn, Updated, Reverted, Contents, Present, Files, EtcFiles,
            PrepareSteps, CleanSteps, SaveSteps, config, control, save,
            link, files, links, budget
<1>1. CASE Prepare
  BY <1>1 DEF Prepare, Start
<1>2. CASE Cleanup
  BY <1>2 DEF Cleanup, Start
<1>3. ASSUME NEW f \in EtcFiles, ReadFile(f) PROVE PrepareInv'
  BY <1>3 DEF ReadFile, After, Error, Done, End, Goto, Fault, NoFault
<1>4. CASE CreateKubeAdmConfigFile
  BY <1>4 DEF CreateKubeAdmConfigFile, Error, Done, End, Goto, Fault,
              NoFault
<1>5. CASE BackUpFile
  BY <1>5 DEF BackUpFile, After, Error, Done, End, Goto, Fault, NoFault
<1>6. CASE WriteFile
  BY <1>6, ZenonT(30) DEF WriteFile, After, Error, Done, End, Goto, Fault, NoFault
<1>7. ASSUME NEW i \in {1, 2}, AddAddress(i) PROVE PrepareInv'
  <2>1. /\ UNCHANGED <<mode, master, support, gateways, cmd, disk, dropin, mtu,
                     dnsRoute, supRoute>>
        /\ cmd = "prepare" /\ pc = IF i = 1 THEN "addr1" ELSE "addr2"
    BY <1>7 DEF AddAddress
  <2>2. CASE /\ addrs' = addrs \union {i}
             /\ pc' = IF i = 1 /\ DualStack THEN "addr2" ELSE "mtu"
             /\ result' = result
    <3>1. CASE i = 1
      BY <2>1, <2>2, <3>1
    <3>2. CASE i = 2
      <4>1. DualStack /\ 1 \in addrs
        BY <2>1, <3>2
      <4>2. addrs' = MgmtNets
        BY <2>1, <2>2, <3>2, <4>1
      <4>3. QED
        BY <2>1, <2>2, <3>2, <4>2
    <3>3. QED
      BY <3>1, <3>2
  <2>3. CASE pc' = "idle" /\ result' = "error" /\ faulty'
    BY <2>1, <2>3
  <2>4. QED
    BY <1>7, <2>1, <2>2, <2>3 DEF AddAddress, Done, Error, End, Goto, Fault
<1>8. CASE SetLinkMTU
  BY <1>8 DEF SetLinkMTU, Error, Done, End, Goto, Fault, NoFault
<1>9. CASE CreateKubeletDropInFile
  BY <1>9 DEF CreateKubeletDropInFile, After, Error, Done, End, Goto,
              Fault, NoFault
<1>10. CASE CreateRouteToNAT64ServerForDNS64Subnet
  <2>1. /\ "none" \notin RouteAdd(dnsRoute)
        /\ RouteAdd(dnsRoute) = {} => Gateways = {}
    BY RouteAddIsRoute
  <2> HIDE DEF RouteAdd
  <2>2. QED
    BY <1>10, <2>1 DEF CreateRouteToNAT64ServerForDNS64Subnet, Error, Done, End,
                     Goto, Fault, NoFault
<1>11. CASE CreateRouteToSupportNetworkForOtherNodes
  <2>1. /\ "none" \notin RouteAdd(supRoute)
        /\ RouteAdd(supRoute) = {} => Gateways = {}
    BY RouteAddIsRoute
  <2> HIDE DEF RouteAdd
  <2>2. QED
    BY <1>11, <2>1 DEF CreateRouteToSupportNetworkForOtherNodes, Error, Done, End,
                     Goto, Fault, NoFault
<1>12. CASE RemoveDropInFile
  BY <1>12 DEF RemoveDropInFile, Error, Done, End, Goto, Fault, NoFault
<1>13. ASSUME NEW i \in {1, 2}, RemoveManagementIP(i) PROVE PrepareInv'
  BY <1>13 DEF RemoveManagementIP, Error, Done, End, Goto, Fault, NoFault
<1>14. CASE RemoveRouteForDNS64
  BY <1>14 DEF RemoveRouteForDNS64, Error, Done, End, Goto, Fault, NoFault
<1>15. CASE RemoveRouteForNAT64
  BY <1>15 DEF RemoveRouteForNAT64, Error, Done, End, Goto, Fault, NoFault
<1>16. CASE SupportNetworkRemoved
  BY <1>16 DEF SupportNetworkRemoved
<1>17. CASE Kill
  BY <1>17 DEF Kill, Interrupt, CutShort, DropInCutShort
<1>18. CASE Reboot
  BY <1>18 DEF Reboot, Interrupt, CutShort, DropInCutShort
<1>19. CASE UNCHANGED vars
  BY <1>19 DEF vars
<1>20. QED
  BY <1>1, <1>2, <1>3, <1>4, <1>5, <1>6, <1>7, <1>8, <1>9, <1>10, <1>11,
     <1>12, <1>13, <1>14, <1>15, <1>16, <1>17, <1>18, <1>19
  DEF Next, SaveStep, PrepareStep, CleanStep, Environment

LEMMA CleanNext == TypeOK /\ RunInv /\ RouteInv /\ SaveInv /\ CleanInv /\
  [Next]_vars => CleanInv'
<1> SUFFICES ASSUME TypeOK, RunInv, RouteInv, SaveInv, CleanInv, [Next]_vars
             PROVE CleanInv'
  OBVIOUS
<1> USE  DEF TypeOK, ControlOK, FilesOK, HostOK, RunInv, RouteInv, SaveInv,
            CleanInv, CleanIsComplete, Restored, SingleGateway, PastHosts,
            PastResolv, PastDropIn, RouteSteps, Saves, DualStack, IPv6,
            MgmtNets, Gateways, RouteDel, KubeAdmConf, Absent, Original,
            Torn, Updated, Reverted, Contents, Present, Files, EtcFiles,
            PrepareSteps, CleanSteps, SaveSteps, config, control, save,
            link, files, links, budget
<1>1. CASE Prepare
  BY <1>1 DEF Prepare, Start
<1>2. CASE Cleanup
  BY <1>2 DEF Cleanup, Start
<1>3. ASSUME NEW f \in EtcFiles, ReadFile(f) PROVE CleanInv'
  <2>1. /\ UNCHANGED <<cmd, disk, dropin, addrs, dnsRoute, supRoute, mode,
                     gateways>>
        /\ pc = f /\ (faulty => faulty') /\ result' # "ok"
    BY <1>3 DEF ReadFile, Fault, NoFault, Error, End, Goto
  <2>2. CASE pc' = "backup" /\ file' = f /\ errs' = errs
    <3>1. (PastHosts' => PastHosts) /\ (PastResolv' => PastResolv)
      BY <2>1, <2>2
    <3>2. QED
      BY <2>1, <2>2, <3>1
  <2>3. CASE cmd = "clean" /\ errs' /\ (faulty' \/ ~disk[f].there)
               /\ pc' = After(f)
    <3>1. faulty' \/ ~disk[f].ours
      BY <2>3, AbsentIsNotOurs
    <3>2. QED
      BY <2>1, <2>3, <3>1 DEF After
  <2>4. CASE cmd # "clean"
    BY <2>1, <2>4
  <2>5. QED
    BY <1>3, <2>1, <2>2, <2>3, <2>4 DEF ReadFile, Error, End, Goto, Fault, After
<1>4. CASE CreateKubeAdmConfigFile
  BY <1>4 DEF CreateKubeAdmConfigFile, Error, Done, End, Goto, Fault,
              NoFault
<1>5. CASE BackUpFile
  BY <1>5 DEF BackUpFile, After, Error, Done, End, Goto, Fault, NoFault
<1>6. CASE WriteFile
  BY <1>6, ZenonT(40) DEF WriteFile, After, Error, Done, End, Goto, Fault, NoFault
<1>7. ASSUME NEW i \in {1, 2}, AddAddress(i) PROVE CleanInv'
  BY <1>7 DEF AddAddress, Error, Done, End, Goto, Fault, NoFault
<1>8. CASE SetLinkMTU
  BY <1>8 DEF SetLinkMTU, Error, Done, End, Goto, Fault, NoFault
<1>9. CASE CreateKubeletDropInFile
  BY <1>9 DEF CreateKubeletDropInFile, After, Error, Done, End, Goto,
              Fault, NoFault
<1>10. CASE CreateRouteToNAT64ServerForDNS64Subnet
  BY <1>10 DEF CreateRouteToNAT64ServerForDNS64Subnet, Error, Done, End,
              Goto, Fault, NoFault
<1>11. CASE CreateRouteToSupportNetworkForOtherNodes
  BY <1>11 DEF CreateRouteToSupportNetworkForOtherNodes, Error, Done, End,
              Goto, Fault, NoFault
<1>12. CASE RemoveDropInFile
  BY <1>12 DEF RemoveDropInFile, Error, Done, End, Goto, Fault, NoFault
<1>13. ASSUME NEW i \in {1, 2}, RemoveManagementIP(i) PROVE CleanInv'
  <2>1. /\ UNCHANGED <<mode, support, gateways, cmd, disk, dropin, dnsRoute>>
        /\ pc = IF i = 1 THEN "rmAddr1" ELSE "rmAddr2"
        /\ (faulty => faulty') /\ result' = result /\ cmd = "clean"
    BY <1>13 DEF RemoveManagementIP, Fault, NoFault, Done, Error, Goto, End
  <2>2. CASE /\ addrs' = addrs \ {i} /\ errs' = errs
             /\ pc' = IF i = 1 /\ DualStack THEN "rmAddr2" ELSE "hosts"
    <3>1. CASE i = 1
      BY <2>1, <2>2, <3>1
    <3>2. CASE i = 2
      BY <2>1, <2>2, <3>2
    <3>3. QED
      BY <3>1, <3>2
  <2>3. CASE /\ pc' = "hosts" /\ errs' /\ addrs' = addrs
             /\ faulty' \/ i \notin addrs
    BY <2>1, <2>3
  <2>4. QED
    BY <1>13, <2>1, <2>2, <2>3 DEF RemoveManagementIP, Done, Error, Goto, End, Fault
<1>14. CASE RemoveRouteForDNS64
  BY <1>14 DEF RemoveRouteForDNS64, Error, Done, End, Goto, Fault, NoFault
<1>15. CASE RemoveRouteForNAT64
  BY <1>15 DEF RemoveRouteForNAT64, Error, Done, End, Goto, Fault, NoFault
<1>16. CASE SupportNetworkRemoved
  BY <1>16 DEF SupportNetworkRemoved
<1>17. CASE Kill
  BY <1>17 DEF Kill, Interrupt, CutShort, DropInCutShort
<1>18. CASE Reboot
  BY <1>18 DEF Reboot, Interrupt, CutShort, DropInCutShort
<1>19. CASE UNCHANGED vars
  BY <1>19 DEF vars
<1>20. QED
  BY <1>1, <1>2, <1>3, <1>4, <1>5, <1>6, <1>7, <1>8, <1>9, <1>10, <1>11,
     <1>12, <1>13, <1>14, <1>15, <1>16, <1>17, <1>18, <1>19
  DEF Next, SaveStep, PrepareStep, CleanStep, Environment

LEMMA Invariance == Spec => []IInv
<1>1. IInv /\ [Next]_vars => IInv'
  BY TypeNext, RunNext, RouteNext, SaveNext, SurviveNext, PrepareNext,
     CleanNext DEF IInv
<1>2. QED
  BY InitInv, <1>1, PTL DEF Spec

-----------------------------------------------------------------------------
(* Theorems *)

(* Every variable keeps to its domain, and a step belongs to its command,  *)
(* for any nodes and any number of faults.                                 *)
THEOREM TypeCorrect == Spec => []TypeOK
<1>1. IInv => TypeOK
  BY DEF IInv
<1>2. QED
  BY Invariance, <1>1, PTL

(* A PrepareClusterNode that returns nil has everything in place that up   *)
(* relies on, whatever any number of faults before it have left.           *)
THEOREM PrepareCompletes == Spec => []PrepareIsComplete
<1>1. IInv => PrepareIsComplete
  BY DEF IInv, PrepareInv
<1>2. QED
  BY Invariance, <1>1, PTL

(* A prepare that meets no fault fails only for a file that is gone or for *)
(* want of a node with NAT64, never for what has been done already.        *)
THEOREM PrepareGoesOn == Spec => []PrepareResumes
<1>1. IInv => PrepareResumes
  BY DEF IInv, PrepareInv
<1>2. QED
  BY Invariance, <1>1, PTL

(* A CleanupClusterNode that reports no error has taken everything back.   *)
THEOREM CleanCompletes == Spec => []CleanIsComplete
<1>1. IInv => CleanIsComplete
  BY DEF IInv, CleanInv
<1>2. QED
  BY Invariance, <1>1, PTL

(* A clean that meets no fault takes everything back from every state,     *)
(* with one management network and one node with NAT64: the errors that it *)
(* collects keep it from nothing.                                          *)
THEOREM CleanAlwaysConverges == Spec => []CleanConverges
<1>1. ASSUME IInv, Cardinality(gateways) = 1 PROVE SingleGateway
  <2>1. gateways \subseteq NatNodes
    BY <1>1 DEF IInv, TypeOK, ControlOK
  <2>2. IsFiniteSet(gateways)
    BY <2>1, NatNodesAssumption, FS_Subset
  <2>3. PICK g : gateways = {g}
    BY <1>1, <2>2, FS_Singleton
  <2>4. QED
    BY <2>1, <2>3 DEF SingleGateway
<1>2. IInv => CleanConverges
  BY <1>1 DEF IInv, CleanInv, CleanConverges
<1>3. QED
  BY Invariance, <1>2, PTL

(* Failing calls never cost a file, as long as nothing is killed and       *)
(* RecoverFile itself does not fail.                                       *)
THEOREM FaultsLoseNoFile == Spec => []FilesSurviveFaults
<1>1. IInv => FilesSurviveFaults
  BY DEF IInv, SurviveInv, FilesSurviveFaults
<1>2. QED
  BY Invariance, <1>1, PTL

-----------------------------------------------------------------------------
(* The last copy of a file *)

LEMMA CopyStays ==
  ASSUME IInv, [Next]_vars, NEW f \in EtcFiles, HasCopy(f)
  PROVE  HasCopy(f)' \/ (pc = "backup" /\ ~disk[f].whole)
<1> USE DEF IInv, TypeOK, FilesOK, Files, EtcFiles, HasCopy
<1>1. ASSUME UNCHANGED <<disk, bak>> PROVE HasCopy(f)'
  BY <1>1
<1>2. CASE Prepare \/ Cleanup \/ PrepareStep \/ CleanStep \/ UNCHANGED vars
  <2>1. UNCHANGED <<disk, bak>>
    BY <1>2 DEF Prepare, Cleanup, Start, PrepareStep, AddAddress, SetLinkMTU,
       CreateKubeletDropInFile, CreateRouteToNAT64ServerForDNS64Subnet,
       CreateRouteToSupportNetworkForOtherNodes, CleanStep, RemoveDropInFile,
       RemoveManagementIP, RemoveRouteForDNS64, RemoveRouteForNAT64, vars,
       files
  <2>2. QED
    BY <2>1, <1>1
<1>3. CASE SaveStep
  <2>1. ASSUME NEW g \in EtcFiles, ReadFile(g) PROVE UNCHANGED <<disk, bak>>
    BY <2>1 DEF ReadFile, files
  <2>2. CASE CreateKubeAdmConfigFile
    BY <2>2, <1>1 DEF CreateKubeAdmConfigFile, files
  <2>3. CASE BackUpFile
    <3>1. pc = "backup"
      BY <2>3 DEF BackUpFile
    <3>2. CASE UNCHANGED <<disk, bak>>
      BY <3>2, <1>1
    <3>3. CASE /\ bak' = [bak EXCEPT ![file] = disk[file]]
               /\ disk' = [disk EXCEPT ![file] = Absent] /\ disk[file].there
      BY <3>1, <3>3
    <3>4. QED
      BY <2>3, <3>2, <3>3 DEF BackUpFile
  <2>4. CASE WriteFile
    <3>1. pc = "write"
      BY <2>4 DEF WriteFile
    <3>2. file = f => ~disk[f].there
      BY <3>1 DEF SaveInv
    <3>3. CASE bak' = bak /\ \E c : disk' = [disk EXCEPT ![file] = c]
      BY <3>2, <3>3
    <3>4. CASE /\ disk' = [disk EXCEPT ![file] = bak[file]]
               /\ bak' = [bak EXCEPT ![file] = Absent]
      BY <3>2, <3>4
    <3>5. QED
      BY <2>4, <3>3, <3>4 DEF WriteFile
  <2>5. QED
    BY <1>3, <1>1, <2>1, <2>2, <2>3, <2>4 DEF SaveStep
<1>4. CASE Environment
  <2>1. CASE SupportNetworkRemoved
    BY <2>1, <1>1 DEF SupportNetworkRemoved, files
  <2>2. CASE Kill
    <3>1. CASE pc = "write"
      <4>1. bak' = bak /\ (disk' = disk
                             \/ \E c : disk' = [disk EXCEPT ![file] = c])
        BY <2>2, CutHas DEF Kill
      <4>2. file = f => ~disk[f].there
        BY <3>1 DEF SaveInv
      <4>3. QED
        BY <4>1, <4>2
    <3>2. CASE pc # "write"
      BY <2>2, <3>2, <1>1, CutHas DEF Kill
    <3>3. QED
      BY <3>1, <3>2
  <2>3. CASE Reboot
    <3>1. PICK left \in CutShort :
            disk' \in {left, [left EXCEPT !["kubeadm"] = Absent]}
      BY <2>3 DEF Reboot
    <3>2. bak' = bak /\ disk'[f] = left[f]
      BY <2>3, <3>1, CutHas DEF Reboot
    <3>3. CASE left = disk
      BY <3>2, <3>3
    <3>4. CASE pc = "write" /\ \E c : left = [disk EXCEPT ![file] = c]
      <4>1. file = f => ~disk[f].there
        BY <3>4 DEF SaveInv
      <4>2. QED
        BY <3>2, <3>4, <4>1
    <3>5. QED
      BY <3>1, <3>3, <3>4, CutHas
  <2>4. QED
    BY <1>4, <2>1, <2>2, <2>3 DEF Environment
<1>5. QED
  BY <1>2, <1>3, <1>4 DEF Next

(* Neither a failing call nor a kill loses the last whole copy of a file,  *)
(* on disk or in its backup: only a later save of a torn file does.        *)
THEOREM OnlyResaveLosesCopy == Spec => LastCopyLostByResaveOnly
<1>1. IInv /\ [Next]_vars =>
        [\A f \in EtcFiles :
           HasCopy(f) => HasCopy(f)' \/ (pc = "backup" /\ ~disk[f].whole)]_vars
  BY CopyStays
<1>2. QED
  BY Invariance, <1>1, PTL DEF Spec, LastCopyLostByResaveOnly

-----------------------------------------------------------------------------
(* ClusterNode implements HostSetup *)

WholeItems == {i \in Items : Whole(i)}
LeftItems  == {i \in Items : Left(i)}

LEMMA SetupInit == Init => Setup!Init
<1> SUFFICES ASSUME Init PROVE Setup!Init
  OBVIOUS
<1>1. /\ WholeItems \subseteq Items /\ LeftItems \subseteq Items
      /\ Goal \subseteq Items
  BY DEF WholeItems, LeftItems, Goal, Items, Files, EtcFiles
<1>2. Task = "none" /\ Outcome = "none"
  BY DEF Init, Task, Outcome
<1>3. QED
  BY <1>1, <1>2 DEF Setup!Init, WholeItems, LeftItems

(* A step of a running command, ...                                        *)
Running == SaveStep \/ PrepareStep \/ CleanStep \/ Kill

Runs(c) ==
  /\ pc # "idle" /\ cmd = c /\ cmd' = c /\ UNCHANGED config
  /\ result' # "none"

(* ... of prepare: what it does not write anew stays, ...                  *)
PrepareKeeps ==
  /\ Runs("prepare")
  /\ addrs \subseteq addrs' /\ (mtu = "pod" => mtu' = "pod")
  /\ dnsRoute # "none" => dnsRoute' # "none"
  /\ supRoute # "none" => supRoute' # "none"

(* ... of clean: nothing comes up.                                         *)
CleanTakes ==
  /\ Runs("clean")
  /\ addrs' \subseteq addrs /\ mtu' = mtu /\ dropin' \in {dropin, Absent}
  /\ dnsRoute' \in {dnsRoute, "none"} /\ supRoute' \in {supRoute, "none"}
  /\ disk'["kubeadm"] = disk["kubeadm"]
  /\ \A f \in EtcFiles : Current(f)'.ours => Current(f).ours

LEMMA RunningRuns ==
  ASSUME IInv, Running PROVE Runs("prepare") \/ Runs("clean")
<1>1. pc # "idle" /\ UNCHANGED <<config, cmd>> /\ cmd \in {"prepare", "clean"}
      /\ result = "running"
  <2>1. pc # "idle" /\ UNCHANGED <<config, cmd>>
    BY DEF Running, SaveStep, ReadFile, CreateKubeAdmConfigFile, BackUpFile,
       WriteFile, PrepareStep, AddAddress, SetLinkMTU, CreateKubeletDropInFile,
       CreateRouteToNAT64ServerForDNS64Subnet,
       CreateRouteToSupportNetworkForOtherNodes, CleanStep, RemoveDropInFile,
       RemoveManagementIP, RemoveRouteForDNS64, RemoveRouteForNAT64, Kill,
       control, EtcFiles
  <2>2. QED
    BY <2>1 DEF IInv, TypeOK, ControlOK, RunInv
<1>2. result' # "none"
  BY <1>1 DEF Running, SaveStep, ReadFile, CreateKubeAdmConfigFile, BackUpFile,
     WriteFile, PrepareStep, AddAddress, SetLinkMTU, CreateKubeletDropInFile,
     CreateRouteToNAT64ServerForDNS64Subnet,
     CreateRouteToSupportNetworkForOtherNodes, CleanStep, RemoveDropInFile,
     RemoveManagementIP, RemoveRouteForDNS64, RemoveRouteForNAT64, Kill,
     Goto, End, Error, Done, Interrupt
<1>3. QED
  BY <1>1, <1>2 DEF Runs

(* A clean that is cut short has not written entries.                      *)
LEMMA CutTakes ==
  ASSUME IInv, cmd = "clean", NEW d \in CutShort
  PROVE  /\ d["kubeadm"] = disk["kubeadm"]
         /\ \A f \in EtcFiles :
              (IF d[f].there THEN d[f] ELSE bak[f]).ours => Current(f).ours
<1>1. CASE d = disk
  BY <1>1 DEF Current
<1>2. ASSUME pc = "write", NEW c \in Torn(buf), d = [disk EXCEPT ![file] = c]
      PROVE  /\ d["kubeadm"] = disk["kubeadm"]
             /\ \A f \in EtcFiles :
                  (IF d[f].there THEN d[f] ELSE bak[f]).ours => Current(f).ours
  <2>1. file # "kubeadm" /\ ~buf.ours
    BY <1>2 DEF IInv, RunInv, SaveInv, Saves, SaveSteps
  <2>2. c.there /\ ~c.ours
    BY <2>1, Shapes DEF IInv, TypeOK, FilesOK
  <2>3. QED
    BY <1>2, <2>1, <2>2 DEF Current, IInv, TypeOK, FilesOK
<1>3. QED
  BY <1>1, <1>2, CutHas DEF IInv, TypeOK

(* Nor does a step of clean write any.                                     *)
LEMMA CurrentStep ==
  ASSUME IInv, Running, Runs("clean"), NEW f \in EtcFiles
  PROVE  Current(f)'.ours => Current(f).ours
<1> USE DEF IInv, TypeOK, FilesOK, Files, EtcFiles
<1>1. ASSUME UNCHANGED <<disk, bak>> PROVE Current(f)' = Current(f)
  BY <1>1 DEF Current
<1>2. CASE PrepareStep \/ CleanStep
  <2>1. UNCHANGED <<disk, bak>>
    BY <1>2 DEF PrepareStep, AddAddress, SetLinkMTU,
       CreateKubeletDropInFile, CreateRouteToNAT64ServerForDNS64Subnet,
       CreateRouteToSupportNetworkForOtherNodes, CleanStep, RemoveDropInFile,
       RemoveManagementIP, RemoveRouteForDNS64, RemoveRouteForNAT64, files
  <2>2. QED
    BY <2>1, <1>1
<1>3. CASE (\E g \in EtcFiles : ReadFile(g)) \/ CreateKubeAdmConfigFile
  <2>1. UNCHANGED <<disk, bak>>
    BY <1>3 DEF ReadFile, CreateKubeAdmConfigFile, files
  <2>2. QED
    BY <2>1, <1>1
<1>4. CASE BackUpFile
  <2>1. CASE UNCHANGED <<disk, bak>>
    BY <2>1, <1>1
  <2>2. CASE /\ bak' = [bak EXCEPT ![file] = disk[file]]
             /\ disk' = [disk EXCEPT ![file] = Absent] /\ disk[file].there
    BY <2>2 DEF Current, Absent
  <2>3. QED
    BY <1>4, <2>1, <2>2 DEF BackUpFile
<1>5. CASE WriteFile
  <2>1. /\ ~disk[file].there /\ buf \in Present /\ ~buf.ours
        /\ f = file => bak[f].there
    BY <1>5 DEF WriteFile, SaveInv, SaveSteps, Runs
  <2>2. CASE bak' = bak /\ disk' = [disk EXCEPT ![file] = Absent]
    BY <2>1, <2>2 DEF Current, Absent
  <2>3. ASSUME NEW c \in {buf} \union Torn(buf), bak' = bak,
               disk' = [disk EXCEPT ![file] = c]
        PROVE  Current(f)'.ours => Current(f).ours
    <3>1. c.there /\ ~c.ours
      BY <2>1, Shapes
    <3>2. CASE f = file
      BY <2>3, <3>1, <3>2 DEF Current
    <3>3. CASE f # file
      BY <2>3, <3>3 DEF Current
    <3>4. QED
      BY <3>2, <3>3
  <2>4. CASE /\ disk' = [disk EXCEPT ![file] = bak[file]]
             /\ bak' = [bak EXCEPT ![file] = Absent]
    BY <2>1, <2>4 DEF Current
  <2>5. QED
    BY <1>5, <2>2, <2>3, <2>4 DEF WriteFile
<1>6. CASE Kill
  BY <1>6, CutTakes DEF Kill, Current, Runs
<1>7. QED
  BY <1>2, <1>3, <1>4, <1>5, <1>6 DEF Running, SaveStep

LEMMA RunningIsOfOne == IInv /\ Running => PrepareKeeps \/ CleanTakes
<1> SUFFICES ASSUME IInv, Running PROVE PrepareKeeps \/ CleanTakes
  OBVIOUS
<1> USE DEF IInv, TypeOK, ControlOK, HostOK, FilesOK, Files, EtcFiles
<1>1. CASE Runs("prepare")
  <2>1. ~CleanStep
    BY <1>1 DEF Runs, CleanStep, RemoveDropInFile, RemoveManagementIP,
       RemoveRouteForDNS64, RemoveRouteForNAT64, CleanSteps, PrepareSteps
  <2>2. /\ addrs \subseteq addrs' /\ (mtu = "pod" => mtu' = "pod")
        /\ dnsRoute # "none" => dnsRoute' # "none"
        /\ supRoute # "none" => supRoute' # "none"
    BY <2>1 DEF Running, SaveStep, ReadFile, CreateKubeAdmConfigFile,
       BackUpFile, WriteFile, PrepareStep, AddAddress, SetLinkMTU,
       CreateKubeletDropInFile, CreateRouteToNAT64ServerForDNS64Subnet,
       CreateRouteToSupportNetworkForOtherNodes, Kill, link, links, RouteAdd
  <2>3. QED
    BY <1>1, <2>2 DEF PrepareKeeps
<1>2. CASE Runs("clean")
  <2>1. /\ ~PrepareStep /\ ~CreateKubeAdmConfigFile /\ pc # "dropin"
        /\ pc \in SaveSteps => file \in {"hosts", "resolv"}
    BY <1>2 DEF Runs, PrepareStep, AddAddress, SetLinkMTU,
       CreateKubeletDropInFile, CreateRouteToNAT64ServerForDNS64Subnet,
       CreateRouteToSupportNetworkForOtherNodes, CreateKubeAdmConfigFile,
       PrepareSteps, CleanSteps, RunInv, Saves
  <2>2. disk'["kubeadm"] = disk["kubeadm"]
    <3>1. CASE Kill
      BY <1>2, <3>1, CutTakes DEF Kill, Runs
    <3>2. CASE SaveStep \/ CleanStep
      BY <2>1, <3>2 DEF SaveStep, ReadFile, BackUpFile, WriteFile, CleanStep,
         RemoveDropInFile, RemoveManagementIP, RemoveRouteForDNS64,
         RemoveRouteForNAT64, files, SaveSteps
    <3>3. QED
      BY <2>1, <3>1, <3>2 DEF Running
  <2>3. /\ addrs' \subseteq addrs /\ mtu' = mtu /\ dropin' \in {dropin, Absent}
        /\ dnsRoute' \in {dnsRoute, "none"} /\ supRoute' \in {supRoute, "none"}
    BY <2>1 DEF Running, SaveStep, ReadFile, BackUpFile, WriteFile, CleanStep,
       RemoveDropInFile, RemoveManagementIP, RemoveRouteForDNS64,
       RemoveRouteForNAT64, Kill, DropInCutShort, files, link, links
  <2>4. \A f \in EtcFiles : Current(f)'.ours => Current(f).ours
    BY <1>2, CurrentStep
  <2>5. QED
    BY <1>2, <2>2, <2>3, <2>4 DEF CleanTakes
<1>3. QED
  BY <1>1, <1>2, RunningRuns

(* The goal is the configuration's.                                        *)
LEMMA GoalStays == UNCHANGED config => Goal' = Goal
  BY DEF config, Goal, DualStack, IPv6

LEMMA PrepareWorks == IInv /\ IInv' /\ PrepareKeeps => Setup!Work
<1> SUFFICES ASSUME IInv, IInv', PrepareKeeps PROVE Setup!Work
  OBVIOUS
<1> DEFINE anew == Files \union {"dropin"}
<1>1. /\ Outcome = "running" /\ Outcome' \in {"running", "done", "incomplete"}
      /\ Task = "setup" /\ Task' = "setup" /\ Goal' = Goal
  BY GoalStays DEF PrepareKeeps, Runs, Outcome, Task
<1>2. WholeItems' \subseteq Items /\ LeftItems' \subseteq Items
  BY DEF WholeItems, LeftItems
<1>3. \A i \in Items \ anew : /\ Whole(i) => Whole(i)'
                              /\ Left(i) = Whole(i) /\ Left(i)' = Whole(i)'
  BY DEF PrepareKeeps, Items, Files, EtcFiles, Whole, Left
<1>4. WholeItems \ anew \subseteq WholeItems' /\ LeftItems \ anew \subseteq LeftItems'
  BY <1>3 DEF WholeItems, LeftItems
<1>5. ASSUME Outcome' = "done" PROVE Goal \subseteq WholeItems'
  <2>1. cmd' = "prepare" /\ result' = "ok"
    BY <1>5 DEF Outcome, PrepareKeeps, Runs
  <2>2. PrepareIsComplete'
    BY DEF IInv, PrepareInv
  <2>3. Goal' \subseteq WholeItems'
    BY <2>1, <2>2 DEF PrepareIsComplete, Goal, WholeItems, Items, Whole, Files,
       EtcFiles, MgmtNets, DualStack, IPv6, Current
  <2>4. QED
    BY <1>1, <2>3
<1>6. QED
  BY <1>1, <1>2, <1>4, <1>5
  DEF Setup!Work, Setup!Changes, Setup!Complete, WholeItems, LeftItems

LEMMA CleanWorks == IInv /\ IInv' /\ CleanTakes => Setup!Work
<1> SUFFICES ASSUME IInv, IInv', CleanTakes PROVE Setup!Work
  OBVIOUS
<1>1. /\ Outcome = "running" /\ Outcome' \in {"running", "done", "incomplete"}
      /\ Task = "teardown" /\ Task' = "teardown" /\ Goal' = Goal
  BY GoalStays DEF CleanTakes, Runs, Outcome, Task
<1>2. WholeItems' \subseteq Items /\ LeftItems' \subseteq Items
  BY DEF WholeItems, LeftItems
<1>3. \A i \in Items : (Whole(i)' => Whole(i)) /\ (Left(i)' => Left(i))
  BY DEF CleanTakes, Items, Files, EtcFiles, Whole, Left, Absent, KubeAdmConf
<1>4. WholeItems' \subseteq WholeItems /\ LeftItems' \subseteq LeftItems
  BY <1>3 DEF WholeItems, LeftItems
<1>5. ASSUME Outcome' = "done" PROVE LeftItems' \subseteq {"mtu", "kubeadm"}
  <2>1. cmd' = "clean" /\ result' = "ok"
    BY <1>5 DEF Outcome, CleanTakes, Runs
  <2>2. Restored' /\ \A f \in EtcFiles : disk'[f].there
    BY <2>1 DEF IInv, CleanInv, CleanIsComplete
  <2>3. QED
    BY <2>2 DEF Restored, LeftItems, Items, Left, Whole, Files, EtcFiles, Current
<1>6. QED
  BY <1>1, <1>2, <1>4, <1>5
  DEF Setup!Work, Setup!Changes, Setup!Complete, WholeItems, LeftItems

LEMMA StartBegins == Prepare \/ Cleanup => Setup!Begin
<1> SUFFICES ASSUME Prepare \/ Cleanup PROVE Setup!Begin
  OBVIOUS
<1>1. /\ Outcome # "running" /\ Outcome' = "running"
      /\ Task' \in {"setup", "teardown"} /\ UNCHANGED config
  BY DEF Prepare, Cleanup, Start, Outcome, Task
<1>2. \A i : Whole(i)' = Whole(i) /\ Left(i)' = Left(i)
  BY DEF Prepare, Cleanup, Start, link, files, links, Whole, Left, Current
<1>3. WholeItems' = WholeItems /\ LeftItems' = LeftItems
  BY <1>2 DEF WholeItems, LeftItems
<1>4. QED
  BY <1>1, <1>3, GoalStays DEF Setup!Begin, Setup!Tasks, WholeItems, LeftItems

(* In a reboot, and with the support network, goes what is not a file, and *)
(* what was being written of a file.                                       *)
LEMMA RebootReboots == IInv /\ Reboot => Setup!Reboot
<1> SUFFICES ASSUME IInv, Reboot PROVE Setup!Reboot
  OBVIOUS
<1> DEFINE gone == Items \ (EtcFiles \union {"dropin"})
<1> DEFINE anew == Files \union {"dropin"}
<1>1. /\ Outcome' = "incomplete" /\ Task' = Task /\ Goal' = Goal
      /\ (Outcome = "running" <=> pc # "idle")
  BY GoalStays DEF Reboot, Interrupt, Outcome, Task, control
<1>2. /\ WholeItems' \subseteq Items /\ LeftItems' \subseteq Items
      /\ WholeItems \subseteq Items /\ LeftItems \subseteq Items
  BY DEF WholeItems, LeftItems
<1>3. pc # "idle" => cmd \in {"prepare", "clean"}
  BY DEF IInv, RunInv, TypeOK, ControlOK
<1>4. PICK left \in CutShort : disk' \in {left, [left EXCEPT !["kubeadm"] = Absent]}
  BY DEF Reboot
<1>5. /\ \A f \in EtcFiles : disk'[f] = left[f]
      /\ disk'["kubeadm"] \in {left["kubeadm"], Absent}
      /\ bak' = bak
  BY <1>4, CutHas DEF Reboot, IInv, TypeOK, FilesOK, Files, EtcFiles
<1>6. ASSUME \A f \in EtcFiles : Current(f)'.ours => Current(f).ours,
             left["kubeadm"] = disk["kubeadm"], dropin' = dropin
      PROVE  \A i \in Items : (Whole(i)' => Whole(i)) /\ (Left(i)' => Left(i))
  BY <1>5, <1>6 DEF Reboot, Items, Files, EtcFiles, Whole, Left, Absent,
                    KubeAdmConf
<1>7. CASE pc = "idle"
  <2>1. left = disk /\ dropin' = dropin
    BY <1>7 DEF Reboot, CutShort, DropInCutShort
  <2>2. \A f \in EtcFiles : Current(f)' = Current(f)
    BY <2>1, <1>5 DEF Current
  <2>3. \A i \in Items : (Whole(i)' => Whole(i)) /\ (Left(i)' => Left(i))
    BY <2>1, <2>2, <1>6
  <2>4. \A i \in Items \ gone : Whole(i)' = Whole(i) /\ Left(i)' = Left(i)
    BY <2>1, <2>2 DEF Items, Files, EtcFiles, Whole, Left
  <2>5. /\ WholeItems' \subseteq WholeItems /\ LeftItems' \subseteq LeftItems
        /\ WholeItems \ WholeItems' \subseteq gone
        /\ LeftItems \ LeftItems' \subseteq gone
    BY <2>3, <2>4 DEF WholeItems, LeftItems
  <2>6. QED
    BY <1>1, <1>7, <2>5 DEF Setup!Reboot, Setup!Survives, WholeItems, LeftItems
<1>8. CASE pc # "idle" /\ cmd = "prepare"
  <2>1. Items \subseteq gone \union anew
    BY DEF Files
  <2>2. Outcome = "running" /\ Task = "setup"
    BY <1>1, <1>8 DEF Task
  <2>3. /\ WholeItems \ anew \subseteq WholeItems' \union (WholeItems \intersect gone)
        /\ LeftItems \ anew \subseteq LeftItems' \union (LeftItems \intersect gone)
    BY <1>2, <2>1
  <2>4. QED
    BY <1>1, <1>2, <2>2, <2>3
    DEF Setup!Reboot, Setup!Survives, Setup!Changes, WholeItems, LeftItems
<1>9. CASE pc # "idle" /\ cmd = "clean"
  <2>1. dropin' = dropin
    BY <1>9 DEF Reboot, DropInCutShort, IInv, TypeOK, ControlOK, PrepareSteps,
                CleanSteps
  <2>2. \A f \in EtcFiles : Current(f)'.ours => Current(f).ours
    BY <1>5, <1>9, CutTakes DEF Current
  <2>3. left["kubeadm"] = disk["kubeadm"]
    BY <1>9, CutTakes
  <2>4. \A i \in Items : (Whole(i)' => Whole(i)) /\ (Left(i)' => Left(i))
    BY <1>6, <2>1, <2>2, <2>3
  <2>5. WholeItems' \subseteq WholeItems /\ LeftItems' \subseteq LeftItems
    BY <2>4 DEF WholeItems, LeftItems
  <2>6. Outcome = "running" /\ Task = "teardown"
    BY <1>1, <1>9 DEF Task
  <2>7. QED
    BY <1>1, <1>2, <2>5, <2>6
    DEF Setup!Reboot, Setup!Survives, Setup!Changes, WholeItems, LeftItems
<1>10. QED
  BY <1>3, <1>7, <1>8, <1>9

LEMMA NetworkReboots ==
  IInv /\ SupportNetworkRemoved => Setup!Reboot \/ UNCHANGED Setup!vars
<1> SUFFICES ASSUME IInv, SupportNetworkRemoved
             PROVE Setup!Reboot \/ UNCHANGED Setup!vars
  OBVIOUS
<1>1. /\ Outcome' = Outcome /\ Task' = Task /\ Goal' = Goal
      /\ UNCHANGED <<addrs, mtu, disk, bak, dropin, supRoute, result>>
      /\ dnsRoute' \in {dnsRoute, "none"}
  BY GoalStays DEF SupportNetworkRemoved, Outcome, Task, control, link, files
<1>2. CASE dnsRoute' = dnsRoute
  <2>1. \A i : Whole(i)' = Whole(i) /\ Left(i)' = Left(i)
    BY <1>1, <1>2 DEF Whole, Left, Current
  <2>2. WholeItems' = WholeItems /\ LeftItems' = LeftItems
    BY <2>1 DEF WholeItems, LeftItems
  <2>3. QED
    BY <1>1, <2>2 DEF Setup!vars, WholeItems, LeftItems
<1>3. CASE dnsRoute # "none" /\ dnsRoute' = "none"
  <2>1. Outcome = "incomplete"
    BY <1>3 DEF SupportNetworkRemoved, Outcome, IInv, RunInv, CleanInv,
                CleanIsComplete, Restored
  <2>2. \A i \in Items : IF i = "dnsRoute" THEN ~Whole(i)' /\ ~Left(i)'
                         ELSE Whole(i)' = Whole(i) /\ Left(i)' = Left(i)
    BY <1>1, <1>3 DEF Whole, Left, Current
  <2>3. /\ WholeItems' \subseteq WholeItems /\ LeftItems' \subseteq LeftItems
        /\ WholeItems \ WholeItems' \subseteq {"dnsRoute"}
        /\ LeftItems \ LeftItems' \subseteq {"dnsRoute"}
    BY <2>2 DEF WholeItems, LeftItems
  <2>4. "dnsRoute" \in Items \ (EtcFiles \union {"dropin"})
    BY DEF Items, EtcFiles
  <2>5. QED
    BY <1>1, <2>1, <2>3, <2>4
    DEF Setup!Reboot, Setup!Survives, WholeItems, LeftItems
<1>4. QED
  BY <1>1, <1>2, <1>3

LEMMA RefinedStep == IInv /\ IInv' /\ [Next]_vars => [Setup!Next]_(Setup!vars)
<1> SUFFICES ASSUME IInv, IInv', [Next]_vars
             PROVE Setup!Next \/ UNCHANGED Setup!vars
  OBVIOUS
<1>1. CASE Prepare \/ Cleanup
  BY <1>1, StartBegins DEF Setup!Next
<1>2. CASE Running
  BY <1>2, RunningIsOfOne, PrepareWorks, CleanWorks DEF Setup!Next
<1>3. CASE SupportNetworkRemoved
  BY <1>3, NetworkReboots DEF Setup!Next
<1>4. CASE Reboot
  BY <1>4, RebootReboots DEF Setup!Next
<1>5. CASE UNCHANGED vars
  <2>1. \A i : Whole(i)' = Whole(i) /\ Left(i)' = Left(i)
    BY <1>5 DEF vars, link, files, links, Whole, Left, Current
  <2>2. WholeItems' = WholeItems /\ LeftItems' = LeftItems
    BY <2>1 DEF WholeItems, LeftItems
  <2>3. Outcome' = Outcome /\ Task' = Task /\ Goal' = Goal
    BY <1>5, GoalStays DEF vars, control, Outcome, Task
  <2>4. QED
    BY <2>2, <2>3 DEF Setup!vars, WholeItems, LeftItems
<1>6. QED
  BY <1>1, <1>2, <1>3, <1>4, <1>5 DEF Next, Running, Environment

(* prepare and clean of a node keep the promise of HostSetup, for any      *)
(* number of failing calls, kills and reboots: prepare takes nothing away  *)
(* but entries in files that it writes anew, clean adds nothing, and what  *)
(* each reports done is done.                                              *)
THEOREM Refinement == Spec => RefinesHostSetup
<1>1. IInv /\ IInv' /\ [Next]_vars => [Setup!Next]_(Setup!vars)
  BY RefinedStep
<1>2. QED
  BY <1>1, SetupInit, Invariance, PTL DEF Spec, RefinesHostSetup, Setup!Spec

=============================================================================
