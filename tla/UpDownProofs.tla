---------------------------- MODULE UpDownProofs ----------------------------
(***************************************************************************)
(* Proofs about UpDown, for any set of other nodes, one or two pod         *)
(* networks and any number of faults.                                      *)
(***************************************************************************)
EXTENDS UpDown, TLAPS

LEMMA TypeInit == Init => TypeOK
<1>1. Init => ControlOK
  BY DEF Init, ControlOK, Results, UpSteps, DownSteps
<1>2. Init => HostOK
  <2> SUFFICES ASSUME Init PROVE HostOK
    OBVIOUS
  <2>1. routes = {} /\ bridge = "absent" /\ member = FALSE
    BY DEF Init
  <2>2. found \in [routes : SUBSET Dest, member : BOOLEAN,
                   bridge : {"absent", "down", "up"}]
    BY <2>1 DEF Init
  <2>3. QED
    BY <2>1, <2>2 DEF Init, HostOK
<1>3. Init => FilesOK
  BY DEF Init, FilesOK, CertFiles
<1>4. Init => faults \in 0..MaxFaults
  BY MaxFaultsAssumption DEF Init
<1>5. QED
  BY <1>1, <1>2, <1>3, <1>4 DEF TypeOK

LEMMA ControlNext == TypeOK /\ [Next]_vars => ControlOK'
<1> SUFFICES ASSUME TypeOK, [Next]_vars PROVE ControlOK'
  OBVIOUS
<1> USE DEF TypeOK, ControlOK, config, command, loop, host, Then, End, Fault,
            Fails, Results, UpSteps, DownSteps

<1>1. CASE BringUp
  BY <1>1 DEF BringUp, Start
<1>2. CASE TearDown
  BY <1>2 DEF TearDown, Start
<1>3. CASE RemoveCNIArea
  BY <1>3 DEF RemoveCNIArea
<1>4. CASE MakeCNIArea
  BY <1>4 DEF MakeCNIArea
<1>5. CASE OpenCNIConfig
  BY <1>5 DEF OpenCNIConfig
<1>6. CASE WriteCNIConfig
  BY <1>6 DEF WriteCNIConfig
<1>7. ASSUME NEW d \in Dest, AddRoute(d) PROVE ControlOK'
  BY <1>7 DEF AddRoute, SkipRoute, NextRoute
<1>8. CASE RoutesAdded
  BY <1>8 DEF RoutesAdded
<1>9. CASE RestartKubeletService
  BY <1>9 DEF RestartKubeletService, CertFiles
<1>10. CASE OpenCertificate
  BY <1>10 DEF OpenCertificate
<1>11. CASE WriteCertificate
  BY <1>11 DEF WriteCertificate, CertFiles
<1>12. CASE StartKubernetes
  BY <1>12 DEF StartKubernetes
<1>13. CASE StopKubernetes
  BY <1>13 DEF StopKubernetes, KubeadmReset
<1>14. ASSUME NEW d \in Dest, DeleteRoute(d) PROVE ControlOK'
  BY <1>14 DEF DeleteRoute, NextRoute
<1>15. CASE RoutesDeleted
  BY <1>15 DEF RoutesDeleted
<1>16. CASE BringLinkDown
  BY <1>16 DEF BringLinkDown
<1>17. CASE DeleteLink
  BY <1>17 DEF DeleteLink
<1>18. CASE CleanupCNIArea
  BY <1>18 DEF CleanupCNIArea
<1>19. CASE PodStarted
  BY <1>19 DEF PodStarted
<1>20. CASE Kill
  BY <1>20 DEF Kill, CutShort, KubeadmReset
<1>21. CASE Reboot
  BY <1>21 DEF Reboot, CutShort, KubeadmReset
<1>22. CASE UNCHANGED vars
  BY <1>22 DEF vars
<1>23. QED
  BY <1>1, <1>2, <1>3, <1>4, <1>5, <1>6, <1>7, <1>8, <1>9, <1>10,
     <1>11, <1>12, <1>13, <1>14, <1>15, <1>16, <1>17, <1>18, <1>19,
     <1>20, <1>21, <1>22
  DEF Next, Step, Environment

LEMMA HostNext == TypeOK /\ [Next]_vars => HostOK'
<1> SUFFICES ASSUME TypeOK, [Next]_vars PROVE HostOK'
  OBVIOUS
<1> USE DEF TypeOK, HostOK, config, command, loop, host
<1>1. CASE BringUp
  BY <1>1 DEF BringUp, Start
<1>2. CASE TearDown
  BY <1>2 DEF TearDown, Start
<1>3. CASE RemoveCNIArea
  BY <1>3 DEF RemoveCNIArea
<1>4. CASE MakeCNIArea
  BY <1>4 DEF MakeCNIArea
<1>5. CASE OpenCNIConfig
  BY <1>5 DEF OpenCNIConfig
<1>6. CASE WriteCNIConfig
  BY <1>6 DEF WriteCNIConfig
<1>7. ASSUME NEW d \in Dest, AddRoute(d) PROVE HostOK'
  BY <1>7 DEF AddRoute, SkipRoute, NextRoute
<1>8. CASE RoutesAdded
  BY <1>8 DEF RoutesAdded
<1>9. CASE RestartKubeletService
  BY <1>9 DEF RestartKubeletService, CertFiles
<1>10. CASE OpenCertificate
  BY <1>10 DEF OpenCertificate
<1>11. CASE WriteCertificate
  BY <1>11 DEF WriteCertificate, CertFiles
<1>12. CASE StartKubernetes
  BY <1>12 DEF StartKubernetes
<1>13. CASE StopKubernetes
  BY <1>13 DEF StopKubernetes, KubeadmReset
<1>14. ASSUME NEW d \in Dest, DeleteRoute(d) PROVE HostOK'
  BY <1>14 DEF DeleteRoute, NextRoute
<1>15. CASE RoutesDeleted
  BY <1>15 DEF RoutesDeleted
<1>16. CASE BringLinkDown
  BY <1>16 DEF BringLinkDown
<1>17. CASE DeleteLink
  BY <1>17 DEF DeleteLink
<1>18. CASE CleanupCNIArea
  BY <1>18 DEF CleanupCNIArea
<1>19. CASE PodStarted
  BY <1>19 DEF PodStarted
<1>20. CASE Kill
  BY <1>20 DEF Kill, CutShort, KubeadmReset
<1>21. CASE Reboot
  BY <1>21 DEF Reboot, CutShort, KubeadmReset
<1>22. CASE UNCHANGED vars
  BY <1>22 DEF vars
<1>23. QED
  BY <1>1, <1>2, <1>3, <1>4, <1>5, <1>6, <1>7, <1>8, <1>9, <1>10,
     <1>11, <1>12, <1>13, <1>14, <1>15, <1>16, <1>17, <1>18, <1>19,
     <1>20, <1>21, <1>22
  DEF Next, Step, Environment

LEMMA FilesNext == TypeOK /\ [Next]_vars => FilesOK'
<1> SUFFICES ASSUME TypeOK, [Next]_vars PROVE FilesOK'
  OBVIOUS
<1> USE DEF TypeOK, FilesOK, config, command, loop, host
<1>1. CASE BringUp
  BY <1>1 DEF BringUp, Start
<1>2. CASE TearDown
  BY <1>2 DEF TearDown, Start
<1>3. CASE RemoveCNIArea
  BY <1>3 DEF RemoveCNIArea
<1>4. CASE MakeCNIArea
  BY <1>4 DEF MakeCNIArea
<1>5. CASE OpenCNIConfig
  BY <1>5 DEF OpenCNIConfig
<1>6. CASE WriteCNIConfig
  BY <1>6 DEF WriteCNIConfig
<1>7. ASSUME NEW d \in Dest, AddRoute(d) PROVE FilesOK'
  BY <1>7 DEF AddRoute, SkipRoute, NextRoute
<1>8. CASE RoutesAdded
  BY <1>8 DEF RoutesAdded
<1>9. CASE RestartKubeletService
  BY <1>9 DEF RestartKubeletService, CertFiles
<1>10. CASE OpenCertificate
  BY <1>10 DEF OpenCertificate
<1>11. CASE WriteCertificate
  BY <1>11 DEF WriteCertificate, CertFiles
<1>12. CASE StartKubernetes
  BY <1>12 DEF StartKubernetes
<1>13. CASE StopKubernetes
  BY <1>13 DEF StopKubernetes, KubeadmReset
<1>14. ASSUME NEW d \in Dest, DeleteRoute(d) PROVE FilesOK'
  BY <1>14 DEF DeleteRoute, NextRoute
<1>15. CASE RoutesDeleted
  BY <1>15 DEF RoutesDeleted
<1>16. CASE BringLinkDown
  BY <1>16 DEF BringLinkDown
<1>17. CASE DeleteLink
  BY <1>17 DEF DeleteLink
<1>18. CASE CleanupCNIArea
  BY <1>18 DEF CleanupCNIArea
<1>19. CASE PodStarted
  BY <1>19 DEF PodStarted
<1>20. CASE Kill
  BY <1>20 DEF Kill, CutShort, KubeadmReset
<1>21. CASE Reboot
  BY <1>21 DEF Reboot, CutShort, KubeadmReset
<1>22. CASE UNCHANGED vars
  BY <1>22 DEF vars
<1>23. QED
  BY <1>1, <1>2, <1>3, <1>4, <1>5, <1>6, <1>7, <1>8, <1>9, <1>10,
     <1>11, <1>12, <1>13, <1>14, <1>15, <1>16, <1>17, <1>18, <1>19,
     <1>20, <1>21, <1>22
  DEF Next, Step, Environment

(* A step meets at most one fault. *)
LEMMA FaultOrNot == [Next]_vars => Fault \/ UNCHANGED faults
<1> SUFFICES ASSUME [Next]_vars PROVE Fault \/ UNCHANGED faults
  OBVIOUS
<1> USE DEF Then, End, Fails
<1>1. CASE BringUp
  BY <1>1 DEF BringUp, Start
<1>2. CASE TearDown
  BY <1>2 DEF TearDown, Start
<1>3. CASE RemoveCNIArea
  BY <1>3 DEF RemoveCNIArea
<1>4. CASE MakeCNIArea
  BY <1>4 DEF MakeCNIArea
<1>5. CASE OpenCNIConfig
  BY <1>5 DEF OpenCNIConfig
<1>6. CASE WriteCNIConfig
  BY <1>6 DEF WriteCNIConfig
<1>7. ASSUME NEW d \in Dest, AddRoute(d) PROVE (Fault \/ UNCHANGED faults)
  BY <1>7 DEF AddRoute, SkipRoute, NextRoute
<1>8. CASE RoutesAdded
  BY <1>8 DEF RoutesAdded
<1>9. CASE RestartKubeletService
  BY <1>9 DEF RestartKubeletService, CertFiles
<1>10. CASE OpenCertificate
  BY <1>10 DEF OpenCertificate
<1>11. CASE WriteCertificate
  BY <1>11 DEF WriteCertificate, CertFiles
<1>12. CASE StartKubernetes
  BY <1>12 DEF StartKubernetes
<1>13. CASE StopKubernetes
  BY <1>13 DEF StopKubernetes, KubeadmReset
<1>14. ASSUME NEW d \in Dest, DeleteRoute(d) PROVE (Fault \/ UNCHANGED faults)
  BY <1>14 DEF DeleteRoute, NextRoute
<1>15. CASE RoutesDeleted
  BY <1>15 DEF RoutesDeleted
<1>16. CASE BringLinkDown
  BY <1>16 DEF BringLinkDown
<1>17. CASE DeleteLink
  BY <1>17 DEF DeleteLink
<1>18. CASE CleanupCNIArea
  BY <1>18 DEF CleanupCNIArea
<1>19. CASE PodStarted
  BY <1>19 DEF PodStarted
<1>20. CASE Kill
  BY <1>20 DEF Kill, CutShort, KubeadmReset
<1>21. CASE Reboot
  BY <1>21 DEF Reboot, CutShort, KubeadmReset
<1>22. CASE UNCHANGED vars
  BY <1>22 DEF vars
<1>23. QED
  BY <1>1, <1>2, <1>3, <1>4, <1>5, <1>6, <1>7, <1>8, <1>9, <1>10,
     <1>11, <1>12, <1>13, <1>14, <1>15, <1>16, <1>17, <1>18, <1>19,
     <1>20, <1>21, <1>22
  DEF Next, Step, Environment

LEMMA FaultsNext == TypeOK /\ [Next]_vars => (faults \in 0..MaxFaults)'
  BY FaultOrNot, MaxFaultsAssumption DEF TypeOK, Fault

(* Every reachable state of every command is well typed. *)
THEOREM TypeCorrect == Spec => []TypeOK
<1>1. TypeOK /\ [Next]_vars => TypeOK'
  BY ControlNext, HostNext, FilesNext, FaultsNext DEF TypeOK
<1>2. QED
  BY TypeInit, <1>1, PTL DEF Spec

-----------------------------------------------------------------------------
(* The inductive invariant, in five parts.  A step of a command relies on  *)
(* what the steps before it have done, so each part says, for the values   *)
(* of pc, what holds when the step is about to be taken.                   *)

AfterRoutes == {"kubelet", "openCert", "writeCert", "kubeadm"}
AfterReset  == {"delRoutes", "linkDown", "linkDel", "rmCNI"}

(* Routes and warnings of an up. *)
UpInv ==
  /\ pc # "idle" => result = "running"
  /\ pc \in UpSteps \ AfterRoutes => ~warned
  /\ pc = "addRoutes" => Dest \ todo \subseteq routes
  /\ pc \in AfterRoutes /\ ~warned => routes = Dest
  /\ cmd = "up" /\ result = "ok" => routes = Dest

(* Files of an up. *)
FilesInv ==
  /\ pc # "idle" => result = "running"
  /\ pc \in AfterRoutes \union {"addRoutes"} => cni = "conf"
  /\ pc \in {"openCert", "writeCert"} /\ cur = "ca.key"
       => certs["ca.crt"] = "whole"
  /\ pc = "kubeadm" => CertsInPlace
  /\ cmd = "up" /\ result \in {"ok", "warned"}
       => cni = "conf" /\ member /\ CertsInPlace

(* What a down has cleaned. *)
DownInv ==
  /\ pc # "idle" => result = "running"
  /\ plugin # "bridge" => bridge = "absent"
  /\ pc = "delRoutes" => routes \subseteq todo
  /\ pc \in {"linkDown", "linkDel", "rmCNI"} => routes = {}
  /\ pc \in AfterReset /\ ~warned => ~member
  /\ pc = "rmCNI" /\ ~member => bridge = "absent"
  /\ DownComplete

LinkUp == plugin = "bridge" => bridge = "up"

(* What a command that has met no fault knows of what it found: an up that *)
(* has met none of the routes it makes, a down that has deleted all of     *)
(* those it went past.                                                     *)
FoundByUp ==
  /\ pc \in {"rmArea", "mkArea", "openConf", "writeConf"} => routes = found.routes
  /\ pc = "addRoutes" =>
       /\ found.routes \subseteq todo
       /\ todo \intersect routes = found.routes
  /\ pc \in AfterRoutes => (warned <=> found.routes # {})
  /\ pc \in UpSteps => member = found.member

FoundByDown ==
  /\ pc \in DownSteps => ~warned
  /\ pc = "reset" => routes = found.routes
  /\ pc = "delRoutes" =>
       /\ Dest \ todo \subseteq found.routes
       /\ todo \intersect routes = todo \intersect found.routes
  /\ pc \in {"linkDown", "linkDel", "rmCNI"} => found.routes = Dest
  /\ pc \in {"reset", "delRoutes", "linkDown"} /\ bridge = "absent" =>
       found.bridge = "absent"
  /\ pc = "linkDel" /\ (bridge = "absent" \/ linkErr) => found.bridge = "absent"

AlarmInv ==
  /\ pc # "idle" => result = "running"
  /\ pc \in {"linkDown", "linkDel"} => plugin = "bridge"
  /\ ~faulty => FoundByUp /\ FoundByDown
  /\ NoFalseAlarm

(* A down that found a complete node and has met one fault, a failing      *)
(* reset.                                                                  *)
ResetInv ==
  /\ pc # "idle" => result = "running"
  /\ pc = "reset" =>
       ~faulty /\ ~warned /\ (FoundComplete => routes = Dest /\ LinkUp)
  /\ cmd = "down" /\ warned => faults # 0
  /\ cmd = "down" /\ warned /\ FoundComplete /\ faults = 1 /\ plugin # "nil" =>
       /\ pc = "delRoutes" => todo \subseteq routes /\ LinkUp
       /\ pc = "linkDown" => bridge # "absent"
       /\ pc = "linkDel" => bridge # "absent" /\ ~linkErr
       /\ pc = "idle" /\ result = "warned" => routes = {} /\ cni = "absent"

IInv == TypeOK /\ UpInv /\ FilesInv /\ DownInv /\ AlarmInv /\ ResetInv

LEMMA UpInvInit == Init => UpInv
  BY DEF Init, UpInv, UpSteps, DownSteps, AfterRoutes, AfterReset

LEMMA UpInvNext == IInv /\ [Next]_vars => UpInv'
<1> SUFFICES ASSUME IInv, [Next]_vars PROVE UpInv'
  OBVIOUS
<1> USE DEF IInv, UpInv, TypeOK, ControlOK, HostOK, config, command, loop, host,
            Then, End, Fails, UpSteps, DownSteps, AfterRoutes, AfterReset
<1>1. CASE BringUp
  BY <1>1 DEF BringUp, Start
<1>2. CASE TearDown
  BY <1>2 DEF TearDown, Start
<1>3. CASE RemoveCNIArea
  BY <1>3 DEF RemoveCNIArea
<1>4. CASE MakeCNIArea
  BY <1>4 DEF MakeCNIArea
<1>5. CASE OpenCNIConfig
  BY <1>5 DEF OpenCNIConfig
<1>6. CASE WriteCNIConfig
  BY <1>6 DEF WriteCNIConfig
<1>7. ASSUME NEW d \in Dest, AddRoute(d) PROVE UpInv'
  BY <1>7 DEF AddRoute, SkipRoute, NextRoute
<1>8. CASE RoutesAdded
  BY <1>8 DEF RoutesAdded
<1>9. CASE RestartKubeletService
  BY <1>9 DEF RestartKubeletService, CertFiles
<1>10. CASE OpenCertificate
  BY <1>10 DEF OpenCertificate
<1>11. CASE WriteCertificate
  BY <1>11 DEF WriteCertificate, CertFiles
<1>12. CASE StartKubernetes
  BY <1>12 DEF StartKubernetes
<1>13. CASE StopKubernetes
  BY <1>13 DEF StopKubernetes, KubeadmReset
<1>14. ASSUME NEW d \in Dest, DeleteRoute(d) PROVE UpInv'
  BY <1>14 DEF DeleteRoute, NextRoute
<1>15. CASE RoutesDeleted
  BY <1>15 DEF RoutesDeleted
<1>16. CASE BringLinkDown
  BY <1>16 DEF BringLinkDown
<1>17. CASE DeleteLink
  BY <1>17 DEF DeleteLink
<1>18. CASE CleanupCNIArea
  BY <1>18 DEF CleanupCNIArea
<1>19. CASE PodStarted
  BY <1>19 DEF PodStarted
<1>20. CASE Kill
  BY <1>20 DEF Kill, CutShort, KubeadmReset
<1>21. CASE Reboot
  BY <1>21 DEF Reboot, CutShort, KubeadmReset
<1>22. CASE UNCHANGED vars
  BY <1>22 DEF vars
<1>23. QED
  BY <1>1, <1>2, <1>3, <1>4, <1>5, <1>6, <1>7, <1>8, <1>9, <1>10,
     <1>11, <1>12, <1>13, <1>14, <1>15, <1>16, <1>17, <1>18, <1>19,
     <1>20, <1>21, <1>22
  DEF Next, Step, Environment

LEMMA FilesInvInit == Init => FilesInv
  BY DEF Init, FilesInv, UpSteps, DownSteps, AfterRoutes, AfterReset

LEMMA FilesInvNext == IInv /\ [Next]_vars => FilesInv'
<1> SUFFICES ASSUME IInv, [Next]_vars PROVE FilesInv'
  OBVIOUS
<1> USE DEF IInv, FilesInv, TypeOK, ControlOK, HostOK, config, command, loop, host,
            Then, End, Fails, UpSteps, DownSteps, AfterRoutes, AfterReset, FilesOK,
            CertFiles, CertsInPlace
<1>1. CASE BringUp
  BY <1>1 DEF BringUp, Start
<1>2. CASE TearDown
  BY <1>2 DEF TearDown, Start
<1>3. CASE RemoveCNIArea
  BY <1>3 DEF RemoveCNIArea
<1>4. CASE MakeCNIArea
  BY <1>4 DEF MakeCNIArea
<1>5. CASE OpenCNIConfig
  BY <1>5 DEF OpenCNIConfig
<1>6. CASE WriteCNIConfig
  BY <1>6 DEF WriteCNIConfig
<1>7. ASSUME NEW d \in Dest, AddRoute(d) PROVE FilesInv'
  BY <1>7 DEF AddRoute, SkipRoute, NextRoute
<1>8. CASE RoutesAdded
  BY <1>8 DEF RoutesAdded
<1>9. CASE RestartKubeletService
  BY <1>9 DEF RestartKubeletService, CertFiles
<1>10. CASE OpenCertificate
  BY <1>10 DEF OpenCertificate
<1>11. CASE WriteCertificate
  BY <1>11 DEF WriteCertificate, CertFiles
<1>12. CASE StartKubernetes
  BY <1>12 DEF StartKubernetes
<1>13. CASE StopKubernetes
  BY <1>13 DEF StopKubernetes, KubeadmReset
<1>14. ASSUME NEW d \in Dest, DeleteRoute(d) PROVE FilesInv'
  BY <1>14 DEF DeleteRoute, NextRoute
<1>15. CASE RoutesDeleted
  BY <1>15 DEF RoutesDeleted
<1>16. CASE BringLinkDown
  BY <1>16 DEF BringLinkDown
<1>17. CASE DeleteLink
  BY <1>17 DEF DeleteLink
<1>18. CASE CleanupCNIArea
  BY <1>18 DEF CleanupCNIArea
<1>19. CASE PodStarted
  BY <1>19 DEF PodStarted
<1>20. CASE Kill
  BY <1>20 DEF Kill, CutShort, KubeadmReset
<1>21. CASE Reboot
  BY <1>21 DEF Reboot, CutShort, KubeadmReset
<1>22. CASE UNCHANGED vars
  BY <1>22 DEF vars
<1>23. QED
  BY <1>1, <1>2, <1>3, <1>4, <1>5, <1>6, <1>7, <1>8, <1>9, <1>10,
     <1>11, <1>12, <1>13, <1>14, <1>15, <1>16, <1>17, <1>18, <1>19,
     <1>20, <1>21, <1>22
  DEF Next, Step, Environment

LEMMA DownInvInit == Init => DownInv
  BY DEF Init, DownInv, UpSteps, DownSteps, AfterRoutes, AfterReset, DownComplete

LEMMA DownInvNext == IInv /\ [Next]_vars => DownInv'
<1> SUFFICES ASSUME IInv, [Next]_vars PROVE DownInv'
  OBVIOUS
<1> USE DEF IInv, DownInv, TypeOK, ControlOK, HostOK, config, command, loop, host,
            Then, End, Fails, UpSteps, DownSteps, AfterRoutes, AfterReset,
            DownComplete
<1>1. CASE BringUp
  BY <1>1 DEF BringUp, Start
<1>2. CASE TearDown
  BY <1>2 DEF TearDown, Start
<1>3. CASE RemoveCNIArea
  BY <1>3 DEF RemoveCNIArea
<1>4. CASE MakeCNIArea
  BY <1>4 DEF MakeCNIArea
<1>5. CASE OpenCNIConfig
  BY <1>5 DEF OpenCNIConfig
<1>6. CASE WriteCNIConfig
  BY <1>6 DEF WriteCNIConfig
<1>7. ASSUME NEW d \in Dest, AddRoute(d) PROVE DownInv'
  BY <1>7 DEF AddRoute, SkipRoute, NextRoute
<1>8. CASE RoutesAdded
  BY <1>8 DEF RoutesAdded
<1>9. CASE RestartKubeletService
  BY <1>9 DEF RestartKubeletService, CertFiles
<1>10. CASE OpenCertificate
  BY <1>10 DEF OpenCertificate
<1>11. CASE WriteCertificate
  BY <1>11 DEF WriteCertificate, CertFiles
<1>12. CASE StartKubernetes
  BY <1>12 DEF StartKubernetes
<1>13. CASE StopKubernetes
  BY <1>13 DEF StopKubernetes, KubeadmReset
<1>14. ASSUME NEW d \in Dest, DeleteRoute(d) PROVE DownInv'
  BY <1>14 DEF DeleteRoute, NextRoute
<1>15. CASE RoutesDeleted
  BY <1>15 DEF RoutesDeleted
<1>16. CASE BringLinkDown
  BY <1>16 DEF BringLinkDown
<1>17. CASE DeleteLink
  BY <1>17 DEF DeleteLink
<1>18. CASE CleanupCNIArea
  BY <1>18 DEF CleanupCNIArea
<1>19. CASE PodStarted
  BY <1>19 DEF PodStarted
<1>20. CASE Kill
  BY <1>20 DEF Kill, CutShort, KubeadmReset
<1>21. CASE Reboot
  BY <1>21 DEF Reboot, CutShort, KubeadmReset
<1>22. CASE UNCHANGED vars
  BY <1>22 DEF vars
<1>23. QED
  BY <1>1, <1>2, <1>3, <1>4, <1>5, <1>6, <1>7, <1>8, <1>9, <1>10,
     <1>11, <1>12, <1>13, <1>14, <1>15, <1>16, <1>17, <1>18, <1>19,
     <1>20, <1>21, <1>22
  DEF Next, Step, Environment

LEMMA AlarmInvInit == Init => AlarmInv
  BY DEF Init, AlarmInv, FoundByUp, FoundByDown, NoFalseAlarm, UpSteps,
         DownSteps, AfterRoutes

LEMMA AlarmInvNext == IInv /\ [Next]_vars => AlarmInv'
<1> SUFFICES ASSUME IInv, [Next]_vars PROVE AlarmInv'
  OBVIOUS
<1> USE DEF IInv, AlarmInv, TypeOK, ControlOK, HostOK, config, command, loop, host,
            Then, End, Fails, UpSteps, DownSteps, AfterRoutes, AfterReset, Fault,
            FoundByUp, FoundByDown, NoFalseAlarm
<1>1. CASE BringUp
  BY <1>1 DEF BringUp, Start
<1>2. CASE TearDown
  BY <1>2 DEF TearDown, Start
<1>3. CASE RemoveCNIArea
  BY <1>3 DEF RemoveCNIArea
<1>4. CASE MakeCNIArea
  BY <1>4 DEF MakeCNIArea
<1>5. CASE OpenCNIConfig
  BY <1>5 DEF OpenCNIConfig
<1>6. CASE WriteCNIConfig
  BY <1>6 DEF WriteCNIConfig
<1>7. ASSUME NEW d \in Dest, AddRoute(d) PROVE AlarmInv'
  BY <1>7 DEF AddRoute, SkipRoute, NextRoute
<1>8. CASE RoutesAdded
  BY <1>8 DEF RoutesAdded, UpInv
<1>9. CASE RestartKubeletService
  BY <1>9 DEF RestartKubeletService, CertFiles
<1>10. CASE OpenCertificate
  BY <1>10 DEF OpenCertificate
<1>11. CASE WriteCertificate
  BY <1>11 DEF WriteCertificate, CertFiles
<1>12. CASE StartKubernetes
  BY <1>12 DEF StartKubernetes
<1>13. CASE StopKubernetes
  BY <1>13 DEF StopKubernetes, KubeadmReset
<1>14. ASSUME NEW d \in Dest, DeleteRoute(d) PROVE AlarmInv'
  BY <1>14 DEF DeleteRoute, NextRoute
<1>15. CASE RoutesDeleted
  BY <1>15 DEF RoutesDeleted
<1>16. CASE BringLinkDown
  BY <1>16 DEF BringLinkDown
<1>17. CASE DeleteLink
  BY <1>17 DEF DeleteLink
<1>18. CASE CleanupCNIArea
  BY <1>18 DEF CleanupCNIArea
<1>19. CASE PodStarted
  BY <1>19 DEF PodStarted
<1>20. CASE Kill
  BY <1>20 DEF Kill, CutShort, KubeadmReset
<1>21. CASE Reboot
  BY <1>21 DEF Reboot, CutShort, KubeadmReset
<1>22. CASE UNCHANGED vars
  BY <1>22 DEF vars
<1>23. QED
  BY <1>1, <1>2, <1>3, <1>4, <1>5, <1>6, <1>7, <1>8, <1>9, <1>10,
     <1>11, <1>12, <1>13, <1>14, <1>15, <1>16, <1>17, <1>18, <1>19,
     <1>20, <1>21, <1>22
  DEF Next, Step, Environment

LEMMA ResetInvInit == Init => ResetInv
  BY DEF Init, ResetInv, UpSteps, DownSteps, AfterRoutes, AfterReset

LEMMA ResetInvNext == IInv /\ [Next]_vars => ResetInv'
<1> SUFFICES ASSUME IInv, [Next]_vars PROVE ResetInv'
  OBVIOUS
<1> USE DEF IInv, ResetInv, TypeOK, ControlOK, HostOK, config, command, loop, host,
            Then, End, Fails, UpSteps, DownSteps, AfterRoutes, AfterReset, Fault,
            LinkUp, FoundComplete, DownInv
<1>1. CASE BringUp
  BY <1>1 DEF BringUp, Start
<1>2. CASE TearDown
  BY <1>2 DEF TearDown, Start
<1>3. CASE RemoveCNIArea
  BY <1>3 DEF RemoveCNIArea
<1>4. CASE MakeCNIArea
  BY <1>4 DEF MakeCNIArea
<1>5. CASE OpenCNIConfig
  BY <1>5 DEF OpenCNIConfig
<1>6. CASE WriteCNIConfig
  BY <1>6 DEF WriteCNIConfig
<1>7. ASSUME NEW d \in Dest, AddRoute(d) PROVE ResetInv'
  BY <1>7 DEF AddRoute, SkipRoute, NextRoute
<1>8. CASE RoutesAdded
  BY <1>8 DEF RoutesAdded
<1>9. CASE RestartKubeletService
  BY <1>9 DEF RestartKubeletService, CertFiles
<1>10. CASE OpenCertificate
  BY <1>10 DEF OpenCertificate
<1>11. CASE WriteCertificate
  BY <1>11 DEF WriteCertificate, CertFiles
<1>12. CASE StartKubernetes
  BY <1>12 DEF StartKubernetes
<1>13. CASE StopKubernetes
  BY <1>13 DEF StopKubernetes, KubeadmReset
<1>14. ASSUME NEW d \in Dest, DeleteRoute(d) PROVE ResetInv'
  BY <1>14 DEF DeleteRoute, NextRoute
<1>15. CASE RoutesDeleted
  BY <1>15 DEF RoutesDeleted
<1>16. CASE BringLinkDown
  BY <1>16 DEF BringLinkDown
<1>17. CASE DeleteLink
  BY <1>17 DEF DeleteLink
<1>18. CASE CleanupCNIArea
  BY <1>18 DEF CleanupCNIArea
<1>19. CASE PodStarted
  BY <1>19 DEF PodStarted
<1>20. CASE Kill
  BY <1>20 DEF Kill, CutShort, KubeadmReset
<1>21. CASE Reboot
  BY <1>21 DEF Reboot, CutShort, KubeadmReset
<1>22. CASE UNCHANGED vars
  BY <1>22 DEF vars
<1>23. QED
  BY <1>1, <1>2, <1>3, <1>4, <1>5, <1>6, <1>7, <1>8, <1>9, <1>10,
     <1>11, <1>12, <1>13, <1>14, <1>15, <1>16, <1>17, <1>18, <1>19,
     <1>20, <1>21, <1>22
  DEF Next, Step, Environment

-----------------------------------------------------------------------------
LEMMA Invariance == Spec => []IInv
<1>1. Init => IInv
  BY TypeInit, UpInvInit, FilesInvInit, DownInvInit, AlarmInvInit, ResetInvInit
  DEF IInv
<1>2. IInv /\ [Next]_vars => IInv'
  <2>1. IInv /\ [Next]_vars => TypeOK'
    BY ControlNext, HostNext, FilesNext, FaultsNext DEF IInv, TypeOK
  <2>2. QED
    BY <2>1, UpInvNext, FilesInvNext, DownInvNext, AlarmInvNext, ResetInvNext
    DEF IInv
<1>3. QED
  BY <1>1, <1>2, PTL DEF Spec

(* An up that ends without a fatal error leaves the node configured and a  *)
(* member, and with every route when it logged no warning, whatever state  *)
(* it was started in and however often earlier commands were interrupted.  *)
THEOREM UpIsComplete == Spec => []UpComplete
<1>1. IInv => UpComplete
  BY DEF IInv, UpInv, FilesInv, UpComplete
<1>2. QED
  BY <1>1, Invariance, PTL

(* A down that logged no warning leaves nothing of an up behind. *)
THEOREM DownIsComplete == Spec => []DownComplete
<1>1. IInv => DownComplete
  BY DEF IInv, DownInv
<1>2. QED
  BY <1>1, Invariance, PTL

(* kubeadm never runs over a torn CNI configuration or a torn CA file. *)
THEOREM KubeadmIsReady == Spec => []ReadyForKubeadm
<1>1. IInv => ReadyForKubeadm
  BY DEF IInv, FilesInv, ReadyForKubeadm, AfterRoutes
<1>2. QED
  BY <1>1, Invariance, PTL

(* A command that meets no fault complains of the routes and links that it *)
(* found, and of nothing else.                                             *)
THEOREM NoAlarmIsFalse == Spec => []NoFalseAlarm
<1>1. IInv => NoFalseAlarm
  BY DEF IInv, AlarmInv
<1>2. QED
  BY <1>1, Invariance, PTL

(* A failing kubeadm reset alone keeps no route and no CNI area. *)
THEOREM ResetOnlyWarns == Spec => []ResetFailureOnlyWarns
<1>1. IInv => ResetFailureOnlyWarns
  BY DEF IInv, ResetInv, ResetFailureOnlyWarns
<1>2. QED
  BY <1>1, Invariance, PTL

-----------------------------------------------------------------------------
(* Refinement: UpDown implements HostSetup, for any set of other nodes,    *)
(* one or two pod networks and any number of faults.  The inductive        *)
(* invariant says what holds when a command reports success; here every    *)
(* step is shown to be one that HostSetup allows.                          *)

WholeItems == {i \in Items : Whole(i)}
LeftItems  == {i \in Items : Left(i)}

LEMMA OutcomeInit == Init => Setup!Init
<1> SUFFICES ASSUME Init PROVE Setup!Init
  OBVIOUS
<1>1. Goal \subseteq Items
  BY DEF Goal, Items
<1>2. WholeItems \subseteq Items /\ LeftItems \subseteq Items
  BY DEF WholeItems, LeftItems
<1>3. Task = "none" /\ Outcome = "none"
  BY DEF Init, Task, Outcome
<1>4. QED
  BY <1>1, <1>2, <1>3 DEF Setup!Init, WholeItems, LeftItems

(* What a step of a running up does to the items: of those that it does    *)
(* not rebuild, it takes none away.                                        *)
UpStep ==
  /\ pc # "idle" /\ cmd = "up" /\ cmd' = cmd /\ role' = role
  /\ result' # "none"
  /\ routes \subseteq routes' /\ (member => member') /\ bridge' = bridge

(* What a step of a running down does to them: it adds nothing.            *)
DownStep ==
  /\ pc # "idle" /\ cmd = "down" /\ cmd' = cmd /\ role' = role
  /\ result' # "none"
  /\ routes' \subseteq routes /\ (member' => member)
  /\ bridge' = "up" => bridge = "up"
  /\ bridge = "absent" => bridge' = "absent"
  /\ cni' = "conf" => cni = "conf"
  /\ cni = "absent" => cni' = "absent"
  /\ certs' \in {certs, [f \in CertFiles |-> "absent"]}

LEMMA UpStepWorks == IInv /\ IInv' /\ UpStep => Setup!Work
<1> SUFFICES ASSUME IInv, IInv', UpStep PROVE Setup!Work
  OBVIOUS
<1> DEFINE Rebuilt == {"cni"} \union CertFiles
<1>1. Outcome = "running" /\ Outcome' \in {"running", "done", "incomplete"}
  BY DEF UpStep, Outcome, IInv, TypeOK, ControlOK
<1>2. Task = "setup" /\ Task' = Task /\ Goal' = Goal
  BY DEF UpStep, Task, Goal
<1>3. WholeItems \ Rebuilt \subseteq WholeItems'
  BY DEF WholeItems, Items, Whole, UpStep, CertFiles, IInv, TypeOK, HostOK,
         Dest, PodNets
<1>4. LeftItems \ Rebuilt \subseteq LeftItems'
  BY DEF LeftItems, Items, Left, UpStep, CertFiles
<1>5. WholeItems' \subseteq Items /\ LeftItems' \subseteq Items
  BY DEF WholeItems, LeftItems, Items, CertFiles
<1>6. ASSUME Outcome' = "done" PROVE Goal \subseteq WholeItems'
  <2>1. pc' = "idle" /\ result' = "ok" /\ cmd' = "up"
    BY <1>6 DEF Outcome, UpStep
  <2>2. cni' = "conf" /\ member' /\ CertsInPlace' /\ routes' = Dest
    BY <2>1 DEF IInv, UpInv, FilesInv, Dest, PodNets
  <2>3. QED
    BY <2>2 DEF Goal, WholeItems, Items, Whole, CertFiles, CertsInPlace, UpStep
<1>7. QED
  BY <1>1, <1>2, <1>3, <1>4, <1>5, <1>6
  DEF Setup!Work, Setup!Changes, Setup!Complete, WholeItems, LeftItems

LEMMA DownStepWorks == IInv /\ IInv' /\ DownStep => Setup!Work
<1> SUFFICES ASSUME IInv, IInv', DownStep PROVE Setup!Work
  OBVIOUS
<1>1. Outcome = "running" /\ Outcome' \in {"running", "done", "incomplete"}
  BY DEF DownStep, Outcome, IInv, TypeOK, ControlOK
<1>2. Task = "teardown" /\ Task' = Task /\ Goal' = Goal
  BY DEF DownStep, Task, Goal
<1>3. WholeItems' \subseteq WholeItems
  <2>1. ASSUME NEW i \in CertFiles, certs'[i] = "whole" PROVE certs[i] = "whole"
    BY <2>1 DEF DownStep
  <2>2. routes' = Dest => routes = Dest
    BY DEF DownStep, IInv, TypeOK, HostOK
  <2>3. Dest' = Dest
    BY DEF Dest, PodNets
  <2>4. QED
    BY <2>1, <2>2, <2>3 DEF WholeItems, Items, Whole, DownStep, CertFiles
<1>4. LeftItems' \subseteq LeftItems
  <2>1. ASSUME NEW i \in CertFiles, certs'[i] # "absent" PROVE certs[i] # "absent"
    BY <2>1 DEF DownStep
  <2>2. QED
    BY <2>1 DEF LeftItems, Items, Left, DownStep, CertFiles
<1>5. WholeItems' \subseteq Items /\ LeftItems' \subseteq Items
  BY DEF WholeItems, LeftItems, Items, CertFiles
<1>6. ASSUME Outcome' = "done" PROVE LeftItems' \subseteq CertFiles
  <2>1. pc' = "idle" /\ result' = "ok" /\ cmd' = "down"
    BY <1>6 DEF Outcome, DownStep
  <2>2. routes' = {} /\ bridge' = "absent" /\ cni' = "absent" /\ ~member'
    BY <2>1 DEF IInv, DownInv, DownComplete
  <2>3. QED
    BY <2>2 DEF LeftItems, Items, Left, CertFiles
<1>7. QED
  BY <1>1, <1>2, <1>3, <1>4, <1>5, <1>6
  DEF Setup!Work, Setup!Changes, Setup!Complete, WholeItems, LeftItems

LEMMA StartBegins == IInv /\ (BringUp \/ TearDown) => Setup!Begin
<1> SUFFICES ASSUME IInv, BringUp \/ TearDown PROVE Setup!Begin
  OBVIOUS
<1>1. Outcome # "running" /\ Outcome' \in {"running", "incomplete"}
  BY DEF BringUp, TearDown, Start, Outcome
<1>2. Task' \in {"setup", "teardown"} /\ Goal' = Goal
  BY DEF BringUp, TearDown, Start, Task, Goal, config
<1>3. WholeItems' = WholeItems /\ LeftItems' = LeftItems
  BY DEF BringUp, TearDown, Start, host, WholeItems, LeftItems, Items, Whole, Left,
         Dest, PodNets
<1>4. QED
  BY <1>1, <1>2, <1>3 DEF Setup!Begin, Setup!Tasks, WholeItems, LeftItems

LEMMA PodUses == IInv /\ PodStarted => Setup!Use
<1> SUFFICES ASSUME IInv, PodStarted PROVE Setup!Use
  OBVIOUS
<1>1. {"cni", "member"} \subseteq WholeItems
  BY DEF PodStarted, WholeItems, Items, Whole
<1>2. WholeItems' = WholeItems \union {"bridge"}
  BY DEF PodStarted, WholeItems, Items, Whole, CertFiles, Dest, PodNets
<1>3. LeftItems' = LeftItems \union {"bridge"}
  BY DEF PodStarted, LeftItems, Items, Left, CertFiles
<1>4. Outcome' = Outcome /\ Task' = Task /\ Goal' = Goal
  BY DEF PodStarted, Outcome, Task, Goal, config, command
<1>5. QED
  BY <1>1, <1>2, <1>3, <1>4 DEF Setup!Use, WholeItems, LeftItems

LEMMA RebootReboots == IInv /\ Reboot => Setup!Reboot
<1> SUFFICES ASSUME IInv, Reboot PROVE Setup!Reboot
  OBVIOUS
<1> DEFINE Volatile == {"routes", "bridge"}
<1> DEFINE Rebuilt  == {"cni"} \union CertFiles
<1>1. /\ Outcome' = "incomplete" /\ Task' = Task /\ Goal' = Goal
      /\ (Outcome = "running" <=> pc # "idle")
  BY DEF Reboot, CutShort, Fails, Outcome, Task, Goal, config, command
<1>2. WholeItems' \subseteq Items /\ LeftItems' \subseteq Items
  BY DEF WholeItems, LeftItems, Items, CertFiles
<1>3. /\ pc \in UpSteps => cmd = "up"
      /\ pc \in DownSteps => cmd = "down"
      /\ pc # "idle" => pc \in UpSteps \union DownSteps
  BY DEF IInv, TypeOK, ControlOK, UpInv
<1>4. Dest' = Dest /\ routes \subseteq Dest
  BY DEF Reboot, Dest, PodNets, IInv, TypeOK, HostOK
<1>5. CASE pc = "idle"
  <2>1. UNCHANGED <<cni, certs, member>>
    BY <1>5 DEF Reboot, CutShort
  <2>2. WholeItems' \subseteq WholeItems /\ WholeItems \ WholeItems' \subseteq Volatile
    BY <2>1, <1>4 DEF Reboot, WholeItems, Items, Whole, CertFiles
  <2>3. LeftItems' \subseteq LeftItems /\ LeftItems \ LeftItems' \subseteq Volatile
    BY <2>1 DEF Reboot, LeftItems, Items, Left, CertFiles
  <2>4. QED
    BY <1>1, <1>5, <2>2, <2>3
    DEF Setup!Reboot, Setup!Survives, WholeItems, LeftItems
<1>6. CASE pc # "idle" /\ cmd = "up"
  <2>1. UNCHANGED <<cni, certs>> /\ (member => member')
    BY <1>6, <1>3 DEF Reboot, CutShort, DownSteps
  <2>2. WholeItems \ Volatile \subseteq WholeItems'
    BY <2>1 DEF WholeItems, Items, Whole, CertFiles
  <2>3. LeftItems \ Volatile \subseteq LeftItems'
    BY <2>1 DEF LeftItems, Items, Left, CertFiles
  <2>4. Outcome = "running" /\ Task = "setup"
    BY <1>1, <1>6 DEF Task
  <2>5. WholeItems \ Rebuilt \subseteq WholeItems' \union (WholeItems \intersect Volatile)
    BY <2>2
  <2>6. LeftItems \ Rebuilt \subseteq LeftItems' \union (LeftItems \intersect Volatile)
    BY <2>3
  <2>7. WholeItems \subseteq Items /\ LeftItems \subseteq Items
    BY DEF WholeItems, LeftItems
  <2>8. QED
    BY <1>1, <1>2, <2>4, <2>5, <2>6, <2>7
    DEF Setup!Reboot, Setup!Survives, Setup!Changes, WholeItems, LeftItems
<1>7. CASE pc # "idle" /\ cmd = "down"
  <2>1. /\ UNCHANGED <<cni, certs, member>> \/ KubeadmReset
        /\ routes' = {} /\ bridge' = "absent"
    BY <1>7, <1>3 DEF Reboot, CutShort, UpSteps
  <2>2. WholeItems' \subseteq WholeItems
    <3>1. routes' = Dest => routes = Dest
      BY <2>1, <1>4
    <3>2. QED
      BY <2>1, <3>1, <1>4 DEF WholeItems, Items, Whole, CertFiles, KubeadmReset
  <2>3. LeftItems' \subseteq LeftItems
    BY <2>1 DEF LeftItems, Items, Left, CertFiles, KubeadmReset
  <2>4. Outcome = "running" /\ Task = "teardown"
    BY <1>1, <1>7 DEF Task
  <2>5. WholeItems \subseteq Items /\ LeftItems \subseteq Items
    BY DEF WholeItems, LeftItems
  <2>6. QED
    BY <1>1, <1>2, <2>2, <2>3, <2>4, <2>5
    DEF Setup!Reboot, Setup!Survives, Setup!Changes, WholeItems, LeftItems
<1>8. QED
  BY <1>3, <1>5, <1>6, <1>7

(* Every step that a running command takes is one of the two kinds. *)
LEMMA StepIsUpOrDown == IInv /\ (Step \/ Kill) => UpStep \/ DownStep
<1> SUFFICES ASSUME IInv, Step \/ Kill PROVE UpStep \/ DownStep
  OBVIOUS
<1>1. /\ pc \in UpSteps => cmd = "up"
      /\ pc \in DownSteps => cmd = "down"
      /\ pc # "idle" => pc \in UpSteps \union DownSteps
      /\ pc # "idle" => result = "running"
  BY DEF IInv, TypeOK, ControlOK, UpInv
<1> USE <1>1 DEF UpStep, DownStep, UpSteps, DownSteps, config, command, loop, host,
                 KubeadmReset, Then, End, Fails
<1>2. CASE RemoveCNIArea
  BY <1>2 DEF RemoveCNIArea
<1>3. CASE MakeCNIArea
  BY <1>3 DEF MakeCNIArea
<1>4. CASE OpenCNIConfig
  BY <1>4 DEF OpenCNIConfig
<1>5. CASE WriteCNIConfig
  BY <1>5 DEF WriteCNIConfig
<1>6. ASSUME NEW d \in Dest, AddRoute(d) PROVE UpStep
  BY <1>6 DEF AddRoute, SkipRoute
<1>7. CASE RoutesAdded
  BY <1>7 DEF RoutesAdded
<1>8. CASE RestartKubeletService
  BY <1>8 DEF RestartKubeletService
<1>9. CASE OpenCertificate
  BY <1>9 DEF OpenCertificate
<1>10. CASE WriteCertificate
  BY <1>10 DEF WriteCertificate
<1>11. CASE StartKubernetes
  BY <1>11 DEF StartKubernetes
<1>12. CASE StopKubernetes
  BY <1>12 DEF StopKubernetes
<1>13. ASSUME NEW d \in Dest, DeleteRoute(d) PROVE DownStep
  BY <1>13 DEF DeleteRoute
<1>14. CASE RoutesDeleted
  BY <1>14 DEF RoutesDeleted
<1>15. CASE BringLinkDown
  BY <1>15 DEF BringLinkDown
<1>16. CASE DeleteLink
  BY <1>16 DEF DeleteLink
<1>17. CASE CleanupCNIArea
  BY <1>17 DEF CleanupCNIArea
<1>18. CASE Kill
  BY <1>18 DEF Kill, CutShort
<1>19. QED
  BY <1>2, <1>3, <1>4, <1>5, <1>6, <1>7, <1>8, <1>9, <1>10, <1>11, <1>12,
     <1>13, <1>14, <1>15, <1>16, <1>17, <1>18 DEF Step

LEMMA SameItems == UNCHANGED vars => UNCHANGED Setup!vars
<1> SUFFICES ASSUME UNCHANGED vars PROVE UNCHANGED Setup!vars
  OBVIOUS
<1>1. WholeItems' = WholeItems /\ LeftItems' = LeftItems
  BY DEF vars, host, WholeItems, LeftItems, Items, Whole, Left, Dest, PodNets
<1>2. Outcome' = Outcome /\ Task' = Task /\ Goal' = Goal
  BY DEF vars, config, command, Outcome, Task, Goal
<1>3. QED
  BY <1>1, <1>2 DEF Setup!vars, WholeItems, LeftItems

LEMMA RefinedStep == IInv /\ IInv' /\ [Next]_vars => [Setup!Next]_(Setup!vars)
<1> SUFFICES ASSUME IInv, IInv', [Next]_vars PROVE Setup!Next \/ UNCHANGED Setup!vars
  OBVIOUS
<1>1. CASE BringUp \/ TearDown
  BY <1>1, StartBegins DEF Setup!Next
<1>2. CASE Step \/ Kill
  BY <1>2, StepIsUpOrDown, UpStepWorks, DownStepWorks DEF Setup!Next
<1>3. CASE PodStarted
  BY <1>3, PodUses DEF Setup!Next
<1>4. CASE Reboot
  BY <1>4, RebootReboots DEF Setup!Next
<1>5. CASE UNCHANGED vars
  BY <1>5, SameItems
<1>6. QED
  BY <1>1, <1>2, <1>3, <1>4, <1>5 DEF Next, Environment

(* up and down keep the promise of HostSetup: whatever they are started on *)
(* and wherever they are cut short, an up takes away only what it makes    *)
(* anew, a down adds nothing, and each reports success for the whole of    *)
(* its work only.                                                          *)
THEOREM Refinement == Spec => RefinesHostSetup
<1>1. IInv /\ IInv' /\ [Next]_vars => [Setup!Next]_(Setup!vars)
  BY RefinedStep
<1>2. QED
  BY <1>1, OutcomeInit, Invariance, PTL DEF Spec, RefinesHostSetup, Setup!Spec

=============================================================================
