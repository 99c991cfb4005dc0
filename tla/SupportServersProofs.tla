------------------------ MODULE SupportServersProofs ------------------------
(***************************************************************************)
(* Proofs about SupportServers, for any number of faults: the support      *)
(* network, the volume, the two containers and their routes, through any   *)
(* sequence of prepares and cleans.                                        *)
(***************************************************************************)
EXTENDS SupportServers, TLAPS

-----------------------------------------------------------------------------
(* The inductive invariant *)

(* A running command has no result yet, and a server that stopped in a     *)
(* command is a fault of that command.                                     *)
RunInv ==
  /\ pc # "idle" <=> result = "running"
  /\ cmd = "none" => result \in {"none", "killed"}
  /\ died => faulty
  /\ errs => cmd = "clean"

(* The order of Prepare and of Cleanup: the volume is made when no bind9   *)
(* container holds it, and is whole when the container is run; the network *)
(* is there before, and goes after.                                        *)
OrderInv ==
  /\ ServerHasConf
  /\ natRoute => net
  /\ pc \in PrepareSteps \ {"net"} => net
  /\ pc \in {"volNew", "volConf", "runDns"} => ctr[DNS64Name] = "not-present"
  /\ pc \in {"runDns", "dnsV4", "dnsRoute", "nat", "runNat", "natRoute"}
       => vol = "conf"
  /\ pc \in {"dnsRoute", "nat", "runNat", "natRoute"} => ~dnsV4
  /\ cmd = "prepare" /\ result = "ok" => net /\ natRoute /\ vol = "conf"

(* What Prepare has achieved at a step, if nothing has stopped since.      *)
PrepareInv ==
  /\ pc \in {"dnsV4", "dnsRoute", "nat", "runNat", "natRoute"} /\ ~died
       => ctr[DNS64Name] = "running"
  /\ pc \in {"nat", "runNat", "natRoute"} /\ ~faulty => dnsRoute
  /\ pc = "natRoute" /\ ~died => ctr[NAT64Name] = "running"
  /\ pc = "volRm" /\ ~faulty => ctr[DNS64Name] = "not-present"
  /\ pc = "runNat" /\ ~faulty => ctr[NAT64Name] = "not-present"
  /\ ServersReady /\ ServersResume

(* What Cleanup has removed at a step, if nothing went wrong in it, or if  *)
(* it has found nothing to complain about.                                 *)
CleanInv ==
  LET clean == ~faulty \/ ~errs
  IN  /\ pc \in CleanSteps \ {"rmDns"} /\ clean
           => ctr[DNS64Name] = "not-present"
      /\ pc \in {"rmNatRoute", "rmNat", "rmNet"} /\ clean => vol = "absent"
      /\ pc \in {"rmNat", "rmNet"} /\ clean => ~natRoute
      /\ pc = "rmNet" /\ clean => ctr[NAT64Name] = "not-present"
      /\ cmd = "clean" /\ result = "ok" => Nothing
      /\ CleanAlwaysRemoves

IInv == TypeOK /\ RunInv /\ OrderInv /\ PrepareInv /\ CleanInv

-----------------------------------------------------------------------------
(* It holds initially and is kept by every step *)

LEMMA InitInv == Init => IInv
<1> SUFFICES ASSUME Init PROVE IInv
  OBVIOUS
<1> USE DEF Init, Containers, DNS64Name, NAT64Name, PrepareSteps, CleanSteps
<1>1. TypeOK
  <2>1. ControlOK
    BY DEF ControlOK
  <2>2. HostOK
    BY DEF HostOK, States, Volumes
  <2>3. faults \in 0..MaxFaults
    BY MaxFaultsAssumption
  <2>4. QED
    BY <2>1, <2>2, <2>3 DEF TypeOK
<1>2. RunInv
  BY DEF RunInv
<1>3. OrderInv
  BY DEF OrderInv, ServerHasConf
<1>4. PrepareInv
  BY DEF PrepareInv, ServersReady, ServersResume
<1>5. CleanInv
  BY DEF CleanInv, CleanAlwaysRemoves
<1>6. QED
  BY <1>1, <1>2, <1>3, <1>4, <1>5 DEF IInv

LEMMA ControlNext == TypeOK /\ [Next]_vars => ControlOK'
<1> SUFFICES ASSUME TypeOK, [Next]_vars PROVE ControlOK'
  OBVIOUS
<1> USE DEF TypeOK, ControlOK, Then, Noted, End, Fault, FaultThen, Fails,
            control, dns, host, Containers, DNS64Name, NAT64Name,
            PrepareSteps, CleanSteps
<1>1. CASE Prepare
  BY <1>1 DEF Prepare, Start
<1>2. CASE Cleanup
  BY <1>2 DEF Cleanup, Start
<1>3. CASE CreateSupportNetwork
  BY <1>3 DEF CreateSupportNetwork
<1>4. CASE EnsureDNS64Server
  BY <1>4 DEF EnsureDNS64Server, EnsureServer
<1>5. CASE RemoveVolume
  BY <1>5 DEF RemoveVolume, VolumeInUse
<1>6. CASE CreateVolume
  BY <1>6 DEF CreateVolume
<1>7. CASE WriteNamedConf
  BY <1>7 DEF WriteNamedConf
<1>8. CASE RunDNS64Server
  BY <1>8 DEF RunDNS64Server, RunnableContainer, FailedRun
<1>9. CASE RemoveIPv4AddressOnDNS64Server
  BY <1>9 DEF RemoveIPv4AddressOnDNS64Server
<1>10. CASE AddRouteForDNS64Network
  BY <1>10 DEF AddRouteForDNS64Network
<1>11. CASE EnsureNAT64Server
  BY <1>11 DEF EnsureNAT64Server, EnsureServer
<1>12. CASE RunNAT64Server
  BY <1>12 DEF RunNAT64Server, RunnableContainer, FailedRun
<1>13. CASE EnsureRouteToNAT64
  BY <1>13 DEF EnsureRouteToNAT64
<1>14. CASE CleanupDNS64Container
  BY <1>14 DEF CleanupDNS64Container, RemoveContainer
<1>15. CASE CleanupDNS64Volume
  BY <1>15 DEF CleanupDNS64Volume, VolumeInUse
<1>16. CASE RemoveRouteToNAT64
  BY <1>16 DEF RemoveRouteToNAT64
<1>17. CASE CleanupNAT64Container
  BY <1>17 DEF CleanupNAT64Container, RemoveContainer
<1>18. CASE CleanupSupportNetwork
  BY <1>18 DEF CleanupSupportNetwork, Attached
<1>19. ASSUME NEW c \in Containers, ContainerStops(c) PROVE ControlOK'
  BY <1>19 DEF ContainerStops
<1>20. CASE Kill
  BY <1>20 DEF Kill, CutShort, FailedRun
<1>21. CASE Reboot
  BY <1>21 DEF Reboot, CutShort, FailedRun
<1>22. CASE UNCHANGED vars
  BY <1>22 DEF vars
<1>23. QED
  BY <1>1, <1>2, <1>3, <1>4, <1>5, <1>6, <1>7, <1>8, <1>9, <1>10, <1>11,
     <1>12, <1>13, <1>14, <1>15, <1>16, <1>17, <1>18, <1>19, <1>20, <1>21,
     <1>22
  DEF Next, PrepareStep, CleanStep, Environment

LEMMA HostNext == TypeOK /\ [Next]_vars => HostOK'
<1> SUFFICES ASSUME TypeOK, [Next]_vars PROVE HostOK'
  OBVIOUS
<1> USE DEF TypeOK, HostOK, States, Volumes, Then, Noted, End, Fault,
            FaultThen, Fails, control, dns, host, Containers, DNS64Name,
            NAT64Name, PrepareSteps, CleanSteps
<1>1. CASE Prepare
  BY <1>1 DEF Prepare, Start
<1>2. CASE Cleanup
  BY <1>2 DEF Cleanup, Start
<1>3. CASE CreateSupportNetwork
  BY <1>3 DEF CreateSupportNetwork
<1>4. CASE EnsureDNS64Server
  BY <1>4 DEF EnsureDNS64Server, EnsureServer
<1>5. CASE RemoveVolume
  BY <1>5 DEF RemoveVolume, VolumeInUse
<1>6. CASE CreateVolume
  BY <1>6 DEF CreateVolume
<1>7. CASE WriteNamedConf
  BY <1>7 DEF WriteNamedConf
<1>8. CASE RunDNS64Server
  BY <1>8 DEF RunDNS64Server, RunnableContainer, FailedRun
<1>9. CASE RemoveIPv4AddressOnDNS64Server
  BY <1>9 DEF RemoveIPv4AddressOnDNS64Server
<1>10. CASE AddRouteForDNS64Network
  BY <1>10 DEF AddRouteForDNS64Network
<1>11. CASE EnsureNAT64Server
  BY <1>11 DEF EnsureNAT64Server, EnsureServer
<1>12. CASE RunNAT64Server
  BY <1>12 DEF RunNAT64Server, RunnableContainer, FailedRun
<1>13. CASE EnsureRouteToNAT64
  BY <1>13 DEF EnsureRouteToNAT64
<1>14. CASE CleanupDNS64Container
  BY <1>14 DEF CleanupDNS64Container, RemoveContainer
<1>15. CASE CleanupDNS64Volume
  BY <1>15 DEF CleanupDNS64Volume, VolumeInUse
<1>16. CASE RemoveRouteToNAT64
  BY <1>16 DEF RemoveRouteToNAT64
<1>17. CASE CleanupNAT64Container
  BY <1>17 DEF CleanupNAT64Container, RemoveContainer
<1>18. CASE CleanupSupportNetwork
  BY <1>18 DEF CleanupSupportNetwork, Attached
<1>19. ASSUME NEW c \in Containers, ContainerStops(c) PROVE HostOK'
  BY <1>19 DEF ContainerStops
<1>20. CASE Kill
  BY <1>20 DEF Kill, CutShort, FailedRun
<1>21. CASE Reboot
  BY <1>21 DEF Reboot, CutShort, FailedRun
<1>22. CASE UNCHANGED vars
  BY <1>22 DEF vars
<1>23. QED
  BY <1>1, <1>2, <1>3, <1>4, <1>5, <1>6, <1>7, <1>8, <1>9, <1>10, <1>11,
     <1>12, <1>13, <1>14, <1>15, <1>16, <1>17, <1>18, <1>19, <1>20, <1>21,
     <1>22
  DEF Next, PrepareStep, CleanStep, Environment

LEMMA FaultOrNot == [Next]_vars => Fault \/ UNCHANGED faults
BY DEF Next, vars, PrepareStep, CleanStep, Environment, Prepare, Cleanup, Start,
       CreateSupportNetwork, EnsureDNS64Server, EnsureServer, RemoveVolume,
       CreateVolume, WriteNamedConf, RunDNS64Server,
       RemoveIPv4AddressOnDNS64Server, AddRouteForDNS64Network,
       EnsureNAT64Server, RunNAT64Server, EnsureRouteToNAT64,
       CleanupDNS64Container, CleanupDNS64Volume, RemoveRouteToNAT64,
       CleanupNAT64Container, CleanupSupportNetwork, RemoveContainer,
       ContainerStops, Kill, Reboot, Then, Noted, End, FaultThen, Fails

LEMMA FaultsNext == TypeOK /\ [Next]_vars => (faults \in 0..MaxFaults)'
  BY FaultOrNot, MaxFaultsAssumption DEF TypeOK, Fault

LEMMA TypeNext == TypeOK /\ [Next]_vars => TypeOK'
  BY ControlNext, HostNext, FaultsNext DEF TypeOK

LEMMA RunNext == TypeOK /\ RunInv /\ [Next]_vars => RunInv'
<1> SUFFICES ASSUME TypeOK, RunInv, [Next]_vars PROVE RunInv'
  OBVIOUS
<1> USE DEF TypeOK, ControlOK, RunInv, Then, Noted, End, Fault, FaultThen,
            Fails, control, dns, host, Containers, DNS64Name, NAT64Name,
            PrepareSteps, CleanSteps
<1>1. CASE Prepare
  BY <1>1 DEF Prepare, Start
<1>2. CASE Cleanup
  BY <1>2 DEF Cleanup, Start
<1>3. CASE CreateSupportNetwork
  BY <1>3 DEF CreateSupportNetwork
<1>4. CASE EnsureDNS64Server
  BY <1>4 DEF EnsureDNS64Server, EnsureServer
<1>5. CASE RemoveVolume
  BY <1>5 DEF RemoveVolume, VolumeInUse
<1>6. CASE CreateVolume
  BY <1>6 DEF CreateVolume
<1>7. CASE WriteNamedConf
  BY <1>7 DEF WriteNamedConf
<1>8. CASE RunDNS64Server
  BY <1>8 DEF RunDNS64Server, RunnableContainer, FailedRun
<1>9. CASE RemoveIPv4AddressOnDNS64Server
  BY <1>9 DEF RemoveIPv4AddressOnDNS64Server
<1>10. CASE AddRouteForDNS64Network
  BY <1>10 DEF AddRouteForDNS64Network
<1>11. CASE EnsureNAT64Server
  BY <1>11 DEF EnsureNAT64Server, EnsureServer
<1>12. CASE RunNAT64Server
  BY <1>12 DEF RunNAT64Server, RunnableContainer, FailedRun
<1>13. CASE EnsureRouteToNAT64
  BY <1>13 DEF EnsureRouteToNAT64
<1>14. CASE CleanupDNS64Container
  BY <1>14 DEF CleanupDNS64Container, RemoveContainer
<1>15. CASE CleanupDNS64Volume
  BY <1>15 DEF CleanupDNS64Volume, VolumeInUse
<1>16. CASE RemoveRouteToNAT64
  BY <1>16 DEF RemoveRouteToNAT64
<1>17. CASE CleanupNAT64Container
  BY <1>17 DEF CleanupNAT64Container, RemoveContainer
<1>18. CASE CleanupSupportNetwork
  BY <1>18 DEF CleanupSupportNetwork, Attached
<1>19. ASSUME NEW c \in Containers, ContainerStops(c) PROVE RunInv'
  BY <1>19 DEF ContainerStops
<1>20. CASE Kill
  BY <1>20 DEF Kill, CutShort, FailedRun
<1>21. CASE Reboot
  BY <1>21 DEF Reboot, CutShort, FailedRun
<1>22. CASE UNCHANGED vars
  BY <1>22 DEF vars
<1>23. QED
  BY <1>1, <1>2, <1>3, <1>4, <1>5, <1>6, <1>7, <1>8, <1>9, <1>10, <1>11,
     <1>12, <1>13, <1>14, <1>15, <1>16, <1>17, <1>18, <1>19, <1>20, <1>21,
     <1>22
  DEF Next, PrepareStep, CleanStep, Environment

LEMMA OrderNext == TypeOK /\ RunInv /\ OrderInv /\ [Next]_vars => OrderInv'
<1> SUFFICES ASSUME TypeOK, RunInv, OrderInv, [Next]_vars PROVE OrderInv'
  OBVIOUS
<1> USE DEF TypeOK, ControlOK, HostOK, States, Volumes, RunInv, OrderInv,
            ServerHasConf, Then, Noted, End, Fault, FaultThen, Fails,
            control, dns, host, Containers, DNS64Name, NAT64Name,
            PrepareSteps, CleanSteps
<1>1. CASE Prepare
  BY <1>1 DEF Prepare, Start
<1>2. CASE Cleanup
  BY <1>2 DEF Cleanup, Start
<1>3. CASE CreateSupportNetwork
  BY <1>3 DEF CreateSupportNetwork
<1>4. CASE EnsureDNS64Server
  BY <1>4 DEF EnsureDNS64Server, EnsureServer
<1>5. CASE RemoveVolume
  BY <1>5 DEF RemoveVolume, VolumeInUse
<1>6. CASE CreateVolume
  BY <1>6 DEF CreateVolume
<1>7. CASE WriteNamedConf
  BY <1>7 DEF WriteNamedConf
<1>8. CASE RunDNS64Server
  BY <1>8 DEF RunDNS64Server, RunnableContainer, FailedRun
<1>9. CASE RemoveIPv4AddressOnDNS64Server
  BY <1>9 DEF RemoveIPv4AddressOnDNS64Server
<1>10. CASE AddRouteForDNS64Network
  BY <1>10 DEF AddRouteForDNS64Network
<1>11. CASE EnsureNAT64Server
  BY <1>11 DEF EnsureNAT64Server, EnsureServer
<1>12. CASE RunNAT64Server
  BY <1>12 DEF RunNAT64Server, RunnableContainer, FailedRun
<1>13. CASE EnsureRouteToNAT64
  BY <1>13 DEF EnsureRouteToNAT64
<1>14. CASE CleanupDNS64Container
  BY <1>14 DEF CleanupDNS64Container, RemoveContainer
<1>15. CASE CleanupDNS64Volume
  BY <1>15 DEF CleanupDNS64Volume, VolumeInUse
<1>16. CASE RemoveRouteToNAT64
  BY <1>16 DEF RemoveRouteToNAT64
<1>17. CASE CleanupNAT64Container
  BY <1>17 DEF CleanupNAT64Container, RemoveContainer
<1>18. CASE CleanupSupportNetwork
  BY <1>18 DEF CleanupSupportNetwork, Attached
<1>19. ASSUME NEW c \in Containers, ContainerStops(c) PROVE OrderInv'
  BY <1>19 DEF ContainerStops
<1>20. CASE Kill
  BY <1>20 DEF Kill, CutShort, FailedRun
<1>21. CASE Reboot
  BY <1>21 DEF Reboot, CutShort, FailedRun
<1>22. CASE UNCHANGED vars
  BY <1>22 DEF vars
<1>23. QED
  BY <1>1, <1>2, <1>3, <1>4, <1>5, <1>6, <1>7, <1>8, <1>9, <1>10, <1>11,
     <1>12, <1>13, <1>14, <1>15, <1>16, <1>17, <1>18, <1>19, <1>20, <1>21,
     <1>22
  DEF Next, PrepareStep, CleanStep, Environment

LEMMA PrepareNext == TypeOK /\ RunInv /\ OrderInv /\ PrepareInv /\ [Next]_vars => PrepareInv'
<1> SUFFICES ASSUME TypeOK, RunInv, OrderInv, PrepareInv, [Next]_vars PROVE PrepareInv'
  OBVIOUS
<1> USE DEF TypeOK, ControlOK, HostOK, RunInv, OrderInv, ServerHasConf,
            PrepareInv, ServersReady, ServersResume, States, Then, Noted,
            End, Fault, FaultThen, Fails, control, dns, host, Containers,
            DNS64Name, NAT64Name, PrepareSteps, CleanSteps
<1>1. CASE Prepare
  BY <1>1 DEF Prepare, Start
<1>2. CASE Cleanup
  BY <1>2 DEF Cleanup, Start
<1>3. CASE CreateSupportNetwork
  BY <1>3 DEF CreateSupportNetwork
<1>4. CASE EnsureDNS64Server
  BY <1>4 DEF EnsureDNS64Server, EnsureServer
<1>5. CASE RemoveVolume
  BY <1>5 DEF RemoveVolume, VolumeInUse
<1>6. CASE CreateVolume
  BY <1>6 DEF CreateVolume
<1>7. CASE WriteNamedConf
  BY <1>7 DEF WriteNamedConf
<1>8. CASE RunDNS64Server
  BY <1>8 DEF RunDNS64Server, RunnableContainer, FailedRun
<1>9. CASE RemoveIPv4AddressOnDNS64Server
  BY <1>9 DEF RemoveIPv4AddressOnDNS64Server
<1>10. CASE AddRouteForDNS64Network
  BY <1>10 DEF AddRouteForDNS64Network
<1>11. CASE EnsureNAT64Server
  BY <1>11 DEF EnsureNAT64Server, EnsureServer
<1>12. CASE RunNAT64Server
  BY <1>12 DEF RunNAT64Server, RunnableContainer, FailedRun
<1>13. CASE EnsureRouteToNAT64
  BY <1>13 DEF EnsureRouteToNAT64
<1>14. CASE CleanupDNS64Container
  BY <1>14 DEF CleanupDNS64Container, RemoveContainer
<1>15. CASE CleanupDNS64Volume
  BY <1>15 DEF CleanupDNS64Volume, VolumeInUse
<1>16. CASE RemoveRouteToNAT64
  BY <1>16 DEF RemoveRouteToNAT64
<1>17. CASE CleanupNAT64Container
  BY <1>17 DEF CleanupNAT64Container, RemoveContainer
<1>18. CASE CleanupSupportNetwork
  BY <1>18 DEF CleanupSupportNetwork, Attached
<1>19. ASSUME NEW c \in Containers, ContainerStops(c) PROVE PrepareInv'
  BY <1>19 DEF ContainerStops
<1>20. CASE Kill
  BY <1>20 DEF Kill, CutShort, FailedRun
<1>21. CASE Reboot
  BY <1>21 DEF Reboot, CutShort, FailedRun
<1>22. CASE UNCHANGED vars
  BY <1>22 DEF vars
<1>23. QED
  BY <1>1, <1>2, <1>3, <1>4, <1>5, <1>6, <1>7, <1>8, <1>9, <1>10, <1>11,
     <1>12, <1>13, <1>14, <1>15, <1>16, <1>17, <1>18, <1>19, <1>20, <1>21,
     <1>22
  DEF Next, PrepareStep, CleanStep, Environment

LEMMA CleanNext == TypeOK /\ RunInv /\ OrderInv /\ CleanInv /\ [Next]_vars => CleanInv'
<1> SUFFICES ASSUME TypeOK, RunInv, OrderInv, CleanInv, [Next]_vars PROVE CleanInv'
  OBVIOUS
<1> USE DEF TypeOK, ControlOK, HostOK, States, Volumes, RunInv, OrderInv,
            CleanInv, CleanAlwaysRemoves, Nothing, Then, Noted, End, Fault,
            FaultThen, Fails, control, dns, host, Containers, DNS64Name,
            NAT64Name, PrepareSteps, CleanSteps
<1>1. CASE Prepare
  BY <1>1 DEF Prepare, Start
<1>2. CASE Cleanup
  BY <1>2 DEF Cleanup, Start
<1>3. CASE CreateSupportNetwork
  BY <1>3 DEF CreateSupportNetwork
<1>4. CASE EnsureDNS64Server
  BY <1>4 DEF EnsureDNS64Server, EnsureServer
<1>5. CASE RemoveVolume
  BY <1>5 DEF RemoveVolume, VolumeInUse
<1>6. CASE CreateVolume
  BY <1>6 DEF CreateVolume
<1>7. CASE WriteNamedConf
  BY <1>7 DEF WriteNamedConf
<1>8. CASE RunDNS64Server
  BY <1>8 DEF RunDNS64Server, RunnableContainer, FailedRun
<1>9. CASE RemoveIPv4AddressOnDNS64Server
  BY <1>9 DEF RemoveIPv4AddressOnDNS64Server
<1>10. CASE AddRouteForDNS64Network
  BY <1>10 DEF AddRouteForDNS64Network
<1>11. CASE EnsureNAT64Server
  BY <1>11 DEF EnsureNAT64Server, EnsureServer
<1>12. CASE RunNAT64Server
  BY <1>12 DEF RunNAT64Server, RunnableContainer, FailedRun
<1>13. CASE EnsureRouteToNAT64
  BY <1>13 DEF EnsureRouteToNAT64
<1>14. CASE CleanupDNS64Container
  BY <1>14 DEF CleanupDNS64Container, RemoveContainer
<1>15. CASE CleanupDNS64Volume
  BY <1>15 DEF CleanupDNS64Volume, VolumeInUse
<1>16. CASE RemoveRouteToNAT64
  BY <1>16 DEF RemoveRouteToNAT64
<1>17. CASE CleanupNAT64Container
  BY <1>17 DEF CleanupNAT64Container, RemoveContainer
<1>18. CASE CleanupSupportNetwork
  BY <1>18 DEF CleanupSupportNetwork, Attached
<1>19. ASSUME NEW c \in Containers, ContainerStops(c) PROVE CleanInv'
  BY <1>19 DEF ContainerStops
<1>20. CASE Kill
  BY <1>20 DEF Kill, CutShort, FailedRun
<1>21. CASE Reboot
  BY <1>21 DEF Reboot, CutShort, FailedRun
<1>22. CASE UNCHANGED vars
  BY <1>22 DEF vars
<1>23. QED
  BY <1>1, <1>2, <1>3, <1>4, <1>5, <1>6, <1>7, <1>8, <1>9, <1>10, <1>11,
     <1>12, <1>13, <1>14, <1>15, <1>16, <1>17, <1>18, <1>19, <1>20, <1>21,
     <1>22
  DEF Next, PrepareStep, CleanStep, Environment

LEMMA Invariance == Spec => []IInv
<1>1. IInv /\ [Next]_vars => IInv'
  BY TypeNext, RunNext, OrderNext, PrepareNext, CleanNext DEF IInv
<1>2. QED
  BY InitInv, <1>1, PTL DEF Spec

-----------------------------------------------------------------------------
(* What follows from it *)

(* Every reachable state is well typed, and each step belongs to the       *)
(* command that runs.                                                      *)
THEOREM TypeCorrect == Spec => []TypeOK
  BY Invariance, PTL DEF IInv

(* A running bind9 always has its whole named.conf and its network.        *)
THEOREM ServerAlwaysHasConf == Spec => []ServerHasConf
<1>1. IInv => ServerHasConf
  BY DEF IInv, OrderInv
<1>2. QED
  BY Invariance, <1>1, PTL

(* A Prepare that returns nil has made everything, but for servers that    *)
(* have stopped since.                                                     *)
THEOREM PrepareMakesServersReady == Spec => []ServersReady
<1>1. IInv => ServersReady
  BY DEF IInv, PrepareInv
<1>2. QED
  BY Invariance, <1>1, PTL

(* A Prepare without a fault succeeds, whatever it finds on the host.      *)
THEOREM PrepareAlwaysResumes == Spec => []ServersResume
<1>1. IInv => ServersResume
  BY DEF IInv, PrepareInv
<1>2. QED
  BY Invariance, <1>1, PTL

(* A Cleanup without a fault removes everything, whatever it finds.        *)
THEOREM CleanRemovesEverything == Spec => []CleanAlwaysRemoves
<1>1. IInv => CleanAlwaysRemoves
  BY DEF IInv, CleanInv
<1>2. QED
  BY Invariance, <1>1, PTL

(* A running container is removed by clean only.                           *)
LEMMA RemovalStep ==
  TypeOK /\ [Next]_vars =>
    \A c \in Containers :
      ctr[c] = "running" /\ ctr'[c] = "not-present" => cmd = "clean"
<1> SUFFICES ASSUME TypeOK, [Next]_vars, NEW c \in Containers,
                    ctr[c] = "running", ctr'[c] = "not-present"
             PROVE cmd = "clean"
  OBVIOUS
<1> USE DEF TypeOK, ControlOK, HostOK, host, PrepareSteps, CleanSteps
<1>1. CASE ctr' = ctr
  BY <1>1
<1>2. ASSUME NEW d \in Containers,
             ctr[d] # "running", \A x \in Containers \ {d} : ctr'[x] = ctr[x]
      PROVE FALSE
  BY <1>2
<1>3. CASE PrepareStep
  <2>1. \/ ctr' = ctr
        \/ \E d \in Containers : /\ ctr[d] # "running"
                                 /\ \A x \in Containers \ {d} : ctr'[x] = ctr[x]
    BY <1>3 DEF PrepareStep, CreateSupportNetwork, EnsureDNS64Server,
                EnsureServer, RemoveVolume, CreateVolume, WriteNamedConf,
                RunDNS64Server, RemoveIPv4AddressOnDNS64Server,
                AddRouteForDNS64Network, EnsureNAT64Server, RunNAT64Server,
                EnsureRouteToNAT64, RunnableContainer, FailedRun,
                Containers, DNS64Name, NAT64Name
  <2>2. QED
    BY <2>1, <1>1, <1>2
<1>4. CASE CleanStep
  BY <1>4 DEF CleanStep, CleanupDNS64Container, CleanupDNS64Volume,
              RemoveRouteToNAT64, CleanupNAT64Container, CleanupSupportNetwork
<1>5. CASE Environment
  BY <1>5 DEF Environment, ContainerStops, Kill, Reboot, CutShort, FailedRun,
              Containers, DNS64Name, NAT64Name
<1>6. CASE Prepare \/ Cleanup \/ UNCHANGED vars
  BY <1>6, <1>1 DEF Prepare, Cleanup, Start, vars
<1>7. QED
  BY <1>3, <1>4, <1>5, <1>6 DEF Next

(* No Prepare, at whatever point it fails or is killed, removes a server   *)
(* that is running.                                                        *)
THEOREM PrepareDisturbsNoServer == Spec => PrepareKeepsRunning
<1>1. IInv /\ [Next]_vars =>
        [\A c \in Containers :
           ctr[c] = "running" /\ ctr'[c] = "not-present" => cmd = "clean"]_vars
  BY RemovalStep DEF IInv
<1>2. QED
  BY Invariance, <1>1, PTL DEF Spec, PrepareKeepsRunning

-----------------------------------------------------------------------------
(* SupportServers implements HostSetup *)

WholeItems == {i \in Items : Whole(i)}
LeftItems  == {i \in Items : Left(i)}
Decayed    == IF died THEN Containers ELSE {}

LEMMA SetupInit == Init => Setup!Init
<1> SUFFICES ASSUME Init PROVE Setup!Init
  OBVIOUS
<1>1. WholeItems \subseteq Items /\ LeftItems \subseteq Items /\ Decayed = {}
  BY DEF WholeItems, LeftItems, Decayed, Init
<1>2. Task = "none" /\ Outcome = "none"
  BY DEF Init, Task, Outcome
<1>3. QED
  BY <1>1, <1>2 DEF Setup!Init, WholeItems, LeftItems, Decayed

(* A step of a running command, ...                                        *)
Runs(c) ==
  /\ pc # "idle" /\ cmd = c /\ cmd' = c /\ died' = died /\ result' # "none"

(* ... of prepare: network and route stay; ...                             *)
PrepareKeeps ==
  Runs("prepare") /\ (net => net') /\ (natRoute => natRoute')

(* ... of clean: nothing comes up.                                         *)
CleanTakes ==
  /\ Runs("clean") /\ (net' => net) /\ (natRoute' => natRoute)
  /\ vol' \in {vol, "absent"}
  /\ \A c \in Containers : ctr'[c] \in {ctr[c], "not-present"}

LEMMA PrepareWorks == IInv /\ IInv' /\ PrepareKeeps => Setup!Work
<1> SUFFICES ASSUME IInv, IInv', PrepareKeeps PROVE Setup!Work
  OBVIOUS
<1> USE DEF Containers, DNS64Name, NAT64Name
<1>1. /\ Outcome = "running" /\ Outcome' \in {"running", "done", "incomplete"}
      /\ Task = "setup" /\ Task' = "setup" /\ Decayed' = Decayed
  BY DEF PrepareKeeps, Runs, Outcome, Task, Decayed
<1>2. WholeItems' \subseteq Items /\ LeftItems' \subseteq Items
  BY DEF WholeItems, LeftItems
<1>3. /\ WholeItems \ (Containers \union {"volume"}) \subseteq WholeItems'
      /\ LeftItems \ (Containers \union {"volume"}) \subseteq LeftItems'
  BY DEF WholeItems, LeftItems, Items, Whole, Left, PrepareKeeps
<1>4. ASSUME Outcome' = "done" PROVE Items \subseteq WholeItems' \union Decayed
  <2>1. cmd' = "prepare" /\ result' = "ok" /\ died' = died
    BY <1>4 DEF Outcome, PrepareKeeps, Runs
  <2>2. /\ net' /\ natRoute' /\ vol' = "conf"
        /\ ~died => \A c \in Containers : ctr'[c] = "running"
    BY <2>1 DEF IInv, OrderInv, PrepareInv, ServersReady
  <2>3. QED
    BY <2>2 DEF WholeItems, Items, Whole, Decayed
<1>5. QED
  BY <1>1, <1>2, <1>3, <1>4
  DEF Setup!Work, Setup!Changes, Setup!Complete, WholeItems, LeftItems, Decayed

LEMMA CleanWorks == IInv /\ IInv' /\ CleanTakes => Setup!Work
<1> SUFFICES ASSUME IInv, IInv', CleanTakes PROVE Setup!Work
  OBVIOUS
<1> USE DEF Containers, DNS64Name, NAT64Name
<1>1. /\ Outcome = "running" /\ Outcome' \in {"running", "done", "incomplete"}
      /\ Task = "teardown" /\ Task' = "teardown" /\ Decayed' = Decayed
  BY DEF CleanTakes, Runs, Outcome, Task, Decayed
<1>2. WholeItems' \subseteq Items /\ LeftItems' \subseteq Items
  BY DEF WholeItems, LeftItems
<1>3. WholeItems' \subseteq WholeItems /\ LeftItems' \subseteq LeftItems
  BY DEF WholeItems, LeftItems, Items, Whole, Left, CleanTakes
<1>4. ASSUME Outcome' = "done" PROVE LeftItems' = {}
  <2>1. cmd' = "clean" /\ result' = "ok"
    BY <1>4 DEF Outcome, CleanTakes, Runs
  <2>2. Nothing'
    BY <2>1 DEF IInv, CleanInv
  <2>3. QED
    BY <2>2 DEF LeftItems, Items, Left, Nothing
<1>5. QED
  BY <1>1, <1>2, <1>3, <1>4
  DEF Setup!Work, Setup!Changes, Setup!Complete, WholeItems, LeftItems, Decayed

LEMMA WorkIsOfOne ==
  IInv /\ (PrepareStep \/ CleanStep \/ Kill) => PrepareKeeps \/ CleanTakes
<1> SUFFICES ASSUME IInv, PrepareStep \/ CleanStep \/ Kill
             PROVE PrepareKeeps \/ CleanTakes
  OBVIOUS
<1>1. pc # "idle" => result = "running"
  BY DEF IInv, RunInv
<1> USE <1>1 DEF IInv, TypeOK, ControlOK, HostOK, Runs, PrepareSteps, CleanSteps,
                 control, dns, host, Then, Noted, End, FaultThen, Fails, Fault
<1>2. CASE PrepareStep
  BY <1>2 DEF PrepareKeeps, PrepareStep, CreateSupportNetwork, EnsureDNS64Server,
              EnsureServer, RemoveVolume, CreateVolume, WriteNamedConf,
              RunDNS64Server, RemoveIPv4AddressOnDNS64Server,
              AddRouteForDNS64Network, EnsureNAT64Server, RunNAT64Server,
              EnsureRouteToNAT64
<1>3. CASE CleanStep
  BY <1>3 DEF CleanTakes, CleanStep, CleanupDNS64Container, CleanupDNS64Volume,
              RemoveRouteToNAT64, CleanupNAT64Container, CleanupSupportNetwork,
              RemoveContainer
<1>4. CASE Kill
  <2>1. cmd = "clean" => ctr' = ctr
    BY <1>4 DEF Kill, CutShort
  <2>2. QED
    BY <1>4, <2>1 DEF Kill, PrepareKeeps, CleanTakes
<1>5. QED
  BY <1>2, <1>3, <1>4

LEMMA StartBegins == Prepare \/ Cleanup => Setup!Begin
<1> SUFFICES ASSUME Prepare \/ Cleanup PROVE Setup!Begin
  OBVIOUS
<1>1. /\ Outcome # "running" /\ Outcome' = "running"
      /\ Task' \in {"setup", "teardown"} /\ Decayed' = {}
  BY DEF Prepare, Cleanup, Start, Outcome, Task, Decayed
<1>2. WholeItems' = WholeItems /\ LeftItems' = LeftItems
  BY DEF Prepare, Cleanup, Start, host, WholeItems, LeftItems, Whole, Left
<1>3. QED
  BY <1>1, <1>2 DEF Setup!Begin, Setup!Tasks, WholeItems, LeftItems, Decayed

LEMMA StopDecays ==
  ASSUME IInv, NEW c \in Containers, ContainerStops(c) PROVE Setup!Decay
<1>1. WholeItems' = WholeItems \ {c} /\ LeftItems' = LeftItems
  BY DEF ContainerStops, WholeItems, LeftItems, Items, Whole, Left, IInv, TypeOK,
         HostOK, Containers, DNS64Name, NAT64Name
<1>2. Outcome' = Outcome /\ Task' = Task /\ Decayed' = Containers
  BY DEF ContainerStops, Outcome, Task, Decayed, control
<1>3. QED
  BY <1>1, <1>2 DEF Setup!Decay, WholeItems, LeftItems, Decayed

LEMMA RebootReboots == IInv /\ Reboot => Setup!Reboot
<1> SUFFICES ASSUME IInv, Reboot PROVE Setup!Reboot
  OBVIOUS
<1> USE DEF Containers, DNS64Name, NAT64Name
<1> DEFINE Volatile == Containers \union {"route"}
<1>1. /\ Outcome' = "incomplete" /\ Task' = Task /\ Decayed' = Containers
      /\ (Outcome = "running" <=> pc # "idle")
  BY DEF Reboot, Outcome, Task, Decayed, control
<1>2. /\ WholeItems' \subseteq WholeItems /\ WholeItems \subseteq Items
      /\ WholeItems \ WholeItems' \subseteq Volatile
  BY DEF Reboot, CutShort, FailedRun, WholeItems, Items, Whole, dns,
         IInv, TypeOK, HostOK
<1>3. LeftItems' \subseteq Items /\ LeftItems \subseteq Items
  BY DEF LeftItems
<1>4. LeftItems \ LeftItems' \subseteq Volatile
  BY DEF Reboot, CutShort, FailedRun, LeftItems, Items, Left, dns,
         IInv, TypeOK, HostOK
<1>5. ASSUME pc = "idle" \/ cmd = "clean" PROVE LeftItems' \subseteq LeftItems
  <2>1. CutShort = {ctr}
    BY <1>5 DEF CutShort, IInv, TypeOK, ControlOK, PrepareSteps, CleanSteps
  <2>2. QED
    BY <2>1 DEF Reboot, LeftItems, Items, Left, dns, IInv, TypeOK, HostOK
<1>6. pc # "idle" => cmd \in {"prepare", "clean"}
  BY DEF IInv, TypeOK, ControlOK
<1>7. CASE pc = "idle"
  BY <1>1, <1>2, <1>4, <1>5, <1>7
  DEF Setup!Reboot, Setup!Survives, WholeItems, LeftItems, Decayed
<1>8. CASE pc # "idle" /\ cmd = "prepare"
  BY <1>1, <1>2, <1>3, <1>4, <1>8
  DEF Setup!Reboot, Setup!Survives, Setup!Changes, WholeItems, LeftItems,
      Decayed, Task
<1>9. CASE pc # "idle" /\ cmd = "clean"
  BY <1>1, <1>2, <1>3, <1>4, <1>5, <1>9
  DEF Setup!Reboot, Setup!Survives, Setup!Changes, WholeItems, LeftItems,
      Decayed, Task
<1>10. QED
  BY <1>6, <1>7, <1>8, <1>9

LEMMA RefinedStep == IInv /\ IInv' /\ [Next]_vars => [Setup!Next]_(Setup!vars)
<1> SUFFICES ASSUME IInv, IInv', [Next]_vars PROVE Setup!Next \/ UNCHANGED Setup!vars
  OBVIOUS
<1>1. CASE Prepare \/ Cleanup
  BY <1>1, StartBegins DEF Setup!Next
<1>2. CASE PrepareStep \/ CleanStep \/ Kill
  BY <1>2, WorkIsOfOne, PrepareWorks, CleanWorks DEF Setup!Next
<1>3. CASE \E c \in Containers : ContainerStops(c)
  BY <1>3, StopDecays DEF Setup!Next
<1>4. CASE Reboot
  BY <1>4, RebootReboots DEF Setup!Next
<1>5. CASE UNCHANGED vars
  <2>1. WholeItems' = WholeItems /\ LeftItems' = LeftItems
    BY <1>5 DEF vars, host, WholeItems, LeftItems, Whole, Left
  <2>2. Outcome' = Outcome /\ Task' = Task /\ Decayed' = Decayed
    BY <1>5 DEF vars, control, Outcome, Task, Decayed
  <2>3. QED
    BY <2>1, <2>2 DEF Setup!vars, WholeItems, LeftItems, Decayed
<1>6. QED
  BY <1>1, <1>2, <1>3, <1>4, <1>5 DEF Next, Environment

(* prepare and clean of the servers keep the promise of HostSetup,         *)
(* wherever they are cut short and whatever stops meanwhile.               *)
THEOREM Refinement == Spec => RefinesHostSetup
<1>1. IInv /\ IInv' /\ [Next]_vars => [Setup!Next]_(Setup!vars)
  BY RefinedStep
<1>2. QED
  BY <1>1, SetupInit, Invariance, PTL DEF Spec, RefinesHostSetup, Setup!Spec

=============================================================================
