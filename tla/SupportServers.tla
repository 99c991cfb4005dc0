--------------------------- MODULE SupportServers ---------------------------
(***************************************************************************)
(* The support services of an IPv6 cluster, on the node that runs both the *)
(* DNS64 server (bind9) and the NAT64 server (tayga): what Prepare and     *)
(* Cleanup of prepare.go and cleanup.go do there through docker.go, before *)
(* and after they deal with the node itself.                               *)
(*                                                                         *)
(* The docker daemon is external.  It is modelled from the commands the    *)
(* program issues: `inspect` and `rm` of a container, `volume rm` (refused *)
(* while a container, even a stopped one, uses the volume), `network rm`   *)
(* (refused while a running container is attached, and the routes through  *)
(* the network's link go with it), `run` (refused when the name is taken   *)
(* or the network is missing; one that fails may leave a container that is *)
(* not running).                                                           *)
(*                                                                         *)
(* Prepare stops at its first error.  Cleanup collects errors and goes on. *)
(***************************************************************************)
EXTENDS Naturals

CONSTANT MaxFaults  \* bound on failing calls, container exits, kills, reboots

ASSUME MaxFaultsAssumption == MaxFaults \in Nat

VARIABLES
  cmd,       \* the running command, or the last one to run
  pc,        \* its next step, "idle" when no command runs
  errs,      \* Cleanup has collected an error
  result,    \* how the last command ended
  net,       \* the support network exists
  vol,       \* the volume with named.conf: "partial" when that is not whole
  ctr,       \* state of the two containers, as ResourceState reports it
  dnsV4,     \* eth0 of the bind9 container has its IPv4 address
  dnsRoute,  \* the bind9 container has the route to the NAT64 server
  natRoute,  \* the host has the IPv4 route to the NAT64 server
  faults,    \* faults so far
  faulty,    \* a fault hit the last command
  died       \* a container has stopped since the last command began

control == <<cmd, errs>>
dns     == <<dnsV4, dnsRoute>>
host    == <<net, vol, ctr, dns, natRoute>>
vars    == <<control, pc, result, host, faults, faulty, died>>

-----------------------------------------------------------------------------
DNS64Name  == "bind9"
NAT64Name  == "tayga"
Containers == {DNS64Name, NAT64Name}

States  == {"not-present", "exists", "running"}
Volumes == {"absent", "partial", "conf"}

PrepareSteps == {"net", "dns", "volRm", "volNew", "volConf", "runDns", "dnsV4",
                 "dnsRoute", "nat", "runNat", "natRoute"}
CleanSteps   == {"rmDns", "rmVol", "rmNatRoute", "rmNat", "rmNet"}

Init ==
  /\ cmd = "none" /\ pc = "idle" /\ errs = FALSE /\ result = "none"
  /\ net = FALSE /\ vol = "absent"
  /\ ctr = [c \in Containers |-> "not-present"]
  /\ dnsV4 = FALSE /\ dnsRoute = FALSE /\ natRoute = FALSE
  /\ faults = 0 /\ faulty = FALSE /\ died = FALSE

Then(step) == pc' = step /\ UNCHANGED <<result, faults, faulty>>

End(r) == pc' = "idle" /\ result' = r /\ UNCHANGED <<faults, faulty>>

Fault == faults < MaxFaults /\ faults' = faults + 1 /\ faulty' = TRUE

FaultThen(step) == Fault /\ pc' = step /\ UNCHANGED result

Fails == Fault /\ pc' = "idle" /\ result' = "error"

Start(c, first) ==
  /\ pc = "idle"
  /\ cmd' = c /\ pc' = first /\ result' = "running"
  /\ errs' = FALSE /\ faulty' = FALSE /\ died' = FALSE
  /\ UNCHANGED <<host, faults>>

-----------------------------------------------------------------------------
(* docker *)

VolumeInUse == ctr[DNS64Name] # "not-present"

Attached == \E c \in Containers : ctr[c] = "running"

(* docker run: refused when the name is taken or the network missing. *)
RunnableContainer(c) == ctr[c] = "not-present" /\ net

-----------------------------------------------------------------------------
(* prepare *)

Prepare == Start("prepare", "net")

(* mutant: a network that exists is removed and made anew *)
CreateSupportNetworkAnew ==
  /\ pc = "net"
  /\ Then("dns") /\ net' = TRUE
  /\ natRoute' = (natRoute /\ Attached)
  /\ UNCHANGED <<control, vol, ctr, dns, died>>

(* A network that exists is left alone; one that inspect failed to report  *)
(* cannot be created.                                                      *)
CreateSupportNetwork ==
  /\ pc = "net"
  /\ \/ Then("dns") /\ net' = TRUE
     \/ Fails /\ UNCHANGED net
  /\ UNCHANGED <<control, vol, ctr, dns, natRoute, died>>

(* A running server is used as it is; a container that is not running is   *)
(* removed first.  A failing inspect reads as "not present".               *)
EnsureServer(c, ready, run) ==
  /\ \/ ctr[c] = "running" /\ Then(ready) /\ UNCHANGED ctr
     \/ ctr[c] = "exists" /\ Then(run)
          /\ ctr' = [ctr EXCEPT ![c] = "not-present"]
     \/ ctr[c] = "not-present" /\ Then(run) /\ UNCHANGED ctr
     \/ ctr[c] # "not-present" /\ FaultThen(run) /\ UNCHANGED ctr
     \/ ctr[c] = "exists" /\ Fails /\ UNCHANGED ctr
  /\ UNCHANGED <<control, net, vol, dns, natRoute, died>>

(* mutant: a running container is removed too *)
EnsureFreshDNS64Server ==
  /\ pc = "dns"
  /\ ctr' = [ctr EXCEPT ![DNS64Name] = "not-present"]
  /\ Then("volRm")
  /\ UNCHANGED <<control, net, vol, dns, natRoute, died>>

EnsureDNS64Server ==
  pc = "dns" /\ EnsureServer(DNS64Name, "dnsV4", "volRm")

(* CreateConfigForDNS64, three docker calls and one write. *)
RemoveVolume ==
  /\ pc = "volRm"
  /\ \/ ~VolumeInUse /\ vol' = "absent" /\ Then("volNew")
     \/ VolumeInUse /\ End("error") /\ UNCHANGED vol
     \/ Fails /\ UNCHANGED vol
  /\ UNCHANGED <<control, net, ctr, dns, natRoute, died>>

CreateVolume ==
  /\ pc = "volNew"
  /\ \/ vol' = "partial" /\ Then("volConf")
     \/ Fails /\ UNCHANGED vol
  /\ UNCHANGED <<control, net, ctr, dns, natRoute, died>>

(* mutant: a failing write of named.conf is not reported *)
WriteNamedConfUnchecked ==
  /\ pc = "volConf"
  /\ \/ vol' = "conf" /\ Then("runDns")
     \/ FaultThen("runDns") /\ UNCHANGED vol
  /\ UNCHANGED <<control, net, ctr, dns, natRoute, died>>

WriteNamedConf ==
  /\ pc = "volConf"
  /\ \/ vol' = "conf" /\ Then("runDns")
     \/ Fails /\ UNCHANGED vol
  /\ UNCHANGED <<control, net, ctr, dns, natRoute, died>>

(* A run that fails may leave a container behind. *)
FailedRun(c) ==
  {ctr, [ctr EXCEPT ![c] = IF ctr[c] = "not-present" THEN "exists" ELSE ctr[c]]}

(* The new container has an IPv4 address and no route. *)
RunDNS64Server ==
  /\ pc = "runDns"
  /\ \/ /\ RunnableContainer(DNS64Name)
        /\ ctr' = [ctr EXCEPT ![DNS64Name] = "running"]
        /\ dnsV4' = TRUE /\ dnsRoute' = FALSE
        /\ Then("dnsV4")
     \/ ~RunnableContainer(DNS64Name) /\ End("error") /\ UNCHANGED <<ctr, dns>>
     \/ Fails /\ ctr' \in FailedRun(DNS64Name) /\ UNCHANGED dns
  /\ UNCHANGED <<control, net, vol, natRoute, died>>

(* An IPv4 address that is gone already is no error.  docker exec needs a  *)
(* running container.                                                      *)
RemoveIPv4AddressOnDNS64Server ==
  /\ pc = "dnsV4"
  /\ \/ ctr[DNS64Name] = "running" /\ dnsV4' = FALSE /\ Then("dnsRoute")
     \/ ctr[DNS64Name] # "running" /\ End("error") /\ UNCHANGED dnsV4
     \/ Fails /\ UNCHANGED dnsV4
  /\ UNCHANGED <<control, net, vol, ctr, dnsRoute, natRoute, died>>

(* Exit status 2 of `ip route add` is taken to mean that the route exists, *)
(* but it is the status of every error the kernel reports.                 *)
AddRouteForDNS64Network ==
  /\ pc = "dnsRoute"
  /\ \/ ctr[DNS64Name] = "running" /\ dnsRoute' = TRUE /\ Then("nat")
     \/ ctr[DNS64Name] = "running" /\ FaultThen("nat") /\ UNCHANGED dnsRoute
     \/ ctr[DNS64Name] # "running" /\ End("error") /\ UNCHANGED dnsRoute
     \/ Fails /\ UNCHANGED dnsRoute
  /\ UNCHANGED <<control, net, vol, ctr, dnsV4, natRoute, died>>

(* mutant: a container that exists is taken for a server *)
EnsureAnyNAT64Server ==
  /\ pc = "nat"
  /\ Then(IF ctr[NAT64Name] = "not-present" THEN "runNat" ELSE "natRoute")
  /\ UNCHANGED <<control, host, died>>

EnsureNAT64Server ==
  pc = "nat" /\ EnsureServer(NAT64Name, "natRoute", "runNat")

(* mutant: a run that fails removes the container as clean does *)
RunNAT64ServerOrRemove ==
  /\ pc = "runNat"
  /\ \/ /\ RunnableContainer(NAT64Name)
        /\ ctr' = [ctr EXCEPT ![NAT64Name] = "running"]
        /\ Then("natRoute")
     \/ ~RunnableContainer(NAT64Name) /\ Then("rmNat") /\ UNCHANGED ctr
  /\ UNCHANGED <<control, net, vol, dns, natRoute, died>>

RunNAT64Server ==
  /\ pc = "runNat"
  /\ \/ /\ RunnableContainer(NAT64Name)
        /\ ctr' = [ctr EXCEPT ![NAT64Name] = "running"]
        /\ Then("natRoute")
     \/ ~RunnableContainer(NAT64Name) /\ End("error") /\ UNCHANGED ctr
     \/ Fails /\ ctr' \in FailedRun(NAT64Name)
  /\ UNCHANGED <<control, net, vol, dns, natRoute, died>>

(* mutant: the route that exists already is an error *)
EnsureNewRouteToNAT64 ==
  /\ pc = "natRoute"
  /\ natRoute' = TRUE
  /\ End(IF natRoute THEN "error" ELSE "ok")
  /\ UNCHANGED <<control, net, vol, ctr, dns, died>>

(* The route goes through the link of the support network; one that exists *)
(* already is fine.                                                        *)
EnsureRouteToNAT64 ==
  /\ pc = "natRoute"
  /\ \/ net /\ natRoute' = TRUE /\ End("ok")
     \/ ~net /\ End("error") /\ UNCHANGED natRoute
     \/ Fails /\ UNCHANGED natRoute
  /\ UNCHANGED <<control, net, vol, ctr, dns, died>>

-----------------------------------------------------------------------------
(* clean *)

Cleanup == Start("clean", "rmDns")

(* A step of Cleanup that goes wrong is noted, and the next one taken. *)
Noted(next) == Then(next) /\ errs' = TRUE

(* RemoveContainer: a container that inspect does not report is an error,  *)
(* as is one that cannot be removed.                                       *)
RemoveContainer(c, next) ==
  /\ \/ /\ ctr[c] # "not-present" /\ Then(next)
        /\ ctr' = [ctr EXCEPT ![c] = "not-present"] /\ UNCHANGED errs
     \/ ctr[c] = "not-present" /\ Noted(next) /\ UNCHANGED ctr
     \/ FaultThen(next) /\ errs' = TRUE /\ UNCHANGED ctr
  /\ UNCHANGED <<cmd, net, vol, dns, natRoute, died>>

CleanupDNS64Container ==
  pc = "rmDns" /\ RemoveContainer(DNS64Name, "rmVol")

CleanupDNS64Volume ==
  /\ pc = "rmVol"
  /\ \/ /\ vol # "absent" /\ ~VolumeInUse
        /\ vol' = "absent" /\ Then("rmNatRoute") /\ UNCHANGED errs
     \/ /\ vol = "absent" \/ VolumeInUse
        /\ Noted("rmNatRoute") /\ UNCHANGED vol
     \/ FaultThen("rmNatRoute") /\ errs' = TRUE /\ UNCHANGED vol
  /\ UNCHANGED <<cmd, net, ctr, dns, natRoute, died>>

(* Without the network there is no link to look the route up with. *)
RemoveRouteToNAT64 ==
  /\ pc = "rmNatRoute"
  /\ \/ /\ net /\ natRoute
        /\ natRoute' = FALSE /\ Then("rmNat") /\ UNCHANGED errs
     \/ ~(net /\ natRoute) /\ Noted("rmNat") /\ UNCHANGED natRoute
     \/ FaultThen("rmNat") /\ errs' = TRUE /\ UNCHANGED natRoute
  /\ UNCHANGED <<cmd, net, vol, ctr, dns, died>>

(* mutant: the NAT64 container is left to docker *)
CleanupNAT64ContainerKept ==
  pc = "rmNat" /\ Then("rmNet") /\ UNCHANGED <<control, host, died>>

CleanupNAT64Container ==
  pc = "rmNat" /\ RemoveContainer(NAT64Name, "rmNet")

CleanupSupportNetwork ==
  /\ pc = "rmNet"
  /\ \/ /\ net /\ ~Attached
        /\ net' = FALSE /\ natRoute' = FALSE
        /\ End(IF errs THEN "warned" ELSE "ok") /\ UNCHANGED errs
     \/ /\ ~net \/ Attached
        /\ End("warned") /\ errs' = TRUE /\ UNCHANGED <<net, natRoute>>
     \/ /\ Fault /\ pc' = "idle" /\ result' = "warned" /\ errs' = TRUE
        /\ UNCHANGED <<net, natRoute>>
  /\ UNCHANGED <<cmd, vol, ctr, dns, died>>

-----------------------------------------------------------------------------
(* The host *)

(* A server exits. *)
ContainerStops(c) ==
  /\ ctr[c] = "running" /\ ctr' = [ctr EXCEPT ![c] = "exists"]
  /\ Fault /\ died' = TRUE
  /\ UNCHANGED <<control, pc, result, net, vol, dns, natRoute>>

(* When a command is cut short, the container it was about to run may be   *)
(* left.                                                                   *)
CutShort ==
  CASE pc = "runDns" -> FailedRun(DNS64Name)
    [] pc = "runNat" -> FailedRun(NAT64Name)
    [] OTHER         -> {ctr}

Kill ==
  /\ pc # "idle"
  /\ Fault /\ pc' = "idle" /\ result' = "killed"
  /\ ctr' \in CutShort
  /\ UNCHANGED <<control, net, vol, dns, natRoute, died>>

(* Networks, volumes and stopped containers outlive a reboot. *)
Reboot ==
  /\ Fault /\ pc' = "idle" /\ result' = "killed" /\ died' = TRUE
  /\ \E left \in CutShort :
       ctr' = [c \in Containers |->
                IF left[c] = "running" THEN "exists" ELSE left[c]]
  /\ natRoute' = FALSE
  /\ UNCHANGED <<control, net, vol, dns>>

-----------------------------------------------------------------------------
PrepareStep ==
  \/ CreateSupportNetwork
  \/ EnsureDNS64Server \/ RemoveVolume \/ CreateVolume \/ WriteNamedConf
  \/ RunDNS64Server \/ RemoveIPv4AddressOnDNS64Server
  \/ AddRouteForDNS64Network
  \/ EnsureNAT64Server \/ RunNAT64Server \/ EnsureRouteToNAT64

CleanStep ==
  \/ CleanupDNS64Container \/ CleanupDNS64Volume
  \/ RemoveRouteToNAT64 \/ CleanupNAT64Container \/ CleanupSupportNetwork

Environment == (\E c \in Containers : ContainerStops(c)) \/ Kill \/ Reboot

Next == Prepare \/ Cleanup \/ PrepareStep \/ CleanStep \/ Environment

Spec == Init /\ [][Next]_vars

-----------------------------------------------------------------------------
(* Properties *)

ControlOK ==
  /\ cmd \in {"none", "prepare", "clean"}
  /\ pc \in {"idle"} \union PrepareSteps \union CleanSteps
  /\ pc \in PrepareSteps => cmd = "prepare"
  /\ pc \in CleanSteps => cmd = "clean"
  /\ result \in {"none", "running", "ok", "warned", "error", "killed"}
  /\ errs \in BOOLEAN /\ faulty \in BOOLEAN /\ died \in BOOLEAN

HostOK ==
  /\ vol \in Volumes /\ ctr \in [Containers -> States]
  /\ net \in BOOLEAN /\ natRoute \in BOOLEAN
  /\ dnsV4 \in BOOLEAN /\ dnsRoute \in BOOLEAN

(* Every variable keeps to its domain, and a step belongs to its command. *)
TypeOK == ControlOK /\ HostOK /\ faults \in 0..MaxFaults

(* A Prepare that returns nil has both servers running, on the network,    *)
(* with a whole named.conf, no IPv4 address on bind9 and the host's route  *)
(* to tayga, whichever containers and volumes it found, unless a server    *)
(* has stopped meanwhile; one that met no failing call also has the route  *)
(* in the bind9 container.                                                 *)
ServersReady ==
  cmd = "prepare" /\ result = "ok" /\ ~died =>
    /\ \A c \in Containers : ctr[c] = "running"
    /\ net /\ natRoute /\ vol = "conf" /\ ~dnsV4
    /\ ~faulty => dnsRoute

(* A running bind9 always has its whole named.conf and its network: no     *)
(* command, however it is interrupted, and no order of them takes the      *)
(* volume or the network from under it or starts it too early              *)
(* (CreateConfigForDNS64 deletes and makes the volume anew).               *)
ServerHasConf ==
  ctr[DNS64Name] = "running" => vol = "conf" /\ net

(* "The tool is designed to allow multiple invocations": a Prepare that    *)
(* meets no fault succeeds from whatever earlier commands, failures, exits *)
(* of servers and reboots have left.                                       *)
ServersResume ==
  cmd = "prepare" /\ pc = "idle" /\ ~faulty => result = "ok"

Nothing ==
  /\ \A c \in Containers : ctr[c] = "not-present"
  /\ vol = "absent" /\ ~net /\ ~natRoute

(* A Cleanup that meets no fault removes everything, from whatever state,  *)
(* though it may report what was missing: containers go before the volume  *)
(* and the network they hold.                                              *)
CleanAlwaysRemoves == cmd = "clean" /\ pc = "idle" /\ ~faulty => Nothing

(* "If it is running, no action is taken": only clean removes a running    *)
(* container.                                                              *)
PrepareKeepsRunning ==
  [][\A c \in Containers :
       ctr[c] = "running" /\ ctr'[c] = "not-present" => cmd = "clean"]_vars

-----------------------------------------------------------------------------
(* SupportServers as an implementation of HostSetup *)

Items == Containers \union {"volume", "network", "route"}

(* An item is whole ... *)
Whole(i) ==
  CASE i = "volume"  -> vol = "conf"
    [] i = "network" -> net
    [] i = "route"   -> natRoute
    [] OTHER         -> ctr[i] = "running"

(* ... or something of it is left. *)
Left(i) ==
  CASE i = "volume"  -> vol # "absent"
    [] i = "network" -> net
    [] i = "route"   -> natRoute
    [] OTHER         -> ctr[i] # "not-present"

Task ==
  CASE cmd = "prepare" -> "setup" [] cmd = "clean" -> "teardown" [] OTHER -> "none"

Outcome ==
  CASE pc # "idle"     -> "running"
    [] pc = "idle" /\ result = "ok"   -> "done"
    [] pc = "idle" /\ result = "none" -> "none"
    [] OTHER           -> "incomplete"

Setup == INSTANCE HostSetup WITH
  Rebuilt  <- Containers \union {"volume"},
  Kept     <- {},
  Volatile <- Containers \union {"route"},
  Used     <- {},
  NeedsUse <- Items,
  goal     <- Items,
  whole    <- {i \in Items : Whole(i)},
  left     <- {i \in Items : Left(i)},
  decayed  <- IF died THEN Containers ELSE {},
  task     <- Task,
  outcome  <- Outcome

(* prepare and clean of the servers keep the promise of HostSetup: prepare *)
(* takes neither the network nor the route away, clean makes nothing, each *)
(* reports success only for the whole of its work, but for a server that   *)
(* has stopped meanwhile, wherever earlier commands were cut short.        *)
RefinesHostSetup == Setup!Spec

=============================================================================
