----------------------------- MODULE Addressing -----------------------------
(***************************************************************************)
(* The addresses of a cluster: what `prepare` and `up` make of the         *)
(* configuration's networks and ids on each node, and what the nodes then  *)
(* use to reach each other.                                                *)
(*                                                                         *)
(* The same address is built in several places and not always in the same  *)
(* way: for the interface by BuildNodeCIDR, for gateways by BuildGWIP, for *)
(* /etc/hosts, resolv.conf, kubeadm.conf and the join command by a %d of   *)
(* their own.  Every node runs the commands for itself from its copy of    *)
(* the file, so that nothing but the arithmetic makes them agree.          *)
(*                                                                         *)
(* A command is one step here: how it is cut short is the subject of       *)
(* UpDown and ClusterNode.  It fails only for what is wrong with the       *)
(* configuration.  The nodes follow the README: prepare everywhere, then   *)
(* up on the master, then on the minions.                                  *)
(***************************************************************************)
EXTENDS Configuration

CONSTANTS
  Nodes,    \* names for the topologies
  Configs   \* configuration files to try

(* What the parser of the file makes of one; ids are not negative.         *)
ASSUME ConfigsAssumption ==
  /\ IsFiniteSet(Nodes)
  /\ \A c \in Configs :
       /\ Topology(c) \subseteq Nodes
       /\ \A n \in Topology(c) : c.ids[n] \in Nat
       /\ \A net \in {c.mgmt[1], c.mgmt[2], c.pod[1], c.pod[2], c.service,
                      c.support, c.dns64} :
            net = NoNet \/ IsNetwork(net)

VARIABLES
  config,    \* the file, the same on all nodes
  stage,     \* how far each node has come
  addrs,     \* addresses lazyjack gave to a node's management interface
  hosts,     \* its entries in /etc/hosts: an address for each node
  resolver,  \* the name server put into its /etc/resolv.conf
  advertise, \* advertise address in the master's kubeadm.conf
  podNets,   \* pod subnets in its CNI configuration
  routes     \* routes that lazyjack added, `net` 0 for those of prepare

vars == <<config, stage, addrs, hosts, resolver, advertise, podNets, routes>>

Id(n) == config.ids[n]
Nets  == IF Dual(config) THEN {1, 2} ELSE {1}

Init ==
  /\ config \in Configs
  /\ stage     = [n \in Nodes |-> "new"]
  /\ addrs     = [n \in Nodes |-> {}]
  /\ hosts     = [n \in Nodes |-> <<>>]
  /\ resolver  = [n \in Nodes |-> Malformed]
  /\ advertise = Malformed
  /\ podNets   = [n \in Nodes |-> {}]
  /\ routes    = [n \in Nodes |-> {}]

-----------------------------------------------------------------------------
(* Addresses *)

BuildNodeCIDR(info, id) ==
  ParseIP(AddDigits(info.prefix,
                    IF info.mode = "ipv6" THEN Hex(id) ELSE Dec(id)))

(* mutant: the digits of an interface's address in IPv4 *)
BuildGWIPDecimal(info, id) == ParseIP(AddDigits(info.prefix, Dec(id)))

BuildGWIP(info, id) == ParseIP(AddDigits(info.prefix, Hex(id)))

(* mutant: %x, as for a gateway *)
WithHexadecimal(info, id) == ParseIP(AddDigits(info.prefix, Hex(id)))

(* fmt.Sprintf("%s%d", prefix, id), for every other use of an address *)
WithDecimal(info, id) == ParseIP(AddDigits(info.prefix, Dec(id)))

(* The management network for what the service network's family decides. *)
ForServices(c) ==
  MgmtInfo(c)[IF MgmtInfo(c)[1].mode # ServiceInfo(c).mode THEN 2 ELSE 1]

BuildNodeInfo(c) ==
  LET info == IF Dual(c) THEN ForServices(c) ELSE MgmtInfo(c)[1]
  IN  [m \in Topology(c) |-> WithDecimal(info, c.ids[m])]

(* In IPv6 mode the name server is the DNS64 server, whose address is      *)
(* configured.                                                             *)
CalcNameServer(c, n) ==
  IF IPv6Only(c) THEN c.dns64ip ELSE BuildNodeInfo(c)[n]

AdvertiseAddress(c, n) == WithDecimal(ForServices(c), c.ids[n])

JoinAddress(c) ==
  WithDecimal(MgmtInfo(c)[1], c.ids[DetermineMasterNode(c)])

-----------------------------------------------------------------------------
(* Pod subnets *)

(* mutant: the id always goes to the lower byte *)
BuildPodSubnetPrefixLow(info, id) ==
  IF info.mode = "ipv4"
  THEN [info.prefix EXCEPT !.words[3] = Dec(id)]
  ELSE AddGap(AddDigits(info.prefix,
         IF ~info.prefix.open /\ id < 16 THEN <<0, id>> ELSE Hex(id)))

(* mutant: no zero before a single digit *)
BuildPodSubnetPrefixBare(info, id) ==
  IF info.mode = "ipv4"
  THEN [info.prefix EXCEPT !.words[3] = Dec(id)]
  ELSE AddGap(AddDigits(info.prefix,
         Hex(IF info.size % 16 # 0 THEN id * 256 ELSE id)))

(* In IPv4 the id is the third octet.  In IPv6 it is the upper byte of     *)
(* what follows the prefix, or the two digits that complete its last word. *)
BuildPodSubnetPrefix(info, id) ==
  IF info.mode = "ipv4"
  THEN [info.prefix EXCEPT !.words[3] = Dec(id)]
  ELSE AddGap(AddDigits(info.prefix,
         CASE info.size % 16 # 0 -> Hex(id * 256)
           [] info.size % 16 = 0 /\ ~info.prefix.open /\ id < 16 -> <<0, id>>
           [] OTHER -> Hex(id)))

(* The "0" that completes an IPv4 prefix. *)
Suffixed(info, prefix) ==
  IF info.mode = "ipv4" THEN AddDigits(prefix, <<0>>) ELSE prefix

PodSubnet(info, id) ==
  LET parts == ParseIP(Suffixed(info, BuildPodSubnetPrefix(info, id)))
      bits  == IF info.mode = "ipv6" THEN 128 ELSE 32
  IN  IF parts = Malformed \/ info.size > bits THEN NoNet
      ELSE [mode |-> info.mode, parts |-> parts, size |-> info.size]

(* mutant: always the first management network *)
FirstMgmtInfo(c, pInfo) == MgmtInfo(c)[1]

(* The management network of a pod network's family. *)
MgmtInfoFor(c, pInfo) ==
  MgmtInfo(c)[IF pInfo.mode # MgmtInfo(c)[1].mode THEN 2 ELSE 1]

-----------------------------------------------------------------------------
(* Routes *)

(* mutant: a malformed second address is kept *)
InterfaceAddressesUnchecked(n) ==
  {BuildNodeCIDR(MgmtInfo(config)[i], Id(n)) : i \in Nets}

(* ConfigureManagementInterface: one address after the other, up to the    *)
(* first that is malformed.                                                *)
InterfaceAddresses(n) ==
  LET Addr(i) == BuildNodeCIDR(MgmtInfo(config)[i], Id(n))
  IN  {Addr(i) : i \in {j \in Nets : \A k \in 1..j : Addr(k) # Malformed}}

(* BuildRoute must be able to parse both ends, and RouteAdd takes only the *)
(* address of another host on a network of the link for a gateway: that of *)
(* the support network for a server of the node's own, or the node's       *)
(* interface.                                                              *)
Routable(n, r) ==
  /\ r.dest # NoNet /\ r.gw # Malformed /\ Len(r.gw) = Len(r.dest.parts)
  /\ IF r.to = n
     THEN InNet(r.gw, config.support)
     ELSE /\ r.gw \notin InterfaceAddresses(n)
          /\ \E i \in Nets : InNet(r.gw, config.mgmt[i])

Route(net, m, dest, info) ==
  [net |-> net, to |-> m, dest |-> dest, gw |-> BuildGWIP(info, Id(m))]

(* The route to the DNS64 prefix on the node with the servers. *)
RouteToNAT64(n) ==
  [net |-> 0, to |-> n, dest |-> config.dns64, gw |-> config.nat64ip]

(* The routes prepare makes on node n, one after the other: in IPv6 mode   *)
(* to the DNS64 prefix and, without the servers, to the support network.   *)
(* FindHostIPForNAT64 looks for a node with the servers anew for each.     *)
ServerRoutes(n) ==
  LET servers      == {m \in Topology(config) : IsNAT64Server(config, m)}
      Via(m, dest) == Route(0, m, dest, MgmtInfo(config)[1])
  IN  CASE ~IPv6Only(config) -> {<<>>}
        [] IPv6Only(config) /\ n \in servers -> {<<RouteToNAT64(n)>>}
        [] OTHER -> {<<Via(m, config.dns64), Via(k, config.support)>>
                       : m, k \in servers}

(* mutant: the second pod network has no routes *)
PodRoutesFirstNet(n) ==
  LET info == PodInfo(config)[1]
  IN  {Route(1, m, PodSubnet(info, Id(m)), MgmtInfoFor(config, info))
         : m \in {k \in Topology(config) : k # n /\ IsMember(config, k)}}

(* The routes of up to the pod networks of the other members. *)
PodRoutes(n) ==
  LET Info(i) == PodInfo(config)[i]
  IN  {Route(i, m, PodSubnet(Info(i), Id(m)), MgmtInfoFor(config, Info(i)))
         : i \in Nets,
           m \in {k \in Topology(config) : k # n /\ IsMember(config, k)}}

-----------------------------------------------------------------------------
(* Commands *)

Go(n, s) == stage' = [stage EXCEPT ![n] = s]

(* Every command validates the file first, and ends when it is not valid. *)
Refuse(n) ==
  /\ stage[n] = "new"
  /\ n \in Topology(config) => ~ValidateConfigContents(config)
  /\ Go(n, "refused")
  /\ UNCHANGED <<config, addrs, hosts, resolver, advertise, podNets, routes>>

(* Up to the first route that cannot be made.  With no server to be found  *)
(* prepare fails, with all but the routes done.                            *)
AddServerRoutes(n) ==
  \/ /\ ServerRoutes(n) = {} /\ Go(n, "failed")
     /\ UNCHANGED routes
  \/ \E list \in ServerRoutes(n) :
       LET made == {i \in DOMAIN list : \A j \in 1..i : Routable(n, list[j])}
       IN  /\ routes' = [routes EXCEPT ![n] = {list[i] : i \in made}]
           /\ Go(n, IF made = DOMAIN list THEN "prepared" ELSE "failed")

(* PrepareClusterNode *)
PrepareMember(n) ==
  /\ addrs' = [addrs EXCEPT ![n] = InterfaceAddresses(n)]
  /\ IF Cardinality(InterfaceAddresses(n)) < Cardinality(Nets)
     THEN Go(n, "failed") /\ UNCHANGED <<hosts, resolver, advertise, routes>>
     ELSE /\ hosts' = [hosts EXCEPT ![n] = BuildNodeInfo(config)]
          /\ resolver' = [resolver EXCEPT ![n] = CalcNameServer(config, n)]
          /\ advertise' = IF IsMaster(config, n)
                          THEN AdvertiseAddress(config, n) ELSE advertise
          /\ AddServerRoutes(n)

(* A node that has only the servers is not configured for the cluster. *)
Prepare(n) ==
  /\ stage[n] = "new" /\ n \in Topology(config)
  /\ ValidateConfigContents(config)
  /\ IF IsMember(config, n)
     THEN PrepareMember(n)
     ELSE /\ Go(n, "prepared")
          /\ UNCHANGED <<addrs, hosts, resolver, advertise, routes>>
  /\ UNCHANGED <<config, podNets>>

(* The pod networks come in order, the nodes in any order, and the loop    *)
(* ends at the first route that cannot be made.                            *)
DoRouteOpsOnNodes(n) ==
  LET good == {r \in PodRoutes(n) : Routable(n, r)}
  IN  \E added \in SUBSET good :
        /\ \/ added = PodRoutes(n)
           \/ \E bad \in PodRoutes(n) \ good :
                /\ \A r \in PodRoutes(n) : r.net < bad.net => r \in added
                /\ \A r \in added : r.net <= bad.net
        /\ routes' = [routes EXCEPT ![n] = @ \union added]

(* kubeadm needs the address it is told to advertise, or to join, to be    *)
(* one of the master's.                                                    *)
KubeadmWorks(n) ==
  LET master == DetermineMasterNode(config)
  IN  IF n = master THEN advertise \in addrs[master]
                    ELSE JoinAddress(config) \in addrs[master]

(* The CNI configuration is written before the routes are made. *)
BringUp(n) ==
  /\ stage[n] = "prepared" /\ IsMember(config, n)
  /\ \A m \in Topology(config) : stage[m] # "new"
  /\ ~IsMaster(config, n) => stage[DetermineMasterNode(config)] = "up"
  /\ podNets' = [podNets EXCEPT
                   ![n] = {PodSubnet(PodInfo(config)[i], Id(n)) : i \in Nets}]
  /\ DoRouteOpsOnNodes(n)
  /\ Go(n, IF (\A r \in PodRoutes(n) : Routable(n, r)) /\ KubeadmWorks(n)
           THEN "up" ELSE "failed")
  /\ UNCHANGED <<config, addrs, hosts, resolver, advertise>>

Next == \E n \in Nodes : Refuse(n) \/ Prepare(n) \/ BringUp(n)

Spec == Init /\ [][Next]_vars

-----------------------------------------------------------------------------
(* What the addresses ought to be *)

(* A member that a prepare has succeeded on. *)
Ready(n) == stage[n] \in {"prepared", "up"} /\ IsMember(config, n)

(* Ids whose hexadecimal and decimal digits are the same. *)
SmallId(n) == Id(n) < 10

(* The prefix of a pod network takes a node's id and a "::" after it when  *)
(* its text ends in a "::" already, and there is a word left for that.     *)
TakesId(net) ==
  net.mode = "ipv6" => IPv6Text(net.parts).open /\ net.size < 112

(* A pod network with a node's id in the 8 bits after its size. *)
PodSlice(net, id) ==
  LET part == net.size \div PartBits(net) + 1
      slice == IF net.size % PartBits(net) = 0 /\ net.mode = "ipv6"
               THEN id * 256 ELSE id
  IN  [net EXCEPT !.parts[part] = @ + slice, !.size = @ + 8]

(* Accepted configurations that nothing is wrong with: ids of one digit,   *)
(* pod networks cut at a byte that take them, a word for them in the       *)
(* management networks, families that match where validation does not      *)
(* compare them, and servers, on the support network.                      *)
Sound(c) ==
  /\ ValidateConfigContents(c)
  /\ \A n \in Topology(c) : c.ids[n] \in 2..9
  /\ \A i \in Nets : /\ c.pod[i].size % 8 = 0 /\ TakesId(c.pod[i])
                     /\ c.mgmt[i].mode = "ipv6" => c.mgmt[i].size <= 112
  /\ ~Dual(c) => \A net \in {c.mgmt[1], c.pod[1], c.service} :
                   net.mode = Mode(c)
  /\ IPv6Only(c) => /\ \E n \in Topology(c) : IsNAT64Server(c, n)
                    /\ c.support.mode = "ipv6" /\ c.dns64.mode = "ipv6"
                    /\ InNet(c.nat64ip, c.support)

-----------------------------------------------------------------------------
(* Properties *)

(* Every variable keeps to its domain: no malformed address is ever given  *)
(* to an interface or a route, nor a network without an address.           *)
TypeOK ==
  /\ stage \in [Nodes -> {"new", "refused", "prepared", "up", "failed"}]
  /\ DOMAIN hosts = Nodes /\ DOMAIN resolver = Nodes
  /\ \A n \in Nodes :
       /\ \A a \in addrs[n] : Len(a) \in {4, 8}
       /\ \A r \in routes[n] :
            /\ r.to \in Nodes /\ r.net \in {0} \union Nets
            /\ Len(r.gw) \in {4, 8} /\ r.dest # NoNet

(* The gateway of a route (BuildGWIP) is an address that the member it     *)
(* leads to has given to its interface (BuildNodeCIDR), for any id in IPv6 *)
(* and ids of one digit in IPv4, in whichever order a dual-stack           *)
(* configuration names its families.                                       *)
GatewaysLeadToNodes ==
  \A n \in Nodes : \A r \in routes[n] :
    r.to # n /\ Ready(r.to) /\ (Len(r.gw) = 8 \/ SmallId(r.to))
      => r.gw \in addrs[r.to]

(* Two nodes that came up have routes to each other's pods: the networks   *)
(* that DoRouteOpsOnNodes routes to a node are those the node's own CNI    *)
(* configuration hands out (WriteRange), whatever configuration was        *)
(* accepted.                                                               *)
RoutesReachPods ==
  \A n, m \in Nodes : stage[n] = "up" /\ stage[m] = "up" /\ n # m =>
    {r.dest : r \in {s \in routes[n] : s.to = m /\ s.net # 0}} = podNets[m]

(* No pod address belongs to two nodes that came up, whatever size and     *)
(* ids were accepted (BuildPodSubnetPrefix).                               *)
PodSubnetsDisjoint ==
  \A n, m \in Nodes : stage[n] = "up" /\ stage[m] = "up" /\ n # m =>
    \A p \in podNets[n], q \in podNets[m] :
      ~InNet(p.parts, q) /\ ~InNet(q.parts, p)

(* Each pod subnet that a node hands out is the slice of the pod network   *)
(* that its id selects, and so within it, for ids of a byte and every      *)
(* network cut at a byte whose prefix takes an id; from one that does not  *)
(* take it nothing is handed out, and never a slice of something else      *)
(* (MakePrefixFromNetwork and BuildPodSubnetPrefix).                       *)
PodSubnetsAreSlices ==
  \A n \in Nodes : \A i \in Nets :
    LET net == config.pod[i]
    IN  podNets[n] # {} /\ Id(n) <= 255 /\ net.size % 8 = 0
          => (IF TakesId(net) THEN PodSlice(net, Id(n)) ELSE NoNet)
               \in podNets[n]

(* What prepare writes for a node into /etc/hosts, resolv.conf and         *)
(* kubeadm.conf is an address on that node's interface, for ids of one     *)
(* digit, and for any id when the address is IPv4.                         *)
NamesAreAddresses ==
  \A n \in Nodes : Ready(n) =>
    /\ \A m \in Topology(config) :
         Ready(m) /\ (Len(hosts[n][m]) = 4 \/ SmallId(m))
           => hosts[n][m] \in addrs[m]
    /\ ~IPv6Only(config) /\ (Len(resolver[n]) = 4 \/ SmallId(n))
         => resolver[n] \in addrs[n]
    /\ IsMaster(config, n) /\ advertise # Malformed /\ SmallId(n)
         => advertise \in addrs[n]

(* With an accepted configuration that is also Sound no prepare and no up  *)
(* gives up half-way, on any node: every address they build parses, every  *)
(* route is taken, and kubeadm is told an address of the master's.         *)
NoLateFailure == Sound(config) => \A n \in Nodes : stage[n] # "failed"

-----------------------------------------------------------------------------
(* What the documents promise and the code does not do *)

(* "an arbitrary ID (**id**) is assigned to each node ... `id: 100`": the  *)
(* address that another node has for a node, in its /etc/hosts and as a    *)
(* gateway, is an address of that node.                                    *)
NodesAreFound ==
  \A n, m \in Nodes : Ready(n) /\ Ready(m) =>
    /\ m \in Topology(config) => hosts[n][m] \in addrs[m]
    /\ \A r \in routes[n] : r.to = m /\ m # n => r.gw \in addrs[m]

(* "They can accompany a master or minion, or can be on a node by          *)
(* themselves", of the DNS64 and NAT64 servers: what a prepared member     *)
(* routes through the servers' node goes to an address of that node, once  *)
(* that is prepared too.                                                   *)
ServersMayBeAlone ==
  \A n \in Nodes : Ready(n) =>
    \A r \in routes[n] :
      r.net = 0 /\ r.to # n /\ stage[r.to] = "prepared" => r.gw \in addrs[r.to]

(* "so that the prefix is fully qualified (and a :: can be added to the    *)
(* end later without causing a syntax error)": every subnet that goes into *)
(* a CNI configuration is a network.                                       *)
PrefixTakesNodeID == \A n \in Nodes : NoNet \notin podNets[n]

=============================================================================
