-------------------------- MODULE AddressingProofs --------------------------
(***************************************************************************)
(* Proofs about the addresses of a cluster: those that the nodes write     *)
(* down for each other, and route through, are the ones that they give to  *)
(* their interfaces, and two nodes that came up reach each other's pods.   *)
(***************************************************************************)
EXTENDS AddressingLemmas

-----------------------------------------------------------------------------
(* The inductive invariant *)

(* Every address that ConfigureManagementInterface would give to a node.   *)
ManagementAddresses(n) ==
  {BuildNodeCIDR(MgmtInfo(config)[i], Id(n)) : i \in Nets}

(* The pod subnets of a node, as WriteRange puts them into its CNI         *)
(* configuration.                                                          *)
PodRanges(n) == {PodSubnet(PodInfo(config)[i], Id(n)) : i \in Nets}

(* The states a node goes through.                                         *)
Stages == {"new", "refused", "prepared", "up", "failed"}

TypeInv ==
  /\ config \in Configs
  /\ stage \in [Nodes -> Stages]
  /\ DOMAIN addrs = Nodes /\ DOMAIN hosts = Nodes /\ DOMAIN resolver = Nodes
  /\ DOMAIN podNets = Nodes /\ DOMAIN routes = Nodes
  /\ \A n \in Nodes : \A ip \in addrs[n] : Len(ip) \in {4, 8}

(* Before prepare a node has nothing, and nobody has anything from a       *)
(* configuration that is not valid.                                        *)
Untouched ==
  \A n \in Nodes : stage[n] = "new" \/ ~ValidateConfigContents(config)
    => routes[n] = {} /\ podNets[n] = {}

(* What a prepare that succeeded left on a member: all of its addresses,   *)
(* none of them malformed, and what the files get from the configuration.  *)
Prepared ==
  \A n \in Nodes : Ready(n) =>
    /\ n \in Topology(config) /\ ValidateConfigContents(config)
    /\ Malformed \notin ManagementAddresses(n)
    /\ addrs[n] = ManagementAddresses(n)
    /\ hosts[n] = BuildNodeInfo(config)
    /\ resolver[n] = CalcNameServer(config, n)
    /\ IsMaster(config, n) => advertise = AdvertiseAddress(config, n)

(* Where routes come from: a gateway is built from a management network    *)
(* and the id of another node, except on the node with the servers.        *)
GatewayInfos == {MgmtInfo(config)[i] : i \in {1, 2}}

Routed ==
  \A n \in Nodes : \A r \in routes[n] :
    /\ r.to \in Topology(config)
    /\ r.net \in {0} \union Nets
    /\ r.dest # NoNet /\ r.gw # Malformed /\ Len(r.gw) \in {4, 8}
    /\ r.to # n => \E info \in GatewayInfos : r.gw = BuildGWIP(info, Id(r.to))
    /\ stage[n] = "prepared" => r.net = 0

(* An up that succeeded made every route, and handed out the subnets that  *)
(* the others route to.                                                    *)
Connected ==
  \A n \in Nodes : stage[n] = "up" =>
    /\ IsMember(config, n)
    /\ {r \in routes[n] : r.net # 0} = PodRoutes(n)
    /\ podNets[n] = PodRanges(n)

(* A node hands out the subnets of its own id, whether its up succeeded or *)
(* not, and no others.                                                     *)
HandedOut ==
  \A n \in Nodes : podNets[n] # {} =>
    n \in Topology(config) /\ podNets[n] = PodRanges(n)

(* The master's address is the only one that is ever advertised.           *)
Advertised ==
  advertise # Malformed =>
    /\ ValidateConfigContents(config)
    /\ \E m \in Topology(config) :
         IsMaster(config, m) /\ advertise = AdvertiseAddress(config, m)

IInv == /\ TypeInv /\ Untouched /\ Prepared
        /\ Routed /\ Connected /\ HandedOut /\ Advertised

-----------------------------------------------------------------------------
(* Texts and addresses *)

(* ParseIP gives no address, or one of four octets from a text with dots   *)
(* and one of eight words from any other.                                  *)
LEMMA AddressLength ==
  ASSUME NEW text
  PROVE  \/ ParseIP(text) = Malformed
         \/ Len(ParseIP(text)) = IF text.base = 10 THEN 4 ELSE 8
<1>1. ParseIPv4(text) = Malformed \/ Len(ParseIPv4(text)) = 4
  <2>1. Len([i \in 1..4 |-> Number(text.words[i], 10)]) = 4 OBVIOUS
  <2> QED BY <2>1 DEF ParseIPv4
<1>2. ParseIPv6(text) = Malformed \/ Len(ParseIPv6(text)) = 8
  <2> DEFINE words   == text.words
             Word(i) == Number(words[i], 16)
             before  == CHOOSE k \in text.gaps : TRUE
             after   == Len(words) - before
             Part(i) == CASE i <= before -> Word(i)
                          [] i > 8 - after -> Word(i - 8 + Len(words))
                          [] OTHER -> 0
  <2>1. Len([i \in 1..8 |-> Word(i)]) = 8
    <3> HIDE DEF Word
    <3> QED OBVIOUS
  <2>2. Len([i \in 1..8 |-> Part(i)]) = 8
    <3> HIDE DEF Part
    <3> QED OBVIOUS
  <2>3. \/ ParseIPv6(text) = Malformed
        \/ ParseIPv6(text) = [i \in 1..8 |-> Word(i)]
        \/ ParseIPv6(text) = [i \in 1..8 |-> Part(i)]
    BY DEF ParseIPv6
  <2> QED BY <2>1, <2>2, <2>3
<1> QED BY <1>1, <1>2 DEF ParseIP

(* A missing network gives no address: its digits are too few words.       *)
LEMMA NoInfoNoAddress ==
  ASSUME NEW digits
  PROVE  ParseIP(AddDigits(NoInfo.prefix, digits)) = Malformed
<1> DEFINE text == AddDigits(NoInfo.prefix, digits)
<1>1. text = [NoText EXCEPT !.words = Append(@, digits), !.open = FALSE]
  BY DEF NoInfo, NoText, AddDigits
<1>2. text.base = 16 /\ text.gaps = {} /\ text.words = Append(<<>>, digits)
  BY <1>1 DEF NoText
<1>3. Len(text.words) = 1 BY <1>2
<1>4. Cardinality(text.gaps) = 0 BY <1>2, FS_EmptySet
<1> HIDE DEF text
<1>5. ParseIPv6(text) = Malformed
  BY <1>2, <1>3, <1>4 DEF ParseIPv6
<1> QED BY <1>2, <1>5 DEF ParseIP, text

(* An id of one digit has the same digits in hexadecimal and in decimal.   *)
LEMMA SameDigits ==
  ASSUME NEW n \in 0..9
  PROVE  Hex(n) = Dec(n)
<1>1. n \in Nat /\ n < 10 /\ n < 16 OBVIOUS
<1>2. 10 \in Bases /\ 16 \in Bases BY DEF Bases
<1> QED BY <1>1, <1>2, DigitsUnfold DEF Hex, Dec

(* The digits that are added to a text leave its base alone.               *)
LEMMA AddedBase ==
  ASSUME NEW base, NEW words, NEW gaps, NEW open, NEW digits
  PROVE  AddDigits([base |-> base, words |-> words, gaps |-> gaps,
                    open |-> open], digits).base = base
BY DEF AddDigits

(* A network has a family, and is not a missing one.                       *)
LEMMA NetworkMode ==
  ASSUME NEW net, IsNetwork(net)
  PROVE  net.mode \in {"ipv4", "ipv6"} /\ net # NoNet
<1>1. net.mode = "ipv4" \/ net.mode = "ipv6" BY DEF IsNetwork
<1>2. NoNet.mode = "none" BY DEF NoNet
<1> QED BY <1>1, <1>2

(* The text of a network has the base of its family, and keeps it.         *)
LEMMA PrefixBase ==
  ASSUME NEW net, IsNetwork(net), NEW digits
  PROVE  /\ NetInfo(net).mode = net.mode
         /\ AddDigits(NetInfo(net).prefix, digits).base =
              IF net.mode = "ipv4" THEN 10 ELSE 16
<1>1. net # NoNet BY NetworkMode
<1>2. NetInfo(net) = [prefix |-> IF net.mode = "ipv4"
                                 THEN MakeV4PrefixFromNetwork(net)
                                 ELSE IPv6Text(net.parts),
                      size |-> net.size, mode |-> net.mode]
  BY <1>1, Zenon DEF NetInfo
<1>3. NetInfo(net).mode = net.mode BY <1>2
<1>4. NetInfo(net).prefix = IF net.mode = "ipv4"
                            THEN MakeV4PrefixFromNetwork(net)
                            ELSE IPv6Text(net.parts)
  BY <1>2
<1>5. AddDigits(MakeV4PrefixFromNetwork(net), digits).base = 10
  <2>1. AddDigits([base |-> 10, words |-> [i \in 1..3 |-> Dec(net.parts[i])],
                   gaps |-> {}, open |-> TRUE], digits).base = 10
    BY AddedBase
  <2> QED BY <2>1, Zenon DEF MakeV4PrefixFromNetwork
<1>6. AddDigits(IPv6Text(net.parts), digits).base = 16
  <2> DEFINE run == LongestRun(net.parts)
  <2>1. CASE ZeroRuns(net.parts) = {}
    <3>1. IPv6Text(net.parts) = [base |-> 16, words |-> HexWords(net.parts, 1, 8),
                                 gaps |-> {}, open |-> FALSE]
      BY <2>1, Zenon DEF IPv6Text
    <3> QED BY <3>1, AddedBase
  <2>2. CASE ZeroRuns(net.parts) # {}
    <3>1. IPv6Text(net.parts) =
            [base  |-> 16,
             words |-> HexWords(net.parts, 1, run[1] - 1)
                         \o HexWords(net.parts, run[2] + 1, 8),
             gaps  |-> {run[1] - 1}, open  |-> run[2] = 8]
      BY <2>2, Zenon DEF IPv6Text
    <3> HIDE DEF run
    <3> QED BY <3>1, AddedBase
  <2> QED BY <2>1, <2>2
<1> QED BY <1>3, <1>4, <1>5, <1>6

(* The address that BuildGWIP gives for a node is the one BuildNodeCIDR    *)
(* gives to its interface, if it is an IPv6 address or the id has one      *)
(* digit.                                                                  *)
LEMMA GatewayIsAddress ==
  ASSUME NEW net, net = NoNet \/ IsNetwork(net), NEW id \in Nat,
         BuildGWIP(NetInfo(net), id) # Malformed,
         Len(BuildGWIP(NetInfo(net), id)) = 8 \/ id < 10
  PROVE  BuildGWIP(NetInfo(net), id) = BuildNodeCIDR(NetInfo(net), id)
<1>1. IsNetwork(net)
  BY NoInfoNoAddress, Zenon DEF BuildGWIP, NetInfo
<1> DEFINE text == AddDigits(NetInfo(net).prefix, Hex(id))
<1>2. NetInfo(net).mode = net.mode /\ net.mode \in {"ipv4", "ipv6"}
  BY <1>1, PrefixBase, NetworkMode
<1>3. CASE id < 10
  <2>1. Hex(id) = Dec(id) BY <1>3, SameDigits
  <2> QED BY <2>1, Zenon DEF BuildGWIP, BuildNodeCIDR
<1>4. CASE Len(BuildGWIP(NetInfo(net), id)) = 8
  <2>1. Len(ParseIP(text)) = 8 BY <1>4 DEF BuildGWIP
  <2>2. ParseIP(text) # Malformed BY DEF BuildGWIP
  <2>3. text.base = IF net.mode = "ipv4" THEN 10 ELSE 16
    BY <1>1, PrefixBase
  <2> HIDE DEF text
  <2>4. Len(ParseIP(text)) = IF text.base = 10 THEN 4 ELSE 8
    BY <2>2, AddressLength
  <2>5. net.mode = "ipv6" BY <2>1, <2>3, <2>4, <1>2
  <2> QED BY <2>5, <1>2, Zenon DEF BuildGWIP, BuildNodeCIDR
<1> QED BY <1>3, <1>4

(* The same of the address that is made with %d, for IPv4.                 *)
LEMMA DecimalIsAddress ==
  ASSUME NEW net, net = NoNet \/ IsNetwork(net), NEW id \in Nat,
         net = NoNet => WithDecimal(NetInfo(net), id) # Malformed,
         Len(WithDecimal(NetInfo(net), id)) = 4 \/ id < 10
  PROVE  WithDecimal(NetInfo(net), id) = BuildNodeCIDR(NetInfo(net), id)
<1>1. IsNetwork(net)
  BY NoInfoNoAddress, Zenon DEF WithDecimal, NetInfo
<1> DEFINE text == AddDigits(NetInfo(net).prefix, Dec(id))
<1>2. NetInfo(net).mode = net.mode /\ net.mode \in {"ipv4", "ipv6"}
  BY <1>1, PrefixBase, NetworkMode
<1>3. CASE id < 10
  <2>1. Hex(id) = Dec(id) BY <1>3, SameDigits
  <2> QED BY <2>1, Zenon DEF WithDecimal, BuildNodeCIDR
<1>4. CASE Len(WithDecimal(NetInfo(net), id)) = 4
  <2>1. Len(ParseIP(text)) = 4 BY <1>4 DEF WithDecimal
  <2>2. ParseIP(text) # Malformed BY <2>1 DEF Malformed
  <2>3. text.base = IF net.mode = "ipv4" THEN 10 ELSE 16
    BY <1>1, PrefixBase
  <2> HIDE DEF text
  <2>4. Len(ParseIP(text)) = IF text.base = 10 THEN 4 ELSE 8
    BY <2>2, AddressLength
  <2>5. net.mode = "ipv4" BY <2>1, <2>3, <2>4, <1>2
  <2> QED BY <2>5, <1>2, Zenon DEF WithDecimal, BuildNodeCIDR
<1> QED BY <1>3, <1>4

-----------------------------------------------------------------------------
(* Configurations and nodes *)

(* Every field for a network that can be in a file has one, or none.       *)
LEMMA NetworkFields ==
  ASSUME NEW c \in Configs, NEW i \in {1, 2}
  PROVE  c.mgmt[i] = NoNet \/ IsNetwork(c.mgmt[i])
<1>1. c.mgmt[i] \in {c.mgmt[1], c.mgmt[2], c.pod[1], c.pod[2], c.service,
                      c.support, c.dns64}
  OBVIOUS
<1> QED BY <1>1, ConfigsAssumption, Zenon

(* A configuration that is accepted has as many management networks as its *)
(* mode asks for.                                                          *)
LEMMA ManagementNetworks ==
  ASSUME NEW c \in Configs, ValidateConfigContents(c)
  PROVE  /\ c.mgmt[1] # NoNet
         /\ IF Dual(c) THEN c.mgmt[2] # NoNet ELSE c.mgmt[2] = NoNet
<1>1. PairOK(c, c.mgmt, MgmtSizes)
  BY Zenon DEF ValidateConfigContents, Derivable
<1> QED BY <1>1, Zenon DEF PairOK, Extractable

(* The pod networks of a configuration that is accepted: as many as its    *)
(* mode asks for, of different families, IPv4 ones with 16 bits.           *)
LEMMA PodNetworks ==
  ASSUME NEW c \in Configs, ValidateConfigContents(c),
         NEW i \in {1, 2}, i = 2 => Dual(c)
  PROVE  /\ PodInfo(c)[i] = PodNetInfo(c.pod[i])
         /\ IsNetwork(c.pod[i]) /\ (c.pod[i].mode = "ipv4" => c.pod[i].size = 16)
         /\ Dual(c) => c.pod[1].mode # c.pod[2].mode
<1>1. PairOK(c, c.pod, PodSizes)
  BY Zenon DEF ValidateConfigContents, Derivable
<1>2. /\ Extractable(c.pod[i], PodSizes)
      /\ Dual(c) => c.pod[1].mode # c.pod[2].mode
  BY <1>1 DEF PairOK
<1>3. c.pod[i] # NoNet /\ (c.pod[i].mode = "ipv4" => c.pod[i].size = 16)
  BY <1>2 DEF Extractable, PodSizes
<1>4. c.pod[i] \in {c.mgmt[1], c.mgmt[2], c.pod[1], c.pod[2], c.service,
                     c.support, c.dns64}
  OBVIOUS
<1>5. IsNetwork(c.pod[i]) BY <1>3, <1>4, ConfigsAssumption, Zenon
<1>6. PodInfo(c)[i] = PodNetInfo(c.pod[i]) BY DEF PodInfo
<1> QED BY <1>2, <1>3, <1>5, <1>6

(* There is one master.                                                    *)
LEMMA OneMaster ==
  ASSUME NEW c \in Configs, ValidateConfigContents(c),
         NEW n \in Topology(c), IsMaster(c, n),
         NEW m \in Topology(c), IsMaster(c, m)
  PROVE  n = m
<1>1. Masters(c) \subseteq Nodes
  BY ConfigsAssumption DEF Masters
<1>2. IsFiniteSet(Masters(c))
  BY <1>1, ConfigsAssumption, FS_Subset
<1>3. Cardinality(Masters(c)) = 1
  BY Zenon DEF ValidateConfigContents, ValidateOpModesForAllNodes
<1>4. PICK x : Masters(c) = {x} BY <1>2, <1>3, FS_Singleton, Zenon
<1>5. n \in Masters(c) /\ m \in Masters(c) BY DEF Masters
<1> QED BY <1>4, <1>5

(* If as many addresses as networks come out, no address is malformed.     *)
LEMMA AllAddresses ==
  ASSUME NEW n,
         ~(Cardinality(InterfaceAddresses(n)) < Cardinality(Nets))
  PROVE  /\ InterfaceAddresses(n) = ManagementAddresses(n)
         /\ Malformed \notin ManagementAddresses(n)
<1> DEFINE Addr(i) == BuildNodeCIDR(MgmtInfo(config)[i], Id(n))
           good == {j \in Nets : \A k \in 1..j : Addr(k) # Malformed}
<1>1. InterfaceAddresses(n) = {Addr(i) : i \in good} BY DEF InterfaceAddresses
<1>2. ManagementAddresses(n) = {Addr(i) : i \in Nets} BY DEF ManagementAddresses
<1>3. ~(Cardinality({Addr(i) : i \in good}) < Cardinality(Nets)) BY <1>1
<1> HIDE DEF Addr
<1>4. Nets \subseteq good
  <2>1. CASE ~Dual(config)
    <3>1. Nets = {1} BY <2>1 DEF Nets
    <3>2. Cardinality(Nets) = 1 BY <3>1, FS_Singleton
    <3>3. good # {}
      <4>1. SUFFICES ASSUME good = {} PROVE FALSE OBVIOUS
      <4>2. {Addr(i) : i \in good} = {} BY <4>1
      <4>3. Cardinality({Addr(i) : i \in good}) = 0 BY <4>2, FS_EmptySet
      <4> QED BY <4>3, <3>2, <1>3
    <3> QED BY <3>1, <3>3
  <2>2. CASE Dual(config)
    <3>1. Nets = {1, 2} BY <2>2 DEF Nets
    <3>2. Cardinality(Nets) = 2
      <4>1. Nets = {1} \union {2} BY <3>1
      <4>2. IsFiniteSet({1}) /\ Cardinality({1}) = 1 BY FS_Singleton
      <4>3. Cardinality({1} \union {2}) = 2 BY <4>2, FS_AddElement
      <4> QED BY <4>1, <4>3
    <3>3. 2 \in good
      <4>1. SUFFICES ASSUME 2 \notin good PROVE FALSE OBVIOUS
      <4>2. good \subseteq {1} BY <4>1, <3>1
      <4>3. {Addr(i) : i \in good} \in SUBSET {Addr(1)} BY <4>2
      <4>4. IsFiniteSet({Addr(1)}) /\ Cardinality({Addr(1)}) = 1
        BY FS_Singleton
      <4>5. Cardinality({Addr(i) : i \in good}) <= 1
        BY <4>3, <4>4, FS_Subset
      <4>6. Cardinality({Addr(i) : i \in good}) \in Nat
        BY <4>3, <4>4, FS_Subset, FS_CardinalityType
      <4> HIDE DEF good
      <4> QED BY <4>5, <4>6, <3>2, <1>3
    <3>4. 1 \in 1..2 /\ 1..1 \subseteq 1..2 OBVIOUS
    <3> QED BY <3>1, <3>3, <3>4
  <2> QED BY <2>1, <2>2
<1>5. good = Nets BY <1>4
<1>6. \A i \in Nets : Addr(i) # Malformed
  <2>1. \A i \in Nets : i \in 1..i BY DEF Nets
  <2> QED BY <1>5, <2>1
<1> QED BY <1>1, <1>2, <1>5, <1>6

(* An address from a management network is on the interface of a node that *)
(* is prepared, if it is the one that BuildNodeCIDR makes.                 *)
LEMMA AddressFound ==
  ASSUME IInv, NEW n \in Nodes, Ready(n), NEW i \in {1, 2},
         config.mgmt[i] # NoNet
  PROVE  BuildNodeCIDR(NetInfo(config.mgmt[i]), Id(n)) \in addrs[n]
<1>1. config \in Configs BY DEF IInv, TypeInv
<1>2. ValidateConfigContents(config) /\ addrs[n] = ManagementAddresses(n)
  BY Zenon DEF IInv, Prepared
<1>3. i \in Nets BY <1>1, <1>2, ManagementNetworks DEF Nets
<1>4. MgmtInfo(config)[i] = NetInfo(config.mgmt[i]) BY DEF MgmtInfo
<1> QED BY <1>2, <1>3, <1>4, Zenon DEF ManagementAddresses

(* Then so is a gateway that leads to the node, by GatewayIsAddress,       *)
LEMMA GatewayFound ==
  ASSUME IInv, NEW n \in Nodes, Ready(n), NEW info \in GatewayInfos,
         BuildGWIP(info, Id(n)) # Malformed,
         Len(BuildGWIP(info, Id(n))) = 8 \/ SmallId(n)
  PROVE  BuildGWIP(info, Id(n)) \in addrs[n]
<1>1. config \in Configs /\ n \in Topology(config)
  BY DEF IInv, TypeInv, Prepared
<1>2. Id(n) \in Nat BY <1>1, ConfigsAssumption DEF Id
<1>3. PICK i \in {1, 2} : info = NetInfo(config.mgmt[i])
  BY DEF GatewayInfos, MgmtInfo
<1>4. config.mgmt[i] = NoNet \/ IsNetwork(config.mgmt[i])
  BY <1>1, NetworkFields
<1>5. config.mgmt[i] # NoNet
  BY <1>3, NoInfoNoAddress, Zenon DEF BuildGWIP, NetInfo
<1>6. BuildGWIP(info, Id(n)) = BuildNodeCIDR(info, Id(n))
  BY <1>2, <1>3, <1>4, GatewayIsAddress DEF SmallId
<1> QED BY <1>3, <1>5, <1>6, AddressFound

(* and an address of the node that was made with %d, by DecimalIsAddress.  *)
LEMMA DecimalFound ==
  ASSUME IInv, NEW n \in Nodes, Ready(n), NEW i \in {1, 2},
         config.mgmt[i] = NoNet
           => WithDecimal(NetInfo(config.mgmt[i]), Id(n)) # Malformed,
         Len(WithDecimal(NetInfo(config.mgmt[i]), Id(n))) = 4 \/ SmallId(n)
  PROVE  WithDecimal(NetInfo(config.mgmt[i]), Id(n)) \in addrs[n]
<1>1. config \in Configs /\ n \in Topology(config)
  BY DEF IInv, TypeInv, Prepared
<1>2. Id(n) \in Nat BY <1>1, ConfigsAssumption DEF Id
<1>4. config.mgmt[i] = NoNet \/ IsNetwork(config.mgmt[i])
  BY <1>1, NetworkFields
<1>5. config.mgmt[i] # NoNet
  BY NoInfoNoAddress, Zenon DEF WithDecimal, NetInfo
<1>6. WithDecimal(NetInfo(config.mgmt[i]), Id(n))
        = BuildNodeCIDR(NetInfo(config.mgmt[i]), Id(n))
  BY <1>2, <1>4, DecimalIsAddress DEF SmallId
<1> QED BY <1>5, <1>6, AddressFound

(* The gateway of a route is a gateway of the node it leads to.            *)
LEMMA RouteGateway ==
  ASSUME NEW net, NEW m, NEW dest, NEW i \in {1, 2}
  PROVE  LET r == Route(net, m, dest, MgmtInfo(config)[i])
         IN  /\ r.net = net /\ r.to = m /\ r.dest = dest
             /\ \E info \in GatewayInfos : r.gw = BuildGWIP(info, Id(m))
BY DEF Route, GatewayInfos

(* Both choices of a management network take one of the two.               *)
LEMMA InfoFor ==
  ASSUME NEW c, NEW info
  PROVE  \E i \in {1, 2} : MgmtInfoFor(c, info) = MgmtInfo(c)[i]
BY Zenon DEF MgmtInfoFor

LEMMA ServicesInfo ==
  ASSUME NEW c
  PROVE  \E i \in {1, 2} : ForServices(c) = NetInfo(c.mgmt[i])
<1>1. PICK i \in {1, 2} : ForServices(c) = MgmtInfo(c)[i]
  BY Zenon DEF ForServices
<1> QED BY <1>1 DEF MgmtInfo

(* What the routes of up have in common.                                   *)
LEMMA PodRoute ==
  ASSUME NEW n, NEW r \in PodRoutes(n)
  PROVE  /\ r.to \in Topology(config) \ {n} /\ IsMember(config, r.to)
         /\ r.net \in Nets /\ r.net # 0
         /\ \E info \in GatewayInfos : r.gw = BuildGWIP(info, Id(r.to))
<1> DEFINE others == {k \in Topology(config) : k # n /\ IsMember(config, k)}
<1>1. \E i \in Nets, m \in others :
        r = Route(i, m, PodSubnet(PodInfo(config)[i], Id(m)),
                  MgmtInfoFor(config, PodInfo(config)[i]))
  BY DEF PodRoutes
<1>2. PICK i \in Nets, m \in others :
        r = Route(i, m, PodSubnet(PodInfo(config)[i], Id(m)),
                  MgmtInfoFor(config, PodInfo(config)[i]))
  BY <1>1, Zenon
<1>3. PICK j \in {1, 2} :
        MgmtInfoFor(config, PodInfo(config)[i]) = MgmtInfo(config)[j]
  BY InfoFor
<1>4. i # 0 /\ m \in Topology(config) \ {n} /\ IsMember(config, m)
  BY DEF Nets
<1> QED BY <1>2, <1>3, <1>4, RouteGateway

(* The lists of routes that prepare may make, by the node it runs on.      *)
Servers == {m \in Topology(config) : IsNAT64Server(config, m)}

ToServer(m, dest) == Route(0, m, dest, MgmtInfo(config)[1])

LEMMA ServerRouteLists ==
  ASSUME NEW n
  PROVE  /\ ~IPv6Only(config) => ServerRoutes(n) = {<<>>}
         /\ IPv6Only(config) /\ n \in Servers
              => ServerRoutes(n) = {<<RouteToNAT64(n)>>}
         /\ IPv6Only(config) /\ n \notin Servers
              => ServerRoutes(n) = {<<ToServer(m, config.dns64),
                                      ToServer(k, config.support)>>
                                      : m, k \in Servers}
BY DEF ServerRoutes, Servers, ToServer

(* Which makes each list one of three.                                     *)
LEMMA ServerRouteList ==
  ASSUME NEW n, NEW list \in ServerRoutes(n)
  PROVE  \/ list = <<>>
         \/ list = <<RouteToNAT64(n)>>
         \/ \E m, k \in Servers :
              list = <<ToServer(m, config.dns64), ToServer(k, config.support)>>
<1>1. CASE ~IPv6Only(config)
  <2>1. list \in {<<>>} BY <1>1, ServerRouteLists
  <2> QED BY <2>1
<1>2. CASE IPv6Only(config) /\ n \in Servers
  <2>1. list \in {<<RouteToNAT64(n)>>} BY <1>2, ServerRouteLists
  <2> QED BY <2>1
<1>3. CASE IPv6Only(config) /\ n \notin Servers
  <2>1. list \in {<<ToServer(m, config.dns64), ToServer(k, config.support)>>
                    : m, k \in Servers}
    BY <1>3, ServerRouteLists
  <2> QED BY <2>1
<1> QED BY <1>1, <1>2, <1>3

(* Gateways are as long as the addresses that ParseIP gives.               *)
LEMMA GatewayLength ==
  ASSUME NEW info, NEW id, BuildGWIP(info, id) # Malformed
  PROVE  Len(BuildGWIP(info, id)) \in {4, 8}
BY AddressLength DEF BuildGWIP

(* An address of a network has as many parts as its family's addresses.    *)
LEMMA NetworkLength ==
  ASSUME NEW net, IsNetwork(net)
  PROVE  Len(net.parts) \in {4, 8}
<1>1. \/ net.parts \in [1..4 -> Octets]
      \/ net.parts \in [1..8 -> Words]
  BY Zenon DEF IsNetwork
<1>2. 4 \in Nat /\ 8 \in Nat OBVIOUS
<1> QED BY <1>1, <1>2, PartsLength

(* And those of prepare that can be made: to the node with the servers, or *)
(* to the servers themselves on their node.                                *)
LEMMA ServerRoute ==
  ASSUME config \in Configs, NEW n \in Topology(config),
         NEW list \in ServerRoutes(n), NEW i \in DOMAIN list,
         Routable(n, list[i])
  PROVE  /\ list[i].to \in Topology(config) /\ list[i].net = 0
         /\ list[i].dest # NoNet /\ list[i].gw # Malformed
         /\ Len(list[i].gw) \in {4, 8}
         /\ list[i].to # n =>
              \E info \in GatewayInfos :
                list[i].gw = BuildGWIP(info, Id(list[i].to))
<1> DEFINE r == list[i]
<1>1. r.dest # NoNet /\ r.gw # Malformed /\ Len(r.gw) = Len(r.dest.parts)
  BY Zenon DEF Routable
<1>2. \/ list = <<>> \/ list = <<RouteToNAT64(n)>>
      \/ \E m, k \in Servers :
           list = <<ToServer(m, config.dns64), ToServer(k, config.support)>>
  BY ServerRouteList, Zenon
<1>3. CASE list = <<>> BY <1>3
<1>4. CASE list = <<RouteToNAT64(n)>>
  <2>1. r = RouteToNAT64(n) BY <1>4
  <2>2. r.to = n /\ r.net = 0 /\ r.dest = config.dns64
    BY <2>1 DEF RouteToNAT64
  <2>3. IsNetwork(config.dns64)
    <3>1. config.dns64 \in {config.mgmt[1], config.mgmt[2], config.pod[1],
                            config.pod[2], config.service, config.support,
                            config.dns64}
      OBVIOUS
    <3>2. config.dns64 # NoNet BY <1>1, <2>2
    <3> QED BY <3>1, <3>2, ConfigsAssumption, Zenon
  <2>4. Len(config.dns64.parts) \in {4, 8} BY <2>3, NetworkLength
  <2> QED BY <1>1, <2>2, <2>4
<1>5. CASE \E m, k \in Servers :
             list = <<ToServer(m, config.dns64), ToServer(k, config.support)>>
  <2>1. PICK m \in Servers, dest \in {config.dns64, config.support} :
          r = ToServer(m, dest)
    <3>1. PICK m \in Servers, k \in Servers :
            list = <<ToServer(m, config.dns64), ToServer(k, config.support)>>
      BY <1>5, Zenon
    <3>2. i = 1 \/ i = 2 BY <3>1
    <3>3. r = ToServer(m, config.dns64) \/ r = ToServer(k, config.support)
      BY <3>1, <3>2
    <3> QED BY <3>3
  <2>2. /\ r.net = 0 /\ r.to = m
        /\ \E info \in GatewayInfos : r.gw = BuildGWIP(info, Id(m))
    BY <2>1, RouteGateway DEF ToServer
  <2>4. m \in Topology(config) BY DEF Servers
  <2> HIDE DEF r
  <2>3. Len(r.gw) \in {4, 8} BY <1>1, <2>2, GatewayLength
  <2> QED BY <1>1, <2>2, <2>3, <2>4 DEF r
<1> QED BY <1>2, <1>3, <1>4, <1>5

(* The lists of routes are sequences.                                      *)
LEMMA ListPrefix ==
  ASSUME NEW n, NEW list \in ServerRoutes(n), NEW i \in DOMAIN list
  PROVE  i \in 1..i /\ 1..i \subseteq DOMAIN list
<1>1. CASE list = <<>> BY <1>1
<1>2. CASE list = <<RouteToNAT64(n)>> BY <1>2
<1>3. CASE \E m, k \in Servers :
             list = <<ToServer(m, config.dns64), ToServer(k, config.support)>>
  BY <1>3
<1> QED BY <1>1, <1>2, <1>3, ServerRouteList

-----------------------------------------------------------------------------
(* Steps *)

(* The invariant holds before the first command.                           *)
LEMMA InitInv == Init => IInv
<1> SUFFICES ASSUME Init PROVE IInv OBVIOUS
<1>1. \A n \in Nodes : stage[n] = "new" /\ addrs[n] = {} /\ podNets[n] = {}
                         /\ routes[n] = {} /\ ~Ready(n)
  BY DEF Init, Ready
<1>2. TypeInv BY <1>1 DEF Init, TypeInv, Stages
<1>3. Untouched BY <1>1 DEF Untouched
<1>4. Prepared BY <1>1 DEF Prepared
<1>5. Routed BY <1>1 DEF Routed
<1>6. Connected BY <1>1 DEF Connected
<1>7. HandedOut BY <1>1 DEF HandedOut
<1>8. Advertised BY DEF Init, Advertised
<1> QED BY <1>2, <1>3, <1>4, <1>5, <1>6, <1>7, <1>8 DEF IInv

(* What the configuration alone decides stays as it is.                    *)
LEMMA Unchanged ==
  ASSUME config' = config
  PROVE  /\ Nets' = Nets /\ GatewayInfos' = GatewayInfos
         /\ \A n : /\ Id(n)' = Id(n)
                   /\ ManagementAddresses(n)' = ManagementAddresses(n)
                   /\ PodRanges(n)' = PodRanges(n)
                   /\ PodRoutes(n)' = PodRoutes(n)
<1>1. Nets' = Nets BY DEF Nets
<1>2. GatewayInfos' = GatewayInfos BY DEF GatewayInfos
<1>3. ASSUME NEW CONSTANT n PROVE Id(n)' = Id(n) BY DEF Id
<1>4. ASSUME NEW CONSTANT n PROVE ManagementAddresses(n)' = ManagementAddresses(n)
  BY DEF ManagementAddresses, Id, Nets
<1>5. ASSUME NEW CONSTANT n PROVE PodRanges(n)' = PodRanges(n)
  BY DEF PodRanges, Id, Nets
<1>6. ASSUME NEW CONSTANT n PROVE PodRoutes(n)' = PodRoutes(n)
  BY DEF PodRoutes, Id, Nets, Route
<1> QED BY <1>1, <1>2, <1>3, <1>4, <1>5, <1>6

(* It holds as long as nothing changes,                                    *)
LEMMA StutterInv ==
  ASSUME IInv, UNCHANGED vars
  PROVE  IInv'
<1> USE DEF IInv, vars
<1>1. TypeInv' BY DEF TypeInv
<1>2. Untouched' BY DEF Untouched
<1>3. Prepared' BY Unchanged DEF Prepared, Ready
<1>4. Routed' BY Unchanged DEF Routed
<1>5. Connected' BY Unchanged DEF Connected
<1>6. HandedOut' BY Unchanged DEF HandedOut
<1>7. Advertised' BY DEF Advertised
<1> QED BY <1>1, <1>2, <1>3, <1>4, <1>5, <1>6, <1>7

(* when a command finds the file not valid and ends,                       *)
LEMMA RefuseInv ==
  ASSUME IInv, NEW n \in Nodes, Refuse(n)
  PROVE  IInv'
<1> USE DEF IInv
<1>1. /\ stage' = [stage EXCEPT ![n] = "refused"]
      /\ config' = config /\ addrs' = addrs /\ hosts' = hosts
      /\ resolver' = resolver /\ advertise' = advertise
      /\ podNets' = podNets /\ routes' = routes
  BY DEF Refuse, Go
<1>2. stage \in [Nodes -> Stages] BY DEF TypeInv
<1>3. \A m \in Nodes : stage'[m] = IF m = n THEN "refused" ELSE stage[m]
  BY <1>1, <1>2
<1>4. \A m \in Nodes : (Ready(m))' => Ready(m) BY <1>1, <1>3 DEF Ready
<1>5. TypeInv' BY <1>1, <1>2 DEF TypeInv, Stages
<1>6. Untouched' BY <1>1, <1>3 DEF Untouched
<1>7. Prepared' BY <1>1, <1>4, Unchanged DEF Prepared
<1>8. Routed' BY <1>1, <1>3, Unchanged DEF Routed
<1>9. Connected' BY <1>1, <1>3, Unchanged DEF Connected
<1>10. HandedOut' BY <1>1, Unchanged DEF HandedOut
<1>11. Advertised' BY <1>1 DEF Advertised
<1> QED BY <1>5, <1>6, <1>7, <1>8, <1>9, <1>10, <1>11

(* A prepare that did all its files ends with the routes that it made, all *)
(* of the list or some.                                                    *)
LEMMA AddServerRoutesDoes ==
  ASSUME NEW n, AddServerRoutes(n)
  PROVE  /\ Go(n, "prepared") \/ Go(n, "failed")
         /\ \/ UNCHANGED routes
            \/ \E list \in ServerRoutes(n) : \E made \in SUBSET DOMAIN list :
                 /\ \A i \in made : Routable(n, list[i])
                 /\ routes' = [routes EXCEPT ![n] = {list[i] : i \in made}]
<1>1. CASE Go(n, "failed") /\ UNCHANGED routes BY <1>1
<1>2. CASE ~(Go(n, "failed") /\ UNCHANGED routes)
  <2> DEFINE Made(list) ==
               {i \in DOMAIN list : \A j \in 1..i : Routable(n, list[j])}
  <2>1. PICK list \in ServerRoutes(n) :
          /\ routes' = [routes EXCEPT ![n] = {list[i] : i \in Made(list)}]
          /\ Go(n, IF Made(list) = DOMAIN list THEN "prepared" ELSE "failed")
    BY <1>2, Zenon DEF AddServerRoutes
  <2>2. Go(n, "prepared") \/ Go(n, "failed") BY <2>1
  <2>3. ASSUME NEW i \in Made(list) PROVE Routable(n, list[i])
    <3>1. i \in 1..i BY <2>1, ListPrefix
    <3> QED BY <3>1
  <2>4. Made(list) \in SUBSET DOMAIN list OBVIOUS
  <2> HIDE DEF Made
  <2> QED BY <2>1, <2>2, <2>3, <2>4
<1> QED BY <1>1, <1>2

(* after a prepare of a node that has only the servers,                    *)
LEMMA PrepareOtherInv ==
  ASSUME IInv, NEW n \in Nodes, Prepare(n), ~IsMember(config, n)
  PROVE  IInv'
<1> USE DEF IInv
<1>1. /\ stage[n] = "new" /\ stage' = [stage EXCEPT ![n] = "prepared"]
      /\ ValidateConfigContents(config)
      /\ config' = config /\ addrs' = addrs /\ hosts' = hosts
      /\ resolver' = resolver /\ advertise' = advertise
      /\ podNets' = podNets /\ routes' = routes
  BY DEF Prepare, Go
<1>2. stage \in [Nodes -> Stages] BY DEF TypeInv
<1>3. \A m \in Nodes : stage'[m] = IF m = n THEN "prepared" ELSE stage[m]
  BY <1>1, <1>2
<1>4. \A m \in Nodes : (Ready(m))' => Ready(m) BY <1>1, <1>3 DEF Ready
<1>5. routes[n] = {} BY <1>1 DEF Untouched
<1>6. TypeInv' BY <1>1, <1>2 DEF TypeInv, Stages
<1>7. Untouched' BY <1>1, <1>3 DEF Untouched
<1>8. Prepared' BY <1>1, <1>4, Unchanged DEF Prepared
<1>9. Routed' BY <1>1, <1>3, <1>5, Unchanged DEF Routed
<1>10. Connected' BY <1>1, <1>3, Unchanged DEF Connected
<1>11. HandedOut' BY <1>1, Unchanged DEF HandedOut
<1>12. Advertised' BY <1>1 DEF Advertised
<1> QED BY <1>6, <1>7, <1>8, <1>9, <1>10, <1>11, <1>12

(* after one of a member, however far it came: what the node had nothing   *)
(* of before, it now has from the configuration, or it has failed.         *)
LEMMA PrepareMemberInv ==
  ASSUME IInv, NEW n \in Nodes, Prepare(n), IsMember(config, n)
  PROVE  IInv'
<1> USE DEF IInv
<1>1. /\ n \in Topology(config) /\ ValidateConfigContents(config)
      /\ stage[n] = "new"
      /\ config' = config /\ podNets' = podNets
      /\ addrs' = [addrs EXCEPT ![n] = InterfaceAddresses(n)]
  BY Zenon DEF Prepare, PrepareMember
<1>2. \/ /\ Go(n, "failed")
         /\ UNCHANGED <<hosts, resolver, advertise, routes>>
      \/ /\ ~(Cardinality(InterfaceAddresses(n)) < Cardinality(Nets))
         /\ hosts' = [hosts EXCEPT ![n] = BuildNodeInfo(config)]
         /\ resolver' = [resolver EXCEPT ![n] = CalcNameServer(config, n)]
         /\ advertise' = IF IsMaster(config, n)
                         THEN AdvertiseAddress(config, n) ELSE advertise
         /\ AddServerRoutes(n)
  BY Zenon DEF Prepare, PrepareMember
<1>3. stage \in [Nodes -> Stages] BY DEF TypeInv
<1>4. PICK end \in {"prepared", "failed"} :
        /\ stage' = [stage EXCEPT ![n] = end]
        /\ end = "prepared" =>
             /\ ~(Cardinality(InterfaceAddresses(n)) < Cardinality(Nets))
             /\ hosts' = [hosts EXCEPT ![n] = BuildNodeInfo(config)]
             /\ resolver' = [resolver EXCEPT ![n] = CalcNameServer(config, n)]
             /\ IsMaster(config, n) => advertise' = AdvertiseAddress(config, n)
  BY <1>2, AddServerRoutesDoes DEF Go
<1>5. \A m \in Nodes : stage'[m] = IF m = n THEN end ELSE stage[m]
  BY <1>3, <1>4
<1>6. routes[n] = {} /\ podNets[n] = {} BY <1>1 DEF Untouched
<1>7. \/ routes' = routes
      \/ \E list \in ServerRoutes(n) : \E made \in SUBSET DOMAIN list :
           /\ \A i \in made : Routable(n, list[i])
           /\ routes' = [routes EXCEPT ![n] = {list[i] : i \in made}]
  BY <1>2, AddServerRoutesDoes
<1>8. /\ DOMAIN routes' = Nodes
      /\ \A m \in Nodes : m # n => routes'[m] = routes[m]
  BY <1>7 DEF TypeInv
<1>9. /\ DOMAIN hosts' = Nodes /\ DOMAIN resolver' = Nodes
      /\ \A m \in Nodes : m # n =>
           hosts'[m] = hosts[m] /\ resolver'[m] = resolver[m]
  BY <1>2 DEF TypeInv
<1>10. /\ DOMAIN addrs' = Nodes /\ addrs'[n] = InterfaceAddresses(n)
       /\ \A m \in Nodes : m # n => addrs'[m] = addrs[m]
  BY <1>1 DEF TypeInv
<1>11. \A m \in Nodes : m # n => ((Ready(m))' <=> Ready(m))
  BY <1>1, <1>5 DEF Ready
<1>12. TypeInv'
  <2>1. \A ip \in InterfaceAddresses(n) : Len(ip) \in {4, 8}
    <3> SUFFICES ASSUME NEW ip \in InterfaceAddresses(n) PROVE Len(ip) \in {4, 8}
      OBVIOUS
    <3>1. PICK i \in Nets : /\ ip = BuildNodeCIDR(MgmtInfo(config)[i], Id(n))
                            /\ \A k \in 1..i : BuildNodeCIDR(MgmtInfo(config)[k], Id(n)) # Malformed
      BY DEF InterfaceAddresses
    <3>2. i \in 1..i BY DEF Nets
    <3>3. ip # Malformed BY <3>1, <3>2
    <3> QED BY <3>1, <3>3, AddressLength DEF BuildNodeCIDR
  <2>2. \A m \in Nodes : \A ip \in addrs'[m] : Len(ip) \in {4, 8}
    BY <2>1, <1>10 DEF TypeInv
  <2>3. stage' \in [Nodes -> Stages] BY <1>3, <1>4 DEF Stages
  <2> QED BY <1>1, <1>8, <1>9, <1>10, <2>2, <2>3 DEF TypeInv
<1>13. Untouched' BY <1>1, <1>5, <1>8 DEF Untouched
<1>14. Prepared'
  <2> SUFFICES ASSUME NEW m \in Nodes, (Ready(m))'
               PROVE  /\ m \in Topology(config) /\ ValidateConfigContents(config)
                      /\ Malformed \notin ManagementAddresses(m)
                      /\ addrs'[m] = ManagementAddresses(m)
                      /\ hosts'[m] = BuildNodeInfo(config)
                      /\ resolver'[m] = CalcNameServer(config, m)
                      /\ IsMaster(config, m)
                           => advertise' = AdvertiseAddress(config, m)
    BY <1>1, Unchanged DEF Prepared
  <2>1. CASE m # n
    <3>1. m \in Topology(config) /\ config \in Configs
      BY <2>1, <1>11 DEF Prepared, TypeInv
    <3>2. IsMaster(config, m) => ~IsMaster(config, n)
      BY <2>1, <3>1, <1>1, OneMaster
    <3>3. ~IsMaster(config, n) => advertise' = advertise BY <1>2
    <3> QED BY <2>1, <3>2, <3>3, <1>9, <1>10, <1>11 DEF Prepared
  <2>2. CASE m = n
    <3>1. end = "prepared" BY <2>2, <1>5 DEF Ready
    <3>2. /\ hosts'[n] = BuildNodeInfo(config)
          /\ resolver'[n] = CalcNameServer(config, n)
          /\ IsMaster(config, n) => advertise' = AdvertiseAddress(config, n)
      BY <3>1, <1>4 DEF TypeInv
    <3>3. /\ InterfaceAddresses(n) = ManagementAddresses(n)
          /\ Malformed \notin ManagementAddresses(n)
      BY <3>1, <1>4, AllAddresses
    <3> QED BY <2>2, <3>2, <3>3, <1>1, <1>10
  <2> QED BY <2>1, <2>2
<1>15. Routed'
  <2> SUFFICES ASSUME NEW m \in Nodes, NEW r \in routes'[m]
               PROVE  /\ r.to \in Topology(config)
                      /\ r.net \in {0} \union Nets
                      /\ r.dest # NoNet /\ r.gw # Malformed
                      /\ Len(r.gw) \in {4, 8}
                      /\ r.to # m => \E info \in GatewayInfos :
                                       r.gw = BuildGWIP(info, Id(r.to))
                      /\ stage'[m] = "prepared" => r.net = 0
    BY <1>1, Unchanged DEF Routed
  <2>1. CASE m # n BY <2>1, <1>5, <1>8 DEF Routed
  <2>2. CASE m = n
    <3>1. PICK list \in ServerRoutes(n) : \E made \in SUBSET DOMAIN list :
            /\ \A i \in made : Routable(n, list[i])
            /\ routes'[n] = {list[i] : i \in made}
      BY <2>2, <1>6, <1>7 DEF TypeInv
    <3>2. PICK i \in DOMAIN list : Routable(n, list[i]) /\ r = list[i]
      BY <2>2, <3>1
    <3>3. config \in Configs BY DEF TypeInv
    <3> QED BY <1>1, <2>2, <3>2, <3>3, ServerRoute
  <2> QED BY <2>1, <2>2
<1>16. Connected'
  <2> SUFFICES ASSUME NEW m \in Nodes, stage'[m] = "up"
               PROVE  /\ IsMember(config, m)
                      /\ {r \in routes'[m] : r.net # 0} = PodRoutes(m)
                      /\ podNets[m] = PodRanges(m)
    BY <1>1, Unchanged DEF Connected
  <2>1. m # n /\ stage[m] = "up" BY <1>5
  <2> QED BY <2>1, <1>8 DEF Connected
<1>17. HandedOut' BY <1>1, Unchanged DEF HandedOut
<1>18. Advertised'
  <2>1. CASE advertise' = advertise BY <2>1, <1>1 DEF Advertised
  <2>2. CASE IsMaster(config, n) /\ advertise' = AdvertiseAddress(config, n)
    BY <2>2, <1>1 DEF Advertised
  <2> QED BY <2>1, <2>2, <1>2
<1> QED BY <1>12, <1>13, <1>14, <1>15, <1>16, <1>17, <1>18

(* after either,                                                           *)
LEMMA PrepareInv ==
  ASSUME IInv, NEW n \in Nodes, Prepare(n)
  PROVE  IInv'
BY PrepareOtherInv, PrepareMemberInv

(* When every route can be made, the loop makes them all.                  *)
LEMMA AllRoutesMade ==
  ASSUME NEW n, DoRouteOpsOnNodes(n),
         \A r \in PodRoutes(n) : Routable(n, r)
  PROVE  routes' = [routes EXCEPT ![n] = @ \union PodRoutes(n)]
<1> DEFINE good == {r \in PodRoutes(n) : Routable(n, r)}
<1>1. good = PodRoutes(n) OBVIOUS
<1>2. PICK added \in SUBSET good :
        /\ \/ added = PodRoutes(n)
           \/ \E bad \in PodRoutes(n) \ good :
                /\ \A r \in PodRoutes(n) : r.net < bad.net => r \in added
                /\ \A r \in added : r.net <= bad.net
        /\ routes' = [routes EXCEPT ![n] = @ \union added]
  BY Zenon DEF DoRouteOpsOnNodes
<1>3. added = PodRoutes(n) BY <1>1, <1>2
<1> QED BY <1>2, <1>3

(* It makes only routes that can be made.                                  *)
LEMMA GoodRoutesMade ==
  ASSUME NEW n, DoRouteOpsOnNodes(n)
  PROVE  \E added \in SUBSET {r \in PodRoutes(n) : Routable(n, r)} :
           routes' = [routes EXCEPT ![n] = @ \union added]
BY Zenon DEF DoRouteOpsOnNodes

(* and after an up, whichever routes it could make.                        *)
LEMMA BringUpInv ==
  ASSUME IInv, NEW n \in Nodes, BringUp(n)
  PROVE  IInv'
<1> USE DEF IInv
<1>1. /\ stage[n] = "prepared" /\ IsMember(config, n)
      /\ podNets' = [podNets EXCEPT ![n] = PodRanges(n)]
      /\ config' = config /\ addrs' = addrs /\ hosts' = hosts
      /\ resolver' = resolver /\ advertise' = advertise
  BY DEF BringUp, PodRanges
<1>2. DoRouteOpsOnNodes(n) BY DEF BringUp
<1>3. stage \in [Nodes -> Stages] BY DEF TypeInv
<1>4. PICK end \in {"up", "failed"} :
        /\ stage' = [stage EXCEPT ![n] = end]
        /\ end = "up" => \A r \in PodRoutes(n) : Routable(n, r)
  <2>1. Go(n, IF (\A r \in PodRoutes(n) : Routable(n, r)) /\ KubeadmWorks(n)
              THEN "up" ELSE "failed")
    BY Zenon DEF BringUp
  <2> QED BY <2>1 DEF Go
<1>5. \A m \in Nodes : stage'[m] = IF m = n THEN end ELSE stage[m]
  BY <1>3, <1>4
<1>6. PICK added \in SUBSET {r \in PodRoutes(n) : Routable(n, r)} :
        routes' = [routes EXCEPT ![n] = @ \union added]
  BY <1>2, GoodRoutesMade
<1>7. /\ DOMAIN routes' = Nodes /\ routes'[n] = routes[n] \union added
      /\ \A m \in Nodes : m # n => routes'[m] = routes[m]
  BY <1>6 DEF TypeInv
<1>8. Ready(n) BY <1>1 DEF Ready
<1>9. \A m \in Nodes : (Ready(m))' => Ready(m)
  BY <1>1, <1>5, <1>8 DEF Ready
<1>10. n \in Topology(config) /\ ValidateConfigContents(config)
  BY <1>8 DEF Prepared
<1>11. TypeInv'
  <2>1. stage' \in [Nodes -> Stages] BY <1>3, <1>4 DEF Stages
  <2> QED BY <2>1, <1>1, <1>7 DEF TypeInv
<1>12. Untouched'
  BY <1>1, <1>5, <1>7, <1>10 DEF Untouched, TypeInv
<1>13. Prepared' BY <1>1, <1>9, Unchanged DEF Prepared
<1>14. Routed'
  <2> SUFFICES ASSUME NEW m \in Nodes, NEW r \in routes'[m]
               PROVE  /\ r.to \in Topology(config)
                      /\ r.net \in {0} \union Nets
                      /\ r.dest # NoNet /\ r.gw # Malformed
                      /\ Len(r.gw) \in {4, 8}
                      /\ r.to # m => \E info \in GatewayInfos :
                                       r.gw = BuildGWIP(info, Id(r.to))
                      /\ stage'[m] = "prepared" => r.net = 0
    BY <1>1, Unchanged DEF Routed
  <2>1. CASE r \in routes[m]
    <3>1. stage'[m] = "prepared" => stage[m] = "prepared" BY <1>5
    <3> QED BY <2>1, <3>1 DEF Routed
  <2>2. CASE r \notin routes[m]
    <3>1. m = n /\ r \in PodRoutes(n) /\ Routable(n, r) BY <2>2, <1>7
    <3>2. r.dest # NoNet /\ r.gw # Malformed BY <3>1 DEF Routable
    <3>3. stage'[m] # "prepared" BY <3>1, <1>5
    <3>4. Len(r.gw) \in {4, 8} BY <3>1, <3>2, PodRoute, GatewayLength
    <3> QED BY <3>1, <3>2, <3>3, <3>4, PodRoute
  <2> QED BY <2>1, <2>2
<1>15. Connected'
  <2> SUFFICES ASSUME NEW m \in Nodes, stage'[m] = "up"
               PROVE  /\ IsMember(config, m)
                      /\ {r \in routes'[m] : r.net # 0} = PodRoutes(m)
                      /\ podNets'[m] = PodRanges(m)
    BY <1>1, Unchanged DEF Connected
  <2>1. CASE m # n BY <2>1, <1>1, <1>5, <1>7 DEF Connected, TypeInv
  <2>2. CASE m = n
    <3>1. \A r \in PodRoutes(n) : Routable(n, r) BY <2>2, <1>4, <1>5
    <3>2. routes'[n] = routes[n] \union PodRoutes(n)
      BY <3>1, <1>2, AllRoutesMade DEF TypeInv
    <3>3. \A r \in routes[n] : r.net = 0 BY <1>1 DEF Routed
    <3>4. \A r \in PodRoutes(n) : r.net # 0 BY PodRoute
    <3>5. {r \in routes'[n] : r.net # 0} = PodRoutes(n)
      BY <3>2, <3>3, <3>4
    <3>6. podNets'[n] = PodRanges(n) BY <1>1 DEF TypeInv
    <3> QED BY <2>2, <3>5, <3>6, <1>1
  <2> QED BY <2>1, <2>2
<1>16. HandedOut'
  <2> SUFFICES ASSUME NEW m \in Nodes, podNets'[m] # {}
               PROVE  m \in Topology(config) /\ podNets'[m] = PodRanges(m)
    BY <1>1, Unchanged DEF HandedOut
  <2>1. CASE m # n BY <2>1, <1>1 DEF HandedOut, TypeInv
  <2>2. CASE m = n BY <2>2, <1>1, <1>10 DEF TypeInv
  <2> QED BY <2>1, <2>2
<1>17. Advertised' BY <1>1 DEF Advertised
<1> QED BY <1>11, <1>12, <1>13, <1>14, <1>15, <1>16, <1>17

(* The invariant is one of the specification: each command of a node gives *)
(* it what the configuration and its id decide, and leaves the others'     *)
(* alone.                                                                  *)
THEOREM Invariant == Spec => []IInv
<1>1. ASSUME IInv, [Next]_vars PROVE IInv'
  <2>1. CASE UNCHANGED vars BY <1>1, <2>1, StutterInv
  <2>2. CASE Next
    <3>1. PICK n \in Nodes : Refuse(n) \/ Prepare(n) \/ BringUp(n)
      BY <2>2 DEF Next
    <3> QED BY <1>1, <3>1, RefuseInv, PrepareInv, BringUpInv
  <2> QED BY <1>1, <2>1, <2>2
<1> QED BY InitInv, <1>1, PTL DEF Spec

-----------------------------------------------------------------------------
(* Consequences *)

(* Every variable keeps to its domain: no malformed address is ever given  *)
(* to an interface or a route, nor a network without an address.           *)
THEOREM TypeCorrect == Spec => []TypeOK
<1>1. ASSUME IInv PROVE TypeOK
  <2> USE <1>1 DEF IInv
  <2>1. config \in Configs BY DEF TypeInv
  <2>2. Topology(config) \subseteq Nodes BY <2>1, ConfigsAssumption
  <2>3. ASSUME NEW n \in Nodes, NEW r \in routes[n]
        PROVE  /\ r.to \in Nodes /\ r.net \in {0} \union Nets
               /\ Len(r.gw) \in {4, 8} /\ r.dest # NoNet
    BY <2>2, <2>3 DEF Routed
  <2> QED BY <2>3 DEF TypeOK, TypeInv, Stages
<1> QED BY <1>1, Invariant, PTL

(* A gateway is an address that the member it leads to has given to its    *)
(* interface, for any id in IPv6 and ids of one digit in IPv4: BuildGWIP   *)
(* and BuildNodeCIDR agree, on every node and from every network.          *)
THEOREM GatewaysFound == Spec => []GatewaysLeadToNodes
<1>1. ASSUME IInv PROVE GatewaysLeadToNodes
  <2> SUFFICES ASSUME NEW n \in Nodes, NEW r \in routes[n], r.to # n,
                      Ready(r.to), Len(r.gw) = 8 \/ SmallId(r.to)
               PROVE  r.gw \in addrs[r.to]
    BY DEF GatewaysLeadToNodes
  <2>1. /\ r.to \in Topology(config) /\ r.gw # Malformed
        /\ \E info \in GatewayInfos : r.gw = BuildGWIP(info, Id(r.to))
    BY <1>1 DEF IInv, Routed
  <2>2. r.to \in Nodes BY <1>1, <2>1, ConfigsAssumption DEF IInv, TypeInv
  <2> QED BY <1>1, <2>1, <2>2, GatewayFound
<1> QED BY <1>1, Invariant, PTL

(* Two nodes that came up route to each other exactly the pod networks     *)
(* that the other one's CNI configuration hands out.                       *)
THEOREM PodsReached == Spec => []RoutesReachPods
<1>1. ASSUME IInv PROVE RoutesReachPods
  <2> SUFFICES ASSUME NEW n \in Nodes, NEW m \in Nodes,
                      stage[n] = "up", stage[m] = "up", n # m
               PROVE  {r.dest : r \in {s \in routes[n] : s.to = m /\ s.net # 0}}
                        = podNets[m]
    BY DEF RoutesReachPods
  <2> DEFINE R(i) == Route(i, m, PodSubnet(PodInfo(config)[i], Id(m)),
                           MgmtInfoFor(config, PodInfo(config)[i]))
             others == {k \in Topology(config) : k # n /\ IsMember(config, k)}
  <2>1. {s \in routes[n] : s.net # 0} = PodRoutes(n) BY <1>1 DEF IInv, Connected
  <2>2. {s \in routes[n] : s.to = m /\ s.net # 0} = {s \in PodRoutes(n) : s.to = m}
    BY <2>1
  <2>3. podNets[m] = PodRanges(m) BY <1>1 DEF IInv, Connected
  <2>4. m \in others
    BY <1>1 DEF IInv, Connected, Prepared, Ready
  <2>5. {s \in PodRoutes(n) : s.to = m} = {R(i) : i \in Nets}
    <3>1. ASSUME NEW i \in Nets PROVE R(i) \in PodRoutes(n) /\ R(i).to = m
      BY <2>4 DEF PodRoutes, Route
    <3>2. ASSUME NEW s \in PodRoutes(n), s.to = m PROVE \E i \in Nets : s = R(i)
      <4>1. \E i \in Nets, k \in others :
              s = Route(i, k, PodSubnet(PodInfo(config)[i], Id(k)),
                        MgmtInfoFor(config, PodInfo(config)[i]))
        BY DEF PodRoutes
      <4>2. PICK i \in Nets, k \in others :
              s = Route(i, k, PodSubnet(PodInfo(config)[i], Id(k)),
                        MgmtInfoFor(config, PodInfo(config)[i]))
        BY <4>1, Zenon
      <4>3. s.to = k BY <4>2 DEF Route
      <4> QED BY <3>2, <4>2, <4>3
    <3> HIDE DEF R
    <3> QED BY <3>1, <3>2
  <2>6. \A i \in Nets : R(i).dest = PodSubnet(PodInfo(config)[i], Id(m))
    BY DEF Route
  <2>7. {r.dest : r \in {R(i) : i \in Nets}}
          = {PodSubnet(PodInfo(config)[i], Id(m)) : i \in Nets}
    <3> HIDE DEF R
    <3> QED BY <2>6
  <2> QED BY <2>2, <2>3, <2>5, <2>7 DEF PodRanges
<1> QED BY <1>1, Invariant, PTL

(* The subnets of a node that came up are ones that another node could     *)
(* route to.                                                               *)
LEMMA SubnetsExist ==
  ASSUME IInv, NEW n \in Nodes, NEW m \in Nodes,
         stage[n] = "up", stage[m] = "up", n # m, NEW i \in Nets
  PROVE  PodSubnet(PodInfo(config)[i], Id(n)) # NoNet
<1> DEFINE r == Route(i, n, PodSubnet(PodInfo(config)[i], Id(n)),
                      MgmtInfoFor(config, PodInfo(config)[i]))
<1>1. n \in Topology(config) /\ IsMember(config, n)
  BY DEF IInv, Connected, Prepared, Ready
<1>2. r \in PodRoutes(m) BY <1>1 DEF PodRoutes
<1>3. r.dest = PodSubnet(PodInfo(config)[i], Id(n)) BY DEF Route
<1> HIDE DEF r
<1>4. r \in routes[m] BY <1>2 DEF IInv, Connected
<1> QED BY <1>3, <1>4 DEF IInv, Routed

(* No pod address belongs to two nodes that came up, whatever size and     *)
(* ids were accepted: the digits that BuildPodSubnetPrefix adds for one id *)
(* and for another make different numbers in the bits before the subnet's  *)
(* size, or no address.                                                    *)
THEOREM SubnetsDisjoint == Spec => []PodSubnetsDisjoint
<1>1. ASSUME IInv, NEW n \in Nodes, NEW m \in Nodes,
             stage[n] = "up", stage[m] = "up", n # m,
             NEW p \in podNets[n], NEW q \in podNets[m]
      PROVE  ~InNet(p.parts, q)
  <2> USE <1>1
  <2>1. config \in Configs BY DEF IInv, TypeInv
  <2>2. /\ ValidateConfigContents(config) /\ Nets \subseteq {1, 2}
        /\ 2 \in Nets => Dual(config)
    BY DEF IInv, Prepared, Connected, Ready, Nets
  <2>3. n \in Topology(config) /\ m \in Topology(config)
    BY DEF IInv, Prepared, Connected, Ready
  <2>4. Id(n) \in Nat /\ Id(m) \in Nat
    BY <2>1, <2>3, ConfigsAssumption DEF Id
  <2>5. Id(n) # Id(m)
    BY <2>2, <2>3 DEF ValidateConfigContents, ValidateUniqueIDs, Id
  <2>6. podNets[n] = PodRanges(n) /\ podNets[m] = PodRanges(m)
    BY DEF IInv, Connected
  <2>7. PICK i \in Nets : p = PodSubnet(PodInfo(config)[i], Id(n))
    BY <2>6 DEF PodRanges
  <2>8. PICK j \in Nets : q = PodSubnet(PodInfo(config)[j], Id(m))
    BY <2>6 DEF PodRanges
  <2>9. p # NoNet /\ q # NoNet
    <3>1. p # NoNet BY <2>7, SubnetsExist
    <3>2. q # NoNet BY <2>8, SubnetsExist
    <3> QED BY <3>1, <3>2
  <2>10. /\ PodInfo(config)[i] = PodNetInfo(config.pod[i])
         /\ IsNetwork(config.pod[i])
         /\ config.pod[i].mode = "ipv4" => config.pod[i].size = 16
         /\ Dual(config) => config.pod[1].mode # config.pod[2].mode
    BY <2>1, <2>2, PodNetworks
  <2>11. /\ PodInfo(config)[j] = PodNetInfo(config.pod[j])
         /\ IsNetwork(config.pod[j])
         /\ config.pod[j].mode = "ipv4" => config.pod[j].size = 16
    BY <2>1, <2>2, PodNetworks
  <2>12. CASE i = j
    BY <2>4, <2>5, <2>7, <2>8, <2>9, <2>10, <2>12, SubnetsApart
  <2>13. CASE i # j
    <3>1. config.pod[i].mode # config.pod[j].mode
      BY <2>2, <2>10, <2>13
    <3> QED
      BY <2>4, <2>7, <2>8, <2>9, <2>10, <2>11, <3>1, FamiliesApart
  <2> QED BY <2>12, <2>13
<1>2. ASSUME IInv PROVE PodSubnetsDisjoint
  BY <1>1, <1>2 DEF PodSubnetsDisjoint
<1> QED BY <1>2, Invariant, PTL

(* Each pod subnet that a node hands out is the slice of the pod network   *)
(* that the node's id selects, for ids of a byte and every network cut at  *)
(* a byte: the text of the prefix, the node's digits and the parser put    *)
(* the id's 8 bits right after the network's.  There is none exactly when  *)
(* the text of the prefix does not take an id (TakesId).                   *)
THEOREM SubnetsAreSlices == Spec => []PodSubnetsAreSlices
<1>1. ASSUME IInv PROVE PodSubnetsAreSlices
  <2> SUFFICES ASSUME NEW n \in Nodes, NEW i \in Nets, podNets[n] # {},
                      Id(n) <= 255, config.pod[i].size % 8 = 0
               PROVE  (IF TakesId(config.pod[i])
                       THEN PodSlice(config.pod[i], Id(n)) ELSE NoNet)
                        \in podNets[n]
    BY Zenon DEF PodSubnetsAreSlices
  <2> USE <1>1
  <2>1. config \in Configs BY DEF IInv, TypeInv
  <2>2. /\ ValidateConfigContents(config) /\ i \in {1, 2}
        /\ i = 2 => Dual(config)
    BY DEF IInv, Untouched, Nets
  <2>3. n \in Topology(config) /\ podNets[n] = PodRanges(n)
    BY DEF IInv, HandedOut
  <2>4. Id(n) \in Nat BY <2>1, <2>3, ConfigsAssumption DEF Id
  <2>5. /\ PodInfo(config)[i] = PodNetInfo(config.pod[i])
        /\ IsNetwork(config.pod[i])
        /\ config.pod[i].mode = "ipv4" => config.pod[i].size = 16
    BY <2>1, <2>2, PodNetworks
  <2>6. PodSubnet(PodInfo(config)[i], Id(n))
          = IF TakesId(config.pod[i])
            THEN PodSlice(config.pod[i], Id(n)) ELSE NoNet
    BY <2>4, <2>5, SubnetIsSlice
  <2>7. PodSubnet(PodInfo(config)[i], Id(n)) \in PodRanges(n)
    BY Zenon DEF PodRanges
  <2> QED BY <2>3, <2>6, <2>7
<1> QED BY <1>1, Invariant, PTL

(* What prepare writes for a node into /etc/hosts, resolv.conf and         *)
(* kubeadm.conf is an address on that node's interface, for ids of one     *)
(* digit, and for any id when the address is IPv4.                         *)
THEOREM NamesFound == Spec => []NamesAreAddresses
<1>1. ASSUME IInv PROVE NamesAreAddresses
  <2> USE <1>1 DEF IInv
  <2> SUFFICES ASSUME NEW n \in Nodes, Ready(n)
               PROVE
    /\ \A m \in Topology(config) :
         Ready(m) /\ (Len(hosts[n][m]) = 4 \/ SmallId(m))
           => hosts[n][m] \in addrs[m]
    /\ ~IPv6Only(config) /\ (Len(resolver[n]) = 4 \/ SmallId(n))
         => resolver[n] \in addrs[n]
    /\ IsMaster(config, n) /\ advertise # Malformed /\ SmallId(n)
         => advertise \in addrs[n]
    BY Zenon DEF NamesAreAddresses
  <2>0. config \in Configs /\ Topology(config) \subseteq Nodes
    BY ConfigsAssumption DEF TypeInv
  <2>1. /\ n \in Topology(config) /\ ValidateConfigContents(config)
        /\ hosts[n] = BuildNodeInfo(config)
        /\ resolver[n] = CalcNameServer(config, n)
    BY DEF Prepared
  <2>2. ASSUME NEW m \in Topology(config), Ready(m),
               Len(BuildNodeInfo(config)[m]) = 4 \/ SmallId(m)
        PROVE  BuildNodeInfo(config)[m] \in addrs[m]
    <3>1. PICK i \in {1, 2} :
            /\ (IF Dual(config) THEN ForServices(config) ELSE MgmtInfo(config)[1])
                 = NetInfo(config.mgmt[i])
            /\ ~Dual(config) => i = 1
      <4>1. CASE Dual(config) BY <4>1, ServicesInfo
      <4>2. CASE ~Dual(config) BY <4>2 DEF MgmtInfo
      <4> QED BY <4>1, <4>2
    <3>2. BuildNodeInfo(config)[m] = WithDecimal(NetInfo(config.mgmt[i]), Id(m))
      BY <3>1 DEF BuildNodeInfo, Id
    <3>3. config.mgmt[i] # NoNet
      BY <3>1, <2>0, <2>1, ManagementNetworks
    <3>4. m \in Nodes BY <2>0
    <3> QED BY <2>2, <3>2, <3>3, <3>4, DecimalFound
  <2>3. ~IPv6Only(config) => resolver[n] = BuildNodeInfo(config)[n]
    BY <2>1 DEF CalcNameServer
  <2>4. ASSUME IsMaster(config, n), advertise # Malformed, SmallId(n)
        PROVE  advertise \in addrs[n]
    <3>1. PICK m \in Topology(config) :
            IsMaster(config, m) /\ advertise = AdvertiseAddress(config, m)
      BY <2>4 DEF Advertised
    <3>2. m = n BY <2>0, <2>1, <2>4, <3>1, OneMaster
    <3>3. PICK i \in {1, 2} : ForServices(config) = NetInfo(config.mgmt[i])
      BY ServicesInfo
    <3>4. advertise = WithDecimal(NetInfo(config.mgmt[i]), Id(n))
      BY <3>1, <3>2, <3>3 DEF AdvertiseAddress, Id
    <3> QED BY <2>4, <3>4, DecimalFound
  <2> QED BY <2>1, <2>2, <2>3, <2>4
<1> QED BY <1>1, Invariant, PTL

-----------------------------------------------------------------------------
(* A sound configuration *)

(* Its management networks: of the families of its mode, and with their    *)
(* last part for node ids.                                                 *)
LEMMA SoundNetworks ==
  ASSUME config \in Configs, Sound(config), NEW i \in Nets
  PROVE  /\ i \in {1, 2} /\ (i = 2 => Dual(config))
         /\ IsNetwork(config.mgmt[i])
         /\ config.mgmt[i].mode = "ipv6" => config.mgmt[i].size <= 112
         /\ config.mgmt[i].mode = "ipv4" => config.mgmt[i].size <= 24
         /\ MgmtInfo(config)[i] = NetInfo(config.mgmt[i])
         /\ MgmtInfo(config)[i].mode = config.mgmt[i].mode
         /\ config.mgmt[i].mode \in {"ipv4", "ipv6"}
<1>1. i \in {1, 2} /\ (i = 2 => Dual(config)) BY DEF Nets
<1>2. /\ ValidateConfigContents(config)
      /\ config.mgmt[i].mode = "ipv6" => config.mgmt[i].size <= 112
  BY DEF Sound
<1>3. PairOK(config, config.mgmt, MgmtSizes)
  BY <1>2, Zenon DEF ValidateConfigContents, Derivable
<1>4. Extractable(config.mgmt[i], MgmtSizes) BY <1>1, <1>3 DEF PairOK
<1>5. IsNetwork(config.mgmt[i])
  BY <1>1, <1>4, NetworkFields DEF Extractable
<1>6. config.mgmt[i].mode = "ipv4" => config.mgmt[i].size <= 24
  BY <1>4 DEF Extractable, MgmtSizes
<1>7. MgmtInfo(config)[i] = NetInfo(config.mgmt[i]) BY <1>1 DEF MgmtInfo
<1>8. NetInfo(config.mgmt[i]).mode = config.mgmt[i].mode BY <1>5, PrefixBase
<1>9. config.mgmt[i].mode \in {"ipv4", "ipv6"} BY <1>5, NetworkMode
<1> QED BY <1>1, <1>2, <1>5, <1>6, <1>7, <1>8, <1>9

(* Its families: one for all networks, or two and two.                     *)
LEMMA SoundFamilies ==
  ASSUME config \in Configs, Sound(config)
  PROVE  /\ Dual(config) => config.mgmt[1].mode # config.mgmt[2].mode
         /\ ~Dual(config) =>
              /\ config.mgmt[1].mode = Mode(config)
              /\ config.pod[1].mode = Mode(config)
              /\ config.service.mode = Mode(config)
<1>1. PairOK(config, config.mgmt, MgmtSizes)
  BY Zenon DEF Sound, ValidateConfigContents, Derivable
<1>2. Dual(config) => config.mgmt[1].mode # config.mgmt[2].mode
  BY <1>1 DEF PairOK
<1>3. ~Dual(config) => \A net \in {config.mgmt[1], config.pod[1], config.service} :
                         net.mode = Mode(config)
  BY DEF Sound
<1> QED BY <1>2, <1>3

(* Its ids.                                                                *)
LEMMA SoundIds ==
  ASSUME config \in Configs, Sound(config),
         NEW n \in Topology(config), NEW m \in Topology(config)
  PROVE  /\ Id(n) \in 0..9 /\ Id(n) \in Nat /\ Id(n) <= 255 /\ Id(n) < 10
         /\ n # m => Id(n) # Id(m)
<1>1. Id(n) \in 2..9 BY DEF Sound, Id
<1>2. ValidateUniqueIDs(config) BY Zenon DEF Sound, ValidateConfigContents
<1>3. n # m => Id(n) # Id(m) BY <1>2 DEF ValidateUniqueIDs, Id
<1> QED BY <1>1, <1>3

(* All ways to build a node's address make the same one, and it is in the  *)
(* network.                                                                *)
LEMMA SoundAddress ==
  ASSUME config \in Configs, Sound(config), NEW i \in Nets,
         NEW n \in Topology(config)
  PROVE  LET ip == NodeAddress(config.mgmt[i], Id(n))
         IN  /\ BuildNodeCIDR(MgmtInfo(config)[i], Id(n)) = ip
             /\ BuildGWIP(MgmtInfo(config)[i], Id(n)) = ip
             /\ WithDecimal(MgmtInfo(config)[i], Id(n)) = ip
             /\ InNet(ip, config.mgmt[i])
<1> DEFINE net == config.mgmt[i]
           id == Id(n)
<1>1. /\ IsNetwork(net) /\ (net.mode = "ipv6" => net.size <= 112)
      /\ (net.mode = "ipv4" => net.size <= 24)
      /\ MgmtInfo(config)[i] = NetInfo(net)
  BY SoundNetworks
<1>2. id \in 0..9 /\ id \in Nat /\ id <= 255 BY SoundIds
<1> HIDE DEF net, id
<1>3. ParseIP(AddDigits(NetInfo(net).prefix, Dec(id))) = NodeAddress(net, id)
  BY <1>1, <1>2, AddressBuilt
<1>4. Hex(id) = Dec(id) BY <1>2, SameDigits
<1>5. InNet(NodeAddress(net, id), net) BY <1>1, <1>2, AddressInNet
<1>6. BuildGWIP(MgmtInfo(config)[i], id) = NodeAddress(net, id)
  BY <1>1, <1>3, <1>4 DEF BuildGWIP
<1>7. WithDecimal(MgmtInfo(config)[i], id) = NodeAddress(net, id)
  BY <1>1, <1>3 DEF WithDecimal
<1>8. BuildNodeCIDR(MgmtInfo(config)[i], id) = NodeAddress(net, id)
  BY <1>1, <1>3, <1>4 DEF BuildNodeCIDR
<1> QED BY <1>5, <1>6, <1>7, <1>8 DEF net, id

(* A node's interface gets as many addresses as there are networks.        *)
LEMMA SoundInterface ==
  ASSUME config \in Configs, Sound(config), NEW n \in Topology(config)
  PROVE  /\ InterfaceAddresses(n)
              = {NodeAddress(config.mgmt[i], Id(n)) : i \in Nets}
         /\ ~(Cardinality(InterfaceAddresses(n)) < Cardinality(Nets))
<1> DEFINE Addr(i) == BuildNodeCIDR(MgmtInfo(config)[i], Id(n))
           Ip(i) == NodeAddress(config.mgmt[i], Id(n))
           good == {j \in Nets : \A k \in 1..j : Addr(k) # Malformed}
<1>1. \A i \in Nets : Addr(i) = Ip(i) BY SoundAddress
<1>2. \A i \in Nets : Ip(i) # Malformed
  <2>1. ASSUME NEW i \in Nets PROVE Ip(i) # Malformed
    <3>1. Id(n) # Id(n) + 1
      <4>1. Id(n) \in Nat BY SoundIds
      <4> QED BY <4>1
    <3> QED BY <3>1, NodesApart
  <2> QED BY <2>1
<1>3. InterfaceAddresses(n) = {Addr(i) : i \in good} BY DEF InterfaceAddresses
<1> HIDE DEF Addr, Ip
<1>4. good = Nets
  <2>1. \A i \in Nets : \A k \in 1..i : k \in Nets BY DEF Nets
  <2> QED BY <1>1, <1>2, <2>1
<1>5. InterfaceAddresses(n) = {Ip(i) : i \in Nets} BY <1>1, <1>3, <1>4
<1>6. ~(Cardinality(InterfaceAddresses(n)) < Cardinality(Nets))
  <2>1. CASE ~Dual(config)
    <3>1. Nets = {1} BY <2>1 DEF Nets
    <3>2. InterfaceAddresses(n) = {Ip(1)} BY <1>5, <3>1
    <3>3. Cardinality(Nets) = 1 /\ Cardinality({Ip(1)}) = 1
      BY <3>1, FS_Singleton
    <3> QED BY <3>2, <3>3
  <2>2. CASE Dual(config)
    <3>1. Nets = {1} \union {2} BY <2>2 DEF Nets
    <3>2. InterfaceAddresses(n) = {Ip(1)} \union {Ip(2)} BY <1>5, <3>1
    <3>3. Ip(1) # Ip(2)
      <4>1. 1 \in Nets /\ 2 \in Nets BY <3>1
      <4>2. /\ config.mgmt[1].mode \in {"ipv4", "ipv6"}
            /\ config.mgmt[2].mode \in {"ipv4", "ipv6"}
        BY <4>1, SoundNetworks
      <4>3. (config.mgmt[1].mode = "ipv6") # (config.mgmt[2].mode = "ipv6")
        BY <2>2, <4>2, SoundFamilies
      <4> QED BY <4>3, NodesApart DEF Ip
    <3>4. IsFiniteSet({1}) /\ Cardinality({1}) = 1
          /\ IsFiniteSet({Ip(1)}) /\ Cardinality({Ip(1)}) = 1
      BY FS_Singleton
    <3>5. Cardinality({1} \union {2}) = 2 BY <3>4, FS_AddElement
    <3>6. Cardinality({Ip(1)} \union {Ip(2)}) = 2
      <4> DEFINE S == {Ip(1)}
                 e == Ip(2)
      <4>1. IsFiniteSet(S) /\ Cardinality(S) = 1 /\ e \notin S
        BY <3>3, <3>4
      <4> HIDE DEF S, e
      <4>2. Cardinality(S \union {e}) = 1 + 1 BY <4>1, FS_AddElement
      <4> QED BY <4>2 DEF S, e
    <3> QED BY <3>1, <3>2, <3>5, <3>6
  <2> QED BY <2>1, <2>2
<1> QED BY <1>5, <1>6 DEF Ip

(* A route is accepted that leads to a network of a family through the     *)
(* management address of another node in that family.                      *)
LEMMA SoundRoutable ==
  ASSUME config \in Configs, Sound(config), NEW i \in Nets,
         NEW n \in Topology(config), NEW m \in Topology(config), n # m,
         NEW r, r.to = m, r.gw = BuildGWIP(MgmtInfo(config)[i], Id(m)),
         r.dest # NoNet, Len(r.dest.parts) = LastPart(config.mgmt[i])
  PROVE  Routable(n, r)
<1>1. r.gw = NodeAddress(config.mgmt[i], Id(m)) /\ InNet(r.gw, config.mgmt[i])
  BY SoundAddress
<1>2. Id(m) # Id(n) BY SoundIds
<1>3. /\ r.gw # Malformed /\ Len(r.gw) = LastPart(config.mgmt[i])
      /\ \A j \in Nets : r.gw # NodeAddress(config.mgmt[j], Id(n))
  BY <1>1, <1>2, NodesApart
<1>4. r.gw \notin InterfaceAddresses(n) BY <1>3, SoundInterface
<1> QED BY <1>1, <1>3, <1>4 DEF Routable

(* So are the routes to the servers, all of the list,                      *)
LEMMA SoundServerRoutes ==
  ASSUME config \in Configs, Sound(config), NEW n \in Topology(config)
  PROVE  /\ ServerRoutes(n) # {}
         /\ \A list \in ServerRoutes(n) : \A i \in DOMAIN list : Routable(n, list[i])
<1>1. CASE ~IPv6Only(config)
  <2>1. ServerRoutes(n) = {<<>>} BY <1>1, ServerRouteLists
  <2> QED BY <2>1
<1>2. ASSUME IPv6Only(config), NEW dest \in {config.dns64, config.support}
      PROVE  dest # NoNet /\ Len(dest.parts) = 8
  <2>1. dest # NoNet
    <3>1. Extractable(config.support, AnySize) /\ config.dns64 # NoNet
      BY <1>2, Zenon DEF Sound, ValidateConfigContents, Derivable
    <3> QED BY <1>2, <3>1 DEF Extractable
  <2>2. dest.mode = "ipv6"
    <3>1. config.support.mode = "ipv6" /\ config.dns64.mode = "ipv6"
      BY <1>2 DEF Sound
    <3> QED BY <1>2, <3>1
  <2>3. dest \in {config.mgmt[1], config.mgmt[2], config.pod[1], config.pod[2],
                  config.service, config.support, config.dns64}
    BY <1>2
  <2>4. IsNetwork(dest) BY <2>1, <2>3, ConfigsAssumption, Zenon
  <2>5. dest.parts \in [1..8 -> Words] BY <2>2, <2>4 DEF IsNetwork
  <2>6. 8 \in Nat OBVIOUS
  <2> QED BY <2>1, <2>5, <2>6, PartsLength
<1>3. CASE IPv6Only(config) /\ n \in Servers
  <2> DEFINE r == RouteToNAT64(n)
  <2>1. ServerRoutes(n) = {<<r>>} BY <1>3, ServerRouteLists
  <2>2. r.to = n /\ r.dest = config.dns64 /\ r.gw = config.nat64ip
    BY DEF RouteToNAT64
  <2>3. InNet(config.nat64ip, config.support) BY <1>3, Zenon DEF Sound
  <2>4. Len(config.nat64ip) = Len(config.support.parts) BY <2>3 DEF InNet
  <2>5. /\ config.dns64 # NoNet /\ Len(config.dns64.parts) = 8
        /\ Len(config.support.parts) = 8
    BY <1>2, <1>3
  <2>6. config.nat64ip # Malformed
    <3>1. Len(Malformed) = 0 BY DEF Malformed
    <3>2. Len(config.nat64ip) # 0 BY <2>4, <2>5
    <3> QED BY <3>1, <3>2, Zenon
  <2> HIDE DEF r
  <2>7. Routable(n, r) BY <2>2, <2>3, <2>4, <2>5, <2>6 DEF Routable
  <2> QED BY <2>1, <2>7
<1>4. CASE IPv6Only(config) /\ n \notin Servers
  <2>1. ServerRoutes(n) = {<<ToServer(m, config.dns64),
                          ToServer(k, config.support)>> : m, k \in Servers}
    BY <1>4, ServerRouteLists
  <2>2. Servers # {} BY <1>4 DEF Sound, Servers
  <2>3. LastPart(config.mgmt[1]) = 8 /\ 1 \in Nets
    <3>1. ~Dual(config) /\ Mode(config) = "ipv6" BY <1>4 DEF IPv6Only, Dual
    <3>2. config.mgmt[1].mode = "ipv6" BY <3>1, SoundFamilies
    <3> QED BY <3>2 DEF LastPart, Nets
  <2>4. ASSUME NEW m \in Servers, NEW dest \in {config.dns64, config.support}
        PROVE  Routable(n, ToServer(m, dest))
    <3> DEFINE r == ToServer(m, dest)
    <3>1. r.to = m /\ r.gw = BuildGWIP(MgmtInfo(config)[1], Id(m)) /\ r.dest = dest
      BY DEF Route, ToServer
    <3>2. m \in Topology(config) /\ n # m BY <1>4 DEF Servers
    <3>3. dest # NoNet /\ Len(dest.parts) = 8 BY <1>2, <1>4
    <3> HIDE DEF r
    <3>4. Routable(n, r) BY <2>3, <3>1, <3>2, <3>3, SoundRoutable
    <3> QED BY <3>4 DEF r
  <2>5. ASSUME NEW list \in ServerRoutes(n), NEW i \in DOMAIN list
        PROVE  Routable(n, list[i])
    <3>1. PICK m \in Servers, k \in Servers :
            list = <<ToServer(m, config.dns64), ToServer(k, config.support)>>
      BY <2>1, <2>5
    <3>2. i = 1 \/ i = 2 BY <3>1
    <3>3. \/ list[i] = ToServer(m, config.dns64)
          \/ list[i] = ToServer(k, config.support)
      BY <3>1, <3>2
    <3> QED BY <2>4, <3>3
  <2>6. ServerRoutes(n) # {}
    <3>1. PICK m \in Servers : TRUE BY <2>2
    <3>2. <<ToServer(m, config.dns64), ToServer(m, config.support)>>
            \in ServerRoutes(n)
      BY <2>1
    <3> QED BY <3>2
  <2> QED BY <2>5, <2>6
<1> QED BY <1>1, <1>3, <1>4

(* the subnets of the pods,                                                *)
LEMMA SoundSubnet ==
  ASSUME config \in Configs, Sound(config), NEW i \in Nets,
         NEW m \in Topology(config)
  PROVE  LET info == PodInfo(config)[i]
         IN  /\ PodSubnet(info, Id(m)) # NoNet
             /\ info.mode = config.pod[i].mode
             /\ config.pod[i].mode \in {"ipv4", "ipv6"}
             /\ Len(PodSubnet(info, Id(m)).parts)
                  = IF config.pod[i].mode = "ipv6" THEN 8 ELSE 4
<1> DEFINE net == config.pod[i]
           id == Id(m)
<1>1. ValidateConfigContents(config) /\ TakesId(net) /\ net.size % 8 = 0
  BY DEF Sound
<1>2. i \in {1, 2} /\ (i = 2 => Dual(config)) BY DEF Nets
<1>3. /\ PodInfo(config)[i] = PodNetInfo(net)
      /\ IsNetwork(net) /\ (net.mode = "ipv4" => net.size = 16)
  BY <1>1, <1>2, PodNetworks
<1>4. id \in Nat /\ id <= 255 BY SoundIds
<1>5. net.mode \in {"ipv4", "ipv6"} BY <1>3, NetworkMode
<1> HIDE DEF net, id
<1>6. PodSubnet(PodNetInfo(net), id) = PodSlice(net, id)
  BY <1>1, <1>3, <1>4, SubnetIsSlice
<1>7. PodSlice(net, id).mode = net.mode
  <2> DEFINE part == net.size \div PartBits(net) + 1
             slice == IF net.size % PartBits(net) = 0 /\ net.mode = "ipv6"
                      THEN id * 256 ELSE id
             changed == [net.parts EXCEPT ![part] = @ + slice]
  <2>1. PodSlice(net, id) = [mode |-> net.mode, parts |-> changed,
                             size |-> net.size + 8]
    BY <1>3, SliceFields
  <2> HIDE DEF changed
  <2> QED BY <2>1
<1>8. PodSubnet(PodNetInfo(net), id) # NoNet
  <2>1. NoNet.mode = "none" BY DEF NoNet
  <2> QED BY <1>5, <1>6, <1>7, <2>1
<1>9. Len(PodSubnet(PodNetInfo(net), id).parts)
        = IF net.mode = "ipv6" THEN 8 ELSE 4
  BY <1>3, <1>4, <1>8, SubnetLength
<1>10. PodNetInfo(net).mode = net.mode
  <2>1. CASE net.mode = "ipv4" BY <2>1, IPv4Prefix
  <2>2. CASE net.mode = "ipv6" BY <2>2, PodNetFields
  <2> QED BY <1>5, <2>1, <2>2
<1> QED BY <1>3, <1>5, <1>8, <1>9, <1>10 DEF net, id

(* and the routes to them.                                                 *)
LEMMA SoundPodRoutes ==
  ASSUME config \in Configs, Sound(config), NEW n \in Topology(config),
         NEW r \in PodRoutes(n)
  PROVE  Routable(n, r)
<1> DEFINE others == {k \in Topology(config) : k # n /\ IsMember(config, k)}
<1>1. \E i \in Nets, m \in others :
        r = Route(i, m, PodSubnet(PodInfo(config)[i], Id(m)),
                  MgmtInfoFor(config, PodInfo(config)[i]))
  BY DEF PodRoutes
<1>2. PICK i \in Nets, m \in others :
        r = Route(i, m, PodSubnet(PodInfo(config)[i], Id(m)),
                  MgmtInfoFor(config, PodInfo(config)[i]))
  BY <1>1, Zenon
<1>3. m \in Topology(config) /\ m # n OBVIOUS
<1> DEFINE info == PodInfo(config)[i]
           k == IF info.mode # MgmtInfo(config)[1].mode THEN 2 ELSE 1
<1>4. /\ r.to = m /\ r.dest = PodSubnet(info, Id(m))
      /\ r.gw = BuildGWIP(MgmtInfo(config)[k], Id(m))
  <2>1. MgmtInfoFor(config, info) = MgmtInfo(config)[k] BY DEF MgmtInfoFor
  <2> QED BY <1>2, <2>1 DEF Route
<1>5. /\ r.dest # NoNet /\ info.mode = config.pod[i].mode
      /\ config.pod[i].mode \in {"ipv4", "ipv6"}
      /\ Len(r.dest.parts) = IF config.pod[i].mode = "ipv6" THEN 8 ELSE 4
  BY <1>3, <1>4, SoundSubnet
<1>6. 1 \in Nets BY DEF Nets
<1>7. /\ MgmtInfo(config)[1].mode = config.mgmt[1].mode
      /\ config.mgmt[1].mode \in {"ipv4", "ipv6"}
  BY <1>6, SoundNetworks
<1>8. k \in Nets /\ config.mgmt[k].mode = config.pod[i].mode
  <2>1. CASE ~Dual(config)
    <3>1. i = 1 BY <2>1 DEF Nets
    <3>2. config.mgmt[1].mode = config.pod[1].mode BY <2>1, SoundFamilies
    <3> QED BY <3>1, <3>2, <1>5, <1>6, <1>7
  <2>2. CASE Dual(config)
    <3>1. 2 \in Nets BY <2>2 DEF Nets
    <3>2. config.mgmt[2].mode \in {"ipv4", "ipv6"} BY <3>1, SoundNetworks
    <3>3. config.mgmt[1].mode # config.mgmt[2].mode BY <2>2, SoundFamilies
    <3> QED BY <3>1, <3>2, <3>3, <1>5, <1>6, <1>7
  <2> QED BY <2>1, <2>2
<1> HIDE DEF k
<1>9. Len(r.dest.parts) = LastPart(config.mgmt[k])
  BY <1>5, <1>8 DEF LastPart
<1> QED BY <1>3, <1>4, <1>5, <1>8, <1>9, SoundRoutable

(* The management network for services is one that the interfaces have.    *)
LEMMA SoundServices ==
  ASSUME config \in Configs, Sound(config)
  PROVE  \E i \in Nets : ForServices(config) = MgmtInfo(config)[i]
<1> DEFINE i == IF MgmtInfo(config)[1].mode # ServiceInfo(config).mode
                  THEN 2 ELSE 1
<1>1. /\ ForServices(config) = MgmtInfo(config)[i]
      /\ i \in {1, 2}
      /\ i = 2 => MgmtInfo(config)[1].mode # ServiceInfo(config).mode
  <2>1. ForServices(config) = MgmtInfo(config)[i] BY DEF ForServices
  <2>2. i \in {1, 2} OBVIOUS
  <2>3. i = 2 => MgmtInfo(config)[1].mode # ServiceInfo(config).mode OBVIOUS
  <2> QED BY <2>1, <2>2, <2>3
<1> HIDE DEF i
<1>2. i \in Nets
  <2>1. CASE Dual(config) BY <1>1, <2>1 DEF Nets
  <2>2. CASE ~Dual(config)
    <3>1. 1 \in Nets BY DEF Nets
    <3>2. MgmtInfo(config)[1].mode = config.mgmt[1].mode
      BY <3>1, SoundNetworks
    <3>3. config.mgmt[1].mode = config.service.mode BY <2>2, SoundFamilies
    <3>4. config.service # NoNet
      BY Zenon DEF Sound, ValidateConfigContents, Derivable, Extractable
    <3>5. config.service \in {config.mgmt[1], config.mgmt[2], config.pod[1],
                              config.pod[2], config.service, config.support,
                              config.dns64}
      OBVIOUS
    <3>6. IsNetwork(config.service) BY <3>4, <3>5, ConfigsAssumption, Zenon
    <3>7. ServiceInfo(config).mode = config.service.mode
      BY <3>6, PrefixBase DEF ServiceInfo
    <3> QED BY <1>1, <3>1, <3>2, <3>3, <3>7
  <2> QED BY <2>1, <2>2
<1> QED BY <1>1, <1>2

(* kubeadm is told an address of the master's, on the master once it is    *)
(* prepared and on a minion once the master is up.                         *)
LEMMA SoundKubeadm ==
  ASSUME IInv, Sound(config), NEW n \in Nodes, Ready(n),
         ~IsMaster(config, n) => stage[DetermineMasterNode(config)] = "up"
  PROVE  KubeadmWorks(n)
<1> DEFINE master == DetermineMasterNode(config)
<1>1. config \in Configs /\ Topology(config) \subseteq Nodes
  BY ConfigsAssumption DEF IInv, TypeInv
<1>2. n \in Topology(config) /\ ValidateConfigContents(config)
  BY DEF IInv, Prepared
<1>3. master \in Topology(config) /\ IsMaster(config, master)
  <2>1. Cardinality(Masters(config)) = 1
    BY <1>2, Zenon DEF ValidateConfigContents, ValidateOpModesForAllNodes
  <2>2. Masters(config) # {}
    <3>1. SUFFICES ASSUME Masters(config) = {} PROVE FALSE OBVIOUS
    <3> QED BY <2>1, <3>1, FS_EmptySet
  <2>3. \E m \in Topology(config) : IsMaster(config, m) BY <2>2 DEF Masters
  <2> QED BY <2>3, Zenon DEF DetermineMasterNode
<1> HIDE DEF master
<1>4. master \in Nodes BY <1>1, <1>3
<1>5. Ready(master)
  <2>1. CASE IsMaster(config, n)
    <3>1. master = n BY <1>1, <1>2, <1>3, <2>1, OneMaster
    <3> QED BY <3>1
  <2>2. CASE ~IsMaster(config, n) BY <1>3, <2>2 DEF Ready, IsMember, master
  <2> QED BY <2>1, <2>2
<1>6. /\ addrs[master] = ManagementAddresses(master)
      /\ advertise = AdvertiseAddress(config, master)
  BY <1>3, <1>4, <1>5 DEF IInv, Prepared
<1>7. ASSUME NEW i \in Nets
      PROVE  WithDecimal(MgmtInfo(config)[i], Id(master)) \in addrs[master]
  <2>1. WithDecimal(MgmtInfo(config)[i], Id(master))
          = BuildNodeCIDR(MgmtInfo(config)[i], Id(master))
    BY <1>1, <1>3, SoundAddress
  <2> QED BY <1>6, <2>1, Zenon DEF ManagementAddresses
<1>8. advertise \in addrs[master]
  <2>1. PICK i \in Nets : ForServices(config) = MgmtInfo(config)[i]
    BY <1>1, SoundServices
  <2>2. advertise = WithDecimal(MgmtInfo(config)[i], Id(master))
    BY <1>6, <2>1 DEF AdvertiseAddress, Id
  <2> QED BY <1>7, <2>2
<1>9. JoinAddress(config) \in addrs[master]
  <2>1. 1 \in Nets BY DEF Nets
  <2>2. JoinAddress(config) = WithDecimal(MgmtInfo(config)[1], Id(master))
    BY Zenon DEF JoinAddress, Id, master
  <2> QED BY <1>7, <2>1, <2>2
<1> QED BY <1>8, <1>9 DEF KubeadmWorks, master

(* A prepare with a sound configuration ends prepared,                     *)
LEMMA PrepareWorks ==
  ASSUME IInv, Sound(config), NEW n \in Nodes, Prepare(n)
  PROVE  Go(n, "prepared")
<1>1. config \in Configs BY DEF IInv, TypeInv
<1>2. n \in Topology(config) BY DEF Prepare
<1>3. CASE ~IsMember(config, n) BY <1>3, Zenon DEF Prepare
<1>4. CASE IsMember(config, n)
  <2>1. ~(Cardinality(InterfaceAddresses(n)) < Cardinality(Nets))
    BY <1>1, <1>2, SoundInterface
  <2>2. AddServerRoutes(n) BY <1>4, <2>1, Zenon DEF Prepare, PrepareMember
  <2> DEFINE Made(list) ==
               {i \in DOMAIN list : \A j \in 1..i : Routable(n, list[j])}
  <2>3. ServerRoutes(n) # {} BY <1>1, <1>2, SoundServerRoutes
  <2>4. PICK list \in ServerRoutes(n) :
          Go(n, IF Made(list) = DOMAIN list THEN "prepared" ELSE "failed")
    BY <2>2, <2>3, Zenon DEF AddServerRoutes
  <2>5. ASSUME NEW i \in DOMAIN list, NEW j \in 1..i PROVE Routable(n, list[j])
    <3>1. j \in DOMAIN list BY <2>5, ListPrefix
    <3> QED BY <1>1, <1>2, <3>1, SoundServerRoutes
  <2>6. Made(list) = DOMAIN list BY <2>5
  <2> HIDE DEF Made
  <2> QED BY <2>4, <2>6
<1> QED BY <1>3, <1>4

(* and an up ends up.                                                      *)
LEMMA BringUpWorks ==
  ASSUME IInv, Sound(config), NEW n \in Nodes, BringUp(n)
  PROVE  Go(n, "up")
<1>1. Ready(n)
      /\ (~IsMaster(config, n) => stage[DetermineMasterNode(config)] = "up")
  BY DEF BringUp, Ready
<1>2. config \in Configs /\ n \in Topology(config)
  BY <1>1 DEF IInv, TypeInv, Prepared
<1>3. \A r \in PodRoutes(n) : Routable(n, r) BY <1>2, SoundPodRoutes
<1>4. KubeadmWorks(n) BY <1>1, SoundKubeadm
<1> QED BY <1>3, <1>4, Zenon DEF BringUp

(* With an accepted configuration that is also Sound no prepare and no up  *)
(* gives up half-way, on any node: every address that they build from it   *)
(* parses and is that of a node, every route is taken, and kubeadm is told *)
(* an address of the master's.                                             *)
THEOREM NothingFails == Spec => []NoLateFailure
<1>1. Init => NoLateFailure
  <2> SUFFICES ASSUME Init, NEW n \in Nodes PROVE stage[n] # "failed"
    BY DEF NoLateFailure
  <2>1. stage[n] = "new" BY DEF Init
  <2> QED BY <2>1
<1>2. ASSUME IInv, NoLateFailure, [Next]_vars PROVE NoLateFailure'
  <2> SUFFICES ASSUME Sound(config)', NEW m \in Nodes
               PROVE  stage'[m] # "failed"
    BY DEF NoLateFailure
  <2>1. config' = config
    BY <1>2 DEF Next, Refuse, Prepare, BringUp, vars
  <2>2. Sound(config)
    <3>1. Nets' = Nets BY <2>1, Unchanged
    <3> QED BY <2>1, <3>1 DEF Sound
  <2>3. stage[m] # "failed" /\ stage \in [Nodes -> Stages]
    BY <1>2, <2>2 DEF NoLateFailure, IInv, TypeInv
  <2>4. CASE UNCHANGED vars BY <2>3, <2>4 DEF vars
  <2>5. CASE Next
    <3>1. PICK n \in Nodes : Refuse(n) \/ Prepare(n) \/ BringUp(n)
      BY <2>5 DEF Next
    <3>2. PICK end \in {"refused", "prepared", "up"} : Go(n, end)
      <4>1. CASE Refuse(n) BY <4>1 DEF Refuse
      <4>2. CASE Prepare(n) BY <1>2, <2>2, <4>2, PrepareWorks
      <4>3. CASE BringUp(n) BY <1>2, <2>2, <4>3, BringUpWorks
      <4> QED BY <3>1, <4>1, <4>2, <4>3
    <3>3. stage' = [stage EXCEPT ![n] = end] BY <3>2 DEF Go
    <3> QED BY <2>3, <3>3
  <2> QED BY <1>2, <2>4, <2>5
<1> QED BY <1>1, <1>2, Invariant, PTL DEF Spec

=============================================================================
