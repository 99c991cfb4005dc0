--------------------------- MODULE Configuration ---------------------------
(***************************************************************************)
(* The configuration file: what validate.go accepts, and the fields it     *)
(* derives from the networks for the commands to use.                      *)
(*                                                                         *)
(* A configuration is a record of the fields below, with networks that     *)
(* ParseCIDR has parsed and cut to their size, or NoNet for a field that   *)
(* is missing.  The verdict does not depend on the order of the checks nor *)
(* on that of the topology, a map, so that it is one formula.  Left out:   *)
(* the plugin (in UpDown), token and hash (in Cluster), the versions of    *)
(* kubeadm and Kubernetes, and text that does not parse.                   *)
(*                                                                         *)
(*   mode                    General.Mode                                  *)
(*   ids, ops                id and operating modes of each node           *)
(*   mgmt, pod               pairs of networks, cidr and cidr2             *)
(*   service, support        networks                                      *)
(*   v4support, v4ip, v4pool support_net's v4cidr, nat64's v4_ip, and the  *)
(*                           address in nat64's v4_cidr                    *)
(*   dns64, dns64ip, nat64ip dns64's cidr and ip, nat64's ip               *)
(*   mtu                     pod_net's mtu                                 *)
(***************************************************************************)
EXTENDS AddressText

Mode(c)     == IF c.mode = "" THEN "ipv6" ELSE c.mode
IPv6Only(c) == Mode(c) = "ipv6"
Dual(c)     == Mode(c) = "dual-stack"
Topology(c) == DOMAIN c.ids

IsMaster(c, n)      == "master" \in c.ops[n]
IsMember(c, n)      == IsMaster(c, n) \/ "minion" \in c.ops[n]
IsNAT64Server(c, n) == "nat64" \in c.ops[n]

Masters(c)            == {n \in Topology(c) : IsMaster(c, n)}
DetermineMasterNode(c) == CHOOSE n \in Topology(c) : IsMaster(c, n)

-----------------------------------------------------------------------------
(* Checks *)

ValidateNetworkMode(c) == Mode(c) \in {"ipv6", "ipv4", "dual-stack"}

ValidateUniqueIDs(c) ==
  \A n, m \in Topology(c) : c.ids[n] = c.ids[m] => n = m

ValidModes(c) ==
  {"master", "minion"} \union IF IPv6Only(c) THEN {"dns64", "nat64"} ELSE {}

ValidateNodeOpModes(c, n) ==
  /\ c.ops[n] # {} /\ c.ops[n] \subseteq ValidModes(c)
  /\ ~({"master", "minion"} \subseteq c.ops[n])
  /\ "dns64" \in c.ops[n] <=> "nat64" \in c.ops[n]

ValidateOpModesForAllNodes(c) ==
  /\ \A n \in Topology(c) : ValidateNodeOpModes(c, n)
  /\ Cardinality(Masters(c)) = 1

PodMTU(c) == IF c.mtu = 0 THEN 1500 ELSE c.mtu

ValidatePodFields(c) == PodMTU(c) >= 1280

ValidateNAT64Fields(c) ==
  IPv6Only(c) =>
    /\ c.v4support # NoNet
    /\ c.v4ip # Malformed /\ InNet(c.v4ip, c.v4support)
    /\ c.v4pool # Malformed /\ InNet(c.v4pool, c.v4support)

(* The sizes of IPv4 networks that CheckMgmtSize and the others let pass. *)
MgmtSizes    == {8, 16}
PodSizes     == {16}
ServiceSizes == 0..23
AnySize      == 0..32

(* The error of ExtractNetInfo. *)
Extractable(net, sizes) ==
  net # NoNet /\ (net.mode = "ipv4" => net.size \in sizes)

(* In dual-stack mode a pair of networks has one of each family, otherwise *)
(* there is no second one.                                                 *)
PairOK(c, nets, sizes) ==
  /\ Extractable(nets[1], sizes)
  /\ IF Dual(c) THEN Extractable(nets[2], sizes) /\ nets[1].mode # nets[2].mode
                ELSE nets[2] = NoNet

(* The error of CalculateDerivedFields. *)
Derivable(c) ==
  /\ PairOK(c, c.mgmt, MgmtSizes)
  /\ PairOK(c, c.pod, PodSizes)
  /\ Extractable(c.service, ServiceSizes)
  /\ IF IPv6Only(c)
     THEN Extractable(c.support, AnySize) /\ c.dns64 # NoNet
     ELSE c.support = NoNet

ValidateConfigContents(c) ==
  /\ ValidateNetworkMode(c)
  /\ ValidateUniqueIDs(c)
  /\ ValidateOpModesForAllNodes(c)
  /\ ValidatePodFields(c)
  /\ ValidateNAT64Fields(c)
  /\ Derivable(c)

-----------------------------------------------------------------------------
(* Derived fields: NetInfo records, whose prefix is a text *)

NoInfo == [prefix |-> NoText, size |-> 0, mode |-> "none"]

(* "10.192.0." *)
MakeV4PrefixFromNetwork(net) ==
  [base |-> 10, words |-> [i \in 1..3 |-> Dec(net.parts[i])], gaps |-> {},
   open |-> TRUE]

NetInfo(net) ==
  IF net = NoNet THEN NoInfo
  ELSE [prefix |-> IF net.mode = "ipv4" THEN MakeV4PrefixFromNetwork(net)
                                        ELSE IPv6Text(net.parts),
        size |-> net.size, mode |-> net.mode]

MgmtInfo(c) == [i \in 1..2 |-> NetInfo(c.mgmt[i])]
ServiceInfo(c) == NetInfo(c.service)

(* The lower byte of a part makes room for a node id when it is zero and   *)
(* is not all there is.                                                    *)
TrimZeros(word) ==
  IF Len(word) >= 2 /\ SubSeq(word, Len(word) - 1, Len(word)) = <<0, 0>>
  THEN SubSeq(word, 1, Len(word) - 2) ELSE word

(* "fd00:40:0:0:" or "fd00:10:20:30:40": all the words the network has,    *)
(* and zeros up to the part that the node id goes to.  A "::" at the end   *)
(* goes; one before it stays as an empty part, and is still there when     *)
(* BuildPodSubnetPrefix adds another, whatever becomes of the last part.   *)
MakePrefixFromNetwork(text, netSize) ==
  LET minParts == netSize \div 16
      gaps     == IF text.open THEN {} ELSE text.gaps
      have     == Len(text.words) + Cardinality(gaps)
      zeros    == [i \in 1..(minParts - have) |-> <<0>>]
  IN  CASE have > minParts /\ gaps = {} ->
             [text EXCEPT !.words[minParts + 1] = TrimZeros(@),
                          !.gaps = {}, !.open = FALSE]
        [] have > minParts /\ gaps # {} -> text
        [] OTHER -> [text EXCEPT !.words = @ \o zeros, !.gaps = gaps,
                                 !.open = TRUE]

(* Each node gets a subnet from the pod network, 8 bits smaller. *)
PodNetInfo(net) ==
  LET info == NetInfo(net)
  IN  IF net = NoNet THEN NoInfo
      ELSE [info EXCEPT !.size = @ + 8,
                        !.prefix = IF net.mode = "ipv6"
                                   THEN MakePrefixFromNetwork(@, info.size)
                                   ELSE @]

PodInfo(c) == [i \in 1..2 |-> PodNetInfo(c.pod[i])]

=============================================================================
