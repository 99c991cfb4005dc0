---------------------------- MODULE MCAddressing ----------------------------
(* Instances of Addressing for TLC: the sample configurations and what     *)
(* users may make of them, one part varied at a time.                      *)
EXTENDS Addressing

CONSTANTS a, b, w

ThreeNodes == {a, b, w}

V6(parts, size) == [mode |-> "ipv6", parts |-> parts, size |-> size]
V4(parts, size) == [mode |-> "ipv4", parts |-> parts, size |-> size]

fd00 == 64768

Mgmt6    == V6(<<fd00, 32, 0, 0, 0, 0, 0, 0>>, 64)   \* fd00:20::/64
Mgmt4    == V4(<<10, 192, 0, 0>>, 16)
Pod6     == V6(<<fd00, 64, 0, 0, 0, 0, 0, 0>>, 72)   \* fd00:40::/72
Pod4     == V4(<<10, 244, 0, 0>>, 16)
Service6 == V6(<<fd00, 48, 0, 0, 0, 0, 0, 0>>, 110)  \* fd00:30::/110
Service4 == V4(<<10, 96, 0, 0>>, 12)
Support6 == V6(<<fd00, 16, 0, 0, 0, 0, 0, 0>>, 64)   \* fd00:10::/64
Mapping  == V6(<<fd00, 16, 100, 65435, 0, 0, 0, 0>>, 96)

SampleConfig ==
  [mode |-> "ipv6", mtu |-> 0,
   ids |-> (a :> 2 @@ b :> 3),
   ops |-> (a :> {"master", "dns64", "nat64"} @@ b :> {"minion"}),
   mgmt |-> <<Mgmt6, NoNet>>, pod |-> <<Pod6, NoNet>>, service |-> Service6,
   support |-> Support6, v4support |-> V4(<<172, 18, 0, 0>>, 16),
   v4ip |-> <<172, 18, 0, 200>>, v4pool |-> <<172, 18, 0, 128>>,
   dns64 |-> Mapping, dns64ip |-> <<fd00, 16, 0, 0, 0, 0, 0, 256>>,
   nat64ip |-> <<fd00, 16, 0, 0, 0, 0, 0, 512>>]

NoServers(c) ==
  [c EXCEPT !.ops = (a :> {"master"} @@ b :> {"minion"}),
            !.support = NoNet, !.dns64 = NoNet, !.v4support = NoNet,
            !.v4ip = Malformed, !.v4pool = Malformed, !.nat64ip = Malformed]

(* The sample for IPv4 with a management network that is accepted. *)
SampleV4 ==
  [NoServers(SampleConfig) EXCEPT
     !.mode = "ipv4", !.mgmt = <<Mgmt4, NoNet>>, !.pod = <<Pod4, NoNet>>,
     !.service = Service4]

Orders(x, y) == {<<x, y>>, <<y, x>>}

SampleDualStack ==
  {[SampleV4 EXCEPT !.mode = "dual-stack", !.mgmt = m, !.pod = p,
                    !.service = s]
     : m \in Orders(Mgmt4, Mgmt6), p \in Orders(Pod4, Pod6),
       s \in {Service4, Service6}}

Samples == {SampleConfig, SampleV4} \union SampleDualStack

(* Ids at the boundaries: of a decimal digit, of a hexadecimal digit, of a *)
(* byte, and beyond.                                                       *)
IdCases ==
  {[c EXCEPT !.ids = (a :> i @@ b :> j)]
     : c \in Samples, i \in {2, 9, 10, 16, 22}, j \in {3, 100, 255, 256, 300, 65536}}
  \union {[SampleConfig EXCEPT !.ids = (a :> 2 @@ b :> 2)]}

(* Pod networks whose text ends in a word to complete, in a "::" with      *)
(* words missing, in none, or has the "::" elsewhere; with sizes between   *)
(* bytes and words.                                                        *)
PodParts ==
  {<<fd00, 16, 32, 48, 0, 0, 0, 0>>, <<fd00, 16, 32, 48, 16384, 0, 0, 0>>,
   <<fd00, 16, 32, 48, 1024, 0, 0, 0>>, <<fd00, 16, 0, 0, 0, 0, 0, 0>>,
   <<fd00, 0, 0, 0, 16384, 0, 0, 0>>, <<fd00, 16, 32, 48, 80, 96, 0, 0>>,
   <<fd00, 16, 32, 48, 80, 24576, 0, 0>>, <<1, 2, 3, 4, 5, 6, 1792, 0>>,
   <<1, 2, 3, 4, 5, 6, 7, 0>>, <<1, 0, 0, 4, 0, 0, 0, 0>>}

Fits(parts, size) ==
  \A k \in 1..8 : \A bit \in 0..15 :
    16 * k - bit > size => (parts[k] \div 2^bit) % 2 = 0

PodCases ==
  {[SampleConfig EXCEPT !.pod = <<V6(parts, size), NoNet>>, !.ids = (a :> 2 @@ b :> i)]
     : parts \in PodParts, size \in {32, 36, 44, 48, 64, 68, 72, 76, 80, 88, 96, 104, 112, 120},
       i \in {3, 18, 64, 256, 512}}

(* Families that are not the mode's, pairs where one is asked for, sizes   *)
(* that are refused.                                                       *)
Mgmts == {Mgmt6, Mgmt4, V4(<<10, 0, 0, 0>>, 8), V4(<<10, 192, 0, 0>>, 24),
          V6(<<fd00, 32, 0, 0, 0, 0, 0, 43776>>, 120)}
Pods  == {Pod6, Pod4, V4(<<10, 244, 0, 0>>, 24)}

NetworkCases ==
  {[c EXCEPT !.mode = m, !.mgmt = <<n1, n2>>, !.pod = <<p1, p2>>, !.service = s]
     : c \in {SampleConfig, SampleV4}, m \in {"", "ipv4", "dual-stack"},
       n1 \in Mgmts, n2 \in {NoNet, Mgmt4, Mgmt6},
       p1 \in Pods, p2 \in {NoNet, Pod4, Pod6},
       s \in {Service6, Service4, V4(<<10, 96, 0, 0>>, 24), NoNet}}

(* Operating modes of three nodes. *)
OpModes == {{"master"}, {"minion"}, {"master", "dns64", "nat64"}, {"dns64"},
            {"minion", "dns64", "nat64"}, {"dns64", "nat64"}, {"master", "minion"}, {}}

TopologyCases ==
  {[c EXCEPT !.ids = (a :> 2 @@ b :> 3 @@ w :> 4), !.ops = (a :> x @@ b :> y @@ w :> z)]
     : c \in {SampleConfig, SampleV4}, x, y, z \in OpModes}

(* Management networks whose text is closed, with a "::" inside or none. *)
MgmtParts ==
  {<<fd00, 32, 0, 0, 5, 0, 0, 0>>, <<fd00, 0, 0, 4, 5, 6, 7, 0>>,
   <<1, 2, 3, 4, 5, 6, 7, 0>>, <<1, 2, 3, 4, 5, 6, 1792, 0>>,
   <<0, 0, 3, 4, 5, 6, 7, 0>>, <<1, 2, 3, 4, 5, 0, 0, 0>>,
   <<0, 0, 0, 4, 0, 0, 7, 0>>}

MgmtCases ==
  {[SampleConfig EXCEPT !.mgmt = <<V6(parts, size), NoNet>>, !.ids = (a :> 2 @@ b :> i)]
     : parts \in MgmtParts, size \in {64, 96, 104, 112, 120}, i \in {3, 18, 256}}

(* The remaining fields. *)
FieldCases ==
  {[SampleConfig EXCEPT !.mtu = mtu, !.v4ip = ip, !.v4pool = pool, !.v4support = net]
     : mtu \in {1279, 1280, 9000}, ip \in {<<172, 18, 0, 200>>, <<172, 19, 0, 1>>, Malformed},
       pool \in {<<172, 18, 0, 128>>, <<172, 17, 255, 0>>},
       net \in {V4(<<172, 18, 0, 0>>, 16), V4(<<172, 16, 0, 0>>, 13), NoNet}}
  \union {[SampleConfig EXCEPT !.support = NoNet], [SampleConfig EXCEPT !.dns64 = NoNet],
          [SampleV4 EXCEPT !.support = Support6]}
  \union {[SampleConfig EXCEPT !.nat64ip = ip, !.dns64 = net]
            : ip \in {SampleConfig.nat64ip, Malformed, <<172, 18, 0, 200>>,
                      <<fd00, 17, 0, 0, 0, 0, 0, 512>>},
              net \in {Mapping, Pod4}}

AllConfigs ==
  IdCases \union {c \in PodCases : Fits(c.pod[1].parts, c.pod[1].size)}
    \union {c \in MgmtCases : Fits(c.mgmt[1].parts, c.mgmt[1].size)}
    \union NetworkCases \union TopologyCases \union FieldCases

(* The servers on a node by themselves. *)
ServerConfigs ==
  {[SampleConfig EXCEPT !.ids = (a :> 2 @@ b :> 3 @@ w :> 4),
                        !.ops = (a :> {"master"} @@ b :> {"minion"}
                                   @@ w :> {"dns64", "nat64"})]}

(* fd00:0:0:0:4000::/72, which IP.String writes as fd00::4000:0:0:0, and a *)
(* network with a word of a text without a "::" to complete.               *)
GapConfigs ==
  {[SampleConfig EXCEPT !.pod = <<net, NoNet>>]
     : net \in {V6(<<fd00, 0, 0, 0, 16384, 0, 0, 0>>, 72),
                V6(<<1, 2, 3, 4, 5, 6, 1792, 0>>, 104)}}

(* The IPv6 sample with the id the README shows. *)
ReadmeConfigs == {[SampleConfig EXCEPT !.ids = (a :> 100 @@ b :> 3)]}
=============================================================================
