---------------------------- MODULE AddressText ----------------------------
(***************************************************************************)
(* Addresses as numbers and as text, the way Go's net package and the %x   *)
(* and %d of its fmt package turn one into the other.                      *)
(*                                                                         *)
(* lazyjack builds addresses by adding the digits of a node's id to the    *)
(* text of a network.  What address comes out, and whether one does,       *)
(* depends on digits: so a text is kept as the words between its dots or   *)
(* colons, each a sequence of digits, and everything else is numbers.      *)
(***************************************************************************)
EXTENDS Integers, Sequences, FiniteSets, SequencesExt

(* A network: its parts are four octets or eight words. *)
NoNet == [mode |-> "none", parts |-> <<>>, size |-> 0]

PartBits(net) == IF net.mode = "ipv6" THEN 16 ELSE 8

(* The bits of the k-th part that are not in the network's prefix. *)
HostBits(net, k) ==
  LET bits == net.size - (k - 1) * PartBits(net)
  IN  CASE bits <= 0 -> PartBits(net)
        [] bits >= PartBits(net) -> 0
        [] OTHER -> PartBits(net) - bits

Octets == 0..255
Words  == 0..(2^16 - 1)

(* Networks are cut to their size. *)
IsCut(net) ==
  \A k \in DOMAIN net.parts : net.parts[k] % 2^HostBits(net, k) = 0

(* What ParseCIDR gives. *)
IsNetwork(net) ==
  /\ IsCut(net)
  /\ \/ net \in [mode : {"ipv4"}, parts : [1..4 -> Octets], size : 0..32]
     \/ net \in [mode : {"ipv6"}, parts : [1..8 -> Words], size : 0..128]

(* What ParseIP makes of a text that is not an address. *)
Malformed == <<>>

-----------------------------------------------------------------------------
(* Digits *)

(* FormatInt *)
Digits(n, base) ==
  LET digits[k \in 0..n] ==
        IF k < base THEN <<k>>
        ELSE Append(digits[k \div base], k % base)
  IN digits[n]

Hex(n) == Digits(n, 16)
Dec(n) == Digits(n, 10)

Number(word, base) ==
  LET number[k \in 0..Len(word)] ==
        IF k = 0 THEN 0 ELSE number[k - 1] * base + word[k]
  IN number[Len(word)]

-----------------------------------------------------------------------------
(* Text: `gaps` has the number of words before each "::", and `open` is    *)
(* TRUE when the text ends in a separator, so that more digits start a     *)
(* word of their own.                                                      *)

NoText == [base |-> 16, words |-> <<>>, gaps |-> {}, open |-> TRUE]

AddDigits(text, digits) ==
  IF text.open
  THEN [text EXCEPT !.words = Append(@, digits), !.open = FALSE]
  ELSE [text EXCEPT !.words[Len(text.words)] = @ \o digits]

AddGap(text) ==
  [text EXCEPT !.gaps = @ \union {Len(text.words)}, !.open = TRUE]

(* IP.String: the leftmost of the longest runs of zero words becomes "::". *)
ZeroRuns(parts) ==
  {r \in (1..8) \X (1..8) :
     r[1] < r[2] /\ \A k \in r[1]..r[2] : parts[k] = 0}

LongestRun(parts) ==
  CHOOSE r \in ZeroRuns(parts) :
    \A s \in ZeroRuns(parts) :
      \/ r[2] - r[1] > s[2] - s[1]
      \/ r[2] - r[1] = s[2] - s[1] /\ r[1] <= s[1]

HexWords(parts, from, to) ==
  [i \in 1..(to - from + 1) |-> Hex(parts[from + i - 1])]

IPv6Text(parts) ==
  IF ZeroRuns(parts) = {}
  THEN [base |-> 16, words |-> HexWords(parts, 1, 8), gaps |-> {},
        open |-> FALSE]
  ELSE LET run == LongestRun(parts)
       IN  [base  |-> 16,
            words |-> HexWords(parts, 1, run[1] - 1)
                        \o HexWords(parts, run[2] + 1, 8),
            gaps  |-> {run[1] - 1},
            open  |-> run[2] = 8]

(* ParseIP *)
ParseIPv4(text) ==
  IF /\ Len(text.words) = 4 /\ ~text.open
     /\ \A i \in 1..4 : \A j \in DOMAIN text.words[i] : text.words[i][j] < 10
     /\ \A i \in 1..4 : Number(text.words[i], 10) <= 255
  THEN [i \in 1..4 |-> Number(text.words[i], 10)]
  ELSE Malformed

ParseIPv6(text) ==
  LET words   == text.words
      Word(i) == Number(words[i], 16)
  IN  IF \E i \in DOMAIN words : Len(words[i]) > 4 THEN Malformed
      ELSE CASE text.gaps = {} /\ Len(words) = 8 /\ ~text.open ->
                  [i \in 1..8 |-> Word(i)]
             [] /\ Cardinality(text.gaps) = 1 /\ Len(words) < 8
                /\ text.open => text.gaps = {Len(words)} ->
                  LET before == CHOOSE k \in text.gaps : TRUE
                      after  == Len(words) - before
                  IN  [i \in 1..8 |->
                         CASE i <= before -> Word(i)
                           [] i > 8 - after -> Word(i - 8 + Len(words))
                           [] OTHER -> 0]
             [] OTHER -> Malformed

ParseIP(text) == IF text.base = 10 THEN ParseIPv4(text) ELSE ParseIPv6(text)

-----------------------------------------------------------------------------
(* IPNet.Contains *)

InNet(ip, net) ==
  /\ Len(ip) = Len(net.parts)
  /\ \A k \in DOMAIN ip :
       ip[k] \div 2^HostBits(net, k) = net.parts[k] \div 2^HostBits(net, k)

=============================================================================
