------------------------------ MODULE EtcFiles ------------------------------
(***************************************************************************)
(* How prepare edits /etc/hosts and /etc/resolv.conf, and how clean takes  *)
(* its edits out again: UpdateHostsInfo and UpdateResolvConfInfo of        *)
(* prepare.go, RevertConfigInfo of cleanup.go, on one of the two files.    *)
(*                                                                         *)
(* An added line ends in "  #[+]"; a line that is in the way is commented  *)
(* out with "#[-] " in front.  The user may edit the file and the          *)
(* configuration between the commands.  Saving the file is in ClusterNode. *)
(*                                                                         *)
(* A line is a first word and a set of further ones, after the marks.  The *)
(* code looks for names and addresses as substrings of a line; which words *)
(* are proper substrings of which others is given by Within.               *)
(***************************************************************************)
EXTENDS Naturals, Sequences, SequencesExt

CONSTANTS
  NameOrder,  \* the names nodes may have, sorted
  Addresses,  \* the addresses of nodes and name servers
  Within,     \* pairs of a word and another that has it as a substring
  UserHosts,  \* the lines a user writes into /etc/hosts
  UserResolv, \* the lines a user writes into /etc/resolv.conf
  MaxLines,   \* bound on the lines of the user in a file
  MaxEdits    \* bound on the edits of the user in a behaviour

Names == ToSet(NameOrder)

ASSUME NameOrderAssumption ==
  NameOrder \in Seq(Names) /\ IsInjective(NameOrder) /\ "" \notin Names
ASSUME AddressesAssumption == Addresses \intersect {"#", "nameserver"} = {}
ASSUME WithinAssumption ==
  \A p \in Within : p[1] # p[2] /\ p[2] \notin {"", "nameserver"}

(* A user's line has no mark of this tool; a name server has an address.   *)
ASSUME UserAssumption ==
  /\ \A line \in UserHosts \union UserResolv :
       line = [old |-> 0, new |-> FALSE, first |-> line.first, rest |-> line.rest]
  /\ \A line \in UserResolv : line.first = "nameserver" =>
       \E a \in Addresses : line.rest = {a}
ASSUME BoundsAssumption == MaxLines \in Nat /\ MaxEdits \in Nat

VARIABLES
  file,      \* "hosts" or "resolv"
  contents,  \* its lines
  user,      \* the lines it would have without this tool
  ip,        \* address of each node of the topology, by name
  ns,        \* what CalcNameServer gives
  fresh,     \* the last thing that happened was prepare
  edits      \* edits of the user so far

vars == <<file, contents, user, ip, ns, fresh, edits>>

-----------------------------------------------------------------------------
(* Lines *)

Blank == [old |-> 0, new |-> FALSE, first |-> "", rest |-> {}]

(* A line of this tool. *)
Added(first, word) ==
  [old |-> 0, new |-> TRUE, first |-> first, rest |-> {word}]

Lines == UserHosts \union UserResolv \union {Blank}

Words(line) == {line.first} \union line.rest

HasWord(line, word) ==
  \E w \in Words(line) : w = word \/ <<word, w>> \in Within

(* mutant: a line that was commented out by this tool is not recognised *)
CommentedByUser(line) == line.first = "#"

(* The line starts with "#". *)
Commented(line) == line.old > 0 \/ line.first = "#"

CommentOut(line) == [line EXCEPT !.old = @ + 1]

(* SelectSeq for the elements of a set, as a function of the number of     *)
(* elements looked at, which is open to induction.                         *)
Only(s, S) ==
  LET only[n \in 0..Len(s)] ==
        IF n = 0 THEN <<>>
        ELSE IF s[n] \in S THEN Append(only[n - 1], s[n]) ELSE only[n - 1]
  IN only[Len(s)]

(* The lines that this tool has not added. *)
Theirs(text) == Only(text, {line \in ToSet(text) : ~line.new})

(* Trailing newlines are cut before the contents are split, and splitting  *)
(* nothing gives one empty line.                                           *)
Split(text) ==
  LET written == {i \in DOMAIN text : text[i] # Blank}
  IN IF written = {} THEN <<Blank>>
     ELSE SubSeq(text, 1, CHOOSE i \in written : \A j \in written : j <= i)

(* mutant: the additions of an earlier prepare stay *)
KeptAll(text) == Split(text)

(* What an earlier prepare has added is left out. *)
Kept(text) == Theirs(Split(text))

-----------------------------------------------------------------------------
(* /etc/hosts *)

(* BuildNodeInfo: the nodes of the topology, sorted by name. *)
NodeInfo == Only(NameOrder, DOMAIN ip)

MatchingNodes(line) ==
  IF Commented(line) THEN {} ELSE {n \in DOMAIN ip : HasWord(line, n)}

(* MatchingNodeIndex: the first of the nodes whose name is in the line. *)
MatchingNode(line) ==
  NodeInfo[CHOOSE i \in DOMAIN NodeInfo :
             /\ NodeInfo[i] \in MatchingNodes(line)
             /\ \A j \in 1..(i - 1) : NodeInfo[j] \notin MatchingNodes(line)]

InTheWay(line) ==
  MatchingNodes(line) # {} /\ ~HasWord(line, ip[MatchingNode(line)])

(* mutant: a node is seen wherever its name is *)
NamedNodes(text) ==
  {MatchingNode(line) : line \in {l \in ToSet(text) : MatchingNodes(l) # {}}}

(* The nodes that have an entry. *)
SeenNodes(text) ==
  {MatchingNode(line) :
     line \in {l \in ToSet(text) : MatchingNodes(l) # {} /\ ~InTheWay(l)}}

CommentStale(text) ==
  [i \in DOMAIN text |->
     IF InTheWay(text[i]) THEN CommentOut(text[i]) ELSE text[i]]

(* The entries of the nodes that have none. *)
Entries(text) ==
  LET missing == Only(NodeInfo, DOMAIN ip \ SeenNodes(text))
  IN [i \in DOMAIN missing |-> Added(ip[missing[i]], missing[i])]

UpdateHostsInfo(text) == CommentStale(Kept(text)) \o Entries(Kept(text))

-----------------------------------------------------------------------------
(* /etc/resolv.conf *)

IsNameServer(line) == line.old = 0 /\ line.first = "nameserver"

(* mutant: the name server goes to the end *)
UpdateResolvConfLast(text) == Kept(text) \o <<Added("nameserver", ns)>>

Servers(text) == {i \in DOMAIN text : IsNameServer(text[i])}

FirstServer(text) ==
  CHOOSE i \in Servers(text) : \A j \in Servers(text) : i <= j

(* The name server is commented out where it is not the first. *)
CommentLater(text) ==
  [i \in DOMAIN text |->
     IF /\ i \in Servers(text) /\ i # FirstServer(text)
        /\ HasWord(text[i], ns)
     THEN CommentOut(text[i]) ELSE text[i]]

(* It goes before the first one there is, unless it is that one. *)
AddNameServer(text) ==
  LET entry == Added("nameserver", ns)
      first == FirstServer(text)
  IN IF Servers(text) = {} THEN Append(text, entry)
     ELSE IF HasWord(text[first], ns) THEN text
     ELSE InsertAt(text, first, entry)

UpdateResolvConfInfo(text) == AddNameServer(CommentLater(Kept(text)))

-----------------------------------------------------------------------------
(* clean *)

(* mutant: the mark of a commented out line stays *)
DropAdditions(text) == Kept(text)

Unmark(line) == [line EXCEPT !.old = IF @ = 0 THEN 0 ELSE @ - 1]

UnmarkAll(text) == [i \in DOMAIN text |-> Unmark(text[i])]

(* One "#[-] " is cut from the front of every line. *)
RevertConfigInfo(text) == UnmarkAll(Kept(text))

-----------------------------------------------------------------------------
(* Ids, and with them addresses, are unique (ValidateUniqueIDs), and the   *)
(* host itself is a node.                                                  *)
Topologies ==
  {t \in UNION {[nodes -> Addresses] : nodes \in SUBSET Names \ {{}}} :
     IsInjective(t)}

UserLines == (IF file = "hosts" THEN UserHosts ELSE UserResolv) \union {Blank}

Init ==
  /\ file \in {"hosts", "resolv"}
  /\ user \in SeqOf(UserLines, MaxLines)
  /\ contents = user
  /\ ip \in IF file = "hosts" THEN Topologies ELSE {<<>>}
  /\ ns \in IF file = "resolv" THEN Addresses ELSE {"none"}
  /\ fresh = FALSE /\ edits = 0

(* The user's lines, once the file has been split and saved again. *)
Saved(lines) ==
  IF lines = <<>> THEN <<Blank>> ELSE SubSeq(lines, 1, Len(Kept(contents)))

Updated(text) ==
  IF file = "hosts" THEN UpdateHostsInfo(text) ELSE UpdateResolvConfInfo(text)

(* AddHostEntries, AddResolvConfEntry *)
Prepare ==
  /\ contents' = Updated(contents)
  /\ user' = Saved(user) /\ fresh' = TRUE
  /\ UNCHANGED <<file, ip, ns, edits>>

(* RevertEntries *)
Clean ==
  /\ contents' = RevertConfigInfo(contents)
  /\ user' = Saved(user) /\ fresh' = FALSE
  /\ UNCHANGED <<file, ip, ns, edits>>

UserEdits == edits < MaxEdits /\ edits' = edits + 1 /\ fresh' = FALSE

(* The user adds a line anywhere, between lines of this tool too. *)
AddLine(line, at) ==
  /\ UserEdits /\ Len(user) < MaxLines
  /\ contents' = InsertAt(contents, at, line)
  /\ LET before == Theirs(SubSeq(contents, 1, at - 1))
     IN user' = InsertAt(user, Len(before) + 1, line)
  /\ UNCHANGED <<file, ip, ns>>

(* Nodes come, go and change their ids; the DNS64 server moves. *)
Reconfigure ==
  /\ UserEdits
  /\ \/ file = "hosts" /\ ip' \in Topologies /\ UNCHANGED ns
     \/ file = "resolv" /\ ns' \in Addresses /\ UNCHANGED ip
  /\ UNCHANGED <<file, contents, user>>

Next ==
  \/ Prepare \/ Clean \/ Reconfigure
  \/ \E line \in UserLines, at \in 1..(Len(contents) + 1) : AddLine(line, at)

Spec == Init /\ [][Next]_vars

-----------------------------------------------------------------------------
(* Properties *)

(* A line is commented out at most once, never one that this tool has      *)
(* added, and a user's line is there with at most this mark.               *)
TypeOK ==
  /\ file \in {"hosts", "resolv"} /\ fresh \in BOOLEAN /\ edits \in 0..MaxEdits
  /\ ip \in Topologies \union {<<>>} /\ ns \in Addresses \union {"none"}
  /\ \A line \in ToSet(user) : line \in Lines
  /\ \A line \in ToSet(contents) :
       \/ line.new /\ line.old = 0
       \/ line.old \in 0..1 /\ [line EXCEPT !.old = 0] \in Lines

(* At any time, after any number of prepares and cleans with any           *)
(* topologies and edits of the user between them, clean gives the user's   *)
(* file: all its lines in their order and nothing else, but for blank ones *)
(* at the end ("allowing later restoration, during cleanup").              *)
Revertible == Split(RevertConfigInfo(contents)) = Split(user)

(* A prepare after a prepare changes nothing, but for blank lines at the   *)
(* end ("prepare was previousy run, filter out additions").                *)
PrepareIsIdempotent ==
  fresh => Split(Updated(contents)) = Split(contents)

(* The address the resolver finds for a node: the first line that is not a *)
(* comment and has the name as a word.                                     *)
ResolvesTo(name, addr) ==
  LET entries == {i \in DOMAIN contents :
                    ~Commented(contents[i]) /\ name \in contents[i].rest}
  IN \E i \in entries :
       contents[i].first = addr /\ \A j \in entries : i <= j

(* The user's lines name one node each, with no name or address of a node  *)
(* inside a longer one.                                                    *)
Unambiguous ==
  \A line \in ToSet(user) : \A n \in DOMAIN ip :
    /\ HasWord(line, n) =>
         n \in line.rest /\ \A m \in DOMAIN ip \ {n} : ~HasWord(line, m)
    /\ HasWord(line, ip[n]) => line.first = ip[n]

(* After prepare every node's name leads to its management address, and to *)
(* no stale one that the file had or an earlier prepare has put there, for *)
(* a file without ambiguous lines (UpdateHostsInfo).                       *)
NodesResolve ==
  fresh /\ Unambiguous => \A n \in DOMAIN ip : ResolvesTo(n, ip[n])

(* After prepare the first name server is the cluster's, and it is there   *)
(* once only, when its address is no part of another (UpdateResolvConfInfo). *)
NameServerFirst ==
  fresh /\ file = "resolv" /\ (\A a \in Addresses : <<ns, a>> \notin Within) =>
    \E i \in Servers(contents) :
      /\ contents[i].rest = {ns}
      /\ \A j \in Servers(contents) \ {i} : j > i /\ contents[j].rest # {ns}

=============================================================================
