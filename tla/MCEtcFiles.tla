----------------------------- MODULE MCEtcFiles -----------------------------
(* Instances of EtcFiles for TLC. *)
EXTENDS EtcFiles

TwoNames == <<"node1", "node10">>

ThreeAddresses == {"10.0.0.1", "10.0.0.10", "10.0.0.2"}

(* The proper substrings among the words of the instance. *)
Substrings == {<<"node1", "node10">>, <<"10.0.0.1", "10.0.0.10">>}

UserLine(first, rest) == [old |-> 0, new |-> FALSE, first |-> first, rest |-> rest]

(* An entry of each node and each address, one of both nodes, one of the   *)
(* local host, and a comment.                                              *)
SomeHosts ==
  {UserLine(a, {n}) : a \in ThreeAddresses, n \in {"node1", "node10"}}
    \union {UserLine("10.0.0.1", {"node1", "node10"}),
            UserLine("127.0.0.1", {"localhost"}),
            UserLine("#", {"node1"})}

SomeResolv ==
  {UserLine("nameserver", {a}) : a \in ThreeAddresses}
    \union {UserLine("search", {"local"})}
=============================================================================
