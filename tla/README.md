# A TLA+ model of lazyjack

lazyjack is a command line tool that sets a bare-metal Kubernetes cluster up and
takes it down again, one node and one command at a time. `lazyjack.go` reads and
validates the configuration and runs one of five commands:

| command | entry point | what it does to the host it runs on |
|---|---|---|
| `init` | `init.go` `Initialize` | CA key and certificate, token; rewrites the configuration file (master only) |
| `prepare` | `prepare.go` `Prepare` | support network, DNS64 and NAT64 containers; addresses, MTU, `/etc/hosts`, `/etc/resolv.conf`, kubelet drop-in, `kubeadm.conf`, routes |
| `up` | `up.go` `BringUp` | CNI area, pod network routes, kubelet restart, CA files, `kubeadm init` or `join` |
| `down` | `down.go` `TearDown` | `kubeadm reset`, routes, bridge, CNI area |
| `clean` | `cleanup.go` `Cleanup` | undoes `prepare` |

No command keeps any state of its own: **the host is the state**. A command
starts from whatever the commands before it have left there, among them ones that
stopped at an error, were killed, or were cut short by a reboot, and none of them
rolls anything back. The README of the repository says that "the tool is designed
to allow multiple invocations" and that `clean` goes about "restoring the system to
original state". Whether they do, from every state that can be left behind, is
what a unit test with mocks hardly reaches and what these models are about.

## The system's parts

| part | state it keeps | operations | what makes it correct | modelled in |
|---|---|---|---|---|
| up and down (`up.go`, `down.go`) | CNI area, CA files, membership of the cluster | `BringUp`, `TearDown` | success means complete; no kubeadm on torn files; complaints about what was found only; retries get to a complete node | `UpDown`, an implementation of `HostSetup` |
| CNI plugins (`plugin.go`, `bridge_plugin.go`, `ptp_plugin.go`) | pod network routes, `br0` | `WriteConfigContents`, `Setup`, `Cleanup` | a route to each pod network of each other node, or a warning; the route leads to what the other node hands out; pod subnets disjoint | `UpDown`, `Addressing` |
| support servers (`prepare.go`, `cleanup.go`) | support network, volume, two containers, host route | `CreateSupportNetwork`, `PrepareDNS64Server`, `PrepareNAT64Server` and their cleanups | servers up with whole configuration; nothing left; running servers not disturbed | `SupportServers`, an implementation of `HostSetup` |
| cluster node (`prepare.go`, `cleanup.go`) | addresses, MTU, files, drop-in, routes | `PrepareClusterNode`, `CleanupClusterNode` | complete after success; repeatable; undone by clean | `ClusterNode`, an implementation of `HostSetup` |
| file saving (`file.go`) | a file and its backup | `GetFileContents`, `SaveFileContents`, `RecoverFile` | no fault loses a file | `ClusterNode` |
| file editing (`prepare.go`, `cleanup.go`) | lines of `/etc/hosts`, `/etc/resolv.conf` | `UpdateHostsInfo`, `UpdateResolvConfInfo`, `RevertConfigInfo` | round trip, repeatable, right entry first | `EtcFiles` |
| network manager (`netmgr.go`, `networker.go`) | none; the kernel's links, addresses, routes | one per change | an error for what is there or not there, as the callers expect | inside the actions that call it; the text of addresses in `Addressing` |
| hypervisor (`docker.go`, `hypervisor.go`) | none; the docker daemon's resources | one per docker command | state and errors as the callers expect | inside `SupportServers` |
| init (`init.go`) | CA area, configuration file | `Initialize` | token, hash and CA are of one init wherever it is cut short; minions join unless the steps were out of order | `Cluster` |
| configuration (`config.go`, `validate.go`) | the `Config` object | parse, validate, derive | what later code relies on is checked: what is accepted does not fail half-way, or it is known why | `Configuration`, tried in `Addressing`; token and hash in `Cluster`; plugin choice in `UpDown` |
| kernel and command interfaces | none | thin wrappers | | choices of the actions |

The parts interact by calls in one thread (there is no goroutine in the program),
and through the host: `prepare` makes the address that `up`'s routes need, the
support network holds the containers attached to it, the volume is held by the
container that uses it, kubeadm and the CNI plugin run pods that make `br0` while
`down` removes it. Between nodes there are the configuration file, which the user
copies, and the addresses, which every node works out for itself. What is
concurrent is the world: the process may be killed at any instant, the host may
reboot, containers exit, pods start, the other nodes run their own commands.

What is hard is therefore failure and repetition: a step of many failing, a crash
between two steps or inside a write, a command run again over its own half-done
work, commands in an order nobody tested. The hazards in `PROJECT.json` list each
place with the properties that watch it.

## Modules

| module | models | extends |
|---|---|---|
| `HostSetup` | what a pair of commands promises about a host: the abstract specification | |
| `UpDown` | `up` and `down` on one node | `HostSetup` (as `Setup`) |
| `UpDownProofs` | theorems about `UpDown`, and the proof that it implements `HostSetup` | `UpDown`, `TLAPS` |
| `MCUpDown` | instances of `UpDown` for TLC | `UpDown` |
| `SupportServers` | `prepare` and `clean` of the node with the DNS64 and NAT64 servers | `HostSetup` (as `Setup`) |
| `SupportServersProofs` | theorems about `SupportServers`, and the proof that it implements `HostSetup` | `SupportServers`, `TLAPS` |
| `ClusterNode` | `prepare` and `clean` of a master or minion itself, and `file.go` | `HostSetup` (as `Setup`) |
| `ClusterNodeProofs` | theorems about `ClusterNode`, and the proof that it implements `HostSetup` | `ClusterNode`, `TLAPS` |
| `MCClusterNode` | instances of `ClusterNode` for TLC | `ClusterNode` |
| `EtcFiles` | the edits of `/etc/hosts` and `/etc/resolv.conf`, line by line | |
| `EtcFilesLemmas` | what the edits do to sequences of lines; the inductive invariant | `EtcFiles`, `TLAPS` |
| `EtcFilesProofs` | theorems about `EtcFiles` | `EtcFilesLemmas` |
| `MCEtcFiles` | instances of `EtcFiles` for TLC | `EtcFiles` |
| `AddressText` | addresses as Go prints and parses them | |
| `Configuration` | what `validate.go` accepts and derives | `AddressText` |
| `Addressing` | the addresses, names, subnets and routes that `prepare` and `up` make on every node | `Configuration` |
| `AddressingLemmas` | what digits, texts, addresses and pod subnets are, for any network and id | `Addressing`, `TLAPS` |
| `AddressingProofs` | theorems about `Addressing` | `AddressingLemmas` |
| `MCAddressing` | the configurations to try | `Addressing` |
| `Cluster` | `init`, and the CA, hash and token on their way to `up` on the minions | |
| `ClusterProofs` | theorems about `Cluster` | `Cluster`, `TLAPS` |
| `MCCluster` | an instance of `Cluster` for TLC | `Cluster` |

`UpDown`, `SupportServers` and `ClusterNode` model what a command does to its host and
have the same shape. `cmd` is the command that runs or ran last,
`pc` its next step (`"idle"` when none runs), `result` how it ended; the rest of
the state is the host's. There is one action for each call that changes the host,
named after the function that makes it, split where the change is not atomic and
a kill can fall in between (`os.Create` and the copy, the rename and the write, the
three docker calls of a volume). What another program or a single call may have done
of its work when a command is cut short in the middle of it is an operator of its
own (`CutShort`, in `Cluster` `Interrupted`): a part of a file, a container without its
process, a kubeadm that got its way. Each action has its successful outcome, the
outcomes that the host's state forces on it ("file exists", "no such process", a
container that is not there), and a failure, bounded by `MaxFaults`. `Kill` and
`Reboot` may come between any two actions and, with `CutShort`, inside of one; `faulty` remembers that one of them or
a failure hit the command, so that a property can speak of commands that met
none. `map` in `PROJECT.json` gives the source lines of every definition.

### HostSetup

What `up` and `down` promise of a host, and `prepare` and `clean` of the servers and of
the node itself, is the same thing seen from far enough away. A setup makes a set of items (`goal`). An
item is `whole`, or something of it is `left`, or neither. Commands run one at a time
and may end anywhere (`outcome` `"incomplete"`). `Work` is any step of a running
command: a setup takes nothing away but what it makes anew (`Rebuilt`), a teardown
adds nothing, and either may say `"done"` only when its work is complete: all of
`goal` whole, but for what has stopped by itself since (`decayed`), or nothing left but
what is `Kept`. `Use`, `Decay` and `Reboot` are all that may change an idle host. A reboot
takes what is `Volatile`; of the rest it leaves what was there, or what the command
it ends has made of that (`Survives`).

`UpDown`, `SupportServers` and `ClusterNode` state `RefinesHostSetup`, each with its own
mapping:

| | `UpDown` | `SupportServers` | `ClusterNode` |
|---|---|---|---|
| items | the set of routes, the CNI area, the two CA files on a master, membership, `br0` | two containers, volume, network, host route | each address, the MTU, the entries in `/etc/hosts` and in `/etc/resolv.conf`, the drop-in, `kubeadm.conf`, each route |
| `goal` | by role | all | by mode, role and servers |
| `Rebuilt` | CNI area and CA files, which `up` writes anew | containers that do not run, and the volume | the files: entries, drop-in and `kubeadm.conf` |
| `Kept` | CA files, which are kubeadm's to remove | nothing | the MTU and `kubeadm.conf` |
| `Used` | `br0`, with the first pod | nothing | nothing |
| `decayed` | nothing: no item stops by itself while `up` runs | containers that have exited | nothing |
| `"done"` | ended without an error, and without a warning | the same | the same |

In `ClusterNode` the contents of a file that is not there are in its backup (`Current`):
between the rename and the write, after a kill there, and after a failing
`RecoverFile`. Without that an entry would come back when `clean` renames a backup back. A
write that is cut short may lose entries, or leave them without a mark that `clean`
would recognise, so that the files are among what `prepare` rebuilds. A `clean` that is
done has both files in place, not only their entries gone.

A route that is there already, a reset that fails, a volume that is gone, are all
below this level: the refinement says that none of them ever leads to a claim of
completeness that is not true, nor to a step against the command's direction.

### UpDown

State: `routes` (pairs of a pod network and the node the route leads to), `cni` (the
CNI area: absent, empty, with a partial or a whole configuration), `bridge` (`br0`),
`certs` (the two CA files: absent, torn, whole), `member` (kubeadm has taken
effect). `role` is master, minion or neither; `plugin` is the plugin object that
`ValidatePlugin` stores, `"nil"` where it stores none. `todo` is what the loop of
`DoRouteOpsOnNodes` has left: pod networks in order, nodes (a Go map) in any order.

`up`: `BringUp`, `RemoveCNIArea`, `MakeCNIArea`, `OpenCNIConfig`, `WriteCNIConfig`,
`AddRoute` for each destination until `SkipRoute` or `RoutesAdded`,
`RestartKubeletService`, `OpenCertificate` and `WriteCertificate` twice on the
master, `StartKubernetes`. Every error is fatal except "skipping -".
`down`: `TearDown`, `StopKubernetes` (a failing reset is only warned of),
`DeleteRoute` until a missing route ends everything or `RoutesDeleted`,
`BringLinkDown` and `DeleteLink` for the bridge plugin, `CleanupCNIArea`.
`PodStarted` is the CNI plugin making `br0` for the first pod.

Properties: `UpComplete`, `DownComplete` (what success means), `ReadyForKubeadm` (the
order of `BringUp`'s calls), `NoFalseAlarm` (a command that meets no fault complains of
exactly the routes, link and membership that it found, `found`, whatever that was),
`ResetFailureOnlyWarns`, `RefinesHostSetup`, `RetriesConverge` (liveness: who runs both
commands again and again gets a complete node again and again).

The last one is not as plain as it looks. After a command that was cut short, or a
reboot between two routes of an `up`, some routes are there and some are not. An `up` then stops
at the first that is there, a `down` at the first that is not, and neither gets to
its end, in whatever number they are repeated, if the loop comes to the nodes in an
unlucky order each time. Go's map order is random, so some `down` comes to a route
that is there first and takes it away; when none is left the next `up` is complete.

### SupportServers

State: `net`, `vol` (absent, without a whole `named.conf`, with it), `ctr` (each
container as `ResourceState` reports it), `dnsV4` and `dnsRoute` (inside the bind9
container; they mean something only while it runs), `natRoute`. The docker daemon
is external and modelled by the rules the code relies on: a volume cannot be
removed while a container uses it (with `-f`, a missing volume is no error), a
network not while a running container is attached; a container name is taken
until it is removed; a failing `docker run` may leave a container. A failing
`docker inspect` reads as "not present" (`EnsureServer`).

The mode is IPv6 and the node runs both servers, the arrangement of the sample
configurations.

Properties: `RefinesHostSetup`, `ServersReady` (what success means), `ServerHasConf` (a
running bind9 always has its whole configuration and its network), `ServersResume`
(a fault-free `prepare` succeeds from every state left behind), `CleanAlwaysRemoves`
(a fault-free `clean` removes everything from every state, though it may complain
about what was missing), `PrepareKeepsRunning` (only `clean` removes a running
container).

### ClusterNode

State: `addrs` (management addresses on the interface), `mtu`, `disk` and `bak` (each
saved file and its backup), `dropin`, the gateways `dnsRoute` and `supRoute`, and
whether the support network is up (`supNet`). A file is reduced to whether it is
there, whether it is whole, and whether it has this tool's entries: `Updated`
and `Reverted` stand for the line edits. `mode`, `master`, `support` and `gateways`
(the other nodes configured with NAT64: none, one or more, as `validate.go` does not
check) are chosen at the start. A support node's servers are prepared before
`PrepareClusterNode` runs, or `Prepare` does not get there (`supNet' = support`).

`Error` and `Done` hold the difference between the commands: an error ends
`prepare`, while `clean` notes it and takes the next step. `ReadFile`,
`BackUpFile` and `WriteFile` are `GetFileContents` and the two halves of
`SaveFileContents` with `RecoverFile`; `After` gives the step that follows.
`Gateways` is a set because `FindHostIPForNAT64` iterates a map.

Properties: `PrepareIsComplete` (what success of `prepare` means; for `clean` it is a
part of `RefinesHostSetup`, and `CleanIsComplete`, proved beside it, says it in the
node's own terms),
`PrepareResumes` (a fault-free `prepare` fails only when a file is gone or no node has
NAT64), `CleanConverges` (a fault-free `clean` takes everything back from every
state, with one management network and one NAT64 node), `FilesSurviveFaults` (short
of a kill, or `RecoverFile` itself failing, both files are there and whole),
`LastCopyLostByResaveOnly` (only backing a torn file up over the backup loses the
last whole copy), `RefinesHostSetup`.

### EtcFiles

The contents of one of the two files, as the functions that edit it see them.
`file` says which one, `contents` are its lines, `ip` the addresses of the nodes in
the topology, `ns` the name server that `CalcNameServer` gives. A line is a first
word, a set of further words, whether it ends in `  #[+]` (`new`) and how many `#[-] `
are in front of it (`old`; the code never puts two there, which is a property and
not a limit of the model). Spacing and the order of further words are left out.
The code looks for names and addresses with `strings.Contains`; `Within` lists
which words of the instance are proper substrings of others. `UpdateHostsInfo`,
`UpdateResolvConfInfo` and `RevertConfigInfo` are operators on sequences of lines.

`Prepare` and `Clean` apply them, in any order and number. Between them the user adds
lines anywhere, among the tool's lines too, and changes the topology or the DNS64
server. `user` is a ghost: the lines the file would have if the tool had never been
run. No line of the user looks like one of the tool's (starts with `#[-] ` or ends
in `  #[+]`): such lines are edited by `clean` as if they were its own. Trailing blank
lines are not kept, as `bytes.TrimRight` cuts them.

Properties: `Revertible` (from every state `clean` gives exactly the user's lines
back), `PrepareIsIdempotent`, `NodesResolve` (after `prepare` the first entry of each
node is its management address, whatever earlier prepares and other topologies
have left; for a file without ambiguous lines), `NameServerFirst` (the cluster's
name server is the first, and there once). The conditions of the last two exclude
names and addresses inside longer ones; what happens then is in the findings.

### Addressing, Configuration, AddressText

`AddressText` has what Go's `net` and `fmt` make of numbers and text, as far as it
decides about an address: `IP.String` with its `::`, `ParseIP`, `%x` and `%d`. A text is
kept as its words, the places of `::` and whether it ends in a separator, since
lazyjack adds digits to the text of a network. `Configuration` is `validate.go`: one
formula for what is accepted, and the derived fields (`MakePrefixFromNetwork` and
the others) as the commands find them. Both are operators only.

`Addressing` is the cluster that comes out. State: `config`, the file that all nodes
have; for each node how far it has come (`stage`), the addresses of its interface,
its `/etc/hosts` and name server, the pod subnets its CNI configuration hands out, its
routes; the advertise address of the master. `Refuse`, `Prepare` and `BringUp` are
whole commands, since how they are cut short is the subject of the other modules;
they fail here only for what is wrong with the configuration: an address that
does not parse, a gateway that is not on the interface's network, an address
kubeadm is told to use that the master does not have. The nodes follow the
documented order, in any interleaving.

Properties: `GatewaysLeadToNodes` and `NamesAreAddresses` (the places where an address
is built, each in its own way, agree with the address on the interface),
`RoutesReachPods` (the networks a node routes to another are those that one hands
out), `PodSubnetsDisjoint`, `PodSubnetsAreSlices` (against a definition by arithmetic
instead of text, for every network cut at a byte: the slice where the prefix takes an
id, no network at all where it does not, and never another slice), `NoLateFailure` (what
is accepted and `Sound` fails on no node).

`Sound` is what the code needs, not what it checks nor what its README asks for: ids of
one digit, pod networks cut at a byte whose text ends in a `::` that leaves a word
(`TakesId`), management networks with a word for the id, families that match where
validation does not compare them, in IPv6 mode a NAT64 node with an address on the
support network. `validate.go` accepts all the rest, too; ids from 10 on and pod
networks that do not take an id are the findings `NodesAreFound` and
`PrefixTakesNodeID`, the others are listed below them. The README of the repository
states no rule for IPv6 pod networks, and has the check of their size among its TODOs
(`README.md:624`).

### Cluster

The CA, its hash and the token, numbered by the `init` that made them, on the nodes
of one cluster that run their commands side by side. Each is a snapshot of the
one before: `area` (the work area of `init`: key, certificate, and the two files that
lead to the hash), `made` (hash and token in memory), `file` and `bak` (the configuration
file of each node, the master's backup), `loaded` (what the command in progress has
read), `conf` (the token in `kubeadm.conf`), `pki` (CA files for kubeadm), `cluster` (what the
control plane came up with), `joined`.

`Initialize` goes file by file to `OpenPermissions`, with a failing call or a kill at any
point, torn files and half-removed areas after it; `openssl` and the digest fail on a file that is
missing; `RecoverFile` may fail, too; `Prepare` takes the token into `kubeadm.conf`;
`BringUp` copies the CA and runs kubeadm on the master, joins on a minion; `TearDown`
resets. A kubeadm that fails or is cut short may have started the control plane, with
or without its token, joined the node, or reset it. A configuration file that is
torn is taken to be refused by the parser, and a torn `kubeadm.conf` to have no token. The user copies the file to an idle minion, whatever it holds at that moment,

restores it from the backup, runs any command on any node at any time; a token
may expire (`expiring` is the `ttl` of the newer templates); the master may reboot,
which empties a work area in `/tmp`. kubeadm is external, as far as the arguments
and the files it is given decide what it does. `inits` and `order` are ghosts: the number
of inits, and which of them was the last at certain points.

Properties: `FileIsOfOneInit`, `InitIsWhole`, `ConfigNotLost`, `CAIsAPair`, which hold
wherever an `init` is cut short and however often it is repeated, and
`JoinFailsOnlyWhenStale`: a minion is turned away only for a token that has expired or was
never made, a cluster that is not up, or steps that were really out of the documented order.

## Runs

| run | instance | states | shows |
|---|---|---|---|
| `UpDown` | 2 other nodes, 2 pod networks, 2 faults; fairness | 94,764 | the properties of `UpDown`, `RefinesHostSetup` among them |
| `SupportServers` | 4 faults | 5,924 | the properties of `SupportServers`, `RefinesHostSetup` among them |
| `ClusterNode` | 2 other NAT64 nodes, 1 failing call, 1 kill or reboot | 1.91 million | the properties of `ClusterNode`, `RefinesHostSetup` among them |
| `EtcFiles` | 2 nodes, 3 addresses, up to 3 lines of the user, 2 edits | 848,599 | the properties of `EtcFiles` |
| `Addressing` | some two thousand configurations of 2 or 3 nodes | 43 thousand | the properties of `Addressing` |
| `Cluster` | a master and a minion, 2 inits, 1 fault | 4.58 million | the properties of `Cluster` |
| `UpDown_UpCreatesRoutes` | 1 fault | | finding: `up` reports success without routes |
| `ClusterNode_BackupHoldsOriginal` | 1 fault | | finding: the backup is overwritten |
| `ClusterNode_PrepareAlwaysResumes` | 1 kill | | finding: a killed `prepare` blocks later ones |
| `Addressing_NodesAreFound` | the IPv6 sample with the README's id 100 | | finding: names and gateways that no node has |
| `Addressing_ServersAlone` | the IPv6 sample, the servers on a third node | | finding: routes to an address that the servers' node does not get |
| `Addressing_PrefixTakesNodeID` | the IPv6 sample with two other pod networks | | finding: a pod subnet that does not parse |

Bounds. Commands may be started any number of times: nothing bounds them, so
that every sequence of commands is covered; in `Cluster` this is true of all but
`init`. Only the disturbances are counted. One fault is enough to leave any
intermediate state behind, the second hits the command that starts from it (in
`UpDown`), and three or four are needed for the support servers, where a
container's exit, a failing run and a failing inspect combine. In `ClusterNode` one
failing call and one kill, each anywhere, reach the combinations of a half-done
command and a disturbed successor; a third would multiply the states by the files'
contents without new kinds of step. Two other nodes are the fewest with which
the order of a map iteration matters, and with which a route loop can end after
some routes and before others; two NAT64 nodes are the fewest with which
`prepare` and `clean` can choose different gateways. Nodes are compared for
equality only, hence the symmetry set of `ClusterNode`; the run of `UpDown`, which
has a liveness property, has none.

In `EtcFiles` two nodes, one with a name inside the other's, and three addresses,
two of them in the same relation, give each line of the code both outcomes for a
right and a wrong reason. Three lines hold an entry of each node and one more in
front of, between or behind them; two edits let a second `prepare` meet a changed
topology and a changed file. Lines that the file starts with and lines added later
are any of those in `MCEtcFiles`, or blank.

In `Addressing` the configurations are the samples of the repository and what
becomes of them when one part is varied at a time: ids around the boundaries of a
decimal and a hexadecimal digit, a byte and a word; pod networks with their `::`
at the end, in the middle and nowhere, of sizes at, between and off byte and word
boundaries; networks of either family in each place in each mode, with sizes that
are refused and accepted; three nodes with every combination of operating modes.

In `Cluster` two inits are the fewest that can be mixed up, and one fault leaves the
first of them half-done for the second to meet. Minions never touch each other's
state, so that one stands for all.

Deadlock is checked everywhere but in `Addressing`: a host with no command running
can always start one, while the procedure that `Addressing` follows ends when all
nodes are up, or cannot go on.

Fairness. `RetriesConverge` is checked under `SF_vars(DeleteRoute(d))` for each
destination: `DoRouteOpsOnNodes` goes over the topology with a `range` over a map
(`plugin.go:122`), which Go starts at a random place each time, so that no node is
passed over for ever by loops that could begin with it. Weak fairness would say
nothing, since the action is disabled between two commands. Nothing else is assumed:
no call need return (`docker.go:42` notes that commands have no timeout), and that the
user runs both commands again and again, which implies that they end, is the premise of
the property. Faults are bounded by `MaxFaults`, so that from some time on there are
none. Without the assumption, with orders that are unlucky for ever, the property
fails; it fails with it, too, if `down` takes the pod networks in the reverse order (the
mutant of this property).

## Findings

Six properties state what a document or a comment promises and the code does not
do; each has a run in which TLC finds the behaviour, and an entry with the quoted
line in `PROJECT.json`.

1. `up` again after an interrupted `up` stops adding routes at the first that
   exists and still reports the node as brought up (`plugin.go:132`).
2. The `.bak` files hold the originals only after the first `prepare` (`file.go:32`).
3. A `prepare` killed between the rename and the write of `/etc/hosts` leaves no such
   file, and every later `prepare` fails (`file.go:32`, `prepare.go:212`).
4. An IPv6 interface gets its node's id in hexadecimal, `/etc/hosts` and `kubeadm.conf`
   in decimal; IPv4 gateways get it in hexadecimal, the interface in decimal
   (`networker.go:34`). From id 10 on a node is not where the others look for it.
5. The DNS64 and NAT64 servers "can be on a node by themselves" (`README.md:212`), but such a
   node gets no management address, and the others use that as their gateway
   (`prepare.go:702`).
6. A prefix is "fully qualified" and takes a `::` at its end (`validate.go:249`) only when
   the network's own `::` is at the end and a word is left. `fd00:0:0:0:4000::/72`
   gives the subnet `fd00::4000:0:0:002::`, `1:2:3:4:5:6:700:0/104` gives
   `1:2:3:4:5:6:7:002::`; both are accepted, and `up` fails with such a subnet in the CNI
   configuration (`validate.go:272`, `plugin.go:127`).

Others are plain from the code, were met on the way, and have no run of their own.

- Without a plugin in the configuration, "defaulting to" one makes no plugin object
  (`validate.go:218-221`): `up` calls a method of a nil interface after it has removed the
  CNI area (`up.go:36`), `down` after the reset (`down.go:15`). `UpDown` has both panics.
- In insecure mode "the `init` step is not needed" (`README.md:184`), but `up` on the master
  copies the CA files that it makes and fails without them (`up.go:233`). `Cluster` has
  that (`"no CA"`).
- Pod networks whose size is between two bytes give subnets that are no slices: with
  `fd00:0:0:40:4000::/68` id 2 gets `fd00:0:0:40:40200::`, which does not parse
  (`plugin.go:35`).
- `down` stops at the first missing route, and leaves the other routes, `br0` and the
  CNI area, however often it is repeated (`plugin.go:137`).
- Every kernel error of `ip route add` in the bind9 container is read as "already
  exists" (`prepare.go:579`).
- In dual-stack mode `clean` does not remove the second management address when the
  first is gone (`cleanup.go:69`).
- A line for `node10` counts as `node1`'s entry when `node1`'s address is its address
  or a part of it (`prepare.go:163`, `prepare.go:186`); a first name server whose
  address only begins with the cluster's is taken for it (`prepare.go:257`).
- `clean` does not set the MTU back (`prepare.go:377`).
- An IPv4 management network of /24, as in the IPv4 and dual-stack samples of the
  repository, is refused (`validate.go:307`). Networks of another family than a
  single-stack mode's, and an IPv6 mode without any NAT64 node, are accepted, and
  `prepare` or `up` fails late. Of the NAT64 pool only the base address is checked.
- With ids from 256 on, a pod network that is not cut at a word gives pod subnets
  outside of it (`plugin.go:35`).
- A second `init`, then `up` on a running master, overwrites its CA files before
  kubeadm refuses (`up.go:233`).

## Proofs

| module | proves `Spec` implies | under |
|---|---|---|
| `UpDownProofs` | `[]TypeOK`, `[]UpComplete`, `[]DownComplete`, `[]ReadyForKubeadm`, `[]NoFalseAlarm`, `[]ResetFailureOnlyWarns`, `RefinesHostSetup` | `DualStackAssumption`, `MaxFaultsAssumption` |
| `SupportServersProofs` | `[]TypeOK`, `[]ServerHasConf`, `[]ServersReady`, `[]ServersResume`, `[]CleanAlwaysRemoves`, `PrepareKeepsRunning`, `RefinesHostSetup` | `MaxFaultsAssumption` |
| `ClusterNodeProofs` | `[]TypeOK`, `[]PrepareIsComplete`, `[]PrepareResumes`, `[]CleanIsComplete`, `[]CleanConverges`, `[]FilesSurviveFaults`, `LastCopyLostByResaveOnly`, `RefinesHostSetup` | `NatNodesAssumption`, `MaxFaultsAssumption`, `MaxKillsAssumption` |
| `EtcFilesProofs` | `[]TypeOK`, `[]Revertible`, `[]PrepareIsIdempotent`, `[]NodesResolve`, `[]NameServerFirst` | `NameOrderAssumption`, `AddressesAssumption`, `WithinAssumption`, `UserAssumption`, `BoundsAssumption` |
| `AddressingProofs` | `[]TypeOK`, `[]GatewaysLeadToNodes`, `[]RoutesReachPods`, `[]PodSubnetsDisjoint`, `[]PodSubnetsAreSlices`, `[]NamesAreAddresses`, `[]NoLateFailure` | `ConfigsAssumption` |
| `ClusterProofs` | `[]TypeOK`, `[]FileIsOfOneInit`, `[]InitIsWhole`, `[]ConfigNotLost`, `[]CAIsAPair`, `JoinFailsOnlyWhenStale` | `MasterAssumption`, `BoundsAssumption` |

They hold for every value of the constants: any other nodes or minions, any number
of faults and of inits, any lines and names in a file, any networks and ids. Hardly
any of the properties is inductive: most speak of the end of a command, and what they say is the work of all the steps before. Each
module therefore has an inductive invariant `IInv` that says for each step of a
command what has been achieved once it is reached. It was checked by TLC on the
instance of the run first. `Invariance` is proved from a lemma for each of its
parts, with one case per action of `Next`; an action property and the refinements
are proved from `IInv` and one step.

### UpDownProofs

- `FilesInv`: which of the CNI configuration and the CA files are in place at each
  step of `up`, from the step that writes them on;
- `UpInv`: the routes that are there when the loop has some left are the ones it
  has done, as long as nothing was skipped, and at the end all of them;
- `DownInv`: once the loop of `down` is over no route is left, once the link is
  deleted there is no bridge, and no pod makes it again as long as the host is not
  a member, which holds after a reset that did not fail;
- `AlarmInv`: in a command that met no fault the routes that the loop has not come to
  are as they were found, and what it has done says what was found of the others,
  so that the checks fire for those and for nothing else;
- `ResetInv`: the same for a `down` whose only fault was its reset.

### SupportServersProofs

- `RunInv`: a running command has no result yet, a container that stopped during a
  command counts as a fault of it, and only `clean` goes on after an error;
- `OrderInv`: the order of the calls: the volume is made when no bind9 holds it and
  is whole before the container is run, the network is there before and goes after;
- `PrepareInv`: what `prepare` has made when it gets to a step, unless a container
  stopped or a call failed since, which is why no later step finds a state it
  cannot go on from;
- `CleanInv`: what `clean` has removed when it gets to a step, if it met no fault or
  has found nothing to complain about.

### ClusterNodeProofs

- `RunInv`: which steps a command takes in which mode and on which node;
- `RouteInv`: a route's gateway is one of those that `clean` will ask for, and the
  support node's own route is there with its support network only;
- `SaveInv`: a file that is being saved is in one place or the other, and as whole
  as the contents that will replace it;
- `SurviveInv`: `FilesSurviveFaults` at the steps in between, where the backup stands
  for the file;
- `PrepareInv`: what `prepare` has in place when it gets to a step, whatever it found;
- `CleanInv`: what `clean` has taken back when it gets to a step, as long as it has
  no error to report; and in spite of errors if no call failed, but for a second
  address or a second gateway, which are the findings below the six.

### EtcFilesProofs

The invariant relates the file to the one the user would have, at any time:

- `Anchored`: the file is empty, or a line that is not an added one is its first or is
  not blank. The cut of trailing newlines then leaves a line that is kept, where a
  file of added lines only would become one of a blank line;
- `Restorable`: the lines that are not added, with their marks taken off, are the
  user's file. This is `Revertible` without the trailing blanks, and the reason for
  it is that every line that `prepare` marks gets one mark and `clean` takes one away;
- `Settled`: after `prepare` the file is a text that marking does not change, with the
  additions at their place. `PrepareIsIdempotent`, `NodesResolve` and
  `NameServerFirst` follow: a second `prepare` drops the additions, finds nothing
  left to mark and adds the same ones.

The functions that edit recur over the lines (`Only`, `Theirs`, the unmarking). What
the proofs use of them are lemmas of their own: what they do to an empty text, to a
concatenation, to lines that they all keep or all drop, each proved from the fact that
a set of lengths has a least element. The conditions on ambiguous names and lines
are needed only in the last two theorems, where `MatchingNode` and
`strings.Contains` must see the line that was meant.

### AddressingProofs

- `Untouched`, `Prepared`, `Connected`: what a node has at each stage, as a function of
  the configuration and the node; a node that is up has made every route;
- `Routed`: a gateway is built from a management network and the id of another node,
  and no route leads to a network that could not be built;
- `HandedOut`: a node's pod subnets are those of its own id, whether its `up` succeeded
  or not;
- `Advertised`: the master's address is the only one that is ever advertised.

The invariant makes each property a statement about two ways to build an address,
or about the addresses of two ids, for any network. Those are the lemmas:

- `Digits` and `Number` are recursive functions. They are unfolded, and `Number` is
  shown to invert `Digits`, by the least element of a set of numbers. From there: how many
  digits a number has (`HexLength`), what the digits of two numbers in a row stand for
  (`ConcatNumber`), that an id of one digit is the same in both bases (`SameDigits`).
- `IPv6Text` and `MakePrefixFromNetwork` give a text with all words up to the one the id
  goes to, if its `::` is at the end; with a `::` elsewhere, or none, no subnet comes
  out at all (`GapInsideNoSubnets`, `NoGapNoSubnets`), so that no node comes up.
- `PodSubnetsDisjoint`: the digits added for two ids are equally many or the larger id
  has more, and the words that come out differ by at least as much as the ids
  (`WordsApart`), and so in the bits before the subnet's size, where the ids are
  (`SubnetHostBits`, `BitsApart`). Nothing is assumed of size or ids.
- `PodSubnetsAreSlices`: for a size at a byte, the word that comes out is the word of the
  network plus the id in the upper or the lower byte (`SlicePart`), where the prefix takes
  an id; where it does not, no subnet comes out for any size at a byte (`NoSlice`).
- `NoLateFailure`, for every configuration that is `Sound`: each of the ways to build an
  address gives the parts of its network with the id as the last one (`AddressBuilt`,
  from what a text of digits and of parts parses to), which lies in the network
  (`AddressInNet`) and differs between nodes and families (`NodesApart`). So an
  interface gets all its addresses, every route has a gateway that can be reached, and
  kubeadm is told the address of the master that `Prepared` records. The route of the
  node with the servers to its own NAT64 server is on the support network by `Sound`. A step
  that could end in `"failed"` then never takes that branch (`PrepareWorks`,
  `BringUpWorks`).

### ClusterProofs

- `RunInv`: a command that runs on the master works on the file it has loaded, until
  it rewrites it; one that needs a token has found one;
- `ChainInv`: at each step of `init` the files before it are of this `init`, since the
  work area was cleared and each file was made from the one before;
- `PairInv`: key and certificate in the work area are never of two inits, and what
  `up` has copied is what is there;
- `FileInv`: token and hash are equal everywhere, and file and backup are never lost
  both;
- `AgeInv`: no secret in the file is newer than the last `init`, and while that runs
  all of them are older;
- `OrderInv`: once the last `init` is in the file, what `prepare` and `up` have taken
  since is of that `init`, and in insecure mode it is the default token always.

`JoinsInOrderSucceed` puts the last two together: only a join can be rejected, and
a minion that holds the master's file of the last `init`, with a cluster that was
prepared and brought up since, has the token and the hash that cluster knows.

### Refinements

A step of `UpDown` is a `Begin`, a `Work` or a `Use` of `HostSetup`, or a `Reboot`; a
step of `SupportServers` may also be a `Decay`, when a container exits; a step of
`ClusterNode` is a `Begin`, a `Work` or a `Reboot`, which the removal of the support
network with its route is, too. Every other step leaves the mapped state alone. The
proofs show for each action which items it can make whole or take away, so that an action of `up` or `prepare` only takes
away what is in `Rebuilt` and one of `down` or `clean` adds nothing. The steps that
end a command need the inductive invariant: that `"done"` is true is `UpInv`, `DownInv`,
`PrepareInv` and `CleanInv`; of the last, that a `clean` with nothing to report has found
both files, so that `Current` is the file. That `clean` never brings an entry back is
`CurrentStep` and `CutTakes`: entries change with the write of a file only, to what the command
writes or a part of it. A reboot in the middle of a command is a `Reboot` of `HostSetup`
whatever the command was doing.

### What only TLC checks

Liveness (`RetriesConverge`) is out of the prover's reach; every other property of a passing
run is a theorem. The library's induction theorems cannot be instantiated here; the
facts about recursive functions are proved from well-foundedness of `<` on the naturals instead,
with the set of the numbers for which they hold.

## What is left out

- Texts: the CNI and kubeadm configuration, the arguments of commands, log
  messages. Addresses are names, but in `Addressing`.
- Other programs that edit the same files at the same time, and two lazyjack
  processes at once on a host (the code has no lock).
- A kubeadm or docker command that goes on after the process that started it was
  killed: its effect takes place at the time of the kill or not at all (`CutShort`).
- A reboot of a minion in `Cluster`, which has nothing there that a reboot takes.
- Failures of `LinkByName`, of parsing an address, and of creating a directory are
  failing calls like any other; a route that the kernel refuses because its
  gateway is unreachable is one, too.

### Not modelled

- The wrappers of the kernel and of commands (`os.Exec`, `netlink`): nothing in them
  decides anything but their error, which is a choice of the actions that call.
- The contents of `kubeadm.conf` (`config.go`, `CollectKubeAdmConfigInfo`): templates,
  one for each Kubernetes version, filled in with values that `Addressing` and
  `Cluster` have. No state depends on the wording.
- Version strings, YAML parsing, the syntax of tokens, hashes, names and flags:
  patterns on characters, which unit tests reach and a model would only repeat.
- Vendored code.

## Plan

Done: `UpDown`, `SupportServers`, `ClusterNode`, `EtcFiles`, `Configuration`,
`Addressing`, `Cluster`; `HostSetup` with three implementations; proofs of every
safety property and of the three refinements.

Left: the life of a node (clean, prepared, up) as one specification composed of the
three, where `up` runs on what `prepare` has left: routes that need addresses,
kubeadm that needs its configuration.
