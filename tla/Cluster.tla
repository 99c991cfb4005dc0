------------------------------ MODULE Cluster ------------------------------
(***************************************************************************)
(* The secrets of a cluster on their way from `init` on the master to      *)
(* `up` on the minions: init.go, the token and certificate parts of        *)
(* prepare.go and up.go, and the checks of token and hash in validate.go.  *)
(*                                                                         *)
(* init makes a CA, its hash and a token in the master's work area and     *)
(* writes token and hash into the configuration file, which the user       *)
(* copies to the minions.  prepare takes the token from the file into      *)
(* kubeadm.conf, up on the master takes the CA to the Kubernetes area and  *)
(* starts the cluster, up on a minion joins it with the token and the hash *)
(* of its own copy.  Each of these is a snapshot of the one before, taken  *)
(* when the user runs a command, and nothing compares them afterwards.     *)
(*                                                                         *)
(* Secrets are numbered by the init that made them.  The nodes run their   *)
(* commands side by side, one at a time on a node.  Left out: the network  *)
(* (UpDown, ClusterNode) and tokens in the file that are not well formed.  *)
(***************************************************************************)
EXTENDS Naturals

CONSTANTS
  Minions,   \* nodes that join
  Master,    \* the node that init is meant for
  MaxInits,  \* bound on the inits of a behaviour
  MaxFaults  \* bound on failing calls, kills and reboots

ASSUME MasterAssumption == Master \notin Minions
ASSUME BoundsAssumption == MaxInits \in Nat /\ MaxFaults \in Nat

VARIABLES
  insecure,  \* General.Insecure
  expiring,  \* kubeadm.conf gives the token 24 hours
  file,      \* configuration file of each node
  bak,       \* the master's backup of it
  area,      \* files in the master's certificate area
  conf,      \* token in the master's kubeadm.conf, if that is whole
  pki,       \* CA files in the master's Kubernetes area
  cluster,   \* the control plane that runs on the master
  joined,    \* minions that have joined it
  cmd,       \* the command of each node, running or ended
  pc,        \* its next step
  loaded,    \* the configuration it has loaded
  made,      \* hash and token that init has in memory
  result,    \* how it ended
  inits,     \* inits started
  order,     \* the init that was the last one when prepare ran, when up ran,
             \* and when the prepare before that up ran
  faults     \* faults so far

config  == <<insecure, expiring>>
secrets == <<file, bak, area, conf, pki>>
live    == <<cluster, joined>>
control == <<cmd, loaded, inits, order>>
vars    == <<config, secrets, live, control, pc, made, result, faults>>

-----------------------------------------------------------------------------
Nodes == Minions \union {Master}

None         == 0
Torn         == MaxInits + 1   \* a file that was not written to its end
DefaultToken == MaxInits + 2

Made      == 1..MaxInits
AreaFiles == {"ca.key", "ca.crt", "ca.x509", "ca.rsa"}
CertFiles == {"ca.key", "ca.crt"}
EmptyArea == [f \in AreaFiles |-> None]

(* A configuration file: whether it is there, and what init added to it. *)
NoFile   == [is |-> "absent", token |-> None, hash |-> None]
TornFile == [is |-> "torn", token |-> None, hash |-> None]
NewFile  == [is |-> "whole", token |-> None, hash |-> None]

(* The control plane that runs, by its CA and its token. *)
Down == [ca |-> None, token |-> None]
Up   == cluster.ca # None

InitSteps == {"area", "ca.key", "ca.crt", "ca.x509", "ca.rsa", "digest",
              "token", "backup", "write", "chmod"}
UpSteps   == {"copy crt", "copy key", "kubeadm"}

CopyStep(f) == IF f = "ca.crt" THEN "copy crt" ELSE "copy key"

Init ==
  /\ insecure \in BOOLEAN /\ expiring \in BOOLEAN
  /\ file = [n \in Nodes |-> NewFile] /\ bak = NoFile
  /\ area = EmptyArea /\ conf = None
  /\ pki = [f \in CertFiles |-> None]
  /\ cluster = Down /\ joined = {}
  /\ cmd = [n \in Nodes |-> "none"] /\ pc = [n \in Nodes |-> "idle"]
  /\ loaded = [n \in Nodes |-> NoFile]
  /\ made = [token |-> None, hash |-> None]
  /\ result = [n \in Nodes |-> "none"]
  /\ inits = 0 /\ order = [prepare |-> 0, up |-> 0, prepareOfUp |-> 0]
  /\ faults = 0

-----------------------------------------------------------------------------
(* How a step ends *)

Then(n, step) == pc' = [pc EXCEPT ![n] = step] /\ UNCHANGED <<result, faults>>

End(n, r) ==
  /\ pc' = [pc EXCEPT ![n] = "idle"] /\ result' = [result EXCEPT ![n] = r]
  /\ UNCHANGED faults

Fails(n, r) ==
  /\ faults < MaxFaults /\ faults' = faults + 1
  /\ pc' = [pc EXCEPT ![n] = "idle"] /\ result' = [result EXCEPT ![n] = r]

-----------------------------------------------------------------------------
(* Commands *)

ValidateToken(f, ignoreMissing)         == f.token # None \/ ignoreMissing
ValidateTokenCertHash(f, ignoreMissing) == f.hash # None \/ ignoreMissing

(* LoadConfig and ValidateConfigContents: a token may be missing in init,  *)
(* which makes it, and in insecure mode.                                   *)
Accepts(n, c) ==
  LET ignoreMissing == c = "init" \/ insecure
  IN  /\ file[n].is = "whole"
      /\ ValidateToken(file[n], ignoreMissing)
      /\ ValidateTokenCertHash(file[n], ignoreMissing)

Run(n, c, first) ==
  /\ pc[n] = "idle"
  /\ cmd' = [cmd EXCEPT ![n] = c]
  /\ loaded' = [loaded EXCEPT ![n] = file[n]]
  /\ IF Accepts(n, c) THEN Then(n, first) ELSE End(n, "refused")
  /\ UNCHANGED <<config, secrets, live, made>>

(* init on another node than the master ends at once, with nothing done. *)
Initialize ==
  /\ inits < MaxInits
  /\ Run(Master, "init", "area")
  /\ inits' = IF Accepts(Master, "init") THEN inits + 1 ELSE inits
  /\ UNCHANGED order

Prepare == Run(Master, "prepare", "conf") /\ UNCHANGED <<inits, order>>

BringUp(n) ==
  /\ Run(n, "up", IF n = Master THEN CopyStep("ca.crt") ELSE "kubeadm")
  /\ UNCHANGED <<inits, order>>

TearDown(n) == Run(n, "down", "reset") /\ UNCHANGED <<inits, order>>

-----------------------------------------------------------------------------
(* init *)

(* mutant: the files of an earlier init stay *)
KeepCertKeyArea ==
  /\ pc[Master] = "area"
  /\ Then(Master, "ca.key")
  /\ UNCHANGED <<config, secrets, live, control, made>>

(* What RemoveAll leaves when it is cut short, in whatever order. *)
PartsOfArea ==
  {[f \in AreaFiles |-> IF f \in gone THEN None ELSE area[f]]
     : gone \in SUBSET AreaFiles}

(* RemoveAll, then MkdirAll *)
CreateCertKeyArea ==
  /\ pc[Master] = "area"
  /\ \/ area' = EmptyArea /\ Then(Master, "ca.key")
     \/ area' \in PartsOfArea /\ Fails(Master, "failed")
  /\ UNCHANGED <<config, file, bak, conf, pki, live, control, made>>

(* What each file is made from: the key is new, and the others follow. *)
Source(f) ==
  CASE f = "ca.key"  -> inits
    [] f = "ca.crt"  -> area["ca.key"]
    [] f = "ca.x509" -> area["ca.crt"]
    [] f = "ca.rsa"  -> area["ca.x509"]

StepAfter(f) ==
  CASE f = "ca.key"  -> "ca.crt"
    [] f = "ca.crt"  -> "ca.x509"
    [] f = "ca.x509" -> "ca.rsa"
    [] f = "ca.rsa"  -> "digest"

(* mutant: a failing openssl goes unnoticed *)
CreateFileUnchecked(f) ==
  /\ pc[Master] = f
  /\ \E made_ \in {Source(f), Torn} : area' = [area EXCEPT ![f] = made_]
  /\ Then(Master, StepAfter(f))
  /\ UNCHANGED <<config, file, bak, conf, pki, live, control, made>>

(* CreateKeyForCA, CreateCertificateForCA, CreateX509CertForCA and         *)
(* CreateRSAForCA: one openssl after the other, on what it finds.          *)
CreateFile(f) ==
  /\ pc[Master] = f
  /\ \/ /\ Source(f) \in Made
        /\ area' = [area EXCEPT ![f] = Source(f)] /\ Then(Master, StepAfter(f))
     \/ /\ area' \in {area, [area EXCEPT ![f] = Torn]}
        /\ Fails(Master, "failed")
  /\ UNCHANGED <<config, file, bak, conf, pki, live, control, made>>

(* mutant: a hash that the configuration has already stays *)
CreateDigestOnce ==
  /\ pc[Master] = "digest" /\ area["ca.rsa"] # None
  /\ made' = [made EXCEPT !.hash = IF loaded[Master].hash # None
                                   THEN loaded[Master].hash ELSE area["ca.rsa"]]
  /\ Then(Master, "token")
  /\ UNCHANGED <<config, secrets, live, control>>

CreateDigestForCA ==
  /\ pc[Master] = "digest"
  /\ \/ /\ area["ca.rsa"] # None
        /\ made' = [made EXCEPT !.hash = area["ca.rsa"]] /\ Then(Master, "token")
     \/ Fails(Master, "failed") /\ UNCHANGED made
  /\ UNCHANGED <<config, secrets, live, control>>

CreateToken ==
  /\ pc[Master] = "token"
  /\ \/ made' = [made EXCEPT !.token = inits] /\ Then(Master, "backup")
     \/ Fails(Master, "failed") /\ UNCHANGED made
  /\ UNCHANGED <<config, secrets, live, control>>

(* mutant: the file is written over, with no backup of it *)
NoBackUp ==
  /\ pc[Master] = "backup" /\ Then(Master, "write")
  /\ UNCHANGED <<config, secrets, live, control, made>>

(* UpdateConfigYAML reads the file and renames it away. *)
BackUpConfigYAML ==
  /\ pc[Master] = "backup"
  /\ \/ bak' = file[Master] /\ file' = [file EXCEPT ![Master] = NoFile]
        /\ Then(Master, "write")
     \/ Fails(Master, "failed") /\ UNCHANGED <<file, bak>>
  /\ UNCHANGED <<config, area, conf, pki, live, control, made>>

(* mutant: the token that is in the file stays *)
UpdateOnlyHash(f) ==
  [is |-> "whole", hash |-> made.hash,
   token |-> IF f.token = None THEN made.token ELSE f.token]

(* Lines with an old token or hash go, and both are added. *)
UpdateConfigYAMLContents(f) ==
  [is |-> "whole", token |-> made.token, hash |-> made.hash]

(* A failing write is undone by RecoverFile, if that does not fail too. *)
WriteConfigYAML ==
  /\ pc[Master] = "write"
  /\ \/ /\ file' = [file EXCEPT ![Master] = UpdateConfigYAMLContents(bak)]
        /\ Then(Master, "chmod") /\ UNCHANGED bak
     \/ /\ bak # NoFile /\ file' = [file EXCEPT ![Master] = bak] /\ bak' = NoFile
        /\ Fails(Master, "failed")
     \/ /\ \E left \in {NoFile, TornFile} : file' = [file EXCEPT ![Master] = left]
        /\ Fails(Master, "failed") /\ UNCHANGED bak
  /\ UNCHANGED <<config, area, conf, pki, live, control, made>>

OpenPermissions ==
  /\ pc[Master] = "chmod"
  /\ End(Master, "ok") \/ Fails(Master, "failed")
  /\ UNCHANGED <<config, secrets, live, control, made>>

-----------------------------------------------------------------------------
(* prepare *)

(* mutant: a kubeadm.conf that is there is kept *)
KeepKubeAdmConfigFile ==
  /\ pc[Master] = "conf"
  /\ conf' = CASE conf # None -> conf
               [] conf = None /\ insecure -> DefaultToken
               [] OTHER -> loaded[Master].token
  /\ order' = [order EXCEPT !.prepare = inits] /\ End(Master, "ok")
  /\ UNCHANGED <<config, file, bak, area, pki, live, cmd, loaded, inits, made>>

(* CollectKubeAdmConfigInfo puts the token into kubeadm.conf, that         *)
(* SaveFileContents renames first.  When the write fails, and RecoverFile, *)
(* there is none or a part of one.                                         *)
CreateKubeAdmConfigFile ==
  /\ pc[Master] = "conf"
  /\ \/ /\ conf' = IF insecure THEN DefaultToken ELSE loaded[Master].token
        /\ order' = [order EXCEPT !.prepare = inits] /\ End(Master, "ok")
     \/ conf' \in {conf, None, Torn} /\ Fails(Master, "failed") /\ UNCHANGED order
  /\ UNCHANGED <<config, file, bak, area, pki, live, cmd, loaded, inits, made>>

-----------------------------------------------------------------------------
(* up and down *)

(* PlaceCertificateAndKeyForCA: CopyFile opens the source first, which     *)
(* init has made or not.                                                   *)
CopyFile(f, next) ==
  /\ pc[Master] = CopyStep(f)
  /\ \/ area[f] # None /\ pki' = [pki EXCEPT ![f] = area[f]] /\ Then(Master, next)
     \/ area[f] = None /\ End(Master, "no CA") /\ UNCHANGED pki
     \/ pki' \in {pki, [pki EXCEPT ![f] = Torn]} /\ Fails(Master, "failed")
  /\ UNCHANGED <<config, file, bak, area, conf, live, control, made>>

PlaceCertificateAndKeyForCA ==
  \/ CopyFile("ca.crt", CopyStep("ca.key"))
  \/ CopyFile("ca.key", "kubeadm")

(* kubeadm init refuses a host that has a control plane, and needs         *)
(* kubeadm.conf and a certificate that goes with its key.                  *)
CanInit ==
  ~Up /\ conf # None /\ pki["ca.crt"] = pki["ca.key"]
    /\ pki["ca.crt"] \in Made

(* The control plane comes up, with a token that it makes for itself when  *)
(* a torn kubeadm.conf has none: to the minions that is as good as none.   *)
Starts(token) ==
  /\ CanInit
  /\ cluster' = [ca |-> pki["ca.crt"], token |-> IF token = Torn THEN None ELSE token]
  /\ order' = [order EXCEPT !.up = inits, !.prepareOfUp = order.prepare]

(* When kubeadm init fails late the control plane stays, with or without   *)
(* the token.                                                              *)
StartsPerhaps == Starts(conf) \/ Starts(None) \/ UNCHANGED <<cluster, order>>

StartMaster ==
  /\ pc[Master] = "kubeadm"
  /\ \/ Starts(conf) /\ End(Master, "ok")
     \/ /\ ~CanInit \/ conf = Torn
        /\ End(Master, "failed") /\ UNCHANGED <<cluster, order>>
     \/ StartsPerhaps /\ Fails(Master, "failed")
  /\ UNCHANGED <<config, secrets, joined, cmd, loaded, inits, made>>

(* BuildKubeAdmCommand *)
JoinToken(n) == IF insecure THEN DefaultToken ELSE loaded[n].token

(* kubeadm join finds the master by the token, and checks its CA by the    *)
(* hash unless it is told to skip that.  It may refuse a host that has     *)
(* joined before.                                                          *)
CanJoin(n) ==
  /\ Up /\ cluster.token = JoinToken(n)
  /\ insecure \/ cluster.ca = loaded[n].hash

Joins(n) == CanJoin(n) /\ joined' = joined \union {n}

JoinMinion(n) ==
  /\ pc[n] = "kubeadm"
  /\ \/ Joins(n) /\ End(n, "ok")
     \/ ~CanJoin(n) /\ End(n, "rejected") /\ UNCHANGED joined
     \/ n \in joined /\ End(n, "failed") /\ UNCHANGED joined
     \/ (Joins(n) \/ UNCHANGED joined) /\ Fails(n, "failed")
  /\ UNCHANGED <<config, secrets, cluster, control, made>>

(* Whether kubeadm reset removes the CA files depends on its version. *)
Resets(n) ==
  /\ joined' = joined \ {n}
  /\ IF n = Master
     THEN cluster' = Down /\ pki' \in {pki, [f \in CertFiles |-> None]}
     ELSE UNCHANGED <<cluster, pki>>

(* A failing reset is only warned of. *)
StopKubernetes(n) ==
  /\ pc[n] = "reset"
  /\ \/ Resets(n) /\ End(n, "ok")
     \/ (Resets(n) \/ UNCHANGED <<cluster, joined, pki>>) /\ Fails(n, "ok")
  /\ UNCHANGED <<config, file, bak, area, conf, control, made>>

-----------------------------------------------------------------------------
(* The user and the world *)

(* The user copies the file, whatever it holds at that moment. *)
CopyConfig(n) ==
  /\ pc[n] = "idle" /\ file[n] # file[Master]
  /\ file' = [file EXCEPT ![n] = file[Master]]
  /\ UNCHANGED <<config, bak, area, conf, pki, live, control, pc, made, result, faults>>

(* ... and restores it by hand. *)
RestoreConfig ==
  /\ pc[Master] = "idle" /\ file[Master].is # "whole" /\ bak.is = "whole"
  /\ file' = [file EXCEPT ![Master] = bak]
  /\ UNCHANGED <<config, bak, area, conf, pki, live, control, pc, made, result, faults>>

TokenExpires ==
  /\ expiring /\ Up /\ cluster.token # None
  /\ cluster' = [cluster EXCEPT !.token = None]
  /\ UNCHANGED <<config, secrets, joined, control, pc, made, result, faults>>

(* A step that is cut short has done nothing or a part, and what it has    *)
(* asked kubeadm for may be done.                                          *)
Interrupted(n) ==
  /\ file' \in {file} \union
       IF pc[n] = "write" THEN {[file EXCEPT ![n] = TornFile]} ELSE {}
  /\ \/ UNCHANGED <<pki, live, order>>
     \/ /\ \E f \in CertFiles :
             pc[n] = CopyStep(f) /\ pki' = [pki EXCEPT ![f] = Torn]
        /\ UNCHANGED <<live, order>>
     \/ /\ n = Master /\ pc[n] = "kubeadm" /\ StartsPerhaps
        /\ UNCHANGED <<pki, joined>>
     \/ /\ n # Master /\ pc[n] = "kubeadm" /\ Joins(n)
        /\ UNCHANGED <<pki, cluster, order>>
     \/ pc[n] = "reset" /\ Resets(n) /\ UNCHANGED order
  /\ UNCHANGED <<config, bak, cmd, loaded, inits, made>>

Kill(n) ==
  /\ pc[n] # "idle" /\ Fails(n, "killed") /\ Interrupted(n)
  /\ area' \in {area} \union
       {[area EXCEPT ![f] = Torn] : f \in AreaFiles \intersect {pc[n]}} \union
       IF pc[n] = "area" THEN PartsOfArea ELSE {}
  /\ conf' \in {conf} \union IF pc[n] = "conf" THEN {None, Torn} ELSE {}

(* The default work area is in /tmp, any other stays as after Kill; the    *)
(* control plane comes up again.                                           *)
RebootMaster ==
  /\ Fails(Master, "killed") /\ Interrupted(Master)
  /\ area' = EmptyArea /\ conf' = None

-----------------------------------------------------------------------------
Command ==
  \/ Initialize \/ Prepare
  \/ \E n \in Nodes : BringUp(n) \/ TearDown(n)

Step ==
  \/ CreateCertKeyArea \/ \E f \in AreaFiles : CreateFile(f)
  \/ CreateDigestForCA \/ CreateToken
  \/ BackUpConfigYAML \/ WriteConfigYAML \/ OpenPermissions
  \/ CreateKubeAdmConfigFile
  \/ PlaceCertificateAndKeyForCA \/ StartMaster
  \/ \E n \in Minions : JoinMinion(n)
  \/ \E n \in Nodes : StopKubernetes(n)

Environment ==
  \/ \E n \in Minions : CopyConfig(n)
  \/ RestoreConfig \/ TokenExpires \/ RebootMaster
  \/ \E n \in Nodes : Kill(n)

Next == Command \/ Step \/ Environment

Spec == Init /\ [][Next]_vars

-----------------------------------------------------------------------------
(* Properties *)

ConfigFiles ==
  [is : {"absent", "torn", "whole"}, token : {None} \union Made,
   hash : {None} \union Made]

Steps    == {"idle", "conf", "reset"} \union InitSteps \union UpSteps
Commands == {"none", "init", "prepare", "up", "down"}
Results  == {"none", "ok", "refused", "failed", "killed", "no CA", "rejected"}

ControlOK ==
  /\ pc \in [Nodes -> Steps] /\ cmd \in [Nodes -> Commands]
  /\ result \in [Nodes -> Results]
  /\ \A n \in Minions : pc[n] \in {"idle", "kubeadm", "reset"}

SecretsOK ==
  /\ file \in [Nodes -> ConfigFiles] /\ bak \in ConfigFiles
  /\ loaded \in [Nodes -> ConfigFiles]
  /\ made \in [token : {None} \union Made, hash : {None} \union Made]
  /\ area \in [AreaFiles -> {None, Torn} \union Made]
  /\ pki \in [CertFiles -> {None, Torn} \union Made]
  /\ conf \in {None, Torn, DefaultToken} \union Made

LiveOK ==
  /\ insecure \in BOOLEAN /\ expiring \in BOOLEAN
  /\ cluster \in [ca : {None} \union Made, token : {None, DefaultToken} \union Made]
  /\ joined \subseteq Minions

CountsOK ==
  /\ inits \in 0..MaxInits
  /\ order \in [prepare : 0..MaxInits, up : 0..MaxInits, prepareOfUp : 0..MaxInits]

(* Every variable keeps to its domain: a hash and a token are always those *)
(* of an init, never of a file that is missing or incomplete.              *)
TypeOK ==
  ControlOK /\ SecretsOK /\ LiveOK /\ CountsOK /\ faults \in 0..MaxFaults

(* Token and hash in a configuration file, a copy or a backup of it are of *)
(* the same init (UpdateConfigYAML), wherever an init was cut short and    *)
(* whenever the file was copied.                                           *)
FileIsOfOneInit ==
  \A f \in {file[n] : n \in Nodes} \union {bak} : f.token = f.hash

(* After an init that reported success the file's hash is that of the      *)
(* certificate and key in the work area, the ones up will install: not of  *)
(* another init, and not of none (the chain of files in Initialize).       *)
InitIsWhole ==
  cmd[Master] = "init" /\ result[Master] = "ok" /\ pc[Master] = "idle" =>
    /\ file[Master].hash = inits
    /\ area["ca.crt"] = inits /\ area["ca.key"] = inits

(* The configuration file or a whole backup of it is on the master at any  *)
(* time (SaveFileContents and RecoverFile).                                *)
ConfigNotLost == file[Master].is = "whole" \/ bak.is = "whole"

(* kubeadm is never started on the certificate of one init and the key of  *)
(* another, however inits and ups were cut short (CreateCertKeyArea clears *)
(* what an init will make again, CopyFile fails on what is missing).       *)
CAIsAPair ==
  pc[Master] = "kubeadm" /\ pki["ca.crt"] \in Made /\ pki["ca.key"] \in Made
    => pki["ca.crt"] = pki["ca.key"]

(* The documented order: init, copy, prepare, up on the master, with no    *)
(* init since.                                                             *)
InOrder(n) ==
  /\ file[Master].token = inits /\ loaded[n] = file[Master]
  /\ order.prepareOfUp = inits /\ order.up = inits

(* The master turns a minion away only when its token has expired or was   *)
(* never made, by a kubeadm init that failed or had a torn kubeadm.conf,   *)
(* or something was out of order: another init begun since prepare or up,  *)
(* one not finished, a copy from before.  In insecure mode the order is of *)
(* no importance (BuildKubeAdmCommand, CollectKubeAdmConfigInfo).          *)
JoinFailsOnlyWhenStale ==
  [][\A n \in Minions :
       pc[n] = "kubeadm" /\ pc'[n] = "idle" /\ result'[n] = "rejected" =>
         \/ ~Up \/ cluster.token = None
         \/ ~insecure /\ ~InOrder(n)]_vars

=============================================================================
