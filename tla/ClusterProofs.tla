---------------------------- MODULE ClusterProofs ----------------------------
(***************************************************************************)
(* Proofs about Cluster, for any set of minions and any number of inits    *)
(* and of faults.                                                          *)
(***************************************************************************)
EXTENDS Cluster, TLAPS

-----------------------------------------------------------------------------
(* The inductive invariant *)

(* A command that runs on the master works on the file it has loaded; one  *)
(* that needs a token has found one.                                       *)
RunInv ==
  /\ pc[Master] # "idle" => (cmd[Master] = "init" <=> pc[Master] \in InitSteps)
  /\ pc[Master] \notin {"idle", "write", "chmod"} =>
       file[Master] = loaded[Master] /\ file[Master].is = "whole"
  /\ \A n \in Nodes :
       pc[n] \in {"conf", "kubeadm"} \union UpSteps /\ ~insecure
         => loaded[n].token # None

(* What init has made at each of its steps, all of it by this init.        *)
ChainInv ==
  /\ pc[Master] = "ca.key" => area["ca.crt"] = None
  /\ pc[Master] \in InitSteps \ {"area", "ca.key"} => area["ca.key"] = inits
  /\ pc[Master] = "ca.crt" => area["ca.crt"] = None
  /\ pc[Master] \in InitSteps \ {"area", "ca.key", "ca.crt"}
       => area["ca.crt"] = inits
  /\ pc[Master] \in {"ca.rsa", "digest"} => area["ca.x509"] = inits
  /\ pc[Master] = "digest" => area["ca.rsa"] = inits
  /\ pc[Master] \in {"token", "backup", "write"} => made.hash = inits
  /\ pc[Master] \in {"backup", "write"} => made.token = inits

(* Key and certificate belong together in the work area, and up copies     *)
(* them from there.                                                        *)
PairInv ==
  /\ area["ca.key"] \in Made /\ area["ca.crt"] \in Made
       => area["ca.key"] = area["ca.crt"]
  /\ pc[Master] \in {"copy key", "kubeadm"} => pki["ca.crt"] = area["ca.crt"]
  /\ pc[Master] = "kubeadm" => pki["ca.key"] = area["ca.key"]

(* The configuration file and its backup. *)
FileInv ==
  /\ \A n \in Nodes : file[n].token = file[n].hash
  /\ bak.token = bak.hash
  /\ ConfigNotLost
  /\ pc[Master] = "write" => bak.is = "whole"
  /\ pc[Master] = "chmod" => file[Master].is = "whole" /\ file[Master].hash = inits
  /\ cmd[Master] = "init" /\ result[Master] = "ok" /\ pc[Master] = "idle" =>
       /\ file[Master].is = "whole" /\ file[Master].hash = inits
       /\ area["ca.crt"] = inits /\ area["ca.key"] = inits

(* How old a secret can be. *)
AgeInv ==
  /\ order.prepare <= inits /\ order.up <= inits
  /\ pc[Master] \in InitSteps => order.prepare < inits /\ order.up < inits
  /\ file[Master].token <= inits
  /\ pc[Master] \in InitSteps \ {"chmod"} => file[Master].token < inits
  /\ bak.token < inits \/ bak.token = None

(* Once the last init is in the file, its CA is the one up installs, and   *)
(* what prepare and up have taken since is of that init.                   *)
OrderInv ==
  /\ insecure => /\ conf \in {None, Torn, DefaultToken}
                 /\ cluster.token \in {None, DefaultToken}
  /\ inits # None /\ file[Master].token = inits =>
       /\ area["ca.crt"] \in {None, Torn, inits}
       /\ ~insecure /\ order.prepare = inits => conf \in {None, Torn, inits}
       /\ ~insecure /\ Up /\ order.up = inits /\ order.prepareOfUp = inits
            => cluster.token \in {None, inits} /\ cluster.ca = inits

IInv == TypeOK /\ RunInv /\ ChainInv /\ PairInv /\ FileInv /\ AgeInv /\ OrderInv

-----------------------------------------------------------------------------
(* It holds initially and is kept by every step *)

(* What the steps with several outcomes do, written out. *)
InterruptedEffect(n) ==
  /\ UNCHANGED <<config, bak, cmd, loaded, inits, made>>
  /\ pc' = [pc EXCEPT ![n] = "idle"] /\ result' = [result EXCEPT ![n] = "killed"]
  /\ \/ file' = file
     \/ /\ n = Master /\ pc[Master] = "write"
        /\ file' = [file EXCEPT ![Master] = TornFile]
  /\ pki' # pki => /\ n = Master
                   /\ \/ \E f \in CertFiles : pki' = [pki EXCEPT ![f] = Torn]
                      \/ pki' = [f \in CertFiles |-> None]
  /\ \/ UNCHANGED <<cluster, order>>
     \/ /\ n = Master /\ pc[Master] = "kubeadm"
        /\ Starts(conf) \/ Starts(None)
     \/ n = Master /\ cluster' = Down /\ UNCHANGED order
  /\ joined' \subseteq joined \/ (n \in Minions /\ joined' = joined \union {n})

KillEffect(n) ==
  /\ InterruptedEffect(n)
  /\ \/ area' = area
     \/ /\ n = Master /\ pc[Master] \in AreaFiles
        /\ area' = [area EXCEPT ![pc[Master]] = Torn]
     \/ n = Master /\ pc[Master] = "area" /\ area' \in PartsOfArea
  /\ conf' # conf => n = Master /\ conf' \in {None, Torn}

RebootEffect ==
  InterruptedEffect(Master) /\ area' = EmptyArea /\ conf' = None

StartEffect ==
  /\ UNCHANGED <<config, secrets, joined, cmd, loaded, inits, made>>
  /\ pc[Master] = "kubeadm" /\ pc' = [pc EXCEPT ![Master] = "idle"]
  /\ \E r \in {"ok", "failed"} : result' = [result EXCEPT ![Master] = r]
  /\ UNCHANGED <<cluster, order>> \/ Starts(conf) \/ Starts(None)

JoinEffect(n) ==
  /\ UNCHANGED <<config, secrets, cluster, control, made>>
  /\ pc[n] = "kubeadm" /\ pc' = [pc EXCEPT ![n] = "idle"]
  /\ \E r \in {"ok", "failed", "rejected"} : result' = [result EXCEPT ![n] = r]
  /\ joined' \subseteq joined \union {n}

CopyEffect ==
  /\ UNCHANGED <<config, file, bak, area, conf, live, control, made>>
  /\ \/ /\ pc' = [pc EXCEPT ![Master] = "idle"]
        /\ \E r \in {"failed", "no CA"} : result' = [result EXCEPT ![Master] = r]
        /\ pki' # pki => \E f \in CertFiles : pki' = [pki EXCEPT ![f] = Torn]
     \/ /\ pc[Master] = "copy crt"
        /\ pc' = [pc EXCEPT ![Master] = "copy key"] /\ result' = result
        /\ pki' = [pki EXCEPT !["ca.crt"] = area["ca.crt"]]
     \/ /\ pc[Master] = "copy key"
        /\ pc' = [pc EXCEPT ![Master] = "kubeadm"] /\ result' = result
        /\ pki' = [pki EXCEPT !["ca.key"] = area["ca.key"]]

ResetEffect(n) ==
  /\ UNCHANGED <<config, file, bak, area, conf, control, made>>
  /\ pc[n] = "reset" /\ pc' = [pc EXCEPT ![n] = "idle"]
  /\ result' = [result EXCEPT ![n] = "ok"]
  /\ joined' \subseteq joined
  /\ cluster' # cluster => n = Master /\ cluster' = Down
  /\ pki' # pki => n = Master /\ pki' = [f \in CertFiles |-> None]

(* The numbers apart from the state. *)
LEMMA Distinct ==
  /\ None \notin Made /\ Torn \notin Made /\ DefaultToken \notin Made
  /\ None # Torn /\ None # DefaultToken /\ Torn # DefaultToken
  BY BoundsAssumption DEF None, Torn, DefaultToken, Made

(* A part of the work area has no file that the whole has not. *)
LEMMA PartsHave ==
  ASSUME NEW S, None \in S, area \in [AreaFiles -> S], NEW a \in PartsOfArea
  PROVE  /\ a \in [AreaFiles -> S]
         /\ \A f \in AreaFiles : a[f] \in {None, area[f]}
<1>1. PICK gone \in SUBSET AreaFiles :
        a = [f \in AreaFiles |-> IF f \in gone THEN None ELSE area[f]]
  BY DEF PartsOfArea
<1>2. \A f \in AreaFiles : a[f] \in {None, area[f]}
  BY <1>1
<1>3. \A f \in AreaFiles : area[f] \in S
  OBVIOUS
<1>4. QED
  BY <1>1, <1>2, <1>3

LEMMA PartsTyped ==
  ASSUME SecretsOK, NEW a \in PartsOfArea
  PROVE  /\ a \in [AreaFiles -> {None, Torn} \union Made]
         /\ \A f \in AreaFiles : a[f] \in {None, area[f]}
<1> DEFINE S == {None, Torn} \union Made
<1>1. None \in S /\ area \in [AreaFiles -> S]
  BY DEF SecretsOK
<1> HIDE DEF S
<1>2. a \in [AreaFiles -> S] /\ \A f \in AreaFiles : a[f] \in {None, area[f]}
  BY <1>1, PartsHave
<1>3. QED
  BY <1>2 DEF S

LEMMA EmptyIsAPart == EmptyArea \in PartsOfArea
<1>1. EmptyArea =
        [f \in AreaFiles |-> IF f \in AreaFiles THEN None ELSE area[f]]
  BY DEF EmptyArea
<1>2. QED
  BY <1>1 DEF PartsOfArea

LEMMA StartHas == StartMaster => StartEffect
  BY DEF StartMaster, StartsPerhaps, End, Fails, StartEffect

LEMMA StartsHave ==
  ASSUME TypeOK, NEW t \in {conf, None}, Starts(t)
  PROVE  /\ pki["ca.crt"] \in Made
         /\ cluster' = [ca |-> pki["ca.crt"], token |-> cluster'.token]
         /\ cluster'.ca = pki["ca.crt"]
         /\ cluster'.token \in {None, conf} /\ cluster'.token # Torn
         /\ cluster'.token \in {None, DefaultToken} \union Made
         /\ order' = [order EXCEPT !.up = inits, !.prepareOfUp = order.prepare]
<1> DEFINE k == IF t = Torn THEN None ELSE t
<1>1. /\ pki["ca.crt"] \in Made
      /\ cluster' = [ca |-> pki["ca.crt"], token |-> k]
      /\ order' = [order EXCEPT !.up = inits, !.prepareOfUp = order.prepare]
  BY DEF Starts, CanInit
<1>2. k \in {None, conf} /\ k # Torn
  BY Distinct
<1>3. conf \in {None, Torn, DefaultToken} \union Made
  BY DEF TypeOK, SecretsOK
<1>4. k \in {None, DefaultToken} \union Made
  BY <1>2, <1>3
<1> HIDE DEF k
<1>5. cluster'.ca = pki["ca.crt"] /\ cluster'.token = k
  BY <1>1
<1>6. QED
  BY <1>1, <1>2, <1>4, <1>5

LEMMA JoinHas == ASSUME NEW n, JoinMinion(n) PROVE JoinEffect(n)
  BY DEF JoinMinion, Joins, End, Fails, JoinEffect

LEMMA InterruptedHas ==
  ASSUME ControlOK, NEW n \in Nodes, Interrupted(n), Fails(n, "killed")
  PROVE  InterruptedEffect(n)
<1>1. n # Master => n \in Minions /\ pc[n] \in {"idle", "kubeadm", "reset"}
  BY DEF ControlOK, Nodes
<1>2. /\ UNCHANGED <<config, bak, cmd, loaded, inits, made>>
      /\ pc' = [pc EXCEPT ![n] = "idle"] /\ result' = [result EXCEPT ![n] = "killed"]
  BY DEF Interrupted, Fails
<1>3. \/ file' = file
      \/ /\ n = Master /\ pc[Master] = "write"
         /\ file' = [file EXCEPT ![Master] = TornFile]
  BY <1>1 DEF Interrupted
<1> DEFINE Rest ==
      /\ pki' # pki => /\ n = Master
                       /\ \/ \E f \in CertFiles : pki' = [pki EXCEPT ![f] = Torn]
                          \/ pki' = [f \in CertFiles |-> None]
      /\ \/ UNCHANGED <<cluster, order>>
         \/ /\ n = Master /\ pc[Master] = "kubeadm"
            /\ Starts(conf) \/ Starts(None)
         \/ n = Master /\ cluster' = Down /\ UNCHANGED order
      /\ joined' \subseteq joined \/ (n \in Minions /\ joined' = joined \union {n})
<1>4. ASSUME UNCHANGED <<pki, live, order>> PROVE Rest
  BY <1>4 DEF live
<1>5. ASSUME /\ \E f \in CertFiles :
                  pc[n] = CopyStep(f) /\ pki' = [pki EXCEPT ![f] = Torn]
             /\ UNCHANGED <<live, order>>
      PROVE  Rest
  BY <1>1, <1>5 DEF live, CopyStep
<1>6. ASSUME n = Master, pc[n] = "kubeadm", StartsPerhaps,
             UNCHANGED <<pki, joined>>
      PROVE  Rest
  BY <1>6 DEF StartsPerhaps
<1>7. ASSUME n # Master, Joins(n), UNCHANGED <<pki, cluster, order>>
      PROVE  Rest
  BY <1>1, <1>7 DEF Joins
<1>8. ASSUME Resets(n), UNCHANGED order PROVE Rest
  BY <1>8 DEF Resets
<1>9. Rest
  BY <1>4, <1>5, <1>6, <1>7, <1>8 DEF Interrupted
<1>10. QED
  BY <1>2, <1>3, <1>9 DEF InterruptedEffect

LEMMA KillHas == ASSUME ControlOK, NEW n \in Nodes, Kill(n) PROVE KillEffect(n)
<1>1. InterruptedEffect(n)
  BY InterruptedHas DEF Kill
<1>2. n # Master => pc[n] \in {"idle", "kubeadm", "reset"}
  BY DEF ControlOK, Nodes
<1>3. QED
  BY <1>1, <1>2 DEF Kill, KillEffect, AreaFiles

LEMMA RebootHas == ASSUME ControlOK, RebootMaster PROVE RebootEffect
<1>1. Master \in Nodes
  BY DEF Nodes
<1>2. QED
  BY <1>1, InterruptedHas DEF RebootMaster, RebootEffect

LEMMA CopyHas == PlaceCertificateAndKeyForCA => CopyEffect
  BY DEF PlaceCertificateAndKeyForCA, CopyFile, Then, End, Fails, CopyStep,
         CertFiles, CopyEffect

LEMMA ResetHas == ASSUME NEW n \in Nodes, StopKubernetes(n) PROVE ResetEffect(n)
  BY DEF StopKubernetes, Resets, End, Fails, ResetEffect

LEMMA InitInv == Init => IInv
<1> SUFFICES ASSUME Init PROVE IInv
  OBVIOUS
<1> USE MasterAssumption, BoundsAssumption
    DEF Init, Nodes, InitSteps, UpSteps, None, Torn, DefaultToken, Made,
        ConfigFiles, AreaFiles, CertFiles, EmptyArea, NoFile, NewFile, Down
<1>1. ControlOK
  BY DEF ControlOK, Steps, Commands, Results
<1>2. SecretsOK
  BY DEF SecretsOK
<1>3. LiveOK
  BY DEF LiveOK
<1>4. CountsOK
  BY DEF CountsOK
<1>5. faults \in 0..MaxFaults
  OBVIOUS
<1>6. RunInv /\ ChainInv /\ PairInv
  BY DEF RunInv, ChainInv, PairInv
<1>7. FileInv
  BY DEF FileInv, ConfigNotLost
<1>8. AgeInv /\ OrderInv
  BY DEF AgeInv, OrderInv
<1>9. QED
  BY <1>1, <1>2, <1>3, <1>4, <1>5, <1>6, <1>7, <1>8 DEF IInv, TypeOK

LEMMA ControlNext == TypeOK /\ [Next]_vars => ControlOK'
<1> SUFFICES ASSUME TypeOK, [Next]_vars PROVE ControlOK'
  OBVIOUS
<1> USE MasterAssumption DEF TypeOK, ControlOK, Steps, Commands, Results,
            AreaFiles, Then, End, Fails, config, secrets, live, control,
            Nodes, InitSteps, UpSteps, CopyStep
<1>1. CASE Initialize
  BY <1>1 DEF Initialize, Run, Accepts, ValidateToken,
              ValidateTokenCertHash
<1>2. CASE Prepare
  BY <1>2 DEF Prepare, Run, Accepts, ValidateToken, ValidateTokenCertHash
<1>3. ASSUME NEW n \in Nodes, BringUp(n) PROVE ControlOK'
  BY <1>3, ZenonT(30)
  DEF BringUp, Run, Accepts, ValidateToken, ValidateTokenCertHash
<1>4. ASSUME NEW n \in Nodes, TearDown(n) PROVE ControlOK'
  BY <1>4 DEF TearDown, Run, Accepts, ValidateToken, ValidateTokenCertHash
<1>5. CASE CreateCertKeyArea
  BY <1>5 DEF CreateCertKeyArea
<1>6. ASSUME NEW f \in AreaFiles, CreateFile(f) PROVE ControlOK'
  BY <1>6, ZenonT(40) DEF CreateFile, Source, StepAfter
<1>7. CASE CreateDigestForCA
  BY <1>7 DEF CreateDigestForCA
<1>8. CASE CreateToken
  BY <1>8, ZenonT(30) DEF CreateToken
<1>9. CASE BackUpConfigYAML
  BY <1>9 DEF BackUpConfigYAML
<1>10. CASE WriteConfigYAML
  BY <1>10, ZenonT(30) DEF WriteConfigYAML, UpdateConfigYAMLContents
<1>11. CASE OpenPermissions
  BY <1>11 DEF OpenPermissions
<1>12. CASE CreateKubeAdmConfigFile
  <2>1. UNCHANGED cmd /\ pc' = [pc EXCEPT ![Master] = "idle"]
    BY <1>12 DEF CreateKubeAdmConfigFile
  <2>2. \E r \in {"ok", "failed"} : result' = [result EXCEPT ![Master] = r]
    BY <1>12 DEF CreateKubeAdmConfigFile
  <2>3. result' \in [Nodes -> Results]
    BY <2>2
  <2>4. QED
    BY <2>1, <2>3
<1>13. CASE PlaceCertificateAndKeyForCA
  <2>1. CopyEffect
    BY <1>13, CopyHas
  <2>2. cmd' = cmd
    BY <2>1 DEF CopyEffect
  <2>3. PICK s \in {"idle", "copy key", "kubeadm"} : pc' = [pc EXCEPT ![Master] = s]
    BY <2>1 DEF CopyEffect
  <2>4. result' = result \/ \E r \in {"failed", "no CA"} :
                              result' = [result EXCEPT ![Master] = r]
    BY <2>1 DEF CopyEffect
  <2>5. result' \in [Nodes -> Results]
    BY <2>4
  <2>6. pc' \in [Nodes -> Steps]
    BY <2>3
  <2>7. \A n \in Minions : pc'[n] = pc[n]
    BY <2>3
  <2>8. QED
    BY <2>2, <2>5, <2>6, <2>7
<1>14. CASE StartMaster
  <2>1. StartEffect
    BY <1>14, StartHas
  <2>2. UNCHANGED cmd /\ pc' = [pc EXCEPT ![Master] = "idle"]
    BY <2>1 DEF StartEffect
  <2>3. result' \in [Nodes -> Results]
    BY <2>1 DEF StartEffect
  <2>4. QED
    BY <2>2, <2>3
<1>15. ASSUME NEW n \in Minions, JoinMinion(n) PROVE ControlOK'
  <2>1. JoinEffect(n)
    BY <1>15, JoinHas
  <2>2. cmd' = cmd /\ pc' = [pc EXCEPT ![n] = "idle"]
    BY <2>1 DEF JoinEffect
  <2>3. result' \in [Nodes -> Results]
    BY <2>1 DEF JoinEffect
  <2>4. pc' \in [Nodes -> Steps] /\ \A m \in Minions : pc'[m] \in {pc[m], "idle"}
    BY <2>2
  <2>5. QED
    BY <2>2, <2>3, <2>4
<1>16. ASSUME NEW n \in Nodes, StopKubernetes(n) PROVE ControlOK'
  <2>1. ResetEffect(n)
    BY <1>16, ResetHas
  <2>2. QED
    BY <2>1 DEF ResetEffect
<1>17. ASSUME NEW n \in Minions, CopyConfig(n) PROVE ControlOK'
  BY <1>17 DEF CopyConfig
<1>18. CASE RestoreConfig
  BY <1>18 DEF RestoreConfig
<1>19. CASE TokenExpires
  BY <1>19 DEF TokenExpires
<1>20. ASSUME NEW n \in Nodes, Kill(n) PROVE ControlOK'
  <2>1. KillEffect(n)
    BY <1>20, KillHas
  <2>2. QED
    BY <2>1 DEF KillEffect, InterruptedEffect
<1>21. CASE RebootMaster
  <2>1. RebootEffect
    BY <1>21, RebootHas
  <2>2. QED
    BY <2>1 DEF RebootEffect, InterruptedEffect
<1>22. CASE UNCHANGED vars
  BY <1>22 DEF vars
<1>23. QED
  BY <1>1, <1>2, <1>3, <1>4, <1>5, <1>6, <1>7, <1>8, <1>9, <1>10, <1>11,
     <1>12, <1>13, <1>14, <1>15, <1>16, <1>17, <1>18, <1>19, <1>20, <1>21,
     <1>22
  DEF Next, Command, Step, Environment

(* Writing one file, or none, with a value of the files' type keeps it.    *)
LEMMA OneWritten ==
  ASSUME NEW S, NEW T, NEW g \in [S -> T], NEW V, V \subseteq T, NEW h,
         \E f \in S, v \in V : h \in {g, [g EXCEPT ![f] = v]}
  PROVE  h \in [S -> T]
OBVIOUS

LEMMA SecretsNext == TypeOK /\ ChainInv /\ [Next]_vars => SecretsOK'
<1> SUFFICES ASSUME TypeOK, ChainInv, [Next]_vars PROVE SecretsOK'
  OBVIOUS
<1> USE MasterAssumption, BoundsAssumption DEF TypeOK, ControlOK,
            SecretsOK, CountsOK, ChainInv, ConfigFiles, AreaFiles,
            CertFiles, EmptyArea, NoFile, TornFile, Made, None, Torn,
            DefaultToken, Then, End, Fails, config, secrets, live, control,
            Nodes, InitSteps, UpSteps, CopyStep
<1>1. CASE Initialize
  BY <1>1 DEF Initialize, Run, Accepts, ValidateToken,
              ValidateTokenCertHash
<1>2. CASE Prepare
  BY <1>2 DEF Prepare, Run, Accepts, ValidateToken, ValidateTokenCertHash
<1>3. ASSUME NEW n \in Nodes, BringUp(n) PROVE SecretsOK'
  BY <1>3 DEF BringUp, Run, Accepts, ValidateToken, ValidateTokenCertHash
<1>4. ASSUME NEW n \in Nodes, TearDown(n) PROVE SecretsOK'
  BY <1>4 DEF TearDown, Run, Accepts, ValidateToken, ValidateTokenCertHash
<1>5. CASE CreateCertKeyArea
  <2>1. area' \in PartsOfArea
    BY <1>5, EmptyIsAPart DEF CreateCertKeyArea
  <2>2. area' \in [AreaFiles -> {None, Torn} \union Made]
    BY <2>1, PartsTyped
  <2>3. QED
    BY <1>5, <2>2 DEF CreateCertKeyArea
<1>6. ASSUME NEW f \in AreaFiles, CreateFile(f) PROVE SecretsOK'
  BY <1>6 DEF CreateFile, Source, StepAfter
<1>7. CASE CreateDigestForCA
  BY <1>7 DEF CreateDigestForCA
<1>8. CASE CreateToken
  BY <1>8 DEF CreateToken
<1>9. CASE BackUpConfigYAML
  BY <1>9 DEF BackUpConfigYAML
<1>10. CASE WriteConfigYAML
  BY <1>10 DEF WriteConfigYAML, UpdateConfigYAMLContents
<1>11. CASE OpenPermissions
  BY <1>11 DEF OpenPermissions
<1>12. CASE CreateKubeAdmConfigFile
  BY <1>12 DEF CreateKubeAdmConfigFile
<1>13. CASE PlaceCertificateAndKeyForCA
  <2>1. CopyEffect
    BY <1>13, CopyHas
  <2>2. \E f \in CertFiles, v \in {Torn, area["ca.crt"], area["ca.key"]} :
          pki' \in {pki, [pki EXCEPT ![f] = v]}
    BY <2>1 DEF CopyEffect
  <2>3. pki' \in [CertFiles -> {None, Torn} \union Made]
    <3>1. /\ pki \in [CertFiles -> {None, Torn} \union Made]
          /\ {Torn, area["ca.crt"], area["ca.key"]} \subseteq {None, Torn} \union Made
      OBVIOUS
    <3>2. QED
      BY ONLY <2>2, <3>1, OneWritten
  <2>4. UNCHANGED <<file, bak, area, conf, loaded, made>>
    BY <2>1 DEF CopyEffect
  <2>5. QED
    BY <2>3, <2>4
<1>14. CASE StartMaster
  <2>1. StartEffect
    BY <1>14, StartHas
  <2>2. QED
    BY <2>1 DEF StartEffect
<1>15. ASSUME NEW n \in Minions, JoinMinion(n) PROVE SecretsOK'
  BY <1>15 DEF JoinMinion, Joins
<1>16. ASSUME NEW n \in Nodes, StopKubernetes(n) PROVE SecretsOK'
  <2>1. ResetEffect(n)
    BY <1>16, ResetHas
  <2>2. QED
    BY <2>1 DEF ResetEffect
<1>17. ASSUME NEW n \in Minions, CopyConfig(n) PROVE SecretsOK'
  BY <1>17 DEF CopyConfig
<1>18. CASE RestoreConfig
  BY <1>18 DEF RestoreConfig
<1>19. CASE TokenExpires
  BY <1>19 DEF TokenExpires
<1>20. ASSUME NEW n \in Nodes, Kill(n) PROVE SecretsOK'
  <2>1. KillEffect(n)
    BY <1>20, KillHas
  <2>2. area' \in [AreaFiles -> {None, Torn} \union Made]
    <3>1. CASE area' \in PartsOfArea
      BY <3>1, PartsTyped
    <3>2. CASE area' = area \/ area' = [area EXCEPT ![pc[Master]] = Torn]
      BY <3>2
    <3>3. QED
      BY <2>1, <3>1, <3>2 DEF KillEffect
  <2>3. QED
    BY <2>1, <2>2 DEF KillEffect, InterruptedEffect
<1>21. CASE RebootMaster
  <2>1. RebootEffect
    BY <1>21, RebootHas
  <2>2. QED
    BY <2>1 DEF RebootEffect, InterruptedEffect
<1>22. CASE UNCHANGED vars
  BY <1>22 DEF vars
<1>23. QED
  BY <1>1, <1>2, <1>3, <1>4, <1>5, <1>6, <1>7, <1>8, <1>9, <1>10, <1>11,
     <1>12, <1>13, <1>14, <1>15, <1>16, <1>17, <1>18, <1>19, <1>20, <1>21,
     <1>22
  DEF Next, Command, Step, Environment

LEMMA InterruptedLive ==
  ASSUME TypeOK, NEW n \in Nodes, InterruptedEffect(n) PROVE LiveOK'
<1>1. UNCHANGED config
  BY DEF InterruptedEffect
<1>2. joined' \subseteq Minions
  BY DEF InterruptedEffect, TypeOK, LiveOK
<1>3. cluster' \in [ca : {None} \union Made, token : {None, DefaultToken} \union Made]
  <2>1. CASE UNCHANGED <<cluster, order>>
    BY <2>1 DEF TypeOK, LiveOK
  <2>2. ASSUME NEW t \in {conf, None}, Starts(t) PROVE
            cluster' \in [ca : {None} \union Made, token : {None, DefaultToken} \union Made]
    <3>1. /\ pki["ca.crt"] \in Made
          /\ cluster' = [ca |-> pki["ca.crt"], token |-> cluster'.token]
          /\ cluster'.token \in {None, DefaultToken} \union Made
      BY <2>2, StartsHave
    <3>2. QED
      BY <3>1
  <2>3. CASE cluster' = Down
    BY <2>3 DEF Down
  <2>4. QED
    BY <2>1, <2>2, <2>3 DEF InterruptedEffect
<1>4. QED
  BY <1>1, <1>2, <1>3 DEF TypeOK, LiveOK, config

LEMMA LiveNext == TypeOK /\ [Next]_vars => LiveOK'
<1> SUFFICES ASSUME TypeOK, [Next]_vars PROVE LiveOK'
  OBVIOUS
<1> USE MasterAssumption DEF TypeOK, SecretsOK, LiveOK, Down, CertFiles,
            Then, End, Fails, config, secrets, live, control, Nodes,
            InitSteps, UpSteps, CopyStep
<1>1. CASE Initialize
  BY <1>1 DEF Initialize, Run, Accepts, ValidateToken,
              ValidateTokenCertHash
<1>2. CASE Prepare
  BY <1>2 DEF Prepare, Run, Accepts, ValidateToken, ValidateTokenCertHash
<1>3. ASSUME NEW n \in Nodes, BringUp(n) PROVE LiveOK'
  BY <1>3 DEF BringUp, Run, Accepts, ValidateToken, ValidateTokenCertHash
<1>4. ASSUME NEW n \in Nodes, TearDown(n) PROVE LiveOK'
  BY <1>4 DEF TearDown, Run, Accepts, ValidateToken, ValidateTokenCertHash
<1>5. CASE CreateCertKeyArea
  BY <1>5 DEF CreateCertKeyArea
<1>6. ASSUME NEW f \in AreaFiles, CreateFile(f) PROVE LiveOK'
  BY <1>6 DEF CreateFile, Source, StepAfter
<1>7. CASE CreateDigestForCA
  BY <1>7 DEF CreateDigestForCA
<1>8. CASE CreateToken
  BY <1>8 DEF CreateToken
<1>9. CASE BackUpConfigYAML
  BY <1>9 DEF BackUpConfigYAML
<1>10. CASE WriteConfigYAML
  BY <1>10 DEF WriteConfigYAML, UpdateConfigYAMLContents
<1>11. CASE OpenPermissions
  BY <1>11 DEF OpenPermissions
<1>12. CASE CreateKubeAdmConfigFile
  BY <1>12 DEF CreateKubeAdmConfigFile
<1>13. CASE PlaceCertificateAndKeyForCA
  <2>1. CopyEffect
    BY <1>13, CopyHas
  <2>2. QED
    BY <2>1 DEF CopyEffect
<1>14. CASE StartMaster
  <2>1. StartEffect
    BY <1>14, StartHas
  <2>2. CASE UNCHANGED <<cluster, order>>
    BY <2>1, <2>2 DEF StartEffect
  <2>3. ASSUME NEW t \in {conf, None}, Starts(t) PROVE LiveOK'
    <3>1. /\ pki["ca.crt"] \in Made
          /\ cluster' = [ca |-> pki["ca.crt"], token |-> cluster'.token]
          /\ cluster'.token \in {None, DefaultToken} \union Made
      BY <2>3, StartsHave
    <3>2. QED
      BY <2>1, <3>1 DEF StartEffect
  <2>4. QED
    BY <2>1, <2>2, <2>3 DEF StartEffect
<1>15. ASSUME NEW n \in Minions, JoinMinion(n) PROVE LiveOK'
  <2>1. JoinEffect(n)
    BY <1>15, JoinHas
  <2>2. QED
    BY <2>1 DEF JoinEffect
<1>16. ASSUME NEW n \in Nodes, StopKubernetes(n) PROVE LiveOK'
  <2>1. ResetEffect(n)
    BY <1>16, ResetHas
  <2>2. QED
    BY <2>1 DEF ResetEffect
<1>17. ASSUME NEW n \in Minions, CopyConfig(n) PROVE LiveOK'
  BY <1>17 DEF CopyConfig
<1>18. CASE RestoreConfig
  BY <1>18 DEF RestoreConfig
<1>19. CASE TokenExpires
  BY <1>19 DEF TokenExpires
<1>20. ASSUME NEW n \in Nodes, Kill(n) PROVE LiveOK'
  BY <1>20, KillHas, InterruptedLive DEF KillEffect
<1>21. CASE RebootMaster
  <2>1. RebootEffect
    BY <1>21, RebootHas
  <2>2. QED
    BY <2>1, InterruptedLive DEF RebootEffect
<1>22. CASE UNCHANGED vars
  BY <1>22 DEF vars
<1>23. QED
  BY <1>1, <1>2, <1>3, <1>4, <1>5, <1>6, <1>7, <1>8, <1>9, <1>10, <1>11,
     <1>12, <1>13, <1>14, <1>15, <1>16, <1>17, <1>18, <1>19, <1>20, <1>21,
     <1>22
  DEF Next, Command, Step, Environment

LEMMA InterruptedCounts ==
  ASSUME CountsOK, NEW n \in Nodes, InterruptedEffect(n) PROVE CountsOK'
<1>1. inits' = inits
  BY DEF InterruptedEffect
<1>2. \/ order' = order
      \/ order' = [order EXCEPT !.up = inits, !.prepareOfUp = order.prepare]
  BY DEF InterruptedEffect, Starts
<1>3. QED
  BY <1>1, <1>2 DEF CountsOK

LEMMA CountsNext == TypeOK /\ [Next]_vars => CountsOK'
<1> SUFFICES ASSUME TypeOK, [Next]_vars PROVE CountsOK'
  OBVIOUS
<1> USE MasterAssumption DEF TypeOK, CountsOK, Then, End, Fails, config,
            secrets, live, control
<1>1. CASE Initialize
  <2>1. inits' \in {inits, inits + 1} /\ inits < MaxInits /\ order' = order
    BY <1>1 DEF Initialize
  <2>2. QED
    BY <2>1, BoundsAssumption
<1>2. CASE Prepare
  BY <1>2 DEF Prepare, Run, Accepts, ValidateToken, ValidateTokenCertHash
<1>3. ASSUME NEW n \in Nodes, BringUp(n) PROVE CountsOK'
  BY <1>3 DEF BringUp, Run, Accepts, ValidateToken, ValidateTokenCertHash
<1>4. ASSUME NEW n \in Nodes, TearDown(n) PROVE CountsOK'
  BY <1>4 DEF TearDown, Run, Accepts, ValidateToken, ValidateTokenCertHash
<1>5. CASE CreateCertKeyArea
  BY <1>5 DEF CreateCertKeyArea
<1>6. ASSUME NEW f \in AreaFiles, CreateFile(f) PROVE CountsOK'
  BY <1>6 DEF CreateFile, Source, StepAfter
<1>7. CASE CreateDigestForCA
  BY <1>7 DEF CreateDigestForCA
<1>8. CASE CreateToken
  BY <1>8 DEF CreateToken
<1>9. CASE BackUpConfigYAML
  BY <1>9 DEF BackUpConfigYAML
<1>10. CASE WriteConfigYAML
  BY <1>10 DEF WriteConfigYAML, UpdateConfigYAMLContents
<1>11. CASE OpenPermissions
  BY <1>11 DEF OpenPermissions
<1>12. CASE CreateKubeAdmConfigFile
  BY <1>12 DEF CreateKubeAdmConfigFile
<1>13. CASE PlaceCertificateAndKeyForCA
  <2>1. CopyEffect
    BY <1>13, CopyHas
  <2>2. QED
    BY <2>1 DEF CopyEffect
<1>14. CASE StartMaster
  BY <1>14 DEF StartMaster, StartsPerhaps, Starts, CanInit
<1>15. ASSUME NEW n \in Minions, JoinMinion(n) PROVE CountsOK'
  BY <1>15 DEF JoinMinion, Joins
<1>16. ASSUME NEW n \in Nodes, StopKubernetes(n) PROVE CountsOK'
  <2>1. ResetEffect(n)
    BY <1>16, ResetHas
  <2>2. QED
    BY <2>1 DEF ResetEffect
<1>17. ASSUME NEW n \in Minions, CopyConfig(n) PROVE CountsOK'
  BY <1>17 DEF CopyConfig
<1>18. CASE RestoreConfig
  BY <1>18 DEF RestoreConfig
<1>19. CASE TokenExpires
  BY <1>19 DEF TokenExpires
<1>20. ASSUME NEW n \in Nodes, Kill(n) PROVE CountsOK'
  <2>1. KillEffect(n)
    BY <1>20, KillHas
  <2>2. QED
    BY <2>1, InterruptedCounts DEF KillEffect
<1>21. CASE RebootMaster
  <2>1. RebootEffect
    BY <1>21, RebootHas
  <2>2. QED
    BY <2>1, InterruptedCounts DEF RebootEffect, Nodes
<1>22. CASE UNCHANGED vars
  BY <1>22 DEF vars
<1>23. QED
  BY <1>1, <1>2, <1>3, <1>4, <1>5, <1>6, <1>7, <1>8, <1>9, <1>10, <1>11,
     <1>12, <1>13, <1>14, <1>15, <1>16, <1>17, <1>18, <1>19, <1>20, <1>21,
     <1>22
  DEF Next, Command, Step, Environment

LEMMA FaultsNext == TypeOK /\ [Next]_vars => (faults \in 0..MaxFaults)'
<1> SUFFICES ASSUME TypeOK, [Next]_vars PROVE faults' \in 0..MaxFaults
  OBVIOUS
<1>1. UNCHANGED faults \/ (faults < MaxFaults /\ faults' = faults + 1)
  BY DEF Next, vars, Command, Step, Environment, Initialize, Prepare, BringUp,
         TearDown, Run, CreateCertKeyArea, CreateFile, CreateDigestForCA,
         CreateToken, BackUpConfigYAML, WriteConfigYAML, OpenPermissions,
         CreateKubeAdmConfigFile, PlaceCertificateAndKeyForCA, CopyFile,
         StartMaster, JoinMinion, StopKubernetes, CopyConfig, RestoreConfig,
         TokenExpires, Kill, RebootMaster, Then, End, Fails
<1>2. QED
  BY <1>1, BoundsAssumption DEF TypeOK

LEMMA TypeNext == TypeOK /\ ChainInv /\ [Next]_vars => TypeOK'
  BY ControlNext, SecretsNext, LiveNext, CountsNext, FaultsNext DEF TypeOK

LEMMA Numbers ==
  TypeOK => /\ inits \in Nat /\ order.prepare \in Nat /\ order.up \in Nat
            /\ \A n \in Nodes : file[n].token \in Nat
            /\ bak.token \in Nat
  BY BoundsAssumption DEF TypeOK, SecretsOK, CountsOK, ConfigFiles, None, Made

LEMMA Shapes ==
  TypeOK => /\ ControlOK /\ Master \in Nodes
            /\ pc = [n \in Nodes |-> pc[n]] /\ file = [n \in Nodes |-> file[n]]
            /\ order = [prepare |-> order.prepare, up |-> order.up,
                        prepareOfUp |-> order.prepareOfUp]
            /\ cluster = [ca |-> cluster.ca, token |-> cluster.token]
            /\ area = [f \in AreaFiles |-> area[f]]
  BY DEF TypeOK, ControlOK, SecretsOK, LiveOK, CountsOK, Nodes

LEMMA RunNext == TypeOK /\ RunInv /\ [Next]_vars => RunInv'
<1> SUFFICES ASSUME TypeOK, RunInv, [Next]_vars PROVE RunInv'
  OBVIOUS
<1> USE MasterAssumption, Distinct DEF TypeOK, ControlOK, SecretsOK,
            RunInv, AreaFiles, CertFiles, EmptyArea, NoFile, TornFile,
            ConfigFiles, Then, End, Fails, config, secrets, live, control,
            Nodes, InitSteps, UpSteps, CopyStep
<1>1. CASE Initialize
  BY <1>1, ZenonT(30) DEF Initialize, Run, Accepts, ValidateToken,
              ValidateTokenCertHash
<1>2. CASE Prepare
  BY <1>2, ZenonT(30)
  DEF Prepare, Run, Accepts, ValidateToken, ValidateTokenCertHash
<1>3. ASSUME NEW n \in Nodes, BringUp(n) PROVE RunInv'
  BY <1>3, ZenonT(60)
  DEF BringUp, Run, Accepts, ValidateToken, ValidateTokenCertHash
<1>4. ASSUME NEW n \in Nodes, TearDown(n) PROVE RunInv'
  BY <1>4, ZenonT(30)
  DEF TearDown, Run, Accepts, ValidateToken, ValidateTokenCertHash
<1>5. CASE CreateCertKeyArea
  BY <1>5 DEF CreateCertKeyArea
<1>6. ASSUME NEW f \in AreaFiles, CreateFile(f) PROVE RunInv'
  BY <1>6, ZenonT(30) DEF CreateFile, Source, StepAfter
<1>7. CASE CreateDigestForCA
  BY <1>7 DEF CreateDigestForCA
<1>8. CASE CreateToken
  BY <1>8 DEF CreateToken
<1>9. CASE BackUpConfigYAML
  BY <1>9 DEF BackUpConfigYAML
<1>10. CASE WriteConfigYAML
  BY <1>10 DEF WriteConfigYAML, UpdateConfigYAMLContents
<1>11. CASE OpenPermissions
  BY <1>11 DEF OpenPermissions
<1>12. CASE CreateKubeAdmConfigFile
  BY <1>12 DEF CreateKubeAdmConfigFile
<1>13. CASE PlaceCertificateAndKeyForCA
  <2>1. CopyEffect
    BY <1>13, CopyHas
  <2>2. QED
    BY <2>1, ZenonT(30) DEF CopyEffect
<1>14. CASE StartMaster
  <2>1. StartEffect
    BY <1>14, StartHas
  <2>2. QED
    BY <2>1 DEF StartEffect
<1>15. ASSUME NEW n \in Minions, JoinMinion(n) PROVE RunInv'
  <2>1. JoinEffect(n)
    BY <1>15, JoinHas
  <2>2. QED
    BY <2>1 DEF JoinEffect
<1>16. ASSUME NEW n \in Nodes, StopKubernetes(n) PROVE RunInv'
  <2>1. ResetEffect(n)
    BY <1>16, ResetHas
  <2>2. QED
    BY <2>1 DEF ResetEffect
<1>17. ASSUME NEW n \in Minions, CopyConfig(n) PROVE RunInv'
  BY <1>17 DEF CopyConfig
<1>18. CASE RestoreConfig
  BY <1>18 DEF RestoreConfig
<1>19. CASE TokenExpires
  BY <1>19 DEF TokenExpires
<1>20. ASSUME NEW n \in Nodes, Kill(n) PROVE RunInv'
  <2>1. KillEffect(n)
    BY <1>20, KillHas
  <2>2. QED
    BY <2>1 DEF KillEffect, InterruptedEffect
<1>21. CASE RebootMaster
  <2>1. RebootEffect
    BY <1>21, RebootHas
  <2>2. QED
    BY <2>1 DEF RebootEffect, InterruptedEffect
<1>22. CASE UNCHANGED vars
  BY <1>22 DEF vars
<1>23. QED
  BY <1>1, <1>2, <1>3, <1>4, <1>5, <1>6, <1>7, <1>8, <1>9, <1>10, <1>11,
     <1>12, <1>13, <1>14, <1>15, <1>16, <1>17, <1>18, <1>19, <1>20, <1>21,
     <1>22
  DEF Next, Command, Step, Environment

LEMMA ChainNext == TypeOK /\ ChainInv /\ [Next]_vars => ChainInv'
<1> SUFFICES ASSUME TypeOK, ChainInv, [Next]_vars PROVE ChainInv'
  OBVIOUS
<1> USE MasterAssumption, Distinct DEF TypeOK, ControlOK, SecretsOK,
            ChainInv, AreaFiles, CertFiles, EmptyArea, NoFile, TornFile,
            ConfigFiles, Then, End, Fails, config, secrets, live, control,
            Nodes, InitSteps, UpSteps, CopyStep
<1>1. CASE Initialize
  BY <1>1 DEF Initialize, Run, Accepts, ValidateToken,
              ValidateTokenCertHash
<1>2. CASE Prepare
  BY <1>2 DEF Prepare, Run, Accepts, ValidateToken, ValidateTokenCertHash
<1>3. ASSUME NEW n \in Nodes, BringUp(n) PROVE ChainInv'
  BY <1>3, ZenonT(30)
  DEF BringUp, Run, Accepts, ValidateToken, ValidateTokenCertHash
<1>4. ASSUME NEW n \in Nodes, TearDown(n) PROVE ChainInv'
  BY <1>4 DEF TearDown, Run, Accepts, ValidateToken, ValidateTokenCertHash
<1>5. CASE CreateCertKeyArea
  BY <1>5 DEF CreateCertKeyArea
<1>6. ASSUME NEW f \in AreaFiles, CreateFile(f) PROVE ChainInv'
  BY <1>6 DEF CreateFile, Source, StepAfter
<1>7. CASE CreateDigestForCA
  BY <1>7 DEF CreateDigestForCA
<1>8. CASE CreateToken
  BY <1>8 DEF CreateToken
<1>9. CASE BackUpConfigYAML
  BY <1>9 DEF BackUpConfigYAML
<1>10. CASE WriteConfigYAML
  BY <1>10 DEF WriteConfigYAML, UpdateConfigYAMLContents
<1>11. CASE OpenPermissions
  BY <1>11 DEF OpenPermissions
<1>12. CASE CreateKubeAdmConfigFile
  BY <1>12 DEF CreateKubeAdmConfigFile
<1>13. CASE PlaceCertificateAndKeyForCA
  <2>1. CopyEffect
    BY <1>13, CopyHas
  <2>2. QED
    BY <2>1 DEF CopyEffect
<1>14. CASE StartMaster
  <2>1. StartEffect
    BY <1>14, StartHas
  <2>2. QED
    BY <2>1 DEF StartEffect
<1>15. ASSUME NEW n \in Minions, JoinMinion(n) PROVE ChainInv'
  BY <1>15 DEF JoinMinion, Joins
<1>16. ASSUME NEW n \in Nodes, StopKubernetes(n) PROVE ChainInv'
  <2>1. ResetEffect(n)
    BY <1>16, ResetHas
  <2>2. QED
    BY <2>1 DEF ResetEffect
<1>17. ASSUME NEW n \in Minions, CopyConfig(n) PROVE ChainInv'
  BY <1>17 DEF CopyConfig
<1>18. CASE RestoreConfig
  BY <1>18 DEF RestoreConfig
<1>19. CASE TokenExpires
  BY <1>19 DEF TokenExpires
<1>20. ASSUME NEW n \in Nodes, Kill(n) PROVE ChainInv'
  <2>1. KillEffect(n)
    BY <1>20, KillHas
  <2>2. QED
    BY <2>1 DEF KillEffect, InterruptedEffect
<1>21. CASE RebootMaster
  <2>1. RebootEffect
    BY <1>21, RebootHas
  <2>2. QED
    BY <2>1 DEF RebootEffect, InterruptedEffect
<1>22. CASE UNCHANGED vars
  BY <1>22 DEF vars
<1>23. QED
  BY <1>1, <1>2, <1>3, <1>4, <1>5, <1>6, <1>7, <1>8, <1>9, <1>10, <1>11,
     <1>12, <1>13, <1>14, <1>15, <1>16, <1>17, <1>18, <1>19, <1>20, <1>21,
     <1>22
  DEF Next, Command, Step, Environment

LEMMA PairNext == TypeOK /\ ChainInv /\ PairInv /\ [Next]_vars => PairInv'
<1> SUFFICES ASSUME TypeOK, ChainInv, PairInv, [Next]_vars PROVE PairInv'
  OBVIOUS
<1> USE MasterAssumption, Distinct DEF TypeOK, ControlOK, SecretsOK,
            ChainInv, PairInv, AreaFiles, CertFiles, EmptyArea, NoFile,
            TornFile, ConfigFiles, Then, End, Fails, config, secrets, live,
            control, Nodes, InitSteps, UpSteps, CopyStep
<1>1. CASE Initialize
  BY <1>1 DEF Initialize, Run, Accepts, ValidateToken,
              ValidateTokenCertHash
<1>2. CASE Prepare
  BY <1>2 DEF Prepare, Run, Accepts, ValidateToken, ValidateTokenCertHash
<1>3. ASSUME NEW n \in Nodes, BringUp(n) PROVE PairInv'
  BY <1>3 DEF BringUp, Run, Accepts, ValidateToken, ValidateTokenCertHash
<1>4. ASSUME NEW n \in Nodes, TearDown(n) PROVE PairInv'
  BY <1>4 DEF TearDown, Run, Accepts, ValidateToken, ValidateTokenCertHash
<1>5. CASE CreateCertKeyArea
  <2>1. /\ area' \in PartsOfArea
        /\ pc' = [pc EXCEPT ![Master] = "idle"] \/ pc' = [pc EXCEPT ![Master] = "ca.key"]
    BY <1>5, EmptyIsAPart DEF CreateCertKeyArea
  <2>2. \A f \in AreaFiles : area'[f] \in {None, area[f]}
    BY <2>1, PartsTyped
  <2>3. pc'[Master] \notin {"copy key", "kubeadm"}
    BY <2>1
  <2>4. QED
    BY <2>2, <2>3
<1>6. ASSUME NEW f \in AreaFiles, CreateFile(f) PROVE PairInv'
  <2>1. /\ pc[Master] = f /\ pki' = pki
        /\ \/ pc' = [pc EXCEPT ![Master] = "idle"]
           \/ pc' = [pc EXCEPT ![Master] = StepAfter(f)]
        /\ area' \in {area, [area EXCEPT ![f] = Source(f)], [area EXCEPT ![f] = Torn]}
    BY <1>6 DEF CreateFile
  <2>2. pc'[Master] \notin {"copy key", "kubeadm"}
    BY <2>1 DEF StepAfter
  <2>3. CASE f = "ca.key"
    <3>1. area'["ca.crt"] = None
      BY <2>1, <2>3
    <3>2. QED
      BY <2>2, <3>1
  <2>4. CASE f = "ca.crt"
    <3>1. area'["ca.key"] = area["ca.key"]
      BY <2>1, <2>4
    <3>2. area'["ca.crt"] \in {None, Torn, area["ca.key"]}
      BY <2>1, <2>4 DEF Source
    <3>3. QED
      BY <2>2, <3>1, <3>2
  <2>5. CASE f \in {"ca.x509", "ca.rsa"}
    BY <2>1, <2>2, <2>5
  <2>6. QED
    BY <2>3, <2>4, <2>5
<1>7. CASE CreateDigestForCA
  BY <1>7 DEF CreateDigestForCA
<1>8. CASE CreateToken
  BY <1>8 DEF CreateToken
<1>9. CASE BackUpConfigYAML
  BY <1>9 DEF BackUpConfigYAML
<1>10. CASE WriteConfigYAML
  BY <1>10 DEF WriteConfigYAML, UpdateConfigYAMLContents
<1>11. CASE OpenPermissions
  BY <1>11 DEF OpenPermissions
<1>12. CASE CreateKubeAdmConfigFile
  BY <1>12 DEF CreateKubeAdmConfigFile
<1>13. CASE PlaceCertificateAndKeyForCA
  <2>1. CopyEffect
    BY <1>13, CopyHas
  <2>2. QED
    BY <2>1 DEF CopyEffect
<1>14. CASE StartMaster
  <2>1. StartEffect
    BY <1>14, StartHas
  <2>2. QED
    BY <2>1 DEF StartEffect
<1>15. ASSUME NEW n \in Minions, JoinMinion(n) PROVE PairInv'
  BY <1>15 DEF JoinMinion, Joins
<1>16. ASSUME NEW n \in Nodes, StopKubernetes(n) PROVE PairInv'
  <2>1. ResetEffect(n)
    BY <1>16, ResetHas
  <2>2. QED
    BY <2>1 DEF ResetEffect
<1>17. ASSUME NEW n \in Minions, CopyConfig(n) PROVE PairInv'
  BY <1>17 DEF CopyConfig
<1>18. CASE RestoreConfig
  BY <1>18 DEF RestoreConfig
<1>19. CASE TokenExpires
  BY <1>19 DEF TokenExpires
<1>20. ASSUME NEW n \in Nodes, Kill(n) PROVE PairInv'
  <2>1. KillEffect(n)
    BY <1>20, KillHas
  <2>2. pc' = [pc EXCEPT ![n] = "idle"] /\ (n # Master => pki' = pki /\ area' = area)
    BY <2>1 DEF KillEffect, InterruptedEffect
  <2>3. CASE n # Master
    BY <2>2, <2>3
  <2>4. CASE n = Master
    <3>1. /\ area'["ca.key"] \in {area["ca.key"], None, Torn}
          /\ area'["ca.crt"] \in {area["ca.crt"], None, Torn}
      <4>1. CASE area' \in PartsOfArea
        BY <4>1, PartsTyped
      <4>2. CASE area' = area \/ area' = [area EXCEPT ![pc[Master]] = Torn]
        BY <4>2
      <4>3. QED
        BY <2>1, <4>1, <4>2 DEF KillEffect
    <3>2. pc'[Master] = "idle"
      BY <2>2, <2>4
    <3>3. QED
      BY <3>1, <3>2
  <2>5. QED
    BY <2>3, <2>4
<1>21. CASE RebootMaster
  <2>1. RebootEffect
    BY <1>21, RebootHas
  <2>2. QED
    BY <2>1 DEF RebootEffect, InterruptedEffect
<1>22. CASE UNCHANGED vars
  BY <1>22 DEF vars
<1>23. QED
  BY <1>1, <1>2, <1>3, <1>4, <1>5, <1>6, <1>7, <1>8, <1>9, <1>10, <1>11,
     <1>12, <1>13, <1>14, <1>15, <1>16, <1>17, <1>18, <1>19, <1>20, <1>21,
     <1>22
  DEF Next, Command, Step, Environment

LEMMA NothingInThem ==
  \A left \in {NoFile, TornFile} : left.token = left.hash
<1>1. NoFile.token = NoFile.hash
  BY DEF NoFile
<1>2. TornFile.token = TornFile.hash
  BY DEF TornFile
<1>3. QED
  BY <1>1, <1>2

LEMMA FileNext == TypeOK /\ RunInv /\ ChainInv /\ FileInv /\ [Next]_vars =>
  FileInv'
<1> SUFFICES ASSUME TypeOK, RunInv, ChainInv, FileInv, [Next]_vars PROVE
             FileInv'
  OBVIOUS
<1> USE MasterAssumption, Distinct DEF TypeOK, ControlOK, SecretsOK,
            RunInv, ChainInv, FileInv, ConfigNotLost, AreaFiles, CertFiles,
            EmptyArea, NoFile, TornFile, ConfigFiles, Then, End, Fails,
            config, secrets, live, control, Nodes, InitSteps, UpSteps,
            CopyStep
<1>1. CASE Initialize
  BY <1>1, ZenonT(40) DEF Initialize, Run, Accepts, ValidateToken,
              ValidateTokenCertHash
<1>2. CASE Prepare
  BY <1>2 DEF Prepare, Run, Accepts, ValidateToken, ValidateTokenCertHash
<1>3. ASSUME NEW n \in Nodes, BringUp(n) PROVE FileInv'
  <2>1. /\ UNCHANGED <<file, bak, area, inits>>
        /\ \E s \in {"idle", "copy crt", "kubeadm"} : pc' = [pc EXCEPT ![n] = s]
        /\ n # Master => result'[Master] = result[Master]
        /\ cmd' = [cmd EXCEPT ![n] = "up"]
    BY <1>3 DEF BringUp, Run
  <2>2. QED
    BY <2>1
<1>4. ASSUME NEW n \in Nodes, TearDown(n) PROVE FileInv'
  BY <1>4, ZenonT(30)
  DEF TearDown, Run, Accepts, ValidateToken, ValidateTokenCertHash
<1>5. CASE CreateCertKeyArea
  BY <1>5 DEF CreateCertKeyArea
<1>6. ASSUME NEW f \in AreaFiles, CreateFile(f) PROVE FileInv'
  BY <1>6 DEF CreateFile, Source, StepAfter
<1>7. CASE CreateDigestForCA
  BY <1>7 DEF CreateDigestForCA
<1>8. CASE CreateToken
  BY <1>8 DEF CreateToken
<1>9. CASE BackUpConfigYAML
  <2>1. file[Master].is = "whole"
    BY <1>9 DEF BackUpConfigYAML
  <2>2. CASE Then(Master, "write")
    <3>1. /\ bak' = file[Master] /\ file' = [file EXCEPT ![Master] = NoFile]
          /\ pc' = [pc EXCEPT ![Master] = "write"]
      BY <1>9, <2>2 DEF BackUpConfigYAML
    <3>2. QED
      BY <2>1, <3>1
  <2>3. CASE Fails(Master, "failed")
    BY <1>9, <2>1, <2>3 DEF BackUpConfigYAML
  <2>4. QED
    BY <1>9, <2>2, <2>3 DEF BackUpConfigYAML
<1>10. CASE WriteConfigYAML
  <2>1. made.token = inits /\ made.hash = inits /\ bak.is = "whole"
    BY <1>10 DEF WriteConfigYAML
  <2>2. inits' = inits /\ area' = area
    BY <1>10 DEF WriteConfigYAML
  <2>3. CASE Then(Master, "chmod")
    <3>1. /\ file' = [file EXCEPT ![Master] =
                       [is |-> "whole", token |-> inits, hash |-> inits]]
          /\ pc' = [pc EXCEPT ![Master] = "chmod"] /\ bak' = bak
      BY <1>10, <2>1, <2>3 DEF WriteConfigYAML, UpdateConfigYAMLContents
    <3>2. QED
      BY <2>2, <3>1
  <2>4. CASE Fails(Master, "failed")
    <3>1. /\ \/ file' = [file EXCEPT ![Master] = bak] /\ bak' = NoFile
             \/ /\ \E left \in {NoFile, TornFile} :
                     file' = [file EXCEPT ![Master] = left]
                /\ bak' = bak
          /\ pc' = [pc EXCEPT ![Master] = "idle"]
          /\ result' = [result EXCEPT ![Master] = "failed"]
      BY <1>10, <2>4 DEF WriteConfigYAML
    <3>2. CASE file' = [file EXCEPT ![Master] = bak] /\ bak' = NoFile
      BY <2>1, <2>2, <3>1, <3>2
    <3>3. ASSUME NEW left \in {NoFile, TornFile}, bak' = bak,
                 file' = [file EXCEPT ![Master] = left]
          PROVE  FileInv'
      <4>1. left.token = left.hash
        BY <3>3, NothingInThem
      <4>2. \A n \in Nodes : file'[n] \in {file[n], left}
        BY <3>3
      <4>3. \A n \in Nodes : file'[n].token = file'[n].hash
        BY <4>1, <4>2
      <4>4. pc'[Master] = "idle" /\ result'[Master] = "failed"
        BY <3>1
      <4>5. QED
        BY <2>1, <3>3, <4>3, <4>4
    <3>4. QED
      BY <3>1, <3>2, <3>3
  <2>5. QED
    BY <1>10, <2>3, <2>4 DEF WriteConfigYAML
<1>11. CASE OpenPermissions
  BY <1>11 DEF OpenPermissions
<1>12. CASE CreateKubeAdmConfigFile
  <2>1. /\ UNCHANGED <<file, bak, area, inits, cmd>>
        /\ pc' = [pc EXCEPT ![Master] = "idle"] /\ cmd[Master] # "init"
    BY <1>12 DEF CreateKubeAdmConfigFile
  <2>2. QED
    BY <2>1
<1>13. CASE PlaceCertificateAndKeyForCA
  <2>1. CopyEffect
    BY <1>13, CopyHas
  <2>2. QED
    BY <2>1 DEF CopyEffect
<1>14. CASE StartMaster
  <2>1. StartEffect
    BY <1>14, StartHas
  <2>2. /\ UNCHANGED <<file, bak, area, inits, cmd>>
        /\ pc' = [pc EXCEPT ![Master] = "idle"] /\ cmd[Master] # "init"
    BY <2>1 DEF StartEffect
  <2>3. QED
    BY <2>2
<1>15. ASSUME NEW n \in Minions, JoinMinion(n) PROVE FileInv'
  <2>1. JoinEffect(n)
    BY <1>15, JoinHas
  <2>2. QED
    BY <2>1 DEF JoinEffect
<1>16. ASSUME NEW n \in Nodes, StopKubernetes(n) PROVE FileInv'
  <2>1. ResetEffect(n)
    BY <1>16, ResetHas
  <2>2. QED
    BY <2>1 DEF ResetEffect
<1>17. ASSUME NEW n \in Minions, CopyConfig(n) PROVE FileInv'
  BY <1>17 DEF CopyConfig
<1>18. CASE RestoreConfig
  BY <1>18 DEF RestoreConfig
<1>19. CASE TokenExpires
  BY <1>19 DEF TokenExpires
<1>20. ASSUME NEW n \in Nodes, Kill(n) PROVE FileInv'
  <2>1. KillEffect(n)
    BY <1>20, KillHas
  <2>2. /\ bak' = bak /\ inits' = inits /\ cmd' = cmd
        /\ pc' = [pc EXCEPT ![n] = "idle"] /\ result' = [result EXCEPT ![n] = "killed"]
    BY <2>1 DEF KillEffect, InterruptedEffect
  <2>3. file' # file => /\ pc[Master] = "write"
                        /\ file' = [file EXCEPT ![Master] = TornFile]
    BY <2>1 DEF KillEffect, InterruptedEffect
  <2>4. n # Master => area' = area /\ file' = file
    BY <2>1 DEF KillEffect, InterruptedEffect
  <2>5. \A m \in Nodes : file'[m].token = file'[m].hash
    <3>1. CASE file' = file
      BY <3>1
    <3>2. CASE file' = [file EXCEPT ![Master] = TornFile]
      BY <3>2
    <3>3. QED
      BY <2>3, <3>1, <3>2
  <2>6. ConfigNotLost'
    BY <2>2, <2>3
  <2>7. QED
    BY <2>2, <2>4, <2>5, <2>6
<1>21. CASE RebootMaster
  <2>1. RebootEffect
    BY <1>21, RebootHas
  <2>2. /\ bak' = bak /\ inits' = inits /\ cmd' = cmd
        /\ pc' = [pc EXCEPT ![Master] = "idle"] /\ result' = [result EXCEPT ![Master] = "killed"]
    BY <2>1 DEF RebootEffect, InterruptedEffect
  <2>3. file' # file => /\ pc[Master] = "write"
                        /\ file' = [file EXCEPT ![Master] = TornFile]
    BY <2>1 DEF RebootEffect, InterruptedEffect
  <2>4. result'[Master] = "killed"
    BY <2>2
  <2>5. \A m \in Nodes : file'[m].token = file'[m].hash
    <3>1. CASE file' = file
      BY <3>1
    <3>2. CASE file' = [file EXCEPT ![Master] = TornFile]
      BY <3>2
    <3>3. QED
      BY <2>3, <3>1, <3>2
  <2>6. ConfigNotLost'
    BY <2>2, <2>3
  <2>7. QED
    BY <2>2, <2>4, <2>5, <2>6
<1>22. CASE UNCHANGED vars
  BY <1>22 DEF vars
<1>23. QED
  BY <1>1, <1>2, <1>3, <1>4, <1>5, <1>6, <1>7, <1>8, <1>9, <1>10, <1>11,
     <1>12, <1>13, <1>14, <1>15, <1>16, <1>17, <1>18, <1>19, <1>20, <1>21,
     <1>22
  DEF Next, Command, Step, Environment

LEMMA InterruptedAge ==
  ASSUME TypeOK, AgeInv, NEW n \in Nodes, InterruptedEffect(n) PROVE AgeInv'
<1>1. /\ UNCHANGED <<bak, inits>>
      /\ pc'[Master] \in {pc[Master], "idle"}
      /\ file'[Master] \in {file[Master], TornFile}
  BY Shapes DEF InterruptedEffect
<1>2. n = Master => pc'[Master] = "idle"
  BY Shapes DEF InterruptedEffect
<1>3. n # Master => order' = order
  BY DEF InterruptedEffect
<1>4. order'.prepare = order.prepare /\ order'.up \in {order.up, inits}
  BY Shapes DEF InterruptedEffect, Starts
<1>5. "idle" \notin InitSteps
  BY DEF InitSteps
<1>6. QED
  BY <1>1, <1>2, <1>3, <1>4, <1>5, Numbers DEF AgeInv, TornFile, None

LEMMA AgeNext == TypeOK /\ RunInv /\ ChainInv /\ AgeInv /\ [Next]_vars =>
  AgeInv'
<1> SUFFICES ASSUME TypeOK, RunInv, ChainInv, AgeInv, [Next]_vars PROVE
             AgeInv'
  OBVIOUS
<1> USE MasterAssumption, Shapes, Numbers DEF AgeInv, None, NoFile,
            TornFile, Then, End, Fails, config, secrets, live, control,
            Nodes, InitSteps, UpSteps, CopyStep
<1>1. CASE Initialize
  <2>1. /\ file' = file /\ bak' = bak /\ order' = order
        /\ \/ inits' = inits + 1
           \/ inits' = inits /\ pc' = [pc EXCEPT ![Master] = "idle"]
    BY <1>1 DEF Initialize, Run
  <2>2. QED
    BY <2>1
<1>2. CASE Prepare
  BY <1>2 DEF Prepare, Run, Accepts, ValidateToken, ValidateTokenCertHash
<1>3. ASSUME NEW n \in Nodes, BringUp(n) PROVE AgeInv'
  BY <1>3 DEF BringUp, Run, Accepts, ValidateToken, ValidateTokenCertHash
<1>4. ASSUME NEW n \in Nodes, TearDown(n) PROVE AgeInv'
  BY <1>4 DEF TearDown, Run, Accepts, ValidateToken, ValidateTokenCertHash
<1>5. CASE CreateCertKeyArea
  BY <1>5 DEF CreateCertKeyArea
<1>6. ASSUME NEW f \in AreaFiles, CreateFile(f) PROVE AgeInv'
  <2>1. /\ UNCHANGED <<file, bak, inits, order>> /\ pc[Master] = f
        /\ pc'[Master] \in {"idle"} \union (InitSteps \ {"chmod"})
    BY <1>6 DEF CreateFile, StepAfter, AreaFiles
  <2>2. pc[Master] \in InitSteps \ {"chmod"}
    BY <2>1 DEF AreaFiles
  <2>3. QED
    BY <2>1, <2>2
<1>7. CASE CreateDigestForCA
  BY <1>7 DEF CreateDigestForCA
<1>8. CASE CreateToken
  BY <1>8 DEF CreateToken
<1>9. CASE BackUpConfigYAML
  <2>1. /\ UNCHANGED <<inits, order>> /\ pc[Master] = "backup"
        /\ pc'[Master] \in {"idle", "write"}
        /\ \/ bak' = file[Master] /\ file'[Master] = NoFile
           \/ bak' = bak /\ file' = file
    BY <1>9 DEF BackUpConfigYAML
  <2>2. file[Master].token < inits /\ order.prepare < inits /\ order.up < inits
    BY <2>1
  <2>3. QED
    BY <2>1, <2>2
<1>10. CASE WriteConfigYAML
  <2>1. /\ UNCHANGED <<inits, order>> /\ pc[Master] = "write"
        /\ \/ /\ pc'[Master] = "chmod" /\ file'[Master].token = made.token
              /\ bak' = bak
           \/ pc'[Master] = "idle" /\ file'[Master] = bak /\ bak' = NoFile
           \/ /\ pc'[Master] = "idle" /\ file'[Master] \in {NoFile, TornFile}
              /\ bak' = bak
    BY <1>10 DEF WriteConfigYAML, UpdateConfigYAMLContents
  <2>2. made.token = inits
    BY <2>1 DEF ChainInv
  <2>3. QED
    BY <2>1, <2>2
<1>11. CASE OpenPermissions
  BY <1>11 DEF OpenPermissions
<1>12. CASE CreateKubeAdmConfigFile
  <2>1. /\ UNCHANGED <<file, bak, inits>> /\ pc'[Master] = "idle"
        /\ order' = order \/ order' = [order EXCEPT !.prepare = inits]
    BY <1>12 DEF CreateKubeAdmConfigFile
  <2>2. order'.prepare \in {order.prepare, inits} /\ order'.up = order.up
    BY <2>1
  <2>3. QED
    BY <2>1, <2>2
<1>13. CASE PlaceCertificateAndKeyForCA
  <2>1. CopyEffect
    BY <1>13, CopyHas
  <2>2. QED
    BY <2>1 DEF CopyEffect
<1>14. CASE StartMaster
  <2>0. StartEffect
    BY <1>14, StartHas
  <2>1. /\ UNCHANGED <<file, bak, inits>> /\ pc'[Master] = "idle"
        /\ \/ order' = order
           \/ order' = [order EXCEPT !.up = inits, !.prepareOfUp = order.prepare]
    BY <2>0 DEF StartEffect, Starts
  <2>2. order'.up \in {order.up, inits} /\ order'.prepare = order.prepare
    BY <2>1
  <2>3. QED
    BY <2>1, <2>2
<1>15. ASSUME NEW n \in Minions, JoinMinion(n) PROVE AgeInv'
  BY <1>15 DEF JoinMinion, Joins
<1>16. ASSUME NEW n \in Nodes, StopKubernetes(n) PROVE AgeInv'
  <2>1. ResetEffect(n)
    BY <1>16, ResetHas
  <2>2. QED
    BY <2>1 DEF ResetEffect
<1>17. ASSUME NEW n \in Minions, CopyConfig(n) PROVE AgeInv'
  BY <1>17 DEF CopyConfig
<1>18. CASE RestoreConfig
  <2>1. /\ UNCHANGED <<pc, bak, inits, order>> /\ file'[Master] = bak
        /\ pc[Master] = "idle"
    BY <1>18 DEF RestoreConfig
  <2>2. QED
    BY <2>1
<1>19. CASE TokenExpires
  BY <1>19 DEF TokenExpires
<1>20. ASSUME NEW n \in Nodes, Kill(n) PROVE AgeInv'
  <2>1. KillEffect(n)
    BY <1>20, KillHas
  <2>2. QED
    BY <2>1, InterruptedAge DEF KillEffect
<1>21. CASE RebootMaster
  <2>1. RebootEffect
    BY <1>21, RebootHas
  <2>2. QED
    BY <2>1, InterruptedAge DEF RebootEffect
<1>22. CASE UNCHANGED vars
  BY <1>22 DEF vars
<1>23. QED
  BY <1>1, <1>2, <1>3, <1>4, <1>5, <1>6, <1>7, <1>8, <1>9, <1>10, <1>11,
     <1>12, <1>13, <1>14, <1>15, <1>16, <1>17, <1>18, <1>19, <1>20, <1>21,
     <1>22
  DEF Next, Command, Step, Environment

(* kubeadm starts the cluster on what up has installed, which is what the  *)
(* work area has, and what prepare has written.                            *)
LEMMA StartsOrder ==
  ASSUME TypeOK, PairInv, OrderInv, pc[Master] = "kubeadm",
         UNCHANGED <<file, insecure, inits>>,
         conf' \in {conf, None, Torn},
         area'["ca.crt"] \in {area["ca.crt"], None, Torn},
         UNCHANGED <<cluster, order>> \/ Starts(conf) \/ Starts(None)
  PROVE  OrderInv'
<1>1. CASE UNCHANGED <<cluster, order>>
  BY <1>1 DEF OrderInv, Up
<1>2. ASSUME NEW t \in {conf, None}, Starts(t) PROVE OrderInv'
  <2>1. cluster'.ca = area["ca.crt"] /\ cluster'.ca \in Made
    BY <1>2, StartsHave DEF PairInv
  <2>2. cluster'.token \in {None, conf} /\ cluster'.token # Torn
    BY <1>2, StartsHave
  <2>3. order'.prepare = order.prepare /\ order'.prepareOfUp = order.prepare
    BY <1>2, StartsHave, Shapes
  <2>4. QED
    BY <2>1, <2>2, <2>3, Distinct DEF OrderInv, Up
<1>3. QED
  BY <1>1, <1>2

LEMMA InterruptedOrder ==
  ASSUME TypeOK, PairInv, OrderInv, NEW n \in Nodes, InterruptedEffect(n),
         conf' \in {conf, None, Torn},
         area'["ca.crt"] \in {area["ca.crt"], None, Torn}
  PROVE  OrderInv'
<1>1. UNCHANGED <<insecure, inits>>
  BY DEF InterruptedEffect, config
<1>2. CASE file' = [file EXCEPT ![Master] = TornFile] /\ pc[Master] = "write"
  <2>1. file'[Master].token = None
    BY <1>2, Shapes DEF TornFile
  <2>2. insecure => cluster'.token \in {None, DefaultToken}
    BY <1>2 DEF InterruptedEffect, OrderInv, Down
  <2>3. QED
    BY <1>1, <2>1, <2>2, Distinct DEF OrderInv
<1>3. CASE file' = file
  <2>1. CASE cluster' = Down /\ order' = order
    BY <1>1, <1>3, <2>1 DEF OrderInv, Up, Down
  <2>2. CASE UNCHANGED <<cluster, order>>
    BY <1>1, <1>3, <2>2 DEF OrderInv, Up
  <2>3. CASE pc[Master] = "kubeadm" /\ (Starts(conf) \/ Starts(None))
    BY <1>1, <1>3, <2>3, StartsOrder
  <2>4. QED
    BY <2>1, <2>2, <2>3 DEF InterruptedEffect
<1>4. QED
  BY <1>2, <1>3 DEF InterruptedEffect

LEMMA OrderNext == TypeOK /\ RunInv /\ ChainInv /\ PairInv /\ AgeInv /\
  OrderInv /\ [Next]_vars => OrderInv'
<1> SUFFICES ASSUME TypeOK, RunInv, ChainInv, PairInv, AgeInv, OrderInv,
             [Next]_vars PROVE OrderInv'
  OBVIOUS
<1> USE MasterAssumption, Shapes, Numbers DEF OrderInv, Up, Then, End,
            Fails, config, secrets, live, control, Nodes, InitSteps,
            UpSteps, CopyStep
<1>1. CASE Initialize
  <2>1. /\ UNCHANGED <<file, area, conf, cluster, order, insecure>>
        /\ inits' \in {inits, inits + 1}
    BY <1>1 DEF Initialize, Run
  <2>2. inits' # inits => file'[Master].token # inits'
    BY <2>1 DEF AgeInv
  <2>3. QED
    BY <2>1, <2>2
<1>2. CASE Prepare
  BY <1>2 DEF Prepare, Run, Accepts, ValidateToken, ValidateTokenCertHash
<1>3. ASSUME NEW n \in Nodes, BringUp(n) PROVE OrderInv'
  BY <1>3 DEF BringUp, Run, Accepts, ValidateToken, ValidateTokenCertHash
<1>4. ASSUME NEW n \in Nodes, TearDown(n) PROVE OrderInv'
  BY <1>4 DEF TearDown, Run, Accepts, ValidateToken, ValidateTokenCertHash
<1>5. CASE CreateCertKeyArea
  <2>1. /\ UNCHANGED <<file, conf, cluster, order, insecure, inits>>
        /\ area' \in PartsOfArea
    BY <1>5, EmptyIsAPart DEF CreateCertKeyArea
  <2>2. area'["ca.crt"] \in {area["ca.crt"], None}
    BY <2>1, PartsTyped DEF TypeOK, AreaFiles
  <2>3. QED
    BY <2>1, <2>2
<1>6. ASSUME NEW f \in AreaFiles, CreateFile(f) PROVE OrderInv'
  <2>1. UNCHANGED <<file, inits, conf, cluster, insecure>> /\ pc[Master] = f
    BY <1>6 DEF CreateFile
  <2>2. file[Master].token < inits
    BY <2>1 DEF AgeInv, AreaFiles
  <2>3. QED
    BY <2>1, <2>2
<1>7. CASE CreateDigestForCA
  BY <1>7 DEF CreateDigestForCA
<1>8. CASE CreateToken
  BY <1>8 DEF CreateToken
<1>9. CASE BackUpConfigYAML
  <2>1. /\ UNCHANGED <<area, conf, cluster, order, insecure, inits>>
        /\ file'[Master] \in {file[Master], NoFile}
    BY <1>9 DEF BackUpConfigYAML
  <2>2. QED
    BY <2>1 DEF NoFile
<1>10. CASE WriteConfigYAML
  <2>1. /\ UNCHANGED <<area, conf, cluster, order, insecure, inits>>
        /\ pc[Master] = "write"
        /\ \/ file'[Master].token = made.token \/ file'[Master] = bak
           \/ file'[Master] \in {NoFile, TornFile}
    BY <1>10 DEF WriteConfigYAML, UpdateConfigYAMLContents
  <2>2. area["ca.crt"] = inits
    BY <2>1 DEF ChainInv
  <2>3. order.prepare # inits /\ order.up # inits
    BY <2>1 DEF AgeInv
  <2>4. QED
    BY <2>1, <2>2, <2>3 DEF NoFile, TornFile
<1>11. CASE OpenPermissions
  BY <1>11 DEF OpenPermissions
<1>12. CASE CreateKubeAdmConfigFile
  <2>1. /\ UNCHANGED <<file, area, cluster, insecure, inits>>
        /\ order'.up = order.up /\ order'.prepareOfUp = order.prepareOfUp
        /\ \/ conf' \in {conf, None, Torn} /\ order' = order
           \/ conf' = IF insecure THEN DefaultToken ELSE loaded[Master].token
    BY <1>12 DEF CreateKubeAdmConfigFile
  <2>2. loaded[Master].token = file[Master].token
    BY <1>12 DEF CreateKubeAdmConfigFile, RunInv
  <2>3. QED
    BY <2>1, <2>2
<1>13. CASE PlaceCertificateAndKeyForCA
  <2>1. CopyEffect
    BY <1>13, CopyHas
  <2>2. QED
    BY <2>1 DEF CopyEffect
<1>14. CASE StartMaster
  <2>1. StartEffect
    BY <1>14, StartHas
  <2>2. /\ UNCHANGED <<file, area, conf, insecure, inits>> /\ pc[Master] = "kubeadm"
        /\ UNCHANGED <<cluster, order>> \/ Starts(conf) \/ Starts(None)
    BY <2>1 DEF StartEffect
  <2>3. QED
    BY <2>2, StartsOrder
<1>15. ASSUME NEW n \in Minions, JoinMinion(n) PROVE OrderInv'
  BY <1>15 DEF JoinMinion, Joins
<1>16. ASSUME NEW n \in Nodes, StopKubernetes(n) PROVE OrderInv'
  <2>1. ResetEffect(n)
    BY <1>16, ResetHas
  <2>2. /\ UNCHANGED <<file, area, conf, order, insecure, inits>>
        /\ cluster' = cluster \/ cluster' = Down
    BY <2>1 DEF ResetEffect
  <2>3. QED
    BY <2>2 DEF Down
<1>17. ASSUME NEW n \in Minions, CopyConfig(n) PROVE OrderInv'
  BY <1>17 DEF CopyConfig
<1>18. CASE RestoreConfig
  <2>1. /\ UNCHANGED <<area, conf, cluster, order, insecure, inits>>
        /\ file'[Master] = bak
    BY <1>18 DEF RestoreConfig
  <2>2. QED
    BY <2>1 DEF AgeInv
<1>19. CASE TokenExpires
  BY <1>19 DEF TokenExpires
<1>20. ASSUME NEW n \in Nodes, Kill(n) PROVE OrderInv'
  <2>1. KillEffect(n)
    BY <1>20, KillHas
  <2>2. area'["ca.crt"] \in {area["ca.crt"], None, Torn}
    <3>1. CASE area' \in PartsOfArea
      BY <3>1, PartsTyped DEF TypeOK, AreaFiles
    <3>2. CASE area' = area \/ area' = [area EXCEPT ![pc[Master]] = Torn]
      BY <3>2 DEF AreaFiles
    <3>3. QED
      BY <2>1, <3>1, <3>2 DEF KillEffect
  <2>3. conf' \in {conf, None, Torn}
    BY <2>1 DEF KillEffect
  <2>4. QED
    BY <2>1, <2>2, <2>3, InterruptedOrder DEF KillEffect
<1>21. CASE RebootMaster
  <2>1. RebootEffect
    BY <1>21, RebootHas
  <2>2. area'["ca.crt"] = None /\ conf' = None
    BY <2>1 DEF RebootEffect, EmptyArea, AreaFiles
  <2>3. QED
    BY <2>1, <2>2, InterruptedOrder DEF RebootEffect
<1>22. CASE UNCHANGED vars
  BY <1>22 DEF vars
<1>23. QED
  BY <1>1, <1>2, <1>3, <1>4, <1>5, <1>6, <1>7, <1>8, <1>9, <1>10, <1>11,
     <1>12, <1>13, <1>14, <1>15, <1>16, <1>17, <1>18, <1>19, <1>20, <1>21,
     <1>22
  DEF Next, Command, Step, Environment

LEMMA Invariance == Spec => []IInv
<1>1. IInv /\ [Next]_vars => IInv'
  BY TypeNext, RunNext, ChainNext, PairNext, FileNext, AgeNext, OrderNext DEF IInv
<1>2. QED
  BY InitInv, <1>1, PTL DEF Spec

-----------------------------------------------------------------------------
(* Theorems *)

(* Every variable keeps to its domain, for any minions and bounds: a hash  *)
(* and a token are always those of an init.                                *)
THEOREM TypeCorrect == Spec => []TypeOK
<1>1. IInv => TypeOK
  BY DEF IInv
<1>2. QED
  BY Invariance, <1>1, PTL

(* Token and hash in a configuration file, a copy or a backup of it are of *)
(* the same init: UpdateConfigYAML writes both or, by RecoverFile, none.   *)
THEOREM FilesAreOfOneInit == Spec => []FileIsOfOneInit
<1>1. IInv => FileIsOfOneInit
  BY DEF IInv, FileInv, FileIsOfOneInit
<1>2. QED
  BY Invariance, <1>1, PTL

(* An init that reported success has left the key, the certificate and the *)
(* hash it made, and no other's, however earlier inits were cut short.     *)
THEOREM SuccessfulInitIsWhole == Spec => []InitIsWhole
<1>1. IInv => InitIsWhole
  BY DEF IInv, FileInv, InitIsWhole
<1>2. QED
  BY Invariance, <1>1, PTL

(* The configuration file or a whole backup of it is on the master, at     *)
(* every step of UpdateConfigYAML and after any kill.                      *)
THEOREM ConfigIsNeverLost == Spec => []ConfigNotLost
<1>1. IInv => ConfigNotLost
  BY DEF IInv, FileInv
<1>2. QED
  BY Invariance, <1>1, PTL

(* kubeadm is never started on the certificate of one init and the key of  *)
(* another.                                                                *)
THEOREM InstalledCAIsAPair == Spec => []CAIsAPair
<1>1. IInv => CAIsAPair
  <2> SUFFICES ASSUME IInv, pc[Master] = "kubeadm",
                      pki["ca.crt"] \in Made, pki["ca.key"] \in Made
               PROVE  pki["ca.crt"] = pki["ca.key"]
    BY DEF CAIsAPair
  <2>1. pki["ca.crt"] = area["ca.crt"] /\ pki["ca.key"] = area["ca.key"]
    BY DEF IInv, PairInv
  <2>2. QED
    BY <2>1 DEF IInv, PairInv
<1>2. QED
  BY Invariance, <1>1, PTL

(* Only a join that the master turns away ends as "rejected".              *)
LEMMA OnlyJoinIsRejected ==
  ASSUME TypeOK, [Next]_vars, NEW n \in Minions, pc[n] = "kubeadm",
         pc'[n] = "idle", result'[n] = "rejected"
  PROVE  ~CanJoin(n)
<1> USE MasterAssumption
    DEF TypeOK, ControlOK, Nodes, Then, End, Fails
<1> n # Master /\ n \in Nodes
  OBVIOUS
<1> DEFINE Elsewhere(m) == m # n /\ \E s : pc' = [pc EXCEPT ![m] = s]
<1>1. ASSUME NEW m \in Nodes, Elsewhere(m) PROVE FALSE
  BY <1>1
<1>2. ASSUME pc' = pc PROVE FALSE
  BY <1>2
<1>3. CASE Command
  <2>1. ASSUME NEW m \in Nodes, NEW c, NEW first, Run(m, c, first) PROVE FALSE
    <3>1. m # n /\ \E s : pc' = [pc EXCEPT ![m] = s]
      BY <2>1 DEF Run
    <3>2. QED
      BY <3>1, <1>1
  <2>2. QED
    BY <1>3, <2>1 DEF Command, Initialize, Prepare, BringUp, TearDown
<1>4. CASE Step
  <2>1. ASSUME NEW m \in Minions, JoinMinion(m) PROVE ~CanJoin(n)
    <3>1. CASE m = n
      BY <2>1, <3>1 DEF JoinMinion, Joins
    <3>2. CASE m # n
      <4>1. \E s : pc' = [pc EXCEPT ![m] = s]
        BY <2>1 DEF JoinMinion, Joins
      <4>2. QED
        BY <4>1, <3>2, <1>1
    <3>3. QED
      BY <3>1, <3>2
  <2>2. ASSUME NEW m \in Nodes, StopKubernetes(m) PROVE FALSE
    <3>1. m # n /\ \E s : pc' = [pc EXCEPT ![m] = s]
      BY <2>2 DEF StopKubernetes
    <3>2. QED
      BY <3>1, <1>1
  <2>3. ASSUME \E s : pc' = [pc EXCEPT ![Master] = s] PROVE FALSE
    BY <2>3, <1>1
  <2>4. ASSUME NEW f \in AreaFiles, CreateFile(f) PROVE FALSE
    BY <2>4, <2>3 DEF CreateFile
  <2>5. ASSUME CreateCertKeyArea \/ CreateDigestForCA \/ CreateToken
        PROVE  FALSE
    BY <2>5, <2>3 DEF CreateCertKeyArea, CreateDigestForCA, CreateToken
  <2>6. ASSUME BackUpConfigYAML \/ WriteConfigYAML \/ OpenPermissions
        PROVE  FALSE
    BY <2>6, <2>3 DEF BackUpConfigYAML, WriteConfigYAML, OpenPermissions
  <2>7. ASSUME CreateKubeAdmConfigFile \/ StartMaster PROVE FALSE
    BY <2>7, <2>3 DEF CreateKubeAdmConfigFile, StartMaster
  <2>8. ASSUME PlaceCertificateAndKeyForCA PROVE FALSE
    BY <2>8, <2>3 DEF PlaceCertificateAndKeyForCA, CopyFile
  <2>9. QED
    BY <1>4, <2>1, <2>2, <2>4, <2>5, <2>6, <2>7, <2>8 DEF Step
<1>5. CASE Environment
  <2>1. ASSUME NEW m \in Nodes, Kill(m) PROVE FALSE
    <3>1. /\ pc' = [pc EXCEPT ![m] = "idle"]
          /\ result' = [result EXCEPT ![m] = "killed"]
      BY <2>1 DEF Kill
    <3>2. m # n
      BY <3>1
    <3>3. QED
      BY <3>1, <3>2
  <2>2. ASSUME RebootMaster PROVE FALSE
    BY <2>2, <1>1 DEF RebootMaster
  <2>3. ASSUME NEW m \in Minions, CopyConfig(m) PROVE FALSE
    BY <2>3, <1>2 DEF CopyConfig
  <2>4. ASSUME RestoreConfig \/ TokenExpires PROVE FALSE
    BY <2>4, <1>2 DEF RestoreConfig, TokenExpires
  <2>5. QED
    BY <1>5, <2>1, <2>2, <2>3, <2>4 DEF Environment
<1>6. CASE UNCHANGED vars
  BY <1>6, <1>2 DEF vars
<1>7. QED
  BY <1>3, <1>4, <1>5, <1>6 DEF Next

(* A minion that runs up in the documented order, or in insecure mode,     *)
(* holds the token and the hash of the cluster that runs.                  *)
LEMMA InOrderCanJoin ==
  ASSUME IInv, NEW n \in Minions, pc[n] = "kubeadm",
         Up, cluster.token # None, insecure \/ InOrder(n)
  PROVE  CanJoin(n)
<1>1. CASE insecure
  BY <1>1 DEF IInv, OrderInv, CanJoin, JoinToken
<1>2. CASE ~insecure /\ InOrder(n)
  <2>1. loaded[n] = file[Master] /\ file[Master].token = inits
    BY <1>2 DEF InOrder
  <2>2. inits # None
    BY <1>2, <2>1 DEF IInv, RunInv, Nodes
  <2>3. file[Master].hash = inits
    BY <2>1 DEF IInv, FileInv, Nodes
  <2>4. cluster.token = inits /\ cluster.ca = inits
    BY <1>2, <2>1, <2>2 DEF IInv, OrderInv, InOrder
  <2>5. QED
    BY <1>2, <2>1, <2>3, <2>4 DEF CanJoin, JoinToken
<1>3. QED
  BY <1>1, <1>2

(* The master turns a minion away only when its token has expired or the   *)
(* documented order of init, copy, prepare and up was not kept, for any    *)
(* number of minions and inits: nothing compares the snapshots that the    *)
(* commands take, and in that order they are all of one init.              *)
THEOREM JoinsInOrderSucceed == Spec => JoinFailsOnlyWhenStale
<1>1. IInv /\ [Next]_vars =>
        [\A n \in Minions :
           pc[n] = "kubeadm" /\ pc'[n] = "idle" /\ result'[n] = "rejected" =>
             \/ ~Up \/ cluster.token = None
             \/ ~insecure /\ ~InOrder(n)]_vars
  <2> SUFFICES ASSUME IInv, [Next]_vars, NEW n \in Minions, pc[n] = "kubeadm",
                      pc'[n] = "idle", result'[n] = "rejected",
                      Up, cluster.token # None, insecure \/ InOrder(n)
               PROVE  FALSE
    OBVIOUS
  <2>1. ~CanJoin(n)
    BY OnlyJoinIsRejected DEF IInv
  <2>2. CanJoin(n)
    BY InOrderCanJoin
  <2>3. QED
    BY <2>1, <2>2
<1>2. QED
  BY Invariance, <1>1, PTL DEF Spec, JoinFailsOnlyWhenStale

=============================================================================
