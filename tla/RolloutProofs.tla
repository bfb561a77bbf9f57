--------------------------- MODULE RolloutProofs ---------------------------
(***************************************************************************)
(* Theorems about Rollout, for every set of nodes, replicas, options and   *)
(* secrets and any number of edits, evictions and faults.                  *)
(***************************************************************************)
EXTENDS Rollout, FiniteSetTheorems, SequenceTheorems, TLAPS

SnapPresent == pc # "idle" => snap # Absent

(* Nothing is newer than what it was made from: the resource that was read *)
(* than the resource, an object than either.                               *)
NotNewer(s) == s <= want.settings /\ (snap # Absent => s <= snap.settings)
ObjectsNotNewer ==
    /\ snap # Absent => snap.settings <= want.settings
    /\ config # Absent => NotNewer(config.settings)
    /\ daemonset # Absent => NotNewer(daemonset.configHash)

(* The ConfigMap is written before the DaemonSet whose pods read it.       *)
ConfigFirst ==
    pc = "applyDaemonset" /\ LoggingEnabled => config # Absent /\ config.settings = snap.settings

FileAhead ==
    config # Absent /\ daemonset # Absent => daemonset.configHash <= config.settings

(* A file is no newer than the resource.                                   *)
FilesNotNewer ==
    \A n \in Nodes : shipper[n] # Absent => shipper[n].file.settings <= want.settings

(* What is rendered with a secret is rendered after it was read.           *)
SecretRead == pc \in DOMAIN After /\ UsesSecret(snap) => seen # 0

(* All is in order as long as the user goes on to new settings.            *)
Ordered == ObjectsNotNewer /\ ConfigFirst /\ FileAhead /\ NoShipperBehindItsHash
OrderInv == ~back => Ordered
FilesInv == ~back => FilesNotNewer
IInv == TypeOK /\ SnapPresent /\ SecretRead /\ OrderInv /\ FilesInv

Configs == [settings : Nat, address : Addresses]
Templates == [configHash : Nat, replicas : Nat \ {0}]
Shippers == [template : Templates, file : Configs]

-----------------------------------------------------------------------------
(* Number of replicas.                                                     *)
LEMMA ProxiesCount ==
    /\ Cardinality(Proxies) \in Nat \ {0}
    /\ Cardinality(Running) \in 0..Cardinality(Proxies)
<1>1. IsFiniteSet(Proxies) /\ Proxies # {}
  BY RolloutAssumption
<1>2. Cardinality(Proxies) \in Nat /\ Cardinality(Proxies) # 0
  BY <1>1, FS_CardinalityType, FS_EmptySet
<1>3. Running \subseteq Proxies
  BY DEF Running
<1>4. Cardinality(Running) \in Nat /\ Cardinality(Running) <= Cardinality(Proxies)
  BY <1>1, <1>3, FS_Subset, FS_CardinalityType
<1> QED
  BY <1>2, <1>4

LEMMA OptionsWant ==
    ASSUME NEW option \in Options, NEW s \in Nat
    PROVE  Want(option, s) \in Wants
BY RolloutAssumption DEF Want, Wants

LEMMA Bounds ==
    /\ MaxEdits \in Nat /\ MaxEvictions \in Nat /\ MaxFaults \in Nat
    /\ Len(Secrets) \in Nat
BY RolloutAssumption

LEMMA TypeInit == Init => TypeOK
<1> SUFFICES ASSUME Init PROVE TypeOK
  OBVIOUS
<1>1. want \in Wants
  BY OptionsWant DEF Init
<1>2. pc \in Places /\ available \in 1..Cardinality(Proxies)
  BY ProxiesCount DEF Init, Places
<1>3. shipper \in [Nodes -> Shippers \cup {Absent}]
  BY DEF Init
<1>4. canExport \in BOOLEAN /\ back \in BOOLEAN
  BY Zenon DEF Init
<1>5. secret = 0 /\ config = Absent /\ daemonset = Absent /\ proxy = Absent /\ snap = Absent
      /\ seen = 0 /\ edits = 0 /\ evictions = 0 /\ faults = 0
  BY DEF Init
<1> QED
  BY <1>1, <1>2, <1>3, <1>4, <1>5, Bounds DEF TypeOK, Shippers, Templates, Configs

(* The pass goes on or ends.                                               *)
LEMMA EndPassType ==
    ASSUME EndPass
    PROVE  /\ pc' \in Places /\ snap' \in Wants \cup {Absent}
           /\ available' \in 1..Cardinality(Proxies) /\ canExport' \in BOOLEAN
           /\ seen' \in 0..Len(Secrets)
<1>1. canExport' \in BOOLEAN
  BY Zenon DEF EndPass
<1>2. pc' = "idle" /\ snap' = Absent /\ available' = 1 /\ seen' = 0
  BY DEF EndPass, Goto
<1> QED
  BY <1>1, <1>2, ProxiesCount, Bounds DEF Places

LEMMA AfterPlaces == \A l \in DOMAIN After : After[l] \in Places
<1> SUFFICES ASSUME NEW l \in DOMAIN After PROVE After[l] \in Places
  OBVIOUS
<1>1. DOMAIN After = {"start", "applyConfig", "applyDaemonset", "applyProxy",
                      "deleteConfig", "deleteDaemonset", "deleteProxy"}
  BY DEF After
<1> QED
  BY <1>1 DEF After, Places

LEMMA ProceedType ==
    ASSUME TypeOK, pc \in DOMAIN After, Proceed(pc)
    PROVE  /\ pc' \in Places /\ snap' \in Wants \cup {Absent}
           /\ available' \in 1..Cardinality(Proxies) /\ canExport' \in BOOLEAN
           /\ seen' \in 0..Len(Secrets)
<1>1. CASE After[pc] = "idle"
  BY <1>1, EndPassType DEF Proceed
<1>2. CASE After[pc] # "idle"
  <2>1. pc' = After[pc] /\ UNCHANGED <<snap, available, canExport, seen>>
    BY <1>2 DEF Proceed, Goto
  <2> QED
    BY <2>1, AfterPlaces DEF TypeOK
<1> QED
  BY <1>1, <1>2

(* What a place in Secrets holds.                                          *)
LEMMA SecretType ==
    ASSUME NEW s \in 1..Len(Secrets) PROVE Secrets[s] \in [host : STRING, ca : Nat]
<1>1. Secrets \in Seq([host : STRING, ca : Nat])
  BY RolloutAssumption
<1> QED
  BY <1>1, ElementOfSeq

(* The secret that is rendered, and the hash made of it.                   *)
LEMMA SecretForType ==
    ASSUME NEW w \in Wants, NEW s \in Nat, UsesSecret(w) => s \in 1..Len(Secrets)
    PROVE  SecretFor(w, s) \in [host : Hosts, ca : Nat] /\ ProxyHash(w, s) \in Nat
<1>1. CASE UsesSecret(w)
  <2>1. Secrets[s] \in [host : STRING, ca : Nat] /\ Secrets[s].host \in Hosts
    BY <1>1, SecretType DEF Hosts
  <2>2. Secrets[s] \in [host : Hosts, ca : Nat]
    BY <2>1
  <2> QED
    BY <1>1, <2>2 DEF SecretFor, ProxyHash
<1>2. CASE ~UsesSecret(w)
  <2>1. NoSecret \in [host : Hosts, ca : Nat]
    BY DEF NoSecret, Hosts
  <2> QED
    BY <1>2, <2>1 DEF SecretFor, ProxyHash
<1> QED
  BY <1>1, <1>2

(* What DeploymentFor renders: the volumes and the init containers of the  *)
(* key store are there just when the secret has a bundle.                  *)
LEMMA Rendered ==
    ASSUME NEW w \in Wants, NEW s \in Nat, NEW d, d = DeploymentFor(w, s)
    PROVE  /\ d = [f \in DOMAIN d |-> d[f]]
           /\ SecretFor(w, s).ca # 0 =>
                  /\ DOMAIN d = {"configHash", "containers", "volumes", "initContainers"}
                  /\ d["volumes"] = Volumes
                  /\ d["initContainers"] = {"keystores", "ca"}
           /\ SecretFor(w, s).ca = 0 =>
                  /\ DOMAIN d = {"configHash", "containers", "volumes"}
                  /\ d["volumes"] = {"buffer"}
           /\ d["configHash"] = ProxyHash(w, s)
           /\ d["containers"] = [port |-> w.address, host |-> SecretFor(w, s).host,
                                 logs |-> w.logging, trust |-> SecretFor(w, s).ca # 0]
<1> DEFINE http == SecretFor(w, s)
           args == [port |-> w.address, host |-> http.host, logs |-> w.logging,
                    trust |-> http.ca # 0]
<1>1. CASE http.ca # 0
  <2>1. d = [configHash |-> ProxyHash(w, s), containers |-> args, volumes |-> Volumes,
             initContainers |-> {"keystores", "ca"}]
    BY <1>1 DEF DeploymentFor
  <2> HIDE DEF args
  <2>2. /\ d = [f \in DOMAIN d |-> d[f]]
        /\ DOMAIN d = {"configHash", "containers", "volumes", "initContainers"}
        /\ d["volumes"] = Volumes /\ d["initContainers"] = {"keystores", "ca"}
        /\ d["configHash"] = ProxyHash(w, s) /\ d["containers"] = args
    BY <2>1
  <2> QED BY <1>1, <2>2 DEF args
<1>2. CASE http.ca = 0
  <2>1. d = [configHash |-> ProxyHash(w, s), containers |-> args, volumes |-> {"buffer"}]
    BY <1>2 DEF DeploymentFor
  <2> HIDE DEF args
  <2>2. /\ d = [f \in DOMAIN d |-> d[f]]
        /\ DOMAIN d = {"configHash", "containers", "volumes"}
        /\ d["volumes"] = {"buffer"}
        /\ d["configHash"] = ProxyHash(w, s) /\ d["containers"] = args
    BY <2>1
  <2> QED BY <1>2, <2>2 DEF args
<1> QED BY <1>1, <1>2

(* With a bundle, the init containers are rendered.                        *)
LEMMA WithBundle ==
    ASSUME NEW w \in Wants, NEW s \in Nat
    PROVE  SecretFor(w, s).ca # 0 =>
               /\ "initContainers" \in DOMAIN DeploymentFor(w, s)
               /\ DeploymentFor(w, s)["initContainers"] = {"keystores", "ca"}
<1> DEFINE d == DeploymentFor(w, s)
<1>1. SecretFor(w, s).ca # 0 =>
          /\ DOMAIN d = {"configHash", "containers", "volumes", "initContainers"}
          /\ d["initContainers"] = {"keystores", "ca"}
  BY Rendered
<1> HIDE DEF d
<1>2. SecretFor(w, s).ca # 0 => "initContainers" \in DOMAIN d
  BY <1>1
<1> QED
  BY <1>1, <1>2 DEF d

(* The two shapes a Deployment has.                                        *)
LEMMA DeploymentType ==
    ASSUME NEW h \in Nat, NEW c \in Containers, NEW v \in SUBSET Volumes, NEW i \in SUBSET Volumes
    PROVE  /\ [configHash |-> h, containers |-> c, volumes |-> v] \in Deployments
           /\ [configHash |-> h, containers |-> c, volumes |-> v, initContainers |-> i] \in Deployments
BY DEF Deployments

(* What is rendered is a Deployment.                                       *)
LEMMA RenderedType ==
    ASSUME NEW w \in Wants, NEW s \in Nat, UsesSecret(w) => s \in 1..Len(Secrets)
    PROVE  DeploymentFor(w, s) \in Deployments
<1> DEFINE d == DeploymentFor(w, s)
           bundle == SecretFor(w, s).ca # 0
<1>1. bundle \in BOOLEAN
  BY Zenon
<1>2. w.address \in Addresses /\ w.logging \in BOOLEAN
  BY DEF Wants
<1>3. SecretFor(w, s) \in [host : Hosts, ca : Nat] /\ ProxyHash(w, s) \in Nat
  BY SecretForType
<1> HIDE DEF d
<1>4. /\ d = [f \in DOMAIN d |-> d[f]]
      /\ \/ /\ DOMAIN d = {"configHash", "containers", "volumes", "initContainers"}
            /\ d["volumes"] = Volumes
            /\ d["initContainers"] = {"keystores", "ca"}
         \/ /\ DOMAIN d = {"configHash", "containers", "volumes"}
            /\ d["volumes"] = {"buffer"}
      /\ d["configHash"] = ProxyHash(w, s)
      /\ d["containers"] = [port |-> w.address, host |-> SecretFor(w, s).host,
                            logs |-> w.logging, trust |-> bundle]
  BY Rendered DEF d
<1>5. d["containers"] \in Containers
  BY <1>1, <1>2, <1>3, <1>4 DEF Containers
<1>6. d["configHash"] \in Nat /\ d["volumes"] \in SUBSET Volumes
      /\ {"keystores", "ca"} \in SUBSET Volumes
  BY <1>3, <1>4 DEF Volumes
<1>7. CASE DOMAIN d = {"configHash", "containers", "volumes"}
  <2>1. d = [configHash |-> d["configHash"], containers |-> d["containers"],
             volumes |-> d["volumes"]]
    BY <1>4, <1>7
  <2>2. [configHash |-> d["configHash"], containers |-> d["containers"],
         volumes |-> d["volumes"]] \in Deployments
    BY <1>5, <1>6, DeploymentType
  <2> QED
    BY <2>1, <2>2 DEF d
<1>8. CASE DOMAIN d = {"configHash", "containers", "volumes", "initContainers"}
           /\ d["initContainers"] \in SUBSET Volumes
  <2>1. d = [configHash |-> d["configHash"], containers |-> d["containers"],
             volumes |-> d["volumes"], initContainers |-> d["initContainers"]]
    BY <1>4, <1>8
  <2>2. [configHash |-> d["configHash"], containers |-> d["containers"],
         volumes |-> d["volumes"], initContainers |-> d["initContainers"]] \in Deployments
    BY <1>5, <1>6, <1>8, DeploymentType
  <2> QED
    BY <2>1, <2>2 DEF d
<1> QED
  BY <1>4, <1>6, <1>7, <1>8 DEF d

(* A patched Deployment is a Deployment.                                   *)
LEMMA PatchType ==
    ASSUME NEW object \in Deployments \cup {Absent}, NEW rendered \in Deployments
    PROVE  PatchOrCreate(object, rendered) \in Deployments
<1>1. CASE object = Absent
  BY <1>1 DEF PatchOrCreate
<1>2. CASE object # Absent
  <2> DEFINE new == Patch(object, rendered)
  <2>1. object \in Deployments /\ PatchOrCreate(object, rendered) = new
    BY <1>2 DEF PatchOrCreate
  <2>2. new \in Deployments
    BY <2>1 DEF Patch, Deployments
  <2> QED
    BY <2>1, <2>2
<1> QED
  BY <1>1, <1>2

(* What ApplyResources puts into the cluster is a Deployment.              *)
LEMMA NewDeployment ==
    ASSUME TypeOK, SnapPresent, SecretRead, pc = "applyProxy"
    PROVE  PatchOrCreate(proxy, DeploymentFor(snap, seen)) \in Deployments
<1>1. snap \in Wants /\ seen \in Nat
  BY DEF SnapPresent, TypeOK
<1>2. UsesSecret(snap) => seen \in 1..Len(Secrets)
  BY DEF SecretRead, After, TypeOK
<1>3. DeploymentFor(snap, seen) \in Deployments
  BY <1>1, <1>2, RenderedType
<1> QED
  BY <1>3, PatchType DEF TypeOK

(* Every step keeps the types.                                             *)
LEMMA TypeStep == TypeOK /\ SnapPresent /\ SecretRead /\ [Next]_vars => TypeOK'
<1> SUFFICES ASSUME TypeOK, SnapPresent, SecretRead, [Next]_vars PROVE TypeOK'
  OBVIOUS
<1> USE Bounds
<1>1. CASE UNCHANGED vars
  BY <1>1 DEF TypeOK, vars, world, objects, pods, pass, Admissible
<1>2. ASSUME NEW option \in Options, NEW s \in 0..(want.settings + 1), Edit(Want(option, s))
      PROVE  TypeOK'
  <2>1. s \in Nat /\ edits + 1 \in 0..MaxEdits
    BY <1>2 DEF Edit, TypeOK, Wants
  <2>2. want' \in Wants
    BY <1>2, <2>1, OptionsWant DEF Edit
  <2> QED
    BY <1>2, <2>1, <2>2 DEF Edit, TypeOK, objects, pods, pass, Admissible
<1>3. CASE Rotate
  BY <1>3 DEF Rotate, TypeOK, objects, pods, pass, Admissible
<1>4. CASE PassFails
  BY <1>4, EndPassType DEF PassFails, TypeOK, world, objects, pods, Admissible
<1>5. CASE Fetch
  BY <1>5 DEF Fetch, TypeOK, world, objects, pods, Admissible, Goto, Places
<1>6. CASE ReadAvailable
  <2>1. pc' \in Places
    BY <1>6 DEF ReadAvailable, Goto, Places, After
  <2>2. available' \in 1..Cardinality(Proxies)
    BY <1>6, ProxiesCount DEF ReadAvailable, TypeOK
  <2>3. canExport' \in BOOLEAN
    <3>1. CASE Deploys(snap)
      <4>1. canExport' = ((IF proxy = Absent THEN 0 ELSE Cardinality(Running)) > 0)
        BY <1>6, <3>1, Zenon DEF ReadAvailable
      <4> QED
        BY <4>1
    <3>2. CASE ~Deploys(snap)
      BY <1>6, <3>2, Zenon DEF ReadAvailable
    <3> QED
      BY <3>1, <3>2
  <2> QED
    BY <1>6, <2>1, <2>2, <2>3 DEF ReadAvailable, TypeOK, world, objects, pods, Admissible
<1>7. CASE ReadSecret
  <2>1. CASE secret = 0
    BY <1>7, <2>1, EndPassType DEF ReadSecret, TypeOK, world, objects, pods, Admissible
  <2>2. CASE secret # 0
    BY <1>7, <2>2 DEF ReadSecret, TypeOK, world, objects, pods, Admissible, Goto, Places, After
  <2> QED
    BY <2>1, <2>2
<1>8. CASE ApplyConfig
  <2>1. config' \in Configs \cup {Absent}
    BY <1>8 DEF ApplyConfig, TypeOK, LoggingEnabled, ConfigFor, Configs, SnapPresent, Wants
  <2>2. pc \in DOMAIN After /\ Proceed(pc)
    BY <1>8 DEF ApplyConfig, After
  <2> QED
    BY <1>8, <2>1, <2>2, ProceedType DEF ApplyConfig, TypeOK, world, pods, Admissible, Configs
<1>9. CASE ApplyDaemonset
  <2>1. daemonset' \in Templates \cup {Absent}
    BY <1>9, ProxiesCount DEF ApplyDaemonset, TypeOK, LoggingEnabled, DaemonsetFor, LoggingHash,
                              Templates, SnapPresent, Wants
  <2>2. pc \in DOMAIN After /\ Proceed(pc)
    BY <1>9 DEF ApplyDaemonset, After
  <2> QED
    BY <1>9, <2>1, <2>2, ProceedType DEF ApplyDaemonset, TypeOK, world, pods, Admissible, Templates
<1>10. CASE ApplyProxy
  <2>1. pc \in DOMAIN After
    BY <1>10 DEF ApplyProxy, After
  <2>2. /\ proxy' # Absent => Admissible(proxy)'
        /\ proxy' \in Deployments \cup {Absent}
        /\ Proceed(pc) \/ EndPass
        /\ UNCHANGED <<world, config, daemonset, pods, evictions, faults>>
    <3> DEFINE new == PatchOrCreate(proxy, DeploymentFor(snap, seen))
    <3>1. CASE proxy' = proxy
      BY <1>10, <3>1 DEF ApplyProxy, TypeOK, Admissible
    <3>2. CASE proxy' # proxy
      <4>1. Admissible(new) /\ proxy' = new /\ pc = "applyProxy" /\ Deploys(snap)
        BY <1>10, <3>2 DEF ApplyProxy
      <4>2. new \in Deployments
        BY <4>1, NewDeployment
      <4> HIDE DEF new
      <4> QED
        BY <1>10, <4>1, <4>2 DEF ApplyProxy, Admissible
    <3> QED
      BY <3>1, <3>2
  <2> QED
    BY <2>1, <2>2, ProceedType, EndPassType DEF TypeOK, world, pods
<1>11. CASE DeleteConfig
  <2>1. pc \in DOMAIN After /\ Proceed(pc)
    BY <1>11 DEF DeleteConfig, After
  <2> QED
    BY <1>11, <2>1, ProceedType DEF DeleteConfig, TypeOK, world, pods, Admissible
<1>12. CASE DeleteDaemonset
  <2>1. pc \in DOMAIN After /\ Proceed(pc)
    BY <1>12 DEF DeleteDaemonset, After
  <2> QED
    BY <1>12, <2>1, ProceedType DEF DeleteDaemonset, TypeOK, world, pods, Admissible
<1>13. CASE DeleteProxy
  <2>1. pc \in DOMAIN After /\ Proceed(pc)
    BY <1>13 DEF DeleteProxy, After
  <2> QED
    BY <1>13, <2>1, ProceedType DEF DeleteProxy, TypeOK, world, pods, Admissible
<1>14. ASSUME NEW n \in Nodes, RunShipper(n) PROVE TypeOK'
  <2>1. shipper' \in [Nodes -> Shippers \cup {Absent}]
    <3>1. [template |-> daemonset, file |-> config] \in Shippers
      BY <1>14 DEF RunShipper, TypeOK, Shippers, Templates, Configs
    <3>2. shipper \in [Nodes -> Shippers \cup {Absent}]
      BY DEF TypeOK, Shippers, Templates, Configs
    <3> QED
      BY <1>14, <3>1, <3>2 DEF RunShipper
  <2> QED
    BY <1>14, <2>1 DEF RunShipper, TypeOK, world, objects, pass, Admissible,
                       Shippers, Templates, Configs
<1>15. ASSUME NEW n \in Nodes, StopShipper(n) PROVE TypeOK'
  BY <1>15 DEF StopShipper, TypeOK, world, objects, pass, Admissible
<1>16. ASSUME NEW p \in Proxies, RunProxy(p) \/ StopProxy(p) PROVE TypeOK'
  BY <1>16 DEF RunProxy, StopProxy, TypeOK, world, objects, pass, Admissible
<1>17. CASE Evict
  <2>1. shipper' \in [Nodes -> Shippers \cup {Absent}]
    <3>1. shipper \in [Nodes -> Shippers \cup {Absent}]
      BY DEF TypeOK, Shippers, Templates, Configs
    <3> QED
      BY <1>17, <3>1 DEF Evict
  <2> QED
    BY <1>17, <2>1 DEF Evict, TypeOK, world, objects, pass, Admissible,
                       Shippers, Templates, Configs
<1> QED
  BY <1>1, <1>2, <1>3, <1>4, <1>5, <1>6, <1>7, <1>8, <1>9, <1>10, <1>11, <1>12, <1>13,
     <1>14, <1>15, <1>16, <1>17 DEF Next, Operator, Kubernetes, User

-----------------------------------------------------------------------------
(* There is a resource as long as a pass lasts.                            *)
LEMMA SnapStep == TypeOK /\ SnapPresent /\ [Next]_vars => SnapPresent'
<1> SUFFICES ASSUME TypeOK, SnapPresent, [Next]_vars PROVE SnapPresent'
  OBVIOUS
<1>1. CASE pc' = pc /\ snap' = snap
  BY <1>1 DEF SnapPresent
<1>2. CASE EndPass
  BY <1>2 DEF EndPass, Goto, SnapPresent
<1>3. CASE Fetch
  <2>1. want # Absent
    BY RolloutAssumption DEF TypeOK, Wants
  <2> QED
    BY <1>3, <2>1 DEF Fetch, SnapPresent
<1>4. CASE pc # "idle" /\ snap' = snap
  BY <1>4 DEF SnapPresent
<1>5. CASE ReadSecret
  BY <1>2, <1>4, <1>5 DEF ReadSecret
<1>6. CASE ApplyConfig \/ ApplyDaemonset \/ DeleteConfig \/ DeleteDaemonset \/ DeleteProxy
  BY <1>2, <1>4, <1>6 DEF ApplyConfig, ApplyDaemonset, DeleteConfig, DeleteDaemonset,
                          DeleteProxy, Proceed
<1>7. CASE ApplyProxy
  BY <1>2, <1>4, <1>7 DEF ApplyProxy, Proceed
<1>8. CASE ReadAvailable
  BY <1>4, <1>8 DEF ReadAvailable
<1>9. CASE PassFails
  BY <1>2, <1>9 DEF PassFails
<1>10. CASE User \/ Kubernetes \/ Evict \/ UNCHANGED vars
  BY <1>1, <1>10 DEF User, Edit, Rotate, Kubernetes, RunShipper, StopShipper, RunProxy, StopProxy,
                     Evict, vars, pass
<1> QED
  BY <1>3, <1>5, <1>6, <1>7, <1>8, <1>9, <1>10 DEF Next, Operator

(* Numbers that are compared are numbers.                                  *)
LEMMA Numbers ==
    ASSUME TypeOK
    PROVE  /\ want.settings \in Nat
           /\ snap # Absent => snap.settings \in Nat
           /\ config # Absent => config.settings \in Nat
           /\ daemonset # Absent => daemonset.configHash \in Nat
BY Bounds DEF TypeOK, Wants

LEMMA OrderInit == Init => OrderInv
<1> SUFFICES ASSUME Init PROVE Ordered
  BY DEF OrderInv
<1>1. want.settings = 0
  BY DEF Init, Want
<1>2. ObjectsNotNewer /\ ConfigFirst /\ FileAhead
  BY <1>1 DEF Init, ObjectsNotNewer, ConfigFirst, FileAhead
<1>3. NoShipperBehindItsHash
  BY DEF Init, NoShipperBehindItsHash
<1> QED
  BY <1>2, <1>3 DEF Ordered

(* Settings that never went back only grew.                                *)
LEMMA SettingsGrow ==
    ASSUME TypeOK, [Next]_vars, ~back'
    PROVE  ~back /\ want'.settings \in Nat /\ want.settings <= want'.settings
<1>1. CASE want' = want /\ back' = back
  BY <1>1, Numbers
<1>2. ASSUME NEW option \in Options, NEW s \in 0..(want.settings + 1), Edit(Want(option, s))
      PROVE  ~back /\ want'.settings \in Nat /\ want.settings <= want'.settings
  <2>1. want'.settings = s /\ ~back /\ ~(s < want.settings)
    BY <1>2 DEF Edit, Want
  <2> QED
    BY <2>1, Numbers
<1>3. Operator \/ Kubernetes \/ Rotate \/ PassFails \/ Evict \/ UNCHANGED vars
      => want' = want /\ back' = back
  BY DEF Operator, Fetch, ReadAvailable, ReadSecret, ApplyConfig, ApplyDaemonset, ApplyProxy,
         DeleteConfig, DeleteDaemonset, DeleteProxy, Kubernetes, RunShipper, StopShipper, RunProxy,
         StopProxy, Rotate, PassFails, Evict, vars, world
<1> QED
  BY <1>1, <1>2, <1>3 DEF Next, User

(* Steps that leave the resource, the objects and their pods alone.        *)
LEMMA OrderKept ==
    ASSUME Ordered, ~back, UNCHANGED <<want, config, daemonset, shipper>>,
           snap' = snap \/ snap' = Absent, pc' # "applyDaemonset"
    PROVE  Ordered'
<1>1. FileAhead' /\ ConfigFirst'
  BY DEF Ordered, FileAhead, ConfigFirst
<1>2. ObjectsNotNewer'
  BY DEF Ordered, ObjectsNotNewer, NotNewer
<1>3. NoShipperBehindItsHash'
  BY DEF Ordered, NoShipperBehindItsHash
<1> QED
  BY <1>1, <1>2, <1>3 DEF Ordered

LEMMA OrderStep == IInv /\ [Next]_vars => OrderInv'
<1> SUFFICES ASSUME IInv, [Next]_vars, ~back' PROVE Ordered'
  BY DEF OrderInv
<1>0. TypeOK /\ SnapPresent /\ Ordered /\ ~back
  BY SettingsGrow DEF IInv, OrderInv
<1> USE <1>0 DEF Ordered
<1>1. CASE UNCHANGED vars
  BY <1>1 DEF vars, world, objects, pods, pass, ObjectsNotNewer, NotNewer, ConfigFirst,
              LoggingEnabled, FileAhead, NoShipperBehindItsHash
<1>2. ASSUME NEW option \in Options, NEW s \in 0..(want.settings + 1), Edit(Want(option, s))
      PROVE  Ordered'
  <2>1. UNCHANGED <<config, daemonset, shipper, pc, snap, canExport>>
    BY <1>2 DEF Edit, objects, pods, pass
  <2>2. want'.settings \in Nat /\ want.settings <= want'.settings
    BY SettingsGrow
  <2>3. ObjectsNotNewer'
    BY <2>1, <2>2, Numbers DEF ObjectsNotNewer, NotNewer
  <2>4. ConfigFirst' /\ FileAhead' /\ NoShipperBehindItsHash'
    BY <2>1 DEF ConfigFirst, LoggingEnabled, FileAhead, NoShipperBehindItsHash
  <2> QED
    BY <2>3, <2>4
<1>3. CASE Rotate
  BY <1>3 DEF Rotate, objects, pods, pass, ObjectsNotNewer, NotNewer, ConfigFirst,
              LoggingEnabled, FileAhead, NoShipperBehindItsHash
<1>4. CASE PassFails
  BY <1>4, OrderKept DEF PassFails, EndPass, Goto, world, objects, pods
<1>5. CASE Fetch
  <2>1. snap' = want /\ pc' = "available" /\ UNCHANGED <<want, config, daemonset, shipper>>
    BY <1>5 DEF Fetch, Goto, world, objects, pods
  <2>2. ObjectsNotNewer'
    BY <2>1, Numbers DEF ObjectsNotNewer, NotNewer
  <2>3. ConfigFirst' /\ FileAhead' /\ NoShipperBehindItsHash'
    BY <2>1 DEF ConfigFirst, FileAhead, NoShipperBehindItsHash
  <2> QED
    BY <2>2, <2>3
<1>6. CASE ReadAvailable
  BY <1>6, OrderKept DEF ReadAvailable, Goto, After, world, objects, pods
<1>7. CASE ReadSecret
  BY <1>7, OrderKept DEF ReadSecret, EndPass, Goto, After, world, objects, pods
<1>8. CASE ApplyConfig
  <2>1. pc = "applyConfig" /\ snap # Absent
    BY <1>8 DEF ApplyConfig, SnapPresent
  <2>2. /\ pc' = "applyDaemonset" /\ UNCHANGED <<snap, canExport>>
        /\ UNCHANGED <<want, daemonset, shipper>>
    BY <1>8, <2>1 DEF ApplyConfig, Proceed, Goto, After, world, pods
  <2>3. CASE LoggingEnabled
    <3>1. config' # Absent /\ config'.settings = snap.settings
      <4>1. config' = ConfigFor(snap)
        BY <1>8, <2>3 DEF ApplyConfig
      <4>2. ConfigFor(snap) \in Configs
        BY <2>1 DEF ConfigFor, Configs, TypeOK, Wants
      <4> QED
        BY <4>1, <4>2, RolloutAssumption DEF ConfigFor, Configs
    <3>2. ObjectsNotNewer'
      BY <2>1, <2>2, <3>1, Numbers DEF ObjectsNotNewer, NotNewer
    <3>3. FileAhead'
      BY <2>1, <2>2, <3>1 DEF FileAhead, ObjectsNotNewer, NotNewer
    <3>4. ConfigFirst' /\ NoShipperBehindItsHash'
      BY <2>2, <3>1 DEF ConfigFirst, NoShipperBehindItsHash
    <3> QED
      BY <3>2, <3>3, <3>4
  <2>4. CASE ~LoggingEnabled
    <3>1. config' = config /\ ~LoggingEnabled'
      BY <1>8, <2>2, <2>4 DEF ApplyConfig, LoggingEnabled
    <3> QED
      BY <2>2, <3>1 DEF ObjectsNotNewer, NotNewer, ConfigFirst, FileAhead,
                        NoShipperBehindItsHash
  <2> QED
    BY <2>3, <2>4
<1>9. CASE ApplyDaemonset
  <2>1. pc = "applyDaemonset" /\ snap # Absent
    BY <1>9 DEF ApplyDaemonset, SnapPresent
  <2>2. /\ pc' = "applyProxy" /\ UNCHANGED snap
        /\ UNCHANGED <<want, config, shipper>>
    BY <1>9, <2>1 DEF ApplyDaemonset, Proceed, Goto, After, world, pods
  <2>3. CASE LoggingEnabled
    <3>1. daemonset'.configHash = snap.settings
      BY <1>9, <2>3 DEF ApplyDaemonset, DaemonsetFor, LoggingHash
    <3>2. config.settings = snap.settings
      BY <2>1, <2>3 DEF ConfigFirst
    <3>3. ObjectsNotNewer' /\ FileAhead'
      BY <2>1, <2>2, <3>1, <3>2, Numbers DEF ObjectsNotNewer, NotNewer, FileAhead
    <3>4. ConfigFirst' /\ NoShipperBehindItsHash'
      BY <2>2 DEF ConfigFirst, NoShipperBehindItsHash
    <3> QED
      BY <3>3, <3>4
  <2>4. CASE ~LoggingEnabled
    <3>1. daemonset' = daemonset
      BY <1>9, <2>4 DEF ApplyDaemonset
    <3> QED
      BY <2>2, <3>1, OrderKept
  <2> QED
    BY <2>3, <2>4
<1>10. CASE ApplyProxy
  <2>1. pc' # "applyDaemonset" /\ (snap' = snap \/ snap' = Absent)
    BY <1>10 DEF ApplyProxy, Proceed, EndPass, Goto, After
  <2> QED
    BY <1>10, <2>1, OrderKept DEF ApplyProxy, world, pods
<1>11. CASE DeleteConfig
  <2>1. pc' # "applyDaemonset" /\ (snap' = snap \/ snap' = Absent)
    BY <1>11 DEF DeleteConfig, Proceed, EndPass, Goto, After
  <2>2. config' = config \/ config' = Absent
    BY <1>11 DEF DeleteConfig
  <2> QED
    BY <1>11, <2>1, <2>2 DEF DeleteConfig, world, pods, ObjectsNotNewer, NotNewer,
                             ConfigFirst, FileAhead, NoShipperBehindItsHash
<1>12. CASE DeleteDaemonset
  <2>1. pc' # "applyDaemonset" /\ (snap' = snap \/ snap' = Absent)
    BY <1>12 DEF DeleteDaemonset, Proceed, EndPass, Goto, After
  <2>2. daemonset' = daemonset \/ daemonset' = Absent
    BY <1>12 DEF DeleteDaemonset
  <2> QED
    BY <1>12, <2>1, <2>2 DEF DeleteDaemonset, world, pods, ObjectsNotNewer, NotNewer,
                             ConfigFirst, FileAhead, NoShipperBehindItsHash
<1>13. CASE DeleteProxy
  <2>1. pc' # "applyDaemonset" /\ (snap' = snap \/ snap' = Absent)
    BY <1>13 DEF DeleteProxy, Proceed, EndPass, Goto, After
  <2> QED
    BY <1>13, <2>1, OrderKept DEF DeleteProxy, world, pods
<1>14. CASE \/ \E n \in Nodes : RunShipper(n) \/ StopShipper(n)
            \/ \E p \in Proxies : RunProxy(p) \/ StopProxy(p)
            \/ Evict
  <2>1. UNCHANGED <<want, config, daemonset, pc, snap, canExport>>
    BY <1>14 DEF RunShipper, StopShipper, RunProxy, StopProxy, Evict, world, objects, pass
  <2>2. ObjectsNotNewer' /\ ConfigFirst' /\ FileAhead'
    BY <2>1 DEF ObjectsNotNewer, NotNewer, ConfigFirst, LoggingEnabled, FileAhead
  <2>3. NoShipperBehindItsHash'
    <3> SUFFICES ASSUME NEW m \in Nodes, shipper'[m] # Absent
                 PROVE  shipper'[m].file.settings >= shipper'[m].template.configHash
      BY DEF NoShipperBehindItsHash
    <3>1. CASE shipper'[m] = shipper[m]
      BY <3>1 DEF NoShipperBehindItsHash
    <3>2. CASE shipper'[m] # shipper[m]
      <4>1. RunShipper(m)
        BY <1>14, <3>2 DEF RunShipper, StopShipper, RunProxy, StopProxy, Evict, TypeOK
      <4>2. shipper'[m] = [template |-> daemonset, file |-> config]
        BY <4>1 DEF RunShipper, TypeOK
      <4>3. daemonset.configHash <= config.settings
        BY <4>1 DEF RunShipper, FileAhead
      <4> QED
        BY <4>1, <4>2, <4>3, Numbers DEF RunShipper
    <3> QED
      BY <3>1, <3>2
  <2> QED
    BY <2>2, <2>3
<1> HIDE <1>0 DEF Ordered
<1> QED
  BY <1>1, <1>2, <1>3, <1>4, <1>5, <1>6, <1>7, <1>8, <1>9, <1>10, <1>11, <1>12, <1>13, <1>14
     DEF Next, Operator, Kubernetes, User

-----------------------------------------------------------------------------
(* The pass waits for the secret before it renders anything with it.       *)
LEMMA SecretStep == TypeOK /\ SecretRead /\ [Next]_vars => SecretRead'
<1> SUFFICES ASSUME TypeOK, SecretRead, [Next]_vars PROVE SecretRead'
  OBVIOUS
<1>0. DOMAIN After = {"start", "applyConfig", "applyDaemonset", "applyProxy",
                      "deleteConfig", "deleteDaemonset", "deleteProxy"}
  BY DEF After
<1>1. CASE UNCHANGED <<pc, snap, seen>>
  BY <1>1 DEF SecretRead
<1>2. CASE EndPass
  BY <1>0, <1>2 DEF EndPass, Goto, SecretRead
<1>3. CASE Fetch
  BY <1>0, <1>3 DEF Fetch, Goto, SecretRead
<1>4. CASE ReadAvailable
  BY <1>0, <1>4 DEF ReadAvailable, Goto, SecretRead
<1>5. CASE ReadSecret
  BY <1>2, <1>5 DEF ReadSecret, SecretRead
<1>6. CASE pc \in DOMAIN After /\ Proceed(pc)
  BY <1>2, <1>6 DEF Proceed, SecretRead
<1>7. CASE ApplyConfig \/ ApplyDaemonset \/ DeleteConfig \/ DeleteDaemonset \/ DeleteProxy
  BY <1>0, <1>6, <1>7 DEF ApplyConfig, ApplyDaemonset, DeleteConfig, DeleteDaemonset, DeleteProxy
<1>8. CASE ApplyProxy
  BY <1>0, <1>2, <1>6, <1>8 DEF ApplyProxy
<1>9. CASE PassFails
  BY <1>2, <1>9 DEF PassFails
<1>10. CASE User \/ Kubernetes \/ Evict \/ UNCHANGED vars
  BY <1>1, <1>10 DEF User, Edit, Rotate, Kubernetes, RunShipper, StopShipper, RunProxy, StopProxy,
                     Evict, vars, pass
<1> QED
  BY <1>3, <1>4, <1>5, <1>7, <1>8, <1>9, <1>10 DEF Next, Operator

(* What a step does to a log shipper's pod.                                *)
LEMMA ShipperChange ==
    ASSUME TypeOK, [Next]_vars, NEW n \in Nodes
    PROVE  \/ shipper'[n] = shipper[n]
           \/ shipper'[n] = Absent
           \/ /\ RunShipper(n)
              /\ shipper'[n] = [template |-> daemonset, file |-> config]
              /\ UNCHANGED want
<1>1. CASE UNCHANGED shipper
  BY <1>1
<1>2. ASSUME NEW m \in Nodes, RunShipper(m) \/ StopShipper(m) PROVE
           \/ shipper'[n] = shipper[n]
           \/ shipper'[n] = Absent
           \/ RunShipper(n) /\ shipper'[n] = [template |-> daemonset, file |-> config] /\ UNCHANGED want
  BY <1>2 DEF RunShipper, StopShipper, TypeOK, world
<1>3. CASE Evict
  BY <1>3 DEF Evict, TypeOK
<1>4. CASE Operator \/ PassFails \/ User \/ UNCHANGED vars
  BY <1>4 DEF Operator, Fetch, ReadAvailable, ReadSecret, ApplyConfig, ApplyDaemonset, ApplyProxy,
              DeleteConfig, DeleteDaemonset, DeleteProxy, PassFails, User, Edit, Rotate, vars, pods
<1>5. ASSUME NEW p \in Proxies, RunProxy(p) \/ StopProxy(p) PROVE UNCHANGED shipper
  BY <1>5 DEF RunProxy, StopProxy
<1> QED
  BY <1>1, <1>2, <1>3, <1>4, <1>5 DEF Next, Kubernetes

(* A pod is started with the ConfigMap, which is no newer than the spec.   *)
LEMMA FilesStep == IInv /\ [Next]_vars => FilesInv'
<1> SUFFICES ASSUME IInv, [Next]_vars, ~back', NEW n \in Nodes, shipper'[n] # Absent
             PROVE  shipper'[n].file.settings <= want'.settings
  BY DEF FilesInv, FilesNotNewer
<1>1. TypeOK /\ ObjectsNotNewer /\ FilesNotNewer
  BY SettingsGrow DEF IInv, OrderInv, Ordered, FilesInv
<1>2. want'.settings \in Nat /\ want.settings \in Nat /\ want.settings <= want'.settings
  BY <1>1, SettingsGrow, Numbers
<1>3. CASE shipper'[n] = shipper[n]
  <2>1. shipper[n].file.settings \in Nat
    BY <1>1, <1>3 DEF TypeOK
  <2> QED
    BY <1>1, <1>2, <1>3, <2>1 DEF FilesNotNewer
<1>4. CASE RunShipper(n) /\ shipper'[n] = [template |-> daemonset, file |-> config]
  <2>1. config.settings \in Nat /\ config.settings <= want.settings
    BY <1>1, <1>4, Numbers DEF RunShipper, ObjectsNotNewer, NotNewer
  <2> QED
    BY <1>2, <1>4, <2>1
<1> QED
  BY <1>1, <1>3, <1>4, ShipperChange

-----------------------------------------------------------------------------
(* What the invariants say holds of every behaviour, on any cluster.       *)
THEOREM InvariantHolds == Spec => []IInv
<1>1. Init => IInv
  <2>1. Init => SecretRead
    BY DEF Init, SecretRead, After
  <2>2. Init => FilesInv
    BY DEF Init, FilesInv, FilesNotNewer
  <2> QED
    BY <2>1, <2>2, TypeInit, OrderInit DEF IInv, SnapPresent, Init
<1>2. IInv /\ [Next]_vars => IInv'
  BY TypeStep, SnapStep, SecretStep, OrderStep, FilesStep DEF IInv
<1> QED
  BY <1>1, <1>2, PTL DEF Spec

(* Every variable keeps its type; in particular no object the API server   *)
(* would not admit is ever stored, and the log shipper's template always   *)
(* names at least one proxy.                                               *)
THEOREM TypeCorrect == Spec => []TypeOK
<1>1. IInv => TypeOK
  BY DEF IInv
<1> QED
  BY <1>1, InvariantHolds, PTL

(* Until the user goes back to earlier log settings, no log shipper's file *)
(* is older than its template's hash says, whatever fails, restarts or is  *)
(* evicted.                                                                *)
THEOREM ShippersAhead == Spec => []NoShipperBehindItsHash
<1>1. IInv => NoShipperBehindItsHash
  BY DEF IInv, OrderInv, Ordered, NoShipperBehindItsHash
<1> QED
  BY <1>1, InvariantHolds, PTL

(* Until then, a log shipper whose template has the hash of the spec has   *)
(* the tags and filters of the spec in its file: an older file would be    *)
(* behind its hash, and a newer one would be of a spec still to come.      *)
THEOREM HashTellsFile == Spec => []CurrentHashCurrentFile
<1>1. IInv => CurrentHashCurrentFile
  <2> SUFFICES ASSUME IInv, ~back, NEW n \in Nodes, shipper[n] # Absent,
                      shipper[n].template.configHash = want.settings
               PROVE  shipper[n].file.settings = want.settings
    BY DEF CurrentHashCurrentFile, LoggingHash
  <2>1. shipper[n].file.settings \in Nat /\ want.settings \in Nat
    BY DEF IInv, TypeOK, Wants
  <2>2. NoShipperBehindItsHash /\ FilesNotNewer
    BY DEF IInv, OrderInv, Ordered, FilesInv
  <2> QED
    BY <2>1, <2>2 DEF NoShipperBehindItsHash, FilesNotNewer
<1> QED
  BY <1>1, InvariantHolds, PTL

(* The merge patch of ApplyResources turns an object into what was         *)
(* rendered just when nothing is left of it that was not: a field that the *)
(* manifest only renders under a condition outlives the condition.         *)
THEOREM PatchReaches ==
    ASSUME NEW object, NEW rendered, rendered = [f \in DOMAIN rendered |-> rendered[f]]
    PROVE  Patch(object, rendered) = rendered <=> DOMAIN object \subseteq DOMAIN rendered
<1>1. DOMAIN Patch(object, rendered) = DOMAIN object \cup DOMAIN rendered
  BY DEF Patch
<1>2. ASSUME Patch(object, rendered) = rendered PROVE DOMAIN object \subseteq DOMAIN rendered
  BY <1>1, <1>2
<1>3. ASSUME DOMAIN object \subseteq DOMAIN rendered PROVE Patch(object, rendered) = rendered
  <2>1. DOMAIN object \cup DOMAIN rendered = DOMAIN rendered
    BY <1>3
  <2>2. Patch(object, rendered) = [f \in DOMAIN rendered |-> rendered[f]]
    BY <2>1 DEF Patch
  <2> QED
    BY <2>2
<1> QED
  BY <1>2, <1>3

-----------------------------------------------------------------------------
(* The Deployment holds init containers that need the key store's volumes. *)
Kept(object) ==
    /\ object # Absent
    /\ "initContainers" \in DOMAIN object
    /\ ~(object["initContainers"] \subseteq {"buffer"})

(* A patch is rejected just when it drops the volumes and not the init     *)
(* containers that need them.                                              *)
LEMMA WhenRejected ==
    ASSUME NEW w \in Wants, NEW s \in Nat, NEW object
    PROVE  Admissible(PatchOrCreate(object, DeploymentFor(w, s)))
               <=> SecretFor(w, s).ca # 0 \/ ~Kept(object)
<1> DEFINE d == DeploymentFor(w, s)
           new == Patch(object, d)
<1>1. /\ SecretFor(w, s).ca # 0 =>
             /\ DOMAIN d = {"configHash", "containers", "volumes", "initContainers"}
             /\ d["volumes"] = Volumes
             /\ d["initContainers"] = {"keystores", "ca"}
      /\ SecretFor(w, s).ca = 0 =>
             /\ DOMAIN d = {"configHash", "containers", "volumes"}
             /\ d["volumes"] = {"buffer"}
  BY Rendered
<1> HIDE DEF d
<1>2. CASE object = Absent
  <2>1. PatchOrCreate(object, d) = d
    BY <1>2 DEF PatchOrCreate
  <2>2. Admissible(d)
    BY <1>1 DEF Admissible, Volumes
  <2> QED
    BY <1>2, <2>1, <2>2 DEF Kept, d
<1>3. CASE object # Absent
  <2>1. PatchOrCreate(object, d) = new
    BY <1>3 DEF PatchOrCreate
  <2>2. /\ DOMAIN new = DOMAIN object \cup DOMAIN d
        /\ \A f \in DOMAIN d : new[f] = d[f]
        /\ \A f \in DOMAIN object \ DOMAIN d : new[f] = object[f]
    BY DEF Patch
  <2> HIDE DEF new
  <2>3. Admissible(new) <=> SecretFor(w, s).ca # 0 \/ ~Kept(object)
    <3>1. CASE SecretFor(w, s).ca # 0
      BY <1>1, <2>2, <3>1 DEF Admissible, Volumes
    <3>2. CASE SecretFor(w, s).ca = 0
      <4>1. new["volumes"] = {"buffer"}
        BY <1>1, <2>2, <3>2
      <4>2. "initContainers" \in DOMAIN new <=> "initContainers" \in DOMAIN object
        BY <1>1, <2>2, <3>2
      <4>3. "initContainers" \in DOMAIN object => new["initContainers"] = object["initContainers"]
        BY <1>1, <2>2, <3>2
      <4> QED
        BY <1>3, <3>2, <4>1, <4>2, <4>3 DEF Admissible, Kept
    <3> QED
      BY <3>1, <3>2
  <2> QED
    BY <2>1, <2>3 DEF d
<1> QED
  BY <1>2, <1>3

(* Patching an object that keeps them leaves one that does, or is refused. *)
LEMMA ApplyKeeps ==
    ASSUME IInv, pc = "applyProxy", Kept(proxy), Deploys(snap), ApplyProxy
    PROVE  Kept(proxy')
<1> DEFINE d == DeploymentFor(snap, seen)
           new == PatchOrCreate(proxy, d)
<1>1. snap \in Wants /\ seen \in Nat /\ TypeOK /\ SnapPresent /\ SecretRead
  BY DEF IInv, SnapPresent, TypeOK
<1>2. CASE SecretFor(snap, seen).ca = 0
  <2>1. ~Admissible(new)
    BY <1>1, <1>2, WhenRejected
  <2> QED
    BY <2>1 DEF ApplyProxy
<1>3. CASE SecretFor(snap, seen).ca # 0
  <2>1. proxy' = new \/ proxy' = proxy
    BY DEF ApplyProxy
  <2>2. new # Absent
    BY <1>1, NewDeployment, RolloutAssumption
  <2>3. "initContainers" \in DOMAIN d /\ d["initContainers"] = {"keystores", "ca"}
    BY <1>1, <1>3, WithBundle
  <2> HIDE DEF d
  <2>4. "initContainers" \in DOMAIN new /\ new["initContainers"] = {"keystores", "ca"}
    BY <2>3 DEF PatchOrCreate, Patch, Kept
  <2> HIDE DEF new
  <2> QED
    BY <2>1, <2>2, <2>4 DEF Kept
<1> QED
  BY <1>1, <1>2, <1>3

(* What it is to be rejected, in terms of the object.                      *)
RejectedObject ==
    /\ Deploys(want) /\ ~Blocked
    /\ ~(SecretFor(want, secret).ca # 0)
    /\ Kept(proxy)
    /\ snap # Absent => Deploys(snap)

LEMMA RejectedMeans == TypeOK => (Rejected <=> RejectedObject)
<1> SUFFICES ASSUME TypeOK PROVE Rejected <=> RejectedObject
  OBVIOUS
<1>1. want \in Wants /\ secret \in Nat
  BY DEF TypeOK
<1> QED
  BY <1>1, WhenRejected DEF Rejected, Stuck, RejectedObject

(* Whoever steps, the object keeps its init containers, until the spec or  *)
(* the secret is another.                                                  *)
LEMMA RejectedStep ==
    IInv /\ [Next]_vars =>
        (UNCHANGED <<want, secret>> /\ RejectedObject => RejectedObject')
<1> SUFFICES ASSUME IInv, [Next]_vars, RejectedObject, want' = want, secret' = secret
             PROVE  RejectedObject'
  OBVIOUS
<1>0. TypeOK /\ SnapPresent /\ SecretRead
  BY DEF IInv
<1>1. Kept(proxy) /\ Deploys(want) /\ (snap # Absent => Deploys(snap))
  BY DEF RejectedObject
<1>2. CASE proxy' = proxy /\ (snap' = snap \/ snap' = Absent)
  BY <1>2 DEF RejectedObject, Blocked
<1>3. CASE Kept(proxy') /\ (snap' = snap \/ snap' = Absent)
  BY <1>3 DEF RejectedObject, Blocked
<1>4. CASE Fetch
  <2>1. snap' = want /\ proxy' = proxy
    BY <1>4 DEF Fetch, objects
  <2> QED
    BY <2>1 DEF RejectedObject, Blocked
<1>5. CASE ApplyProxy
  <2>1. snap' = snap \/ snap' = Absent
    BY <1>5 DEF ApplyProxy, Proceed, EndPass
  <2>2. pc = "applyProxy" /\ Deploys(snap)
    BY <1>0, <1>1, <1>5 DEF ApplyProxy, SnapPresent
  <2> QED
    BY <1>1, <1>3, <1>5, <2>1, <2>2, ApplyKeeps
<1>6. CASE DeleteProxy
  <2>1. Deploys(snap)
    BY <1>0, <1>1, <1>6 DEF DeleteProxy, SnapPresent
  <2> QED
    BY <1>2, <1>6, <2>1 DEF DeleteProxy, Proceed, EndPass
<1>7. CASE ReadAvailable \/ ReadSecret
  BY <1>2, <1>7 DEF ReadAvailable, ReadSecret, EndPass, objects
<1>8. CASE ApplyConfig \/ ApplyDaemonset \/ DeleteConfig \/ DeleteDaemonset
  BY <1>2, <1>8 DEF ApplyConfig, ApplyDaemonset, DeleteConfig, DeleteDaemonset, Proceed, EndPass
<1>9. CASE User \/ Kubernetes \/ PassFails \/ Evict \/ UNCHANGED vars
  BY <1>2, <1>9 DEF User, Edit, Rotate, Kubernetes, RunShipper, StopShipper, RunProxy, StopProxy,
                    PassFails, EndPass, Evict, vars, objects, pass
<1> QED
  BY <1>4, <1>5, <1>6, <1>7, <1>8, <1>9 DEF Next, Operator

(* Once the proxy's Deployment holds the init containers of a key store    *)
(* the spec has no more volumes for, nothing the operator or Kubernetes    *)
(* does, and no restart, ever changes it: ApplyResources' merge patch      *)
(* leaves the init containers in and the API server refuses the rest.      *)
THEOREM RejectionLasts == Spec => RejectedForGood
<1>1. IInv => (Rejected <=> RejectedObject)
  BY RejectedMeans DEF IInv
<1>2. IInv /\ [Next]_vars =>
          (UNCHANGED <<want, secret>> /\ RejectedObject => RejectedObject')
  BY RejectedStep
<1> QED
  BY <1>1, <1>2, InvariantHolds, PTL DEF Spec, RejectedForGood

-----------------------------------------------------------------------------
(* A stale pod stays one, whoever steps: a pass for its spec renders the   *)
(* template the pod was started from.                                      *)
LEMMA StaleStep ==
    ASSUME IInv, [Next]_vars, NEW n \in Nodes, StaleFile(n), want' = want, shipper'[n] # Absent
    PROVE  StaleFile(n)'
<1>0. TypeOK /\ SnapPresent
  BY DEF IInv
<1>1. want # Absent
  <2>1. want \in Wants
    BY <1>0 DEF TypeOK
  <2> QED
    BY <2>1, RolloutAssumption DEF Wants
<1>2. /\ want.logging /\ ~Deploys(want) /\ daemonset = DaemonsetFor(want, 1)
      /\ snap # Absent => snap.logging /\ ~Deploys(snap) /\ daemonset = DaemonsetFor(snap, 1)
      /\ daemonset # Absent /\ shipper[n].template = daemonset
      /\ shipper[n].file # ConfigFor(want) /\ available = 1
  BY <1>1 DEF StaleFile
<1>3. shipper'[n] = shipper[n]
  <2>1. ~RunShipper(n)
    BY <1>2 DEF RunShipper, StaleFile
  <2> QED
    BY <1>0, <2>1, ShipperChange
<1> DEFINE Same == /\ daemonset' = daemonset /\ available' = 1
                   /\ snap' = snap \/ snap' = want \/ snap' = Absent
<1>4. Same => StaleFile(n)'
  <2> SUFFICES ASSUME Same PROVE StaleFile(n)'
    OBVIOUS
  <2>1. \A w \in {want', snap'} \ {Absent} :
            w.logging /\ ~Deploys(w) /\ daemonset' = DaemonsetFor(w, 1)
    BY <1>2
  <2> QED
    BY <1>2, <1>3, <2>1 DEF StaleFile
<1>5. Same
  <2>1. CASE UNCHANGED <<daemonset, available, snap>>
    BY <1>2, <2>1
  <2>2. CASE daemonset' = daemonset /\ EndPass
    BY <2>2 DEF EndPass
  <2>3. CASE Fetch
    BY <1>2, <2>3 DEF Fetch, objects
  <2>4. CASE ReadAvailable
    <3>1. ~Deploys(snap)
      BY <1>0, <1>2, <2>4 DEF ReadAvailable, SnapPresent
    <3> QED
      BY <2>1, <2>4, <3>1 DEF ReadAvailable, objects
  <2>5. CASE ReadSecret
    BY <2>1, <2>2, <2>5 DEF ReadSecret, objects
  <2>6. CASE daemonset' = daemonset /\ Proceed(pc)
    BY <2>1, <2>2, <2>6 DEF Proceed
  <2>7. CASE ApplyConfig \/ DeleteConfig \/ DeleteProxy
    BY <2>6, <2>7 DEF ApplyConfig, DeleteConfig, DeleteProxy
  <2>8. CASE ApplyProxy
    BY <2>2, <2>6, <2>8 DEF ApplyProxy
  <2>9. CASE ApplyDaemonset
    <3>1. daemonset = DaemonsetFor(snap, available)
      BY <1>0, <1>2, <2>9 DEF ApplyDaemonset, SnapPresent
    <3> QED
      BY <2>6, <2>9, <3>1 DEF ApplyDaemonset
  <2>10. CASE DeleteDaemonset
    <3>1. snap.logging
      BY <1>0, <1>2, <2>10 DEF DeleteDaemonset, SnapPresent
    <3> QED
      BY <2>6, <2>10, <3>1 DEF DeleteDaemonset
  <2>11. CASE PassFails
    BY <2>2, <2>11 DEF PassFails, objects
  <2>12. CASE User \/ Kubernetes \/ Evict \/ UNCHANGED vars
    BY <2>1, <2>12 DEF User, Edit, Rotate, Kubernetes, RunShipper, StopShipper, RunProxy, StopProxy,
                       Evict, vars, objects, pass
  <2> QED
    BY <2>3, <2>4, <2>5, <2>7, <2>8, <2>9, <2>10, <2>11, <2>12 DEF Next, Operator
<1> QED
  BY <1>4, <1>5

(* A log shipper whose file has the address of another proxy, or settings  *)
(* the user went back from, keeps it: the hash in its template is of the   *)
(* Logging struct of the spec, whose ProxyAddress is not in its JSON, so   *)
(* that every pass leaves the template as it is.                           *)
THEOREM StaleAddressLasts == Spec => StaleForGood
<1>1. IInv /\ [Next]_vars =>
          [\A n \in Nodes : StaleFile(n) => StaleFile(n)' \/ want' # want \/ shipper'[n] = Absent]_vars
  BY StaleStep
<1> QED
  BY <1>1, InvariantHolds, PTL DEF Spec, StaleForGood
=============================================================================
