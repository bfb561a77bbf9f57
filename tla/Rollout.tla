------------------------------ MODULE Rollout ------------------------------
(***************************************************************************)
(* What an apply leads to.  Reconciler takes an object for the spec that   *)
(* was last rendered into it; here are the fields of the objects, the      *)
(* merge patch ApplyResources sends (internal/kubernetes/manager.go), and  *)
(* the pods Kubernetes starts from the objects: a pod is replaced when its *)
(* template changes and keeps the files it was started with.  That is what *)
(* the config hashes and replica counts in the pod templates are for       *)
(* (controllers/wavefront_controller.go, deploy/internal).                 *)
(*                                                                         *)
(* The parts modelled are the log shipper, a DaemonSet with a ConfigMap,   *)
(* and the proxy, a Deployment that trusts the certificates in a Secret.   *)
(***************************************************************************)
EXTENDS Integers, Sequences, FiniteSets

CONSTANTS
    Nodes,          \* where a log shipper runs
    Proxies,        \* the replicas of the proxy
    Ports,          \* addresses of the proxy the operator deploys
    ExternalUrls,   \* addresses of external proxies
    Options,        \* what specs ask for, apart from the log settings
    Secrets,        \* the contents of the http proxy secret, one after the other
    Absent,
    MaxEdits,       \* bound: edits of the custom resource
    MaxEvictions,   \* bound: pods that are evicted or whose node is lost
    MaxFaults       \* bound: requests that fail, and restarts of the operator

Addresses == Ports \cup ExternalUrls

NoSecret == [host |-> "none", ca |-> 0]
Hosts == {Secrets[i].host : i \in 1..Len(Secrets)} \cup {NoSecret.host}

(* The proxy's Deployment: the init containers are only in one that was    *)
(* rendered with a bundle.                                                 *)
Volumes == {"buffer", "keystores", "ca"}
Containers == [port : Addresses, host : Hosts, logs : BOOLEAN, trust : BOOLEAN]
Deployments ==
    [configHash : Nat, containers : Containers, volumes : SUBSET Volumes]
    \cup [configHash : Nat, containers : Containers, volumes : SUBSET Volumes,
          initContainers : SUBSET Volumes]

(* A secret holds a host and perhaps a certificate bundle, which is 0 if   *)
(* there is none.  Bundles are numbered in the order they are issued, and  *)
(* none is taken back into use: a bundle that returned between two passes  *)
(* would leave no trace in the hash.                                       *)
ASSUME RolloutAssumption ==
    /\ Absent \notin [settings : Nat, address : Addresses]
    /\ Absent \notin [configHash : Nat, replicas : Nat \ {0}]
    /\ Absent \notin Deployments
    /\ Absent \notin [logging : BOOLEAN, settings : Nat, address : Addresses, http : BOOLEAN]
    /\ IsFiniteSet(Proxies) /\ Proxies # {}
    /\ Ports \cap ExternalUrls = {}
    /\ Options \subseteq [logging : BOOLEAN, address : Addresses, http : BOOLEAN]
    /\ Secrets \in Seq([host : STRING, ca : Nat])
    /\ \A i, j \in 1..Len(Secrets) :
           i <= j /\ Secrets[i].ca # 0 /\ Secrets[j].ca # 0 => Secrets[i].ca <= Secrets[j].ca
    /\ {MaxEdits, MaxEvictions, MaxFaults} \subseteq Nat

VARIABLES
    want,           \* the custom resource
    secret,         \* the place in Secrets; 0 while the secret is missing
    config,         \* the ConfigMap wavefront-logging-config
    daemonset,      \* the pod template of the DaemonSet wavefront-logging
    proxy,          \* the Deployment wavefront-proxy
    shipper,        \* the log shipper's pods
    replica,        \* the proxy's pods
    pc,             \* the operator's place in Reconcile
    snap,           \* the custom resource it has read
    available,      \* AvailableReplicas
    canExport,      \* CanExportData
    seen,           \* the place in Secrets of what it has read
    back,           \* history: the user went back to earlier log settings
    edits, evictions, faults

world == <<want, secret, back, edits>>
objects == <<config, daemonset, proxy>>
pods == <<shipper, replica>>
pass == <<pc, snap, available, canExport, seen>>
vars == <<world, objects, pods, pass, evictions, faults>>

-----------------------------------------------------------------------------
(* Specs and what is rendered from them.                                   *)

(* settings stands for the tags and filters of spec.dataCollection.logging *)
(* (and for whatever else of it is in its JSON); the address is that of    *)
(* the external proxy, or of the operator's own.  http says that           *)
(* httpProxy.secret names the secret.                                      *)
Wants == [logging : BOOLEAN, settings : Nat, address : Addresses, http : BOOLEAN]
Want(option, settings) ==
    [logging |-> option.logging, settings |-> settings,
     address |-> option.address, http |-> option.http]

Deploys(w) == w.address \in Ports
UsesSecret(w) == Deploys(w) /\ w.http

(* Mutant: the hash leaves out the tags and filters.                       *)
HashOfEnable(w) == 0

(* The hash in the log shipper's template: of the Logging struct, whose    *)
(* ProxyAddress is excluded from its JSON.                                 *)
LoggingHash(w) == w.settings

ConfigFor(w) == [settings |-> w.settings, address |-> w.address]
DaemonsetFor(w, n) == [configHash |-> LoggingHash(w), replicas |-> n]

SecretFor(w, s) == IF UsesSecret(w) THEN Secrets[s] ELSE NoSecret

(* Mutant: the hash is of the secret's name alone.                         *)
HashOfName(w, s) == IF UsesSecret(w) THEN 1 ELSE 0

(* The hash in the proxy's template: of the secret's name and the bundle,  *)
(* or "", here 0.  Host, port and credentials are in the arguments.        *)
ProxyHash(w, s) == IF UsesSecret(w) THEN 1 + Secrets[s].ca ELSE 0

(* The fields of the proxy's Deployment: the ones that are always rendered *)
(* and the one that is only rendered with a bundle.  trust stands for      *)
(* JAVA_ARGS and the mount of the key store; logs for --customMessageTags. *)
DeploymentFor(w, s) ==
    LET http == SecretFor(w, s)
        args == [port |-> w.address, host |-> http.host, logs |-> w.logging, trust |-> http.ca # 0]
    IN IF http.ca # 0
       THEN [configHash |-> ProxyHash(w, s), containers |-> args, volumes |-> Volumes,
             initContainers |-> {"keystores", "ca"}]
       ELSE [configHash |-> ProxyHash(w, s), containers |-> args, volumes |-> {"buffer"}]

(* client.MergeFrom an empty object: every rendered field is written, the  *)
(* others keep what they hold.                                             *)
Patch(object, rendered) ==
    [f \in DOMAIN object \cup DOMAIN rendered |->
        IF f \in DOMAIN rendered THEN rendered[f] ELSE object[f]]

(* ApplyResources, for one object: Create, or Patch if there is one.       *)
PatchOrCreate(object, rendered) ==
    IF object = Absent THEN rendered ELSE Patch(object, rendered)

(* The API server rejects a template that mounts a volume it has not.      *)
Admissible(object) ==
    "initContainers" \in DOMAIN object => object.initContainers \subseteq object.volumes

(* Both want a way out before the log shipper is applied: see EnabledDirs. *)
LoggingEnabled == canExport /\ snap.logging

(* Mutant: the DaemonSet is applied before the ConfigMap its pods read.    *)
DaemonsetFirst ==
    [start |-> "applyDaemonset", applyDaemonset |-> "applyConfig", applyConfig |-> "applyProxy",
     applyProxy |-> "deleteConfig", deleteConfig |-> "deleteDaemonset",
     deleteDaemonset |-> "deleteProxy", deleteProxy |-> "idle"]

(* The walk over the manifests: ApplyResources, then DeleteResources.      *)
After ==
    [start |-> "applyConfig", applyConfig |-> "applyDaemonset", applyDaemonset |-> "applyProxy",
     applyProxy |-> "deleteConfig", deleteConfig |-> "deleteDaemonset",
     deleteDaemonset |-> "deleteProxy", deleteProxy |-> "idle"]

Places == {"idle", "available", "secret"} \cup (DOMAIN After \ {"start"})

-----------------------------------------------------------------------------
TypeOK ==
    /\ want \in Wants /\ secret \in 0..Len(Secrets)
    /\ back \in BOOLEAN /\ edits \in 0..MaxEdits
    /\ config \in [settings : Nat, address : Addresses] \cup {Absent}
    /\ daemonset \in [configHash : Nat, replicas : Nat \ {0}] \cup {Absent}
    /\ proxy \in Deployments \cup {Absent}
    /\ proxy # Absent => Admissible(proxy)
    /\ shipper \in [Nodes -> [template : [configHash : Nat, replicas : Nat \ {0}],
                               file : [settings : Nat, address : Addresses]] \cup {Absent}]
    /\ pc \in Places
    /\ snap \in Wants \cup {Absent}
    /\ available \in 1..Cardinality(Proxies) /\ canExport \in BOOLEAN
    /\ seen \in 0..Len(Secrets)
    /\ evictions \in 0..MaxEvictions /\ faults \in 0..MaxFaults

Init ==
    /\ want \in {Want(option, 0) : option \in Options}
    /\ secret = 0
    /\ config = Absent /\ daemonset = Absent /\ proxy = Absent
    /\ shipper = [n \in Nodes |-> Absent]
    /\ replica = [p \in Proxies |-> Absent]
    /\ pc = "idle" /\ snap = Absent /\ available = 1 /\ canExport = FALSE /\ seen = 0
    /\ back = FALSE /\ edits = 0 /\ evictions = 0 /\ faults = 0

(* The user changes the spec: the log settings stay, are new ones, or are  *)
(* settings it had before.                                                 *)
Edit(new) ==
    /\ new # want /\ edits < MaxEdits
    /\ want' = new
    /\ back' = (back \/ new.settings < want.settings)
    /\ edits' = edits + 1
    /\ UNCHANGED <<secret, objects, pods, pass, evictions, faults>>

(* The secret is created, and then written again.                          *)
Rotate ==
    /\ secret < Len(Secrets)
    /\ secret' = secret + 1
    /\ UNCHANGED <<want, back, edits, objects, pods, pass, evictions, faults>>

-----------------------------------------------------------------------------
(* Reconcile.  The next pass starts after a delay, whatever became of this *)
(* one; the spec is a valid one, so that every pass applies it.            *)

Goto(l) == pc' = l

(* The pass is over; what it held in local variables is gone.              *)
EndPass == Goto("idle") /\ snap' = Absent /\ available' = 1 /\ canExport' = FALSE /\ seen' = 0

Proceed(l) ==
    IF After[l] = "idle" THEN EndPass
    ELSE Goto(After[l]) /\ UNCHANGED <<snap, available, canExport, seen>>

(* A request fails, or the operator is restarted.                          *)
PassFails ==
    /\ pc # "idle" /\ faults < MaxFaults
    /\ EndPass
    /\ faults' = faults + 1
    /\ UNCHANGED <<world, objects, pods, evictions>>

Fetch ==
    /\ pc = "idle"
    /\ snap' = want
    /\ Goto("available")
    /\ UNCHANGED <<world, objects, pods, available, canExport, seen, evictions, faults>>

Running == {p \in Proxies : replica[p] # Absent}

(* Mutant: the count is taken over even when no replica is available.      *)
ReadAnyCount ==
    /\ pc = "available"
    /\ LET n == IF proxy = Absent THEN 0 ELSE Cardinality(Running)
       IN IF Deploys(snap) THEN canExport' = (n > 0) /\ available' = n
          ELSE canExport' = TRUE /\ UNCHANGED available
    /\ Goto(IF UsesSecret(snap) THEN "secret" ELSE After.start)
    /\ UNCHANGED <<world, objects, pods, snap, seen, evictions, faults>>

(* Mutant: replicas are counted whatever proxy the spec asks for.          *)
CountAlways ==
    /\ pc = "available"
    /\ LET n == IF proxy = Absent THEN 0 ELSE Cardinality(Running)
       IN /\ canExport' = (Deploys(snap) => n > 0)
          /\ available' = IF n > 0 THEN n ELSE 1
    /\ Goto(IF UsesSecret(snap) THEN "secret" ELSE After.start)
    /\ UNCHANGED <<world, objects, pods, snap, seen, evictions, faults>>

(* The proxy's status.  Without a replica the count stays at 1, which is   *)
(* also what is rendered for an external proxy.                            *)
ReadAvailable ==
    /\ pc = "available"
    /\ LET n == IF proxy = Absent THEN 0 ELSE Cardinality(Running)
       IN IF Deploys(snap)
          THEN canExport' = (n > 0) /\ available' = (IF n > 0 THEN n ELSE 1)
          ELSE canExport' = TRUE /\ UNCHANGED available
    /\ Goto(IF UsesSecret(snap) THEN "secret" ELSE After.start)
    /\ UNCHANGED <<world, objects, pods, snap, seen, evictions, faults>>

(* findHttpProxySecret; a pass that does not find it ends with an error.   *)
ReadSecret ==
    /\ pc = "secret"
    /\ IF secret = 0 THEN EndPass
       ELSE seen' = secret /\ Goto(After.start) /\ UNCHANGED <<snap, available, canExport>>
    /\ UNCHANGED <<world, objects, pods, evictions, faults>>

ApplyConfig ==
    /\ pc = "applyConfig"
    /\ config' = IF LoggingEnabled THEN ConfigFor(snap) ELSE config
    /\ Proceed(pc)
    /\ UNCHANGED <<world, daemonset, proxy, pods, evictions, faults>>

ApplyDaemonset ==
    /\ pc = "applyDaemonset"
    /\ daemonset' = IF LoggingEnabled THEN DaemonsetFor(snap, available) ELSE daemonset
    /\ Proceed(pc)
    /\ UNCHANGED <<world, config, proxy, pods, evictions, faults>>

(* Mutant: a Deployment whose patch is rejected is deleted to be recreated. *)
RecreateProxy ==
    /\ pc = "applyProxy"
    /\ IF ~Deploys(snap) THEN UNCHANGED proxy /\ Proceed(pc)
       ELSE LET new == PatchOrCreate(proxy, DeploymentFor(snap, seen))
            IN IF Admissible(new) THEN proxy' = new /\ Proceed(pc)
               ELSE proxy' = Absent /\ EndPass
    /\ UNCHANGED <<world, config, daemonset, pods, evictions, faults>>

(* A patch that the API server rejects ends the pass with an error.        *)
ApplyProxy ==
    /\ pc = "applyProxy"
    /\ IF ~Deploys(snap) THEN UNCHANGED proxy /\ Proceed(pc)
       ELSE LET new == PatchOrCreate(proxy, DeploymentFor(snap, seen))
            IN IF Admissible(new) THEN proxy' = new /\ Proceed(pc)
               ELSE UNCHANGED proxy /\ EndPass
    /\ UNCHANGED <<world, config, daemonset, pods, evictions, faults>>

DeleteConfig ==
    /\ pc = "deleteConfig"
    /\ config' = IF snap.logging THEN config ELSE Absent
    /\ Proceed(pc)
    /\ UNCHANGED <<world, daemonset, proxy, pods, evictions, faults>>

DeleteDaemonset ==
    /\ pc = "deleteDaemonset"
    /\ daemonset' = IF snap.logging THEN daemonset ELSE Absent
    /\ Proceed(pc)
    /\ UNCHANGED <<world, config, proxy, pods, evictions, faults>>

DeleteProxy ==
    /\ pc = "deleteProxy"
    /\ proxy' = IF Deploys(snap) THEN proxy ELSE Absent
    /\ Proceed(pc)
    /\ UNCHANGED <<world, config, daemonset, pods, evictions, faults>>

-----------------------------------------------------------------------------
(* Kubernetes.                                                             *)

(* A pod of the log shipper mounts its config file by subPath: it keeps    *)
(* what the ConfigMap held when the pod was started.                       *)
RunShipper(n) ==
    /\ daemonset # Absent /\ config # Absent
    /\ shipper[n] # Absent => shipper[n].template # daemonset
    /\ shipper' = [shipper EXCEPT ![n] = [template |-> daemonset, file |-> config]]
    /\ UNCHANGED <<world, objects, replica, pass, evictions, faults>>

(* A replica of the proxy is started when its volumes can be mounted; its  *)
(* init container reads the bundle.  An old replica is kept until then.    *)
CanStart == "ca" \in proxy.volumes => secret # 0 /\ Secrets[secret].ca # 0

RunProxy(p) ==
    /\ proxy # Absent /\ CanStart
    /\ replica[p] # Absent => replica[p].template # proxy
    /\ replica' = [replica EXCEPT ![p] =
           [template |-> proxy, bundle |-> IF "ca" \in proxy.volumes THEN Secrets[secret].ca ELSE 0]]
    /\ UNCHANGED <<world, objects, shipper, pass, evictions, faults>>

(* The pods of an object that was deleted are stopped.                     *)
StopShipper(n) ==
    /\ daemonset = Absent /\ shipper[n] # Absent
    /\ shipper' = [shipper EXCEPT ![n] = Absent]
    /\ UNCHANGED <<world, objects, replica, pass, evictions, faults>>

StopProxy(p) ==
    /\ proxy = Absent /\ replica[p] # Absent
    /\ replica' = [replica EXCEPT ![p] = Absent]
    /\ UNCHANGED <<world, objects, shipper, pass, evictions, faults>>

Evict ==
    /\ evictions < MaxEvictions
    /\ \/ \E n \in Nodes :
              shipper[n] # Absent /\ shipper' = [shipper EXCEPT ![n] = Absent] /\ UNCHANGED replica
       \/ \E p \in Proxies :
              replica[p] # Absent /\ replica' = [replica EXCEPT ![p] = Absent] /\ UNCHANGED shipper
    /\ evictions' = evictions + 1
    /\ UNCHANGED <<world, objects, pass, faults>>

-----------------------------------------------------------------------------
Operator ==
    \/ Fetch \/ ReadAvailable \/ ReadSecret
    \/ ApplyConfig \/ ApplyDaemonset \/ ApplyProxy
    \/ DeleteConfig \/ DeleteDaemonset \/ DeleteProxy

Kubernetes ==
    \/ \E n \in Nodes : RunShipper(n) \/ StopShipper(n)
    \/ \E p \in Proxies : RunProxy(p) \/ StopProxy(p)

User ==
    \/ \E option \in Options, settings \in 0..(want.settings + 1) : Edit(Want(option, settings))
    \/ Rotate

Next == Operator \/ Kubernetes \/ User \/ PassFails \/ Evict

Spec == Init /\ [][Next]_vars

(* The operator's passes go on, and every pod that can be started, must be *)
(* replaced or must be stopped is.  Nobody has to edit or to create.       *)
Fairness ==
    /\ WF_vars(Operator)
    /\ \A n \in Nodes : WF_vars(RunShipper(n)) /\ WF_vars(StopShipper(n))
    /\ \A p \in Proxies : WF_vars(RunProxy(p)) /\ WF_vars(StopProxy(p))

FairSpec == Spec /\ Fairness

-----------------------------------------------------------------------------
(* While the user goes on to new log settings, a pod's config file is      *)
(* never older than the hash in its template says: whatever fails in       *)
(* between, a pod that was restarted for new settings has them.  It is     *)
(* what makes the hash worth comparing.                                    *)
NoShipperBehindItsHash ==
    ~back => \A n \in Nodes :
        shipper[n] # Absent => shipper[n].file.settings >= shipper[n].template.configHash

(* ... and a pod whose template has the hash of the spec has the settings  *)
(* of the spec in its file: when Kubernetes sees nothing left to replace,  *)
(* nothing is.  Not so once the user has gone back: if a pass wrote the    *)
(* ConfigMap of settings that were given up and failed before the          *)
(* DaemonSet, a pod started in between has their file and the old hash.    *)
CurrentHashCurrentFile ==
    ~back => \A n \in Nodes :
        shipper[n] # Absent /\ shipper[n].template.configHash = LoggingHash(want)
            => shipper[n].file.settings = want.settings

(* Nothing stands in the way of a pass: the secret it reads is there, and  *)
(* what it would patch into the proxy's Deployment is accepted.            *)
Blocked == UsesSecret(want) /\ secret = 0
Stuck ==
    /\ Deploys(want) /\ ~Blocked
    /\ ~Admissible(PatchOrCreate(proxy, DeploymentFor(want, secret)))
Serving == ~Blocked /\ ~Stuck

(* A Deployment whose patch is rejected is out of the operator's reach: no *)
(* pass for a spec that deploys the proxy, retry, restart or eviction      *)
(* mends it as long as the spec and the secret are what they are and       *)
(* nobody deletes the Deployment by hand.                                  *)
Rejected == (snap # Absent => Deploys(snap)) /\ Stuck

RejectedForGood == [][UNCHANGED <<want, secret>> /\ Rejected => Rejected']_vars

(* A log shipper whose file is not the spec's, be it the address of        *)
(* another proxy or settings the user has given up: the ConfigMap may be   *)
(* right by now, but the template is the one the spec's log settings lead  *)
(* to, and every pass under way keeps it.                                  *)
StaleFile(n) ==
    /\ shipper[n] # Absent /\ shipper[n].file # ConfigFor(want)
    /\ daemonset # Absent /\ shipper[n].template = daemonset
    /\ \A w \in {want, snap} \ {Absent} :
           w.logging /\ ~Deploys(w) /\ daemonset = DaemonsetFor(w, 1)
    /\ available = 1

(* Such a pod is never restarted for its file: it goes on as it is until   *)
(* the user edits the resource or the pod itself is lost.                  *)
StaleForGood ==
    [][\A n \in Nodes : StaleFile(n) => StaleFile(n)' \/ want' # want \/ shipper'[n] = Absent]_vars

ShippersRun(w) ==
    LET n == IF Deploys(w) THEN Cardinality(Proxies) ELSE 1
    IN \A node \in Nodes :
           /\ shipper[node] # Absent
           /\ shipper[node].template = DaemonsetFor(w, n)
           /\ back \/ shipper[node].file.settings = w.settings

(* "Tags are a map of key value pairs that are added to all logging        *)
(* emitted": in the end every log shipper runs with the tags and filters   *)
(* of the spec, unless the user went back to settings the spec had, and    *)
(* was restarted for the number of proxies there are.                      *)
ShippersFollowSpec ==
    <>[](Serving => IF want.logging THEN ShippersRun(want)
                    ELSE \A n \in Nodes : shipper[n] = Absent)

(* In the end every replica of the proxy runs with the spec's arguments,   *)
(* the host in the secret and the bundle in the secret, if any.            *)
ProxyFollowsSecret ==
    <>[](Serving => IF Deploys(want)
                    THEN \A p \in Proxies :
                            /\ replica[p] # Absent
                            /\ replica[p].template = DeploymentFor(want, secret)
                            /\ replica[p].bundle = SecretFor(want, secret).ca
                    ELSE \A p \in Proxies : replica[p] = Absent)

(* "move the current state of the cluster closer to the desired state":    *)
(* when the spec and the secret no longer change, the proxy's Deployment   *)
(* becomes what they ask for.                                              *)
ProxyConverges ==
    <>[](Deploys(want) /\ ~Blocked => proxy # Absent /\ proxy = DeploymentFor(want, secret))

(* The same of the log shipper: it sends to the proxy the spec names.      *)
ShippersFollowAddress ==
    <>[](Serving /\ want.logging =>
            \A n \in Nodes : shipper[n] # Absent /\ shipper[n].file.address = want.address)
=============================================================================
