------------------------------ MODULE Manifests ------------------------------
(***************************************************************************)
(* The Wavefront custom resource's spec, the manifest files under          *)
(* deploy/internal and which of them a spec applies and deletes            *)
(* (controllers/wavefront_controller.go), with the spec's own validation   *)
(* (internal/validation/validate_wavefront.go).                            *)
(*                                                                         *)
(* A file is its position in filepath.WalkDir's order, the order in which  *)
(* the operator applies and deletes.                                       *)
(***************************************************************************)
EXTENDS Integers, Sequences

CONSTANTS
    Manifest,           \* the files: a sequence of [dir] records, in walk order
    CollectorConfig,    \* the file of the default collector ConfigMap
    ProxyDeployment,    \* the files of the workloads the code knows by name
    NodeCollector,
    ClusterCollector,
    LoggingDaemonSet,
    ExternalAddrs,      \* addresses of external proxies
    ProxyAddr,          \* address of the proxy the operator deploys
    NoAddr,
    Revisions           \* what else a spec says, e.g. a cluster name

Dirs == {"collector", "logging", "proxy"}
Files == 1..Len(Manifest)
Workloads == {ProxyDeployment, NodeCollector, ClusterCollector, LoggingDaemonSet}

Addrs == ExternalAddrs \cup {ProxyAddr}

ASSUME ManifestsAssumption ==
    /\ Manifest \in Seq([dir : Dirs])
    /\ Workloads \subseteq Files
    /\ CollectorConfig \in Files
    /\ Manifest[ProxyDeployment].dir = "proxy"
    /\ Manifest[CollectorConfig].dir = "collector"
    /\ Manifest[NodeCollector].dir = "collector"
    /\ Manifest[ClusterCollector].dir = "collector"
    /\ Manifest[LoggingDaemonSet].dir = "logging"
    /\ NoAddr \notin Addrs

(* What WavefrontSpec tells the reconciler.  external is NoAddr when no    *)
(* externalWavefrontProxy.url is given; customConfig says that a collector *)
(* ConfigMap of another name is; secret, that httpProxy.secret is; and     *)
(* excessive names the resources whose requests exceed their limits.       *)
SpecType ==
    [proxy : BOOLEAN, external : ExternalAddrs \cup {NoAddr},
     metrics : BOOLEAN, logging : BOOLEAN,
     customConfig : BOOLEAN, secret : BOOLEAN, allowLegacy : BOOLEAN,
     excessive : SUBSET {"proxy", "collector"}, revision : Revisions]

-----------------------------------------------------------------------------
(* Mutant: the collection components do not wait for a way out.            *)
EnabledWithoutExport(spec, canExport) ==
    {d \in Dirs :
        \/ d = "proxy" /\ spec.proxy
        \/ d = "collector" /\ spec.metrics
        \/ d = "logging" /\ spec.logging}

EnabledDirs(spec, canExport) ==
    {d \in Dirs :
        \/ d = "proxy" /\ spec.proxy
        \/ d = "collector" /\ canExport /\ spec.metrics
        \/ d = "logging" /\ canExport /\ spec.logging}

(* The negations do not look at canExport: a collection component that is  *)
(* wanted while nothing can be exported is neither applied nor deleted.    *)
DisabledDirs(spec) ==
    {d \in Dirs :
        \/ d = "proxy" /\ ~spec.proxy
        \/ d = "collector" /\ ~spec.metrics
        \/ d = "logging" /\ ~spec.logging}

ResourceFiles(dirs) == {f \in Files : Manifest[f].dir \in dirs}

(* filterDisabledAndConfigMap: the default collector ConfigMap is left     *)
(* alone when the spec names one of its own.                               *)
Excluded(spec, f) == f = CollectorConfig /\ spec.customConfig

(* The next file of a walk: the first of those that are left.              *)
First(f, files) == f \in files /\ \A g \in files : f <= g

(* ProxyAddress as preprocess sets it: where the collectors, the log       *)
(* shipper and the operator's own gauges are sent.                         *)
DataPath(spec) == IF spec.proxy THEN ProxyAddr ELSE spec.external

(* validateWavefrontSpec finds an error.                                   *)
SpecInvalid(spec) ==
    \/ spec.proxy /\ spec.external # NoAddr
    \/ spec.proxy /\ "proxy" \in spec.excessive
    \/ ~spec.proxy /\ spec.external = NoAddr
    \/ spec.metrics /\ "collector" \in spec.excessive

(* The workloads GenerateWavefrontStatus asks for.                         *)
StatusWorkloads(spec) ==
    {w \in Workloads :
        \/ w = ProxyDeployment /\ spec.proxy
        \/ w \in {ClusterCollector, NodeCollector} /\ spec.metrics
        \/ w = LoggingDaemonSet /\ spec.logging}
=============================================================================
