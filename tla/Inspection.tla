----------------------------- MODULE Inspection -----------------------------
(***************************************************************************)
(* The reads a pass judges the cluster by: validation.Validate asks for    *)
(* legacy workloads and for the operator's own                             *)
(* (internal/validation/validate_wavefront.go), GenerateWavefrontStatus    *)
(* reads every workload and lists its pods (internal/health/status.go).    *)
(* Each is a request of its own, may fail, and may be overtaken by changes *)
(* of what was read before.  Reconciler takes Validate for one step; here  *)
(* is what that step stands for, and what becomes of the reads.            *)
(*                                                                         *)
(* Between the two the operator applies or deletes its objects, which is a *)
(* change of the cluster here and is modelled in Reconciler.               *)
(***************************************************************************)
EXTENDS StatusGauges, Sequences, Functions

CONSTANTS
    Legacy,         \* the legacy workloads Validate looks for: <<namespace, name>>
    Specs,          \* what resources enable, and whether they are valid
    Worlds,         \* the availability of the workloads to start from
    Releases,       \* versions of the operator: an upgrade may come before any pass
    MaxChanges,     \* bound: changes of the cluster
    MaxFaults       \* bound: reads that fail in a pass

SpecType == [metrics : BOOLEAN, logging : BOOLEAN, proxy : BOOLEAN,
             invalid : BOOLEAN, allowLegacy : BOOLEAN]
Availability == {"absent", "short", "full"}

ASSUME InspectionAssumption ==
    /\ Specs \subseteq SpecType
    /\ Worlds \subseteq [Workload -> Availability]
    /\ Releases \subseteq Release
    /\ {MaxChanges, MaxFaults} \subseteq Nat

VARIABLES
    legacy,         \* the legacy workloads that exist
    app,            \* the operator's workloads, by their object's status
    killed,         \* those with a container OOM-killed in the last five minutes
    young,          \* the resource was created less than MaxInstallTime ago
    pc,
    spec,           \* the resource that is looked at
    unread,         \* the legacy workloads that are still to be asked for
    todo,           \* the workloads a loop has still to read, in order
    verdict,        \* the validation result
    reading,        \* the workloads read
    report,         \* the status that is reported, with its gauges
    \* History, for the properties: what one look at the whole cluster would
    \* have said at each moment since the validation or the health check
    \* began, and the kinds of changes of the cluster since.
    moments,
    changed,
    changes, faults

cluster == <<legacy, app, killed, young>>
pass == <<pc, spec, unread, todo, verdict, reading, report>>
history == <<moments, changed>>
vars == <<cluster, pass, history, changes, faults>>

(* Mutant: the node collector is forgotten.                                *)
NoNodeCollector(s) ==
    (IF s.proxy THEN <<"wavefront-proxy">> ELSE <<>>)
    \o (IF s.metrics THEN <<"wavefront-cluster-collector">> ELSE <<>>)
    \o (IF s.logging THEN <<"wavefront-logging">> ELSE <<>>)
    \o <<OperatorName>>

(* The order of the reads, and what areAnyComponentsDeployed asks for.     *)
HealthOrder(s) ==
    (IF s.proxy THEN <<"wavefront-proxy">> ELSE <<>>)
    \o (IF s.metrics THEN <<"wavefront-cluster-collector", "wavefront-node-collector">> ELSE <<>>)
    \o (IF s.logging THEN <<"wavefront-logging">> ELSE <<>>)
    \o <<OperatorName>>
DeployedOrder == <<"wavefront-proxy", "wavefront-node-collector", "wavefront-cluster-collector">>

NoReport == [status |-> "none", gauges |-> "none", release |-> "none", version |-> "none"]
NoReading == [w \in {} |-> [healthy |-> TRUE]]
ChangeKinds == {"legacy gone", "legacy back", "better", "worse", "aged"}

TypeOK ==
    /\ legacy \subseteq Legacy /\ unread \subseteq Legacy
    /\ app \in [Workload -> Availability]
    /\ killed \subseteq Workload
    /\ young \in BOOLEAN
    /\ pc \in {"idle", "legacy", "deployed", "validated", "object", "pods", "reported"}
    /\ spec \in SpecType
    /\ todo \in Seq(Workload)
    /\ verdict \in {"valid", "warning", "error"}
    /\ DOMAIN reading \subseteq AskedFor(spec)
    /\ pc = "reported" => DOMAIN reading = AskedFor(spec)
    /\ report.status \in {"none", "Healthy", "Installing", "Unhealthy"}
    /\ changed \subseteq ChangeKinds
    /\ changes \in 0..MaxChanges /\ faults \in 0..MaxFaults

-----------------------------------------------------------------------------
(* What one look at everything would say.                                  *)

VerdictNow(s) ==
    IF legacy = {} \/ s.allowLegacy THEN IF s.invalid THEN "error" ELSE "valid"
    ELSE IF \E w \in Range(DeployedOrder) : app[w] # "absent" THEN "warning" ELSE "error"

WellNow(w) == app[w] = "full" /\ w \notin killed
StatusNow(s) ==
    IF \A w \in AskedFor(s) : WellNow(w) THEN "Healthy"
    ELSE IF young THEN "Installing" ELSE "Unhealthy"

LookNow == IF pc \in {"legacy", "deployed"} THEN VerdictNow(spec) ELSE StatusNow(spec)

-----------------------------------------------------------------------------
Init ==
    /\ legacy \in SUBSET Legacy /\ app \in Worlds /\ killed = {} /\ young \in BOOLEAN
    /\ pc = "idle" /\ spec \in Specs
    /\ unread = {} /\ todo = <<>> /\ verdict = "valid" /\ reading = NoReading /\ report = NoReport
    /\ moments = {} /\ changed = {} /\ changes = 0 /\ faults = 0

(* A read that fails; both packages take an error for an answer.           *)
Fault == faults < MaxFaults /\ faults' = faults + 1

(* "No" is what is read of a workload that is not there, or by a fault.    *)
ReadNo(there) == IF there THEN Fault ELSE UNCHANGED faults

(* validateEnvironment; what is found decides nothing yet.                 *)
Judged(v) == pc' = "validated" /\ verdict' = v /\ todo' = <<>>
SpecVerdict(s) == IF s.invalid THEN "error" ELSE "valid"

Begin(s) ==
    /\ pc = "idle"
    /\ spec' = s
    /\ IF s.allowLegacy \/ Legacy = {}
       THEN Judged(SpecVerdict(s)) /\ unread' = {}
       ELSE pc' = "legacy" /\ unread' = Legacy /\ UNCHANGED <<verdict, todo>>
    /\ reading' = NoReading /\ report' = NoReport
    /\ moments' = {VerdictNow(s)} /\ changed' = {} /\ faults' = 0
    /\ UNCHANGED <<cluster, changes>>

(* The map of maps is walked in any order, one namespace after the other.  *)
Begun == {l \in unread : \E r \in Legacy \ unread : r[1] = l[1]}

AskLegacy(l) ==
    /\ pc = "legacy"
    /\ l \in IF Begun = {} THEN unread ELSE Begun
    /\ \/ /\ l \in legacy
          /\ pc' = "deployed" /\ unread' = {} /\ todo' = DeployedOrder
          /\ UNCHANGED <<verdict, faults>>
       \/ /\ ReadNo(l \in legacy)
          /\ unread' = unread \ {l}
          /\ IF unread = {l} THEN Judged(SpecVerdict(spec)) ELSE UNCHANGED <<pc, verdict, todo>>
    /\ UNCHANGED <<cluster, spec, reading, report, history, changes>>

(* Mutant: only the proxy counts for an installation.                      *)
AskProxyOnly ==
    /\ pc = "deployed"
    /\ Judged(IF app[Head(todo)] # "absent" THEN "warning" ELSE "error")
    /\ UNCHANGED <<cluster, spec, unread, reading, report, history, changes, faults>>

(* areAnyComponentsDeployed                                                *)
AskDeployed ==
    /\ pc = "deployed"
    /\ LET there == app[Head(todo)] # "absent"
       IN \/ there /\ Judged("warning") /\ UNCHANGED faults
          \/ /\ ReadNo(there)
             /\ IF Tail(todo) = <<>> THEN Judged("error")
                ELSE todo' = Tail(todo) /\ UNCHANGED <<pc, verdict>>
    /\ UNCHANGED <<cluster, spec, unread, reading, report, history, changes>>

(* GenerateWavefrontStatus: the enabled workloads, in order.               *)
BeginHealth ==
    /\ pc = "validated"
    /\ pc' = "object"
    /\ todo' = HealthOrder(spec)
    /\ moments' = {StatusNow(spec)} /\ changed' = {} /\ faults' = 0
    /\ UNCHANGED <<cluster, spec, unread, verdict, reading, report, changes>>

Read(w, h) ==
    reading' = [v \in DOMAIN reading \cup {w} |-> IF v = w THEN [healthy |-> h] ELSE reading[v]]

(* The object's status; nothing is known of a workload that is not there.  *)
ReadObject ==
    /\ pc = "object" /\ todo # <<>>
    /\ LET w == Head(todo)
       IN \/ /\ ReadNo(app[w] # "absent")
             /\ Read(w, FALSE)
             /\ todo' = Tail(todo) /\ UNCHANGED pc
          \/ /\ app[w] # "absent" /\ UNCHANGED faults
             /\ Read(w, app[w] = "full")
             /\ pc' = "pods" /\ UNCHANGED todo
    /\ UNCHANGED <<cluster, spec, unread, verdict, report, history, changes>>

(* Mutant: the pods' answer replaces the object's.                         *)
PodsDecide ==
    /\ pc = "pods"
    /\ Read(Head(todo), Head(todo) \notin killed)
    /\ pc' = "object" /\ todo' = Tail(todo)
    /\ UNCHANGED <<cluster, spec, unread, verdict, report, history, changes, faults>>

(* Its pods: one that was OOM-killed spoils it, a list that fails does not.*)
ListPods ==
    /\ pc = "pods"
    /\ LET w == Head(todo)
       IN \/ Read(w, reading[w].healthy /\ w \notin killed) /\ UNCHANGED faults
          \/ UNCHANGED reading /\ Fault
    /\ pc' = "object" /\ todo' = Tail(todo)
    /\ UNCHANGED <<cluster, spec, unread, verdict, report, history, changes>>

(* reportHealthStatus: a validation message overrides the status, but not  *)
(* the flags; after an error no status gauges are sent.  The version of    *)
(* the operator is, as a gauge if there is one for it.                     *)
Report(v) ==
    /\ pc = "object" /\ todo = <<>>
    /\ LET status == IF verdict = "valid" THEN Aggregate(reading, young) ELSE "Unhealthy"
       IN report' = [status |-> status,
                     gauges |-> IF verdict = "error" THEN "none"
                                ELSE Gauges(status, Flagged(reading, young)),
                     release |-> v, version |-> VersionGauge(v)]
    /\ pc' = "reported"
    /\ UNCHANGED <<cluster, spec, unread, todo, verdict, reading, history, changes, faults>>

EndPass ==
    /\ pc = "reported"
    /\ pc' = "idle" /\ report' = NoReport
    /\ UNCHANGED <<cluster, spec, unread, todo, verdict, reading, history, changes, faults>>

-----------------------------------------------------------------------------
(* The cluster, at any time; the history follows.                          *)

Changes(kind) ==
    /\ changes < MaxChanges
    /\ changes' = changes + 1
    /\ UNCHANGED <<pass, faults>>
    /\ IF pc \in {"idle", "validated", "reported"} THEN UNCHANGED history
       ELSE changed' = changed \cup {kind} /\ moments' = moments \cup {LookNow'}

LegacyChanges(l) ==
    /\ legacy' = IF l \in legacy THEN legacy \ {l} ELSE legacy \cup {l}
    /\ UNCHANGED <<app, killed, young>>
    /\ Changes(IF l \in legacy THEN "legacy gone" ELSE "legacy back")

Rank == [absent |-> 0, short |-> 1, full |-> 2]

AppChanges(w, a) ==
    /\ a # app[w]
    /\ app' = [app EXCEPT ![w] = a]
    /\ UNCHANGED <<legacy, killed, young>>
    /\ Changes(IF Rank[a] > Rank[app[w]] THEN "better" ELSE "worse")

(* A container is OOM-killed, or it was more than OOMTimeout ago.          *)
KilledChanges(w) ==
    /\ killed' = IF w \in killed THEN killed \ {w} ELSE killed \cup {w}
    /\ UNCHANGED <<legacy, app, young>>
    /\ Changes(IF w \in killed THEN "better" ELSE "worse")

Age ==
    /\ young
    /\ young' = FALSE
    /\ UNCHANGED <<legacy, app, killed>>
    /\ Changes("aged")

Look ==
    \/ \E s \in Specs : Begin(s)
    \/ \E l \in Legacy : AskLegacy(l)
    \/ AskDeployed \/ BeginHealth \/ ReadObject \/ ListPods
    \/ \E v \in Releases : Report(v)
    \/ EndPass

Change ==
    \/ \E l \in Legacy : LegacyChanges(l)
    \/ \E w \in Workload : KilledChanges(w) \/ \E a \in Availability : AppChanges(w, a)
    \/ Age

Next == Look \/ Change

Spec == Init /\ [][Next]_vars

-----------------------------------------------------------------------------
(* The cluster changed in no way or in one, any number of times: legacy    *)
(* workloads go, or they come; workloads get better, or they get worse; or *)
(* the time of installation is up.                                         *)
OneWay == \A a, b \in changed : a = b

(* The verdict Validate reaches by its many reads is one that a single     *)
(* look would have reached at some moment since it began, unless a read    *)
(* failed or the cluster changed in two ways meanwhile: it is what lets    *)
(* Reconciler take Validate for one step.                                  *)
VerdictOfAMoment ==
    pc = "validated" /\ faults = 0 /\ OneWay => verdict \in moments

(* So is the status of a valid resource that is reported: a rollout that   *)
(* goes on between the reads does not make it one that never was.  With    *)
(* workloads that fail and others that recover between the reads it may be *)
(* ("Healthy", with one of them down at any time).                         *)
StatusOfAMoment ==
    pc = "reported" /\ verdict = "valid" /\ faults = 0 /\ OneWay => report.status \in moments

(* The gauges tell one story, unless the verdict is an error: the          *)
(* integration's is no higher than that of any component, and if the       *)
(* resource is valid and the operator's own workload is healthy, it is one *)
(* of theirs, hence the lowest, or the gauge of what is healthy.           *)
GaugesAgree ==
    pc = "reported" /\ verdict # "error" =>
        LET integration == report.gauges.integration
            components == Range(report.gauges.components)
        IN /\ \A g \in components : integration <= g
           /\ verdict = "valid" /\ reading[OperatorName].healthy =>
                  integration \in components \cup {Healthy}

(* After an upgrade the version gauge is higher than before, whenever the  *)
(* two releases have one.                                                  *)
NewerReleaseIsHigher ==
    pc = "reported" /\ Encodable(report.release) =>
        \A w \in Releases :
            Encodable(w) /\ Older(w, report.release) => EncodeSemver(w) < report.version
=============================================================================
