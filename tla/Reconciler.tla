----------------------------- MODULE Reconciler -----------------------------
(***************************************************************************)
(* The operator: one WavefrontReconciler                                   *)
(* (controllers/wavefront_controller.go) behind controller-runtime's watch *)
(* and work queue, the cluster it reads and writes, and the people and     *)
(* controllers that change the cluster under it.  There is one custom      *)
(* resource and one worker; every request to the API server is a step of   *)
(* its own, so anything may change between two requests, and any request   *)
(* may fail.  The operator's gauges go to MetricGauges.                    *)
(***************************************************************************)
EXTENDS Manifests

CONSTANTS
    Specs,          \* the specs the user writes
    NoCR,           \* there is no custom resource
    Absent,         \* there is no such object
    MaxEdits,       \* bound: writes of the custom resource by the user
    MaxFaults,      \* bound: steps in which requests fail
    MaxCrashes,     \* bound: restarts of the operator
    MaxChurn,       \* bound: other changes of the cluster
    MaxFlushes      \* bound: ticks of the flush loop

ASSUME ReconcilerAssumption ==
    /\ Specs \subseteq SpecType
    /\ Absent \notin Specs
    /\ NoCR \notin Specs \cup [spec : Specs, status : {"none", "Installing", "Healthy", "Unhealthy"}]
    /\ {MaxEdits, MaxFaults, MaxCrashes, MaxChurn, MaxFlushes} \subseteq Nat

VARIABLES
    cr,             \* the custom resource
    aged,           \* it was created more than MaxInstallTime ago
    objs,           \* the objects of the manifests: the spec rendered into them
    level,          \* the availability of the workloads
    legacy,         \* some legacy Wavefront workload exists
    secret,         \* the http proxy secret exists and parses
    watch,          \* an event of the custom resource is on its way
    dirty,          \* the request is in the work queue
    timer,          \* the request is in the delaying queue
    pc,             \* the reconciler's place in Reconcile
    snap,           \* the custom resource Reconcile has read
    canExport,      \* Spec.CanExportData
    verdict,        \* the validation result
    todo,           \* the files or workloads a loop has still to visit
    healthy,        \* every workload visited was healthy
    addr,           \* MetricConnection: see MetricGauges
    latest,
    edits, faults, crashes, churn, flushes

cluster == <<cr, aged, objs, level, legacy, secret>>
queue == <<watch, dirty, timer>>
locals == <<snap, canExport, verdict, todo, healthy>>
sink == <<addr, latest>>
budgets == <<edits, faults, crashes, churn, flushes>>
vars == <<cluster, queue, pc, locals, sink, budgets>>

Statuses == {"Installing", "Healthy", "Unhealthy"}
Verdicts == {"unknown", "valid", "warning", "error"}

(* Of the gauges the operator reports, the version never changes: the      *)
(* status gauges stand for all.                                            *)
Gauges == INSTANCE MetricGauges
    WITH Names <- {"status"}, Values <- Statuses, NoValue <- "none"

CRs == [spec : Specs, status : Statuses \cup {"none"}]

ClusterTypeOK ==
    /\ cr \in CRs \cup {NoCR}
    /\ aged \in BOOLEAN
    /\ objs \in [Files -> Specs \cup {Absent}]
    /\ level \in [Workloads -> {"down", "degraded", "up"}]
    /\ legacy \in BOOLEAN /\ secret \in BOOLEAN

QueueTypeOK == watch \in BOOLEAN /\ dirty \in BOOLEAN /\ timer \in BOOLEAN

PassTypeOK ==
    /\ pc \in {"idle", "fetch", "teardown", "deleteAll", "preprocess", "secret", "connect",
               "validate", "readUID", "apply", "prune", "health", "report"}
    /\ snap \in CRs \cup {NoCR}
    /\ canExport \in BOOLEAN
    /\ verdict \in Verdicts
    /\ todo \in SUBSET Files
    /\ healthy \in BOOLEAN

BudgetsTypeOK ==
    /\ edits \in 0..MaxEdits /\ faults \in 0..MaxFaults /\ crashes \in 0..MaxCrashes
    /\ churn \in 0..MaxChurn /\ flushes \in 0..MaxFlushes

TypeOK ==
    ClusterTypeOK /\ QueueTypeOK /\ PassTypeOK /\ Gauges!GaugesTypeOK /\ BudgetsTypeOK

Init ==
    /\ cr = NoCR
    /\ aged = FALSE
    /\ objs = [f \in Files |-> Absent]
    /\ level = [w \in Workloads |-> "down"]
    /\ legacy = FALSE
    /\ secret = FALSE
    /\ watch = FALSE /\ dirty = FALSE /\ timer = FALSE
    /\ pc = "idle"
    /\ snap = NoCR
    /\ canExport = FALSE
    /\ verdict = "unknown"
    /\ todo = {}
    /\ healthy = FALSE
    /\ Gauges!GaugesInit
    /\ edits = 0 /\ faults = 0 /\ crashes = 0 /\ churn = 0 /\ flushes = 0

-----------------------------------------------------------------------------
(* Steps of the world around Reconcile.                                    *)

Spend(counter, bound) == counter < bound /\ counter' = counter + 1

(* The user writes the custom resource; the API server tells the watch.    *)
UserWrites(new) ==
    /\ Spend(edits, MaxEdits)
    /\ cr' = new
    /\ watch' = TRUE
    /\ UNCHANGED <<objs, level, legacy, secret, dirty, timer, pc, locals, sink,
                   faults, crashes, churn, flushes>>

CreateCR(spec) ==
    /\ cr = NoCR
    /\ UserWrites([spec |-> spec, status |-> "none"])
    /\ aged' = FALSE

EditCR(spec) ==
    /\ cr # NoCR /\ cr.spec # spec
    /\ UserWrites([cr EXCEPT !.spec = spec])
    /\ UNCHANGED aged

DeleteCR ==
    /\ cr # NoCR
    /\ UserWrites(NoCR)
    /\ UNCHANGED aged

Age ==
    /\ cr # NoCR /\ ~aged
    /\ aged' = TRUE
    /\ UNCHANGED <<cr, objs, level, legacy, secret, queue, pc, locals, sink, budgets>>

(* What a read of a workload sees: one that was just created or deleted is *)
(* down until the cluster has started pods for it.                         *)
BecomeReady(w) ==
    /\ objs[w] # Absent
    /\ level[w] # "up"
    /\ level' = [level EXCEPT ![w] = "up"]
    /\ UNCHANGED <<cr, aged, objs, legacy, secret, queue, pc, locals, sink, budgets>>

(* Replicas are missing, or a container was OOM-killed in the last five    *)
(* minutes: the workload is unhealthy, and still available if degraded.    *)
Degrade(w, l) ==
    /\ level[w] # "down" /\ level[w] # l
    /\ Spend(churn, MaxChurn)
    /\ level' = [level EXCEPT ![w] = l]
    /\ UNCHANGED <<cr, aged, objs, legacy, secret, queue, pc, locals, sink,
                   edits, faults, crashes, flushes>>

ObjectsGone(gone) ==
    /\ objs' = [f \in Files |-> IF f \in gone THEN Absent ELSE objs[f]]
    /\ level' = [w \in Workloads |-> IF w \in gone THEN "down" ELSE level[w]]

(* Somebody deletes one of the operator's objects.                         *)
Tamper(f) ==
    /\ objs[f] # Absent
    /\ Spend(churn, MaxChurn)
    /\ ObjectsGone({f})
    /\ UNCHANGED <<cr, aged, legacy, secret, queue, pc, locals, sink,
                   edits, faults, crashes, flushes>>

LegacyChanges ==
    /\ Spend(churn, MaxChurn)
    /\ legacy' = ~legacy
    /\ UNCHANGED <<cr, aged, objs, level, secret, queue, pc, locals, sink,
                   edits, faults, crashes, flushes>>

SecretChanges ==
    /\ Spend(churn, MaxChurn)
    /\ secret' = ~secret
    /\ UNCHANGED <<cr, aged, objs, level, legacy, queue, pc, locals, sink,
                   edits, faults, crashes, flushes>>

(* Mutant: an event that arrives during a pass is dropped.                 *)
DropEventInPass ==
    /\ watch
    /\ watch' = FALSE
    /\ dirty' = (dirty \/ pc = "idle")
    /\ UNCHANGED <<cluster, timer, pc, locals, sink, budgets>>

(* The informer adds the request to the work queue, whatever the event.    *)
DeliverEvent ==
    /\ watch
    /\ watch' = FALSE
    /\ dirty' = TRUE
    /\ UNCHANGED <<cluster, timer, pc, locals, sink, budgets>>

FireTimer ==
    /\ timer
    /\ timer' = FALSE
    /\ dirty' = TRUE
    /\ UNCHANGED <<cluster, watch, pc, locals, sink, budgets>>

(* Connection.Flush, on its own goroutine, finds a sender and gauges for   *)
(* it.  This is the moment it takes them; when they arrive is the matter   *)
(* of MetricConnection, where one report may outlast a Close.              *)
FlushTick ==
    /\ addr # NoAddr
    /\ latest["status"] # "none"
    /\ Spend(flushes, MaxFlushes)
    /\ UNCHANGED <<cluster, queue, pc, locals, sink, edits, faults, crashes, churn>>

(* The process dies and starts again: queues, locals and the connection    *)
(* are gone, and the informer's first list enqueues what exists.           *)
Crash ==
    /\ Spend(crashes, MaxCrashes)
    /\ watch' = FALSE /\ timer' = FALSE
    /\ dirty' = (cr # NoCR)
    /\ pc' = "idle"
    /\ snap' = NoCR
    /\ canExport' = FALSE
    /\ verdict' = "unknown"
    /\ todo' = {}
    /\ healthy' = FALSE
    /\ Gauges!Restart
    /\ UNCHANGED <<cluster, edits, faults, churn, flushes>>

-----------------------------------------------------------------------------
(* Steps of Reconcile.  snap and verdict keep their values between passes, *)
(* for the properties; no pass reads what another left in them.            *)

Goto(l) == pc' = l
NoFault == UNCHANGED faults
Fault == Spend(faults, MaxFaults)

(* Mutant: a pass ends without its request being put back.                 *)
NoRequeue == Goto("idle") /\ UNCHANGED timer /\ todo' = {}

(* Reconcile returns an error or Requeue: the request goes back to the     *)
(* delaying queue, which keeps one entry for it.                           *)
Requeue ==
    /\ Goto("idle")
    /\ timer' = TRUE
    /\ todo' = {}

KeepWorld == UNCHANGED <<cr, aged, legacy, secret, watch, edits, crashes, churn, flushes>>
KeepObjs == UNCHANGED <<objs, level>>

Dequeue ==
    /\ pc = "idle" /\ dirty
    /\ dirty' = FALSE
    /\ Goto("fetch")
    /\ NoFault /\ KeepWorld /\ KeepObjs /\ UNCHANGED <<timer, locals, sink>>

(* The first Get.  The verdict stands until a changed spec is read.        *)
Fetch ==
    /\ pc = "fetch"
    /\ \/ Fault /\ Requeue /\ UNCHANGED <<snap, verdict>>
       \/ /\ NoFault /\ UNCHANGED <<timer, todo>>
          /\ Goto(IF cr = NoCR THEN "teardown" ELSE "preprocess")
          /\ snap' = cr
          /\ verdict' = IF cr # NoCR /\ snap # NoCR /\ cr.spec = snap.spec
                        THEN verdict ELSE "unknown"
    /\ KeepWorld /\ KeepObjs /\ UNCHANGED <<dirty, canExport, healthy, sink>>

(* Mutant: the objects are deleted and the connection stays open.          *)
TeardownWithoutClose ==
    /\ pc = "teardown"
    /\ UNCHANGED sink
    /\ todo' = Files
    /\ Goto("deleteAll")
    /\ NoFault /\ KeepWorld /\ KeepObjs
    /\ UNCHANGED <<dirty, timer, snap, canExport, verdict, healthy>>

(* readAndDeleteResources closes the connection first ...                  *)
Teardown ==
    /\ pc = "teardown"
    /\ Gauges!Close
    /\ todo' = Files
    /\ Goto("deleteAll")
    /\ NoFault /\ KeepWorld /\ KeepObjs
    /\ UNCHANGED <<dirty, timer, snap, canExport, verdict, healthy>>

(* ... then deletes file after file; an error ends the loop, and both      *)
(* callers drop it.                                                        *)
DeleteAll ==
    /\ pc = "deleteAll" /\ todo # {}
    /\ \/ \E f \in Files :
              /\ First(f, todo)
              /\ NoFault /\ ObjectsGone({f}) /\ todo' = todo \ {f}
       \/ Fault /\ KeepObjs /\ todo' = {}
    /\ KeepWorld /\ UNCHANGED <<dirty, timer, pc, snap, canExport, verdict, healthy, sink>>

(* Without a custom resource the pass ends here, with nothing requeued.    *)
Deleted ==
    /\ pc = "deleteAll" /\ todo = {}
    /\ IF snap = NoCR
       THEN Goto("idle") /\ UNCHANGED <<todo, healthy>>
       ELSE Goto("health") /\ todo' = StatusWorkloads(snap.spec) /\ healthy' = TRUE
    /\ NoFault /\ KeepWorld /\ KeepObjs
    /\ UNCHANGED <<dirty, timer, snap, canExport, verdict, sink>>

(* preprocess reads the operator's own Deployment, whose loss ends the     *)
(* pass, and the proxy's, whose loss only means that it is unavailable.    *)
Preprocess ==
    /\ pc = "preprocess"
    /\ \/ Fault /\ Requeue /\ UNCHANGED canExport
       \/ /\ UNCHANGED <<timer, todo>>
          /\ \/ NoFault /\ canExport' = IF snap.spec.proxy
                                        THEN level[ProxyDeployment] # "down"
                                        ELSE snap.spec.external # NoAddr
             \/ Fault /\ snap.spec.proxy /\ canExport' = FALSE
          /\ Goto(IF snap.spec.proxy /\ snap.spec.secret THEN "secret" ELSE "connect")
    /\ KeepWorld /\ KeepObjs /\ UNCHANGED <<dirty, snap, verdict, healthy, sink>>

ReadSecret ==
    /\ pc = "secret"
    /\ \/ Fault /\ Requeue
       \/ NoFault /\ ~secret /\ Requeue
       \/ NoFault /\ secret /\ Goto("connect") /\ UNCHANGED <<timer, todo>>
    /\ KeepWorld /\ KeepObjs /\ UNCHANGED <<dirty, snap, canExport, verdict, healthy, sink>>

(* Mutant: a connection, once made, is kept whatever the spec says.        *)
ConnectOnce ==
    /\ pc = "connect"
    /\ \/ /\ ~canExport \/ addr # NoAddr
          /\ UNCHANGED sink /\ NoFault /\ Goto("validate") /\ UNCHANGED <<timer, todo>>
       \/ /\ canExport /\ addr = NoAddr /\ Gauges!Connect(DataPath(snap.spec))
          /\ NoFault /\ Goto("validate") /\ UNCHANGED <<timer, todo>>
       \/ canExport /\ Gauges!ConnectFails(DataPath(snap.spec)) /\ Fault /\ Requeue
    /\ KeepWorld /\ KeepObjs /\ UNCHANGED <<dirty, snap, canExport, verdict, healthy>>

ConnectSink ==
    /\ pc = "connect"
    /\ \/ ~canExport /\ UNCHANGED sink /\ NoFault /\ Goto("validate") /\ UNCHANGED <<timer, todo>>
       \/ /\ canExport /\ Gauges!Connect(DataPath(snap.spec))
          /\ NoFault /\ Goto("validate") /\ UNCHANGED <<timer, todo>>
       \/ canExport /\ Gauges!ConnectFails(DataPath(snap.spec)) /\ Fault /\ Requeue
    /\ KeepWorld /\ KeepObjs /\ UNCHANGED <<dirty, snap, canExport, verdict, healthy>>

(* validation.Validate: a legacy workload comes before the spec's own      *)
(* errors, and is only a warning once a component of the operator is       *)
(* deployed.  A Get that fails is read as "there is none", in both cases.  *)
LegacyInstall == legacy /\ ~snap.spec.allowLegacy
Deployed == {w \in {ProxyDeployment, NodeCollector, ClusterCollector} : objs[w] # Absent}

(* Mutant: a legacy install is always an error.                            *)
JudgeStrictly(legacyFound, deployedSeen) ==
    IF legacyFound \/ SpecInvalid(snap.spec) THEN "error" ELSE "valid"

Judge(legacyFound, deployedSeen) ==
    IF legacyFound
    THEN IF deployedSeen = {} THEN "error" ELSE "warning"
    ELSE IF SpecInvalid(snap.spec) THEN "error" ELSE "valid"

Validate ==
    /\ pc = "validate"
    /\ \/ NoFault /\ verdict' = Judge(LegacyInstall, Deployed)
       \/ Fault /\ \E seen \in SUBSET Deployed, found \in {FALSE, LegacyInstall} :
                       verdict' = Judge(found, seen)
    /\ Goto(IF verdict' = "error" THEN "teardown" ELSE "readUID")
    /\ KeepWorld /\ KeepObjs /\ UNCHANGED <<dirty, timer, snap, canExport, todo, healthy, sink>>

(* getControllerManagerUID, then the walk over the enabled directories.    *)
ReadUID ==
    /\ pc = "readUID"
    /\ \/ Fault /\ Requeue
       \/ /\ NoFault /\ Goto("apply") /\ UNCHANGED timer
          /\ todo' = ResourceFiles(EnabledDirs(snap.spec, canExport))
    /\ KeepWorld /\ KeepObjs /\ UNCHANGED <<dirty, snap, canExport, verdict, healthy, sink>>

(* Mutant: an object that exists is not patched.                           *)
CreateOnly ==
    /\ pc = "apply" /\ todo # {}
    /\ \E f \in Files :
        /\ First(f, todo)
        /\ \/ /\ NoFault /\ UNCHANGED <<timer, pc>>
              /\ todo' = todo \ {f}
              /\ objs' = IF Excluded(snap.spec, f) \/ objs[f] # Absent
                         THEN objs ELSE [objs EXCEPT ![f] = snap.spec]
           \/ ~Excluded(snap.spec, f) /\ Fault /\ Requeue /\ UNCHANGED objs
    /\ KeepWorld
    /\ UNCHANGED <<level, dirty, snap, canExport, verdict, healthy, sink>>

(* ApplyResources: Get, then Create or Patch, unless the file is excluded; *)
(* the first error ends the pass.  An object that goes between the two is  *)
(* one such error: the Patch does not find it.                             *)
Apply ==
    /\ pc = "apply" /\ todo # {}
    /\ \E f \in Files :
        /\ First(f, todo)
        /\ \/ /\ NoFault /\ UNCHANGED <<timer, pc>>
              /\ todo' = todo \ {f}
              /\ objs' = IF Excluded(snap.spec, f) THEN objs ELSE [objs EXCEPT ![f] = snap.spec]
           \/ ~Excluded(snap.spec, f) /\ Fault /\ Requeue /\ UNCHANGED objs
    /\ KeepWorld
    /\ UNCHANGED <<level, dirty, snap, canExport, verdict, healthy, sink>>

(* Mutant: the disabled directories are not deleted.                       *)
AppliedWithoutPrune ==
    /\ pc = "apply" /\ todo = {}
    /\ todo' = {}
    /\ Goto("prune")
    /\ NoFault /\ KeepWorld /\ KeepObjs
    /\ UNCHANGED <<dirty, timer, snap, canExport, verdict, healthy, sink>>

(* Mutant: whatever is not enabled at the moment is deleted.               *)
PruneNotEnabled ==
    /\ pc = "apply" /\ todo = {}
    /\ todo' = ResourceFiles(Dirs \ EnabledDirs(snap.spec, canExport))
    /\ Goto("prune")
    /\ NoFault /\ KeepWorld /\ KeepObjs
    /\ UNCHANGED <<dirty, timer, snap, canExport, verdict, healthy, sink>>

Applied ==
    /\ pc = "apply" /\ todo = {}
    /\ todo' = ResourceFiles(DisabledDirs(snap.spec))
    /\ Goto("prune")
    /\ NoFault /\ KeepWorld /\ KeepObjs
    /\ UNCHANGED <<dirty, timer, snap, canExport, verdict, healthy, sink>>

(* DeleteResources for the disabled directories; an error ends the pass.   *)
Prune ==
    /\ pc = "prune" /\ todo # {}
    /\ \/ \E f \in Files :
              /\ First(f, todo)
              /\ NoFault /\ ObjectsGone({f}) /\ UNCHANGED <<timer, pc>>
              /\ todo' = todo \ {f}
       \/ Fault /\ Requeue /\ KeepObjs
    /\ KeepWorld /\ UNCHANGED <<dirty, snap, canExport, verdict, healthy, sink>>

Pruned ==
    /\ pc = "prune" /\ todo = {}
    /\ Goto("health")
    /\ todo' = StatusWorkloads(snap.spec)
    /\ healthy' = TRUE
    /\ NoFault /\ KeepWorld /\ KeepObjs /\ UNCHANGED <<dirty, timer, snap, canExport, verdict, sink>>

(* GenerateWavefrontStatus reads one workload after the other, then its    *)
(* pods.  One that cannot be read is not running; pods that cannot be      *)
(* listed hide that a container was killed.                                *)
ReadHealth(w) ==
    /\ pc = "health" /\ w \in todo
    /\ \/ NoFault /\ healthy' = (healthy /\ objs[w] # Absent /\ level[w] = "up")
       \/ Fault /\ healthy' \in {FALSE, healthy /\ objs[w] # Absent /\ level[w] # "down"}
    /\ todo' = todo \ {w}
    /\ KeepWorld /\ KeepObjs /\ UNCHANGED <<dirty, timer, pc, snap, canExport, verdict, sink>>

(* The last one is the operator's own Deployment, which is running.        *)
HealthRead ==
    /\ pc = "health" /\ todo = {}
    /\ Goto("report")
    /\ \/ NoFault /\ UNCHANGED healthy
       \/ Fault /\ healthy' = FALSE
    /\ KeepWorld /\ KeepObjs
    /\ UNCHANGED <<dirty, timer, snap, canExport, verdict, todo, sink>>

(* Mutant: a component's status is taken for the resource's.               *)
StatusOfComponent ==
    IF verdict = "valid" /\ healthy THEN "Healthy" ELSE "Not running"

(* reportAggregateStatus, overruled by a validation result.  Of a resource *)
(* that was replaced during the pass, the age is that of the new one.      *)
StatusNow ==
    IF verdict # "valid" THEN "Unhealthy"
    ELSE IF healthy THEN "Healthy"
    ELSE IF aged THEN "Unhealthy" ELSE "Installing"

(* Mutant: a status, once set, is never changed.                           *)
PatchOnce(status) ==
    /\ cr # NoCR
    /\ cr' = IF cr.status # "none" THEN cr ELSE [cr EXCEPT !.status = status]
    /\ watch' \in IF cr' = cr THEN {watch, TRUE} ELSE {TRUE}

(* reportHealthStatus: the gauges are sent, then the status is patched.    *)
(* The patch holds what differs from the status that was read, and lands   *)
(* on whatever resource has the name by then.  A status that changes in    *)
(* the API server, be it only a message in it, is an event to the watch.   *)
PatchStatus(status) ==
    /\ cr # NoCR
    /\ cr' = IF status = snap.status THEN cr ELSE [cr EXCEPT !.status = status]
    /\ watch' \in IF cr' = cr THEN {watch, TRUE} ELSE {TRUE}

Report ==
    /\ pc = "report"
    /\ IF verdict = "error"
       THEN UNCHANGED sink
       ELSE Gauges!Send([n \in {"status"} |-> StatusNow])
    /\ \/ NoFault /\ PatchStatus(StatusNow)
       \/ NoFault /\ cr = NoCR /\ UNCHANGED <<cr, watch>>
       \/ Fault /\ UNCHANGED <<cr, watch>>
    /\ Requeue
    /\ KeepObjs
    /\ UNCHANGED <<aged, legacy, secret, dirty, snap, canExport, verdict, healthy,
                   edits, crashes, churn, flushes>>

-----------------------------------------------------------------------------
Operator ==
    \/ Dequeue \/ Fetch
    \/ Teardown \/ DeleteAll \/ Deleted
    \/ Preprocess \/ ReadSecret \/ ConnectSink
    \/ Validate \/ ReadUID
    \/ Apply \/ Applied \/ Prune \/ Pruned
    \/ \E w \in Workloads : ReadHealth(w)
    \/ HealthRead \/ Report

User ==
    \/ \E spec \in Specs : CreateCR(spec) \/ EditCR(spec)
    \/ DeleteCR

World ==
    \/ Age
    \/ \E w \in Workloads : BecomeReady(w)
    \/ \E w \in Workloads, l \in {"down", "degraded"} : Degrade(w, l)
    \/ \E f \in Files : Tamper(f)
    \/ LegacyChanges
    \/ SecretChanges

Next ==
    \/ Operator
    \/ User
    \/ World
    \/ DeliverEvent
    \/ FireTimer
    \/ FlushTick
    \/ Crash

Spec == Init /\ [][Next]_vars

(* The worker runs, an event arrives, a delay ends, pods become ready and  *)
(* time passes.  Nobody is obliged to edit, break or repair anything.      *)
Fairness ==
    /\ WF_vars(Operator)
    /\ WF_vars(DeliverEvent)
    /\ WF_vars(FireTimer)
    /\ WF_vars(Age)
    /\ \A w \in Workloads : WF_vars(BecomeReady(w))

FairSpec == Spec /\ Fairness

-----------------------------------------------------------------------------
SpecOf(c) == IF c = NoCR THEN NoCR ELSE c.spec

(* A spec the operator has not seen is on its way to it: an edit made at   *)
(* any point of a pass, or before a restart, starts another pass.          *)
NoLostUpdate ==
    SpecOf(cr) # SpecOf(snap) => watch \/ dirty \/ timer \/ pc = "fetch"

(* The loop never dies: while there is a resource, a pass is running or    *)
(* something will start one, whatever failed in the last.                  *)
NeverForgotten ==
    cr # NoCR => watch \/ dirty \/ timer \/ pc # "idle"

(* The three ways to be woken and the pass about to look are all the same  *)
(* to the loop: it implements the level-triggered one.  In particular a    *)
(* pass acts on the resource as it was at one moment, and every pass with  *)
(* a resource is followed by another, however it ends.                     *)
Level == INSTANCE LevelTriggered
    WITH Wants <- Specs, None <- NoCR,
         want <- SpecOf(cr), seen <- SpecOf(snap),
         wake <- watch \/ dirty \/ timer \/ pc = "fetch",
         busy <- pc \notin {"idle", "fetch"}

IsLevelTriggered == Level!Spec

(* From the connect to the teardown, when the pass exports data, the       *)
(* operator's own gauges go where the manifests it applies point to.       *)
SinkFollowsDataPath ==
    pc \in {"validate", "readUID", "apply", "prune"} /\ canExport
        => addr = DataPath(snap.spec) /\ addr # NoAddr

(* "does not create other services until the proxy is running": when an    *)
(* object of a collection component comes into being, the operator itself  *)
(* is connected to where it will send its data.  Whether the proxy at that *)
(* address is still up is another matter: the pass asked at its start.     *)
CollectionWaitsForDataPath ==
    [][\A f \in Files :
        objs[f] = Absent /\ objs'[f] # Absent /\ Manifest[f].dir # "proxy"
            => addr = DataPath(objs'[f]) /\ addr # NoAddr]_vars

(* A pass that reports Healthy has put the spec it read into every file it *)
(* enables, which are the proxy's alone when it saw no way out for data,   *)
(* and left none of the disabled ones: what is missing was deleted behind  *)
(* its back.  Collectors and log shippers it could not enable may still    *)
(* hold an older spec under this status; ServedWhileWanted and Converges   *)
(* say that they do not in the end.                                        *)
HealthyMeansApplied ==
    pc = "report" /\ StatusNow = "Healthy" =>
        /\ \A f \in ResourceFiles(EnabledDirs(snap.spec, canExport)) :
               \/ Excluded(snap.spec, f)
               \/ objs[f] = snap.spec
               \/ objs[f] = Absent /\ churn # 0
        /\ \A f \in ResourceFiles(DisabledDirs(snap.spec)) : objs[f] = Absent

(* "legacy install is running after operator install" is a warning: while  *)
(* a component of the operator is deployed, a legacy install never makes   *)
(* it tear down a valid spec.                                              *)
WarningKeepsComponents ==
    pc = "teardown" /\ snap # NoCR /\ ~SpecInvalid(snap.spec) => Deployed = {}

(* "doesn't create any resources if wavefront spec is invalid".            *)
InvalidSpecNotApplied ==
    [][\A f \in Files : objs'[f] = objs[f] \/ objs'[f] = Absent \/ ~SpecInvalid(objs'[f])]_vars

(* "should not have sent status metrics": no flush takes any to send once  *)
(* a pass has found the resource invalid and torn everything down, until   *)
(* the resource changes.                                                   *)
NoStatusGaugesWhileInvalid == [][FlushTick /\ pc # "teardown" => verdict # "error"]_vars

(* Once a pass has seen that the resource is gone and closed the           *)
(* connection, no flush begins to send a status gauge until another        *)
(* resource is there; one report that was under way may still arrive.      *)
SilentWithoutResource == [][FlushTick /\ pc # "teardown" => snap # NoCR]_vars

(* When nobody changes anything any more, the cluster settles at what the  *)
(* resource asks for: nothing without one or with one that is invalid,     *)
(* else all objects of the wanted parts with its spec, whether or not an   *)
(* earlier pass could enable them, none of the others, and the operator's  *)
(* gauges sent where the collectors send their data.  A default collector  *)
(* config that was replaced may stay.                                      *)
InPlace(spec) ==
    /\ \A f \in ResourceFiles(EnabledDirs(spec, TRUE)) : Excluded(spec, f) \/ objs[f] = spec
    /\ \A f \in ResourceFiles(DisabledDirs(spec)) : objs[f] = Absent

NothingInPlace == \A f \in Files : objs[f] = Absent

Blocked(spec) == spec.proxy /\ spec.secret /\ ~secret

Settled ==
    IF cr = NoCR THEN NothingInPlace /\ addr = NoAddr
    ELSE IF Blocked(cr.spec) THEN TRUE
    ELSE IF legacy /\ ~cr.spec.allowLegacy THEN InPlace(cr.spec) \/ NothingInPlace
    ELSE IF SpecInvalid(cr.spec) THEN NothingInPlace
    ELSE InPlace(cr.spec) /\ addr = DataPath(cr.spec)

Converges == <>[]Settled

(* An installation that is what its resource asks for, with every pass that *)
(* has begun being one for that resource, stays so through every step of   *)
(* the operator and every restart, whatever requests fail and whether or   *)
(* not its proxy is available: only others can disturb it.                 *)
Serving ==
    /\ cr # NoCR /\ ~SpecInvalid(cr.spec)
    /\ legacy => cr.spec.allowLegacy
    /\ InPlace(cr.spec)
    /\ pc \notin {"teardown", "deleteAll"}
    /\ pc \notin {"idle", "fetch"} => SpecOf(snap) = cr.spec

ServiceStays == [][Serving => Serving' \/ User \/ World]_vars

(* A resource that stays is served in the end, whatever requests failed    *)
(* and whenever the operator was restarted.                                *)
ServedWhileWanted == <>[](cr # NoCR => Settled)

(* "delete CRD should delete resources": without a resource, nothing is    *)
(* left of what was deployed for it.                                       *)
OrphanFree == <>[](cr = NoCR => NothingInPlace)

(* In the end the status tells whether the spec is served.                 *)
StatusConverges ==
    <>[](cr # NoCR /\ ~Blocked(cr.spec) =>
            cr.status = IF SpecInvalid(cr.spec) \/ (legacy /\ ~cr.spec.allowLegacy)
                        THEN "Unhealthy" ELSE "Healthy")
=============================================================================
