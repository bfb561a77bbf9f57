# Wavefront Operator for Kubernetes: TLA+ specification

This directory specifies the control logic of the operator: what it does to the
cluster when its custom resource (CR) is created, edited and deleted, when
requests fail and when the process restarts; what its patches lead to in the
pods; how it judges a cluster that changes while it is read; and how it sends
its own gauges to a Wavefront proxy. TLC checks the modules on small instances;
the TLA+ proof system proves the safety properties for every instance.

`PROJECT.json` lists the components, the runs, for every property a mutant of
the model that violates it, the source lines of every definition, the findings,
the hazards and the theorems.

## 1. The system

The operator is one Go process.

| Component | Source | State | Operations |
| --- | --- | --- | --- |
| Reconcile loop | `controllers/wavefront_controller.go` | none between passes but the connection | `Reconcile`: preprocess, validate, apply and prune or tear down, health, status patch |
| Manifest selection | same file, `deploy/internal/` | none | `enabledDirs`, `disabledDirs`, `resourceFiles`, `filterDisabledAndConfigMap` |
| KubernetesManager | `internal/kubernetes/manager.go` | none | `ApplyResources`, `DeleteResources` |
| Validation | `internal/validation/validate_wavefront.go` | none | `Validate`: legacy installs first, then the spec |
| Health | `internal/health/status.go` | none | `GenerateWavefrontStatus` |
| Metric connection | `internal/wavefront/metric/connection.go` | address, sender, latest gauges, a mutex | `Connect`, `Send`, `Close` from the reconciler; `Flush` from a goroutine of its own |
| Wavefront SDK sender | vendored `wavefront-sdk-go` | a line buffer with a lock and a ticker | `SendMetric`, `Flush`, `Close` |
| Work queue | vendored `client-go`, `controller-runtime` | dirty set, processing set, delaying queue | `Add`, `Get`, `Done`, `AddAfter`, `AddRateLimited` |
| Gauges | `internal/wavefront/metric/{status,version}` | none | `Metrics`: pure functions of a status and a version |
| Templates | `deploy/internal/` | none | what is rendered from a spec; config hashes and replica counts in the pod templates |

They interact in four ways. An informer turns events of the CR into requests in
the work queue, whose one worker calls `Reconcile`. `Reconcile` reads and writes
the cluster with a client that has no cache, one request at a time; meanwhile
users edit the CR, Kubernetes starts pods, and others change or delete objects.
The result of a pass goes back to the queue: an error or `Requeue` is another
pass later. And two goroutines share the metric connection: the reconciler
connects, reports and closes under the mutex, the flush loop takes a copy under
the mutex and sends it outside.

What is hard, component by component, and what makes it correct:

- **Reconcile loop.** Everything may change between two of its requests, and
  each may fail. Health and readiness are never watched, only polled, so a pass
  that does not requeue while there is a CR is the end of the service
  (`NeverForgotten`), and an edit during a pass must start another
  (`NoLostUpdate`). Collectors must wait for a proxy that is up
  (`CollectionWaitsForDataPath`), and Healthy must be said of what was applied
  (`HealthyMeansApplied`). Left alone, cluster, connection and status must
  settle at what the CR says (`Converges`, `StatusConverges`), also after failed
  requests and restarts (`ServedWhileWanted`). What has settled must not be
  disturbed by the passes that go on for ever after, whichever of their requests
  fail (`ServiceStays`), and nothing may be left without a CR (`OrphanFree`).
- **KubernetesManager and templates.** An object is patched, not replaced: what
  an earlier spec rendered may stay (`ProxyConverges`). A pod keeps the files it
  was started with, so that settings, the number of proxies and a rotated CA
  bundle reach it only if its template changes with them (`ShippersFollowSpec`,
  `ProxyFollowsSecret`, `ShippersFollowAddress`), and only if its template never
  changes before its files do (`NoShipperBehindItsHash`,
  `CurrentHashCurrentFile`).
- **Validation.** Whether a legacy install is an error or a warning depends on
  what the operator deployed before; the wrong answer tears down a running
  installation (`WarningKeepsComponents`) or applies an invalid spec
  (`InvalidSpecNotApplied`). The answer takes up to twelve reads, between which
  installs come and go (`VerdictOfAMoment`).
- **Health and gauges.** The status of the CR is put together from reads of
  workloads that are rolling out meanwhile (`StatusOfAMoment`), and told twice:
  as a status, and as gauges of the whole and of the parts (`GaugesAgree`). The
  version is told as one number (`NewerReleaseIsHigher`).
- **Metric connection.** A sender is closed by one goroutine while the other may
  be using it. A session must deliver its own gauges only, and what outlasts it
  must be one report of its own (`DeliversThisSession`, `ImplementsSink`), no
  sender may be leaked or closed twice (`NoSenderLeak`), address and sender must
  agree (`AddrMatchesSender`), calls must return (`CallsReturn`) and values must
  arrive (`CurrentValueArrives`). A flush loop that is caught in a stopped
  sender is caught for good (`HangIsFinal`).
- **Reconciler and connection together.** The operator's gauges follow the data
  path of the manifests (`SinkFollowsDataPath`, `Converges`), and no flush begins
  about a CR that is gone (`SilentWithoutResource`) or invalid
  (`NoStatusGaugesWhileInvalid`).

## 2. Modules

```
LevelTriggered <- LevelTriggeredProofs     what the loop promises whatever a pass does
 ^
 | (INSTANCE in Reconciler)

MetricGauges          what the reconciler sees of the connection
 ^      ^
 |      MetricSink            what the connection promises to the proxy
 |       ^
 |      MetricConnection      the connection: two goroutines and the SDK's sender
 |       ^            ^
 |      MCMetric...   MetricConnectionProofs
 |
 (INSTANCE)
Reconciler -> Manifests       the operator and the cluster around it
 ^          ^
MCReconciler ReconcilerProofs

Rollout                       what an apply leads to: fields, patches, pods
 ^          ^
MCRollout   RolloutProofs

Inspection -> StatusGauges    the reads of validation and health, one by one
 ^          ^
MCInspection InspectionProofs
```

`Rollout` and `Inspection` each refine one abstraction of `Reconciler`, which
takes an object for the spec last rendered into it, and `Validate` for one step.

### MetricGauges, MetricSink, MetricConnection

`MetricGauges` has the two variables of `Connection` the reconciler depends on:
`addr` and `latest` (the map `metrics`), with its three calls as operators. It
is what both other specifications share: `MetricSink` and `MetricConnection`
extend it, `Reconciler` instantiates it. Its `GaugesSpec` is the contract between
the two: any sequence of the three calls and of restarts, each at once.

`MetricSink` is the abstract specification. A session lasts from a successful
`Connect` to the next `Close` or `Connect` elsewhere. `offered` collects the
points that were current at some moment of the session, `delivered` what the
proxy received in it; a step may deliver any part of what was offered. `late` is
what is still on its way when the session ends: some of what it offered. It
arrives after `Close` has returned, perhaps in a later session, and until then
no later session delivers anything. A promise of silence after `Close` would be
false of the code.

`MetricConnection` is the code. `rpc` is the reconciler's place inside `Connect`
or `Close`, which hold the mutex (`MutexFree` is `rpc = "idle"`); `fpc` is the
flush loop's in `sendBatch`, with `batchSender` and `batch` for the results of
`extractBatch`. Senders are records of their life, address and buffer.

| Action | Code |
| --- | --- |
| `CallConnect`, `CallClose` | entry of `Connect` and `Close`; the early return of `Connect` is a stuttering step |
| `Drain`, `CloseSender` | the two halves of the SDK's `Stop` (drain the buffer; drop it), then `sender = nil`, `addr = ""` |
| `Dial`, `DialFails` | `newSender` |
| `CallSend` | `Send` |
| `ExtractBatch`, `SendMetric`, `FlushSender` | `Flush`: the copy, one `SendMetric` per gauge, the SDK's `Flush` up to where it has read the buffer's length |
| `Take`, `FlushReports` | the SDK's `Flush`: the lines it receives from the buffer; their report, accepted or refused (`bufferLines`) |
| `SenderTick` | the handler's own ticker |

`Stop` drains the buffer under the handler's lock, then drops it without. A flush
may take the lock in between, since lines can be pushed, or put back after a
refused report, while the other half is still to come. If it has read the
buffer's length and not yet received when the buffer goes, it receives from a nil
channel and never returns: `Hung`. If it has received, it goes on to report, and
the reconciler does not wait for it: `Late` is the lines in its hands once the
connection has another sender or none. The sender's own ticker cannot do either,
for `Stop` waits for its goroutine first; its report is one step (`SenderTick`).

The refinement maps the sink's `late` to `Late` and shares the other variables.

### Manifests

The spec of a CR as the record of what the control flow depends on, the files
of `deploy/internal` as a sequence in the order of `filepath.WalkDir`, and the
pure functions between them: what is enabled, disabled and excluded, where the
data goes (`DataPath`), whether the spec is valid (`SpecInvalid`), and which
workloads the status asks for. The manifest sequence is a constant, so the
theorems hold for any set of files.

### Reconciler

| Variables | Meaning |
| --- | --- |
| `cr`, `aged` | the CR (`NoCR` if none) and whether it is older than `MaxInstallTime` |
| `objs`, `level` | for every file the spec that was last rendered into its object, or `Absent`; for every workload whether it is `"up"`, `"degraded"` (replicas missing, or OOM-killed, and still available) or `"down"` |
| `legacy`, `secret` | a legacy workload exists; the http proxy secret exists and parses |
| `watch`, `dirty`, `timer` | an event is on its way; the request is in the queue; it is in the delaying queue |
| `pc` and `snap`, `canExport`, `verdict`, `todo`, `healthy` | the place in `Reconcile` and its locals |
| `addr`, `latest` | the metric connection |
| `edits`, `faults`, `crashes`, `churn`, `flushes` | budgets of the environment, used in guards only |

Each request to the API server is a step of its own, with a disjunct in which it
fails where failure does something else:

| Action | Code |
| --- | --- |
| `Dequeue`, `Requeue` | `Get`/`Done` of the queue; what `reconcileHandler` does with an error or a `Requeue` result. `dirty` may become true during a pass, as in the dirty set |
| `Fetch` | the first `Get` of `Reconcile` |
| `Teardown`, `DeleteAll`, `Deleted` | `readAndDeleteResources`, for a CR that is gone and for one that is invalid |
| `Preprocess`, `ReadSecret`, `ConnectSink` | `preprocess` |
| `Validate` | `validation.Validate`; a read that fails counts as "not there" |
| `ReadUID`, `Apply`, `Applied`, `Prune`, `Pruned` | `readAndCreateResources`: apply the enabled files in order, then delete the disabled ones; the first error ends the pass. `Get` and `Create` or `Patch` of one object are one step: an object that goes in between makes the `Patch` fail, which is one of the faults |
| `ReadHealth`, `HealthRead`, `Report` | `GenerateWavefrontStatus`, then gauges and status patch |
| `Crash` | the process restarts; the first list of the informer enqueues what exists |

`snap` and `verdict` keep their values between passes so that properties can
speak of the last one; no pass reads what another left in them. `FlushTick` is
the moment at which a flush takes the gauges and the sender; when they arrive is
told by `MetricConnection`. The version gauge never changes, so `latest` holds
one name for the status gauges.

Abstracted: the contents of objects and of templates and the hashes (see
`Rollout`), image registries, messages, and wall-clock time (a delay ends at any
later moment, the five minutes of an installation are one step). Of the files,
the order and the directory matter, and for five of them their identity.

### LevelTriggered

What is left of the loop when everything a pass does is left out: what is
wanted (`want`), what the last look found (`seen`), whether another look is
certain (`wake`) and whether one is being acted on (`busy`). A write makes a look
certain; a look finds the latest; what was found is acted on, and then there is
another look, unless nothing is wanted. `Reconciler` maps `watch`, `dirty`,
`timer` and `pc = "fetch"` to `wake`, the rest of a pass to `busy`, and the specs
of `cr` and `snap` to `want` and `seen`; that it implements this module is its
property `IsLevelTriggered`.

### Rollout

The log shipper (a DaemonSet and its ConfigMap) and the proxy (a Deployment
that trusts a CA bundle from a Secret) with the fields of their objects, and the
pods Kubernetes makes of them.

| Variables | Meaning |
| --- | --- |
| `want`, `secret` | the CR; which of the constant sequence `Secrets` is in the cluster, 0 if none |
| `config`, `daemonset`, `proxy` | the objects: the ConfigMap's settings and address, the DaemonSet's template (hash and replica count), the Deployment as a function from fields to values |
| `shipper`, `replica` | the pods: the template and the file, or the bundle, each was started with |
| `pc`, `snap`, `available`, `canExport`, `seen` | the place in `Reconcile` and its locals |

| Action | Code |
| --- | --- |
| `Fetch`, `ReadAvailable`, `ReadSecret` | `Reconcile`, `preprocess`, `findHttpProxySecret` with `setHttpProxyConfigs` |
| `ApplyConfig`, `ApplyDaemonset`, `ApplyProxy` | `ApplyResources`, one object each, in walk order; `Patch` is `client.MergeFrom` of an empty object |
| `DeleteConfig`, `DeleteDaemonset`, `DeleteProxy` | `DeleteResources` |
| `PassFails` | a request fails, or the process restarts |
| `RunShipper`, `RunProxy`, `StopShipper`, `StopProxy`, `Evict` | Kubernetes (external): a pod is started when there is none or when its template is out of date, and reads its files then |

`LoggingHash` is the tags, filters and resources of `Logging` and leaves out
`ProxyAddress`, as its JSON does; `ProxyHash` is the secret's name and the
bundle. A hash is taken to be injective. An edit keeps the log settings, goes on
to new ones or back to earlier ones; `back` is history and says that some edit
went back. Settings that return between two passes leave no trace in any hash:
if a pass wrote the ConfigMap of the ones in between and failed before the
DaemonSet, and a pod was started then, that pod has their file and a hash that
is right again. Hence `NoShipperBehindItsHash`, `CurrentHashCurrentFile` and the
settings in `ShippersFollowSpec` are stated up to the first such edit, and
`StaleForGood` says of the pod, with an external proxy, that nothing replaces
it. (Without their condition TLC refutes the first two by such traces.) Bundles
do not come back, which the module assumes of its constant `Secrets`. Services,
accounts and the collectors are left out: their templates have no hash (the
collectors follow their ConfigMap by themselves), and every field of theirs is
always rendered.

### StatusGauges, Inspection

`StatusGauges` has the pure functions: the aggregate status of a set of workload
readings and the flag it leaves on each (`Aggregate`, `Flagged`), the gauges
(`ComponentGauge`, `IntegrationGauge`) and the version's encoding
(`EncodeSemver`).

`Inspection` has the reads. The cluster is a set of legacy workloads, the
availability of the operator's workloads by their objects' status, and those
with a container that was OOM-killed; all of it changes at any time.

| Action | Code |
| --- | --- |
| `Begin`, `AskLegacy` | `validateEnvironment`: one `Get` per legacy workload, in the order in which Go walks the map of maps: any, but one namespace after the other |
| `AskDeployed` | `areAnyComponentsDeployed`, up to three reads |
| `BeginHealth`, `ReadObject`, `ListPods` | `GenerateWavefrontStatus`: for each workload its object, then its pods |
| `Report` | `reportAggregateStatus`, `reportHealthStatus`, `reportMetrics` |
| `LegacyChanges`, `AppChanges`, `KilledChanges`, `Age` | the cluster (external) |

Every read may fail; both packages take a failure for an answer ("not there",
"not killed"). `moments` and `changed` are history: what one look at the whole
cluster would have said at each moment since the reads began, and the kinds of
changes since.

## 3. Runs

| Run | Instance | What it checks |
| --- | --- | --- |
| `connection` | 3 spellings of 2 addresses, 2 gauges, 2 values, 2 senders, 1 refused report, fairness | type, `AddrMatchesSender`, `NoSenderLeak`, `DeliversThisSession`, `ImplementsSink`, `HangIsFinal`, `CallsReturn`, `CurrentValueArrives` |
| `reconciler_safety` | full spec and external proxy; 2 edits, 1 fault, 1 change of the cluster, 1 flush | type, `SinkFollowsDataPath`, `CollectionWaitsForDataPath`, `HealthyMeansApplied`, `SilentWithoutResource` |
| `reconciler_recovery` | two revisions of a spec; 2 edits, 1 fault, 1 restart, fairness | `NoLostUpdate`, `NeverForgotten`, `IsLevelTriggered`, `ServiceStays`, `ServedWhileWanted` |
| `reconciler_live` | the nine files of `deploy/internal`; a spec that allows a legacy install and needs a secret, one that does neither, an invalid one; 2 edits, 2 changes of the cluster, fairness | `WarningKeepsComponents` without failing requests, `Converges`, `StatusConverges` |
| `rollout` | 1 node, 2 proxies; logging through an HTTP proxy, through an external proxy, and none; a secret whose bundle is rotated; 2 edits, to new log settings or back, 1 eviction, 1 fault, fairness | type, `NoShipperBehindItsHash`, `CurrentHashCurrentFile`, `RejectedForGood`, `StaleForGood`, `ShippersFollowSpec`, `ProxyFollowsSecret` |
| `inspection` | 3 legacy workloads in 2 namespaces; everything enabled, metrics with a tolerated install, an invalid spec; 3 states of an installation; 2 changes, 1 failing read | type, `VerdictOfAMoment`, `StatusOfAMoment`, `GaugesAgree`, `NewerReleaseIsHigher` (4 releases around the two-digit limit) |

`HealthyMeansApplied` speaks of the files the pass enabled. A pass that saw no
way out enables the proxy's alone, and reports Healthy if the pods are healthy by
the end of it, while collectors hold an older spec; `reconciler_recovery` reaches
that state, and `ServedWhileWanted` shows that it does not last. `Settled`, which
`Converges` and `ServedWhileWanted` are about, includes the connection: a proxy
that is late or goes away after its status was read leaves the connection, or
collectors, on what an earlier pass knew, and a later pass corrects both.

`ServiceStays` is the other half of `Converges` and `ServedWhileWanted`: those say
that a cluster settles, this that what is settled is left alone by every step of
the operator, so that only the user or the cluster (`User`, `World`) can disturb
it. A pass that finds the proxy unavailable is the case in question: it applies
less, and must not delete what it does not apply. `RejectedForGood`,
`StaleForGood` and `HangIsFinal` say the same of three states nobody wants: once
there, no step of the operator leads out. The first two give findings below their
extent, the third gives it to the condition of `CurrentValueArrives`.

Six runs are expected to end in a violation. Each checks one property that a
test or a comment of the repository states, and shows what the code does
instead:

| Run | Property | What happens |
| --- | --- | --- |
| `reconciler_orphanfault` | `OrphanFree` | a Delete fails during the teardown; `Reconcile` drops the error and requeues nothing. With a restart in place of the fault (`MaxFaults = 0`, `MaxCrashes = 1`) the same property fails in another way: the CR is deleted and the operator restarts first; there is no finalizer, so nothing leads the new process to the objects. (They are owned by the operator's Deployment and go when that goes) |
| `reconciler_legacyfault` | `WarningKeepsComponents` | a failed `Get` counts as "not deployed" and turns a warning into an error: the installation is deleted |
| `reconciler_invalidapplied` | `InvalidSpecNotApplied` | the legacy warning is returned before the spec is looked at |
| `reconciler_flushinvalid` | `NoStatusGaugesWhileInvalid` | `preprocess` connects before validation, and the gauges of the valid time are still in the map |
| `rollout_residue` | `ProxyConverges` | the HTTP proxy is taken out of the spec: the patch replaces the list of volumes and leaves `initContainers`, which mount two of them; the API server rejects that patch, in this pass and every later one |
| `rollout_address` | `ShippersFollowAddress` | the external proxy's URL is edited: the ConfigMap follows, the hash does not, and no log shipper is restarted |

**Bounds.** Two edits make create, edit and delete meet in every order of two
at every point of a pass, with a fault or a restart between any two steps. Two
specs that differ in every part (proxy or external, collector config or not,
logs or not) make every file move between applied, excluded and deleted. The
five-file manifest has one object of each kind the code treats differently;
`reconciler_live` uses all nine. Two senders are enough for a flush to
hold a sender that was closed while another is open; the lines it then hands to
the closed sender are dropped by the SDK, and the ones it had in hand arrive late.
`MaxFlushes`, `MaxSenders`
and `MaxReportFaults` bound what the environment may do and nothing the code
does. Two proxies make the count in the log shipper's template go through two
values; one node is enough, since no two shippers interact. Two secrets make a
bundle rotate at every point of a pass and of a pod's start, and a first edit
after it drop the proxy. Two changes between the reads of `Inspection` are what
it takes to break a verdict or a status when they go different ways: without
`OneWay` both properties fail. None of the bounds is used by a proof.

**Deadlock** is checked for the connection, the rollout and the inspection. The
reconciler's runs switch it off: without a CR, and with the budgets of the
environment used up, the operator really has nothing to do.

**Fairness.** Of the reconciler: the worker takes a request that is there and
goes on with its pass, the informer delivers an event, a delay ends, pods of an
object that exists become ready, time passes. Each is something a scheduler or
a clock provides; nobody is obliged to edit, repair or stop breaking anything,
the budgets end the breaking. `Operator` is one sequential worker, so weak
fairness of the disjunction is weak fairness of the worker; where `ReadSecret`,
say, can fail only by spending the budget, no more than that is assumed. Of the
connection: `flushLoop` has a ticker that never stops, and a call that was begun
goes on; the SDK's own ticker gets no fairness, so `CurrentValueArrives` shows
that the flush loop suffices, as long as it is not `Hung`; `CallsReturn` does not
assume that. Of the rollout: every pass of the operator is
followed by another (`Requeue`), and Kubernetes starts, replaces and stops the
pods it must, each of them; a pass that fails spends a budget, so it is only
assumed that requests do not fail for ever. `Serving` leaves out what no pass
can get past: a missing secret, and the rejected patch that `rollout_residue`
shows. The inspection has no liveness.

## 4. What is proved

Every invariant and action property that a passing run checks, and every
refinement, is a theorem, for any manifest files, specs, addresses, gauges,
senders, nodes, proxies, secrets, legacy workloads and budgets. The assumptions
are those the modules state of their constants: the workloads are files in the
right directories, `NoAddr`, `NoCR`, `Absent` and `NoSender` are not among the
values they stand apart from, bounds are natural numbers; of the rollout also
that there are finitely many proxies and at least one, and that bundles do not
come back. Log settings may: that they have not yet is part of the properties
that need it (`back`), and no assumption. One property holds under a condition,
which its run states as a bound and its theorem as a hypothesis:
`WarningKeepsComponents`, as long as no request has failed.

**MetricConnectionProofs**: `TypeCorrect`, `AddressMatches`, `NoLeak`,
`SessionOnly`, and `ConnectionImplementsSink`: the connection with its two
goroutines implements `MetricSink`. None of these is inductive. The strengthening
`IInv` says where the points are that can still reach a proxy: in the buffer of
the current sender, in a batch taken for it or in the hands of a flush of it,
and all of those are in `offered` (`BuffersOffered`, `BatchOffered`,
`TakenOffered`); every other sender has an empty buffer and is stopped, so a
batch still held for it is dropped, and lines in hand for it are `Late`. While
they are, nothing has been delivered in the session under way, for the flush
loop that would is busy with them (`LateAlone`). `InvStep` is one step per
action; `StepRefines` maps each to a step of the sink or to a stutter.

`ConnectionShowsGauges` goes one abstraction further: a step of the sink is a
step of `MetricGauges` or leaves `addr` and `latest` alone (`SinkShowsGauges`), so
the connection implements `GaugesSpec`. `UsesGauges` of `ReconcilerProofs` is the
other side of that contract: the operator's steps, with its restart, are steps
of `GaugesSpec` too.

`HangLasts` proves `HangIsFinal`. `Hung` by itself says only that the flush loop
is in a sender that has been stopped; that nothing is delivered after takes two
more facts (`HungInv`): nothing has been delivered in the session under way, for
the close that caught the loop ended one, and the buffer of every sender is
empty, for only the flush loop fills them.

**LevelTriggeredProofs**: `NothingOverlooked`, of the abstract loop.

**ReconcilerProofs**: `TypeCorrect`, `UpdatesArrive` (`NoLostUpdate`),
`LoopLives` (`NeverForgotten`), `Silent` (`SilentWithoutResource`), `SinkOnPath`
(`SinkFollowsDataPath`), `HealthyIsApplied` (`HealthyMeansApplied`),
`CollectionWaits` (`CollectionWaitsForDataPath`) and `WarningKeeps`
(`WarningKeepsComponents`). The invariant has three parts. `LoopInv` keeps the
loop alive: wherever the pass is, a snapshot is there when it is read, and
whatever differs from it has a wake-up under way; without a resource the
connection is closed from the teardown on. `PassInv` is what a pass has achieved
when it is at a place: a known data path and a matching connection, a verdict
that fits the branch, the files applied so far and those deleted so far
(`AppliedSoFar`, `PrunedSoFar`), up to `PassDone`. `HealthyMeansApplied` speaks
only of the end, whether or not the pass could export data; that every earlier
place has done its part is what makes it inductive. `TornDownForCause` is the
third: until a request has failed, a pass that tears a valid spec down found no
component deployed, and only Apply creates one.

`ImplementsLevelTriggered` maps every step of the operator to a step of
`LevelTriggered` or to a stutter. `LoopInv` provides what the mapping needs: a
pass that ends with a resource has put its request back, whichever of its
requests failed, and `Rest` is left to a pass without one.

`Undisturbed` proves `ServiceStays`, one lemma for each kind of step. The ones
that could do harm are the apply, which writes the spec that is there already,
since the pass was begun for it; the prune, which deletes what is not there,
since `DisabledDirs` does not depend on whether the proxy is available; and
`Validate`, which cannot end in a teardown: the spec is valid, and a legacy
install is tolerated by it.

Three theorems delimit findings of section 3. `InvalidNeedsLegacy`: an invalid
spec is rendered into an object only under a warning, and only after somebody
brought a legacy install; without changes of the cluster (`InvalidNeverApplied`,
`MaxChurn = 0`) the property that `reconciler_invalidapplied` refutes holds.
`InvalidSendsBriefly`: while the last verdict is an error, a flush takes gauges
only between a pass's connect and its teardown, so the window that
`reconciler_flushinvalid` shows is the only one.

**RolloutProofs**: `TypeCorrect`, `ShippersAhead` (`NoShipperBehindItsHash`),
`HashTellsFile` (`CurrentHashCurrentFile`), and `PatchReaches`, of the merge
patch alone: patching makes an object what was rendered if and only if every
field the object holds is rendered. The invariant behind `ShippersAhead` is an
order that settings keep, as long as they only go forward (`OrderInv`,
`SettingsGrow`), on their way from the CR to the pods: a pod's hash is no newer
than its file, the DaemonSet's hash no newer than the ConfigMap, the ConfigMap
no newer than the CR, and no pass, when it is about to apply the DaemonSet,
holds settings newer than the ConfigMap's. It is the walk order of the files
that provides the last part. With the other end of the order, that no file is
newer than the CR (`FilesNotNewer`), it gives `HashTellsFile`. `TypeCorrect`
includes that the proxy's Deployment never mounts what it has not; the type of
the Deployment is also what the next theorem rests on.

`RejectionLasts` (`RejectedForGood`) and `StaleAddressLasts` (`StaleForGood`) show
that what `rollout_residue` and `rollout_address` find is permanent, for any
number of nodes, proxies, retries, restarts and evictions. The first reduces a
rejected patch to a property of the object (`WhenRejected`: it keeps init
containers, and the bundle is gone), which every patch keeps or is refused for
(`ApplyKeeps`). The second shows that no pass over the edited spec changes the
template the pod was started from, be it the address or the return of settings
that left its file behind, so that Kubernetes sees no reason to replace it.

**InspectionProofs**: `TypeCorrect`, `VerdictIsOfAMoment`, `StatusIsOfAMoment`,
`GaugesTellOneStory`, `NewerIsHigher`. The two of a moment are linearizability of
a scan. While the cluster changes in one way only, what was read either still
holds or was true of a moment that is in `moments`: if legacy workloads only go,
one that was not seen is still not there, so that "none" is true at the end of
the scan; if they only come, one that was not seen was not there at the start,
when "none" was true of those read so far. The invariant (`VerdictInv`,
`StatusInv`) carries both readings along the order of the reads; each change of
the cluster keeps one of them by its direction.

Model-checked only: the liveness properties (`CallsReturn`,
`CurrentValueArrives`, `Converges`, `StatusConverges`, `ServedWhileWanted`,
`ShippersFollowSpec`, `ProxyFollowsSecret`), since the prover does not reason
about fairness and `ENABLED`. The provers do not decide membership in `STRING`
either; the hosts in the Deployment's type are therefore the set `Hosts` of those
the secrets hold.

## 5. Not modelled, and the plan

Not modelled: the text of manifests, tags and messages, quantities and the
prefixes of URLs, image registries, generated code, RBAC, health probes,
shutdown of the manager, several CRs in one namespace, a connection that can
never be made (a malformed URL is a failure that the budget ends), the delays of
the work queue's rate limiter. An installation that only ships logs is not among
what `areAnyComponentsDeployed` looks for and is torn down when a legacy install
appears; nothing in the repository says otherwise, so no property does.
A CA bundle that is taken back into use between two passes is excluded by an
assumption of `Rollout` on its constant `Secrets`: no hash of the secret alone
could tell it. What happens to log settings that return is modelled, and where
it breaks a property the property says so.

What is left, in this order:

1. `WorkQueue`: dirty, processing and waiting sets, shown to implement `watch`,
   `dirty` and `timer`, with a proof that no request is lost.
2. A composition of `Reconciler` with `MetricConnection` in place of
   `MetricGauges`. Both sides of the contract are proved (`UsesGauges`,
   `ConnectionShowsGauges`); a composition would let the flush loop run between
   the steps of a pass.
3. Two custom resources in one namespace, which share the objects and the
   connection.
