-------------------------- MODULE ReconcilerProofs --------------------------
(***************************************************************************)
(* Theorems about Reconciler, for every manifest, every set of specs and   *)
(* any number of edits, failing requests, restarts and other changes.      *)
(***************************************************************************)
EXTENDS Reconciler, TLAPS

(* Between the first Get and the end of a pass there is a snapshot, except *)
(* in the teardown of a resource that is gone.                             *)
SnapPresent ==
    pc \notin {"idle", "fetch", "teardown", "deleteAll"} => snap # NoCR

(* No resource is known and the connection is closed.                      *)
ClosedWithoutResource == snap = NoCR /\ pc # "teardown" => addr = NoAddr

(* What keeps the loop alive and tells it of every change.                 *)
LoopInv ==
    /\ TypeOK
    /\ SnapPresent
    /\ NoLostUpdate
    /\ NeverForgotten
    /\ ClosedWithoutResource

(* A pass that exports data knows where to.                                *)
PathKnown ==
    pc \in {"secret", "connect", "validate", "readUID", "apply", "prune"} /\ canExport
        => DataPath(snap.spec) # NoAddr

(* Manifests are applied only after a verdict that is no error; a resource *)
(* that is there is torn down only after one that is.                      *)
Judged ==
    /\ pc \in {"readUID", "apply", "prune"} => verdict # "error"
    /\ pc \in {"teardown", "deleteAll"} /\ snap # NoCR => verdict = "error"

Wanted == ResourceFiles(EnabledDirs(snap.spec, canExport))
Unwanted == ResourceFiles(DisabledDirs(snap.spec))
Placed(f) ==
    \/ Excluded(snap.spec, f)
    \/ objs[f] = snap.spec
    \/ objs[f] = Absent /\ churn # 0

AppliedSoFar ==
    pc = "apply" => /\ todo \subseteq Wanted
                    /\ \A f \in Wanted \ todo : Placed(f)

PrunedSoFar ==
    pc = "prune" => /\ todo \subseteq Unwanted
                    /\ \A f \in Wanted : Placed(f)
                    /\ \A f \in Unwanted \ todo : objs[f] = Absent

PassDone ==
    pc \in {"health", "report"} /\ verdict # "error" =>
        /\ \A f \in Wanted : Placed(f)
        /\ \A f \in Unwanted : objs[f] = Absent

(* What a pass has done when it is at a place.                             *)
PassInv ==
    /\ PathKnown
    /\ SinkFollowsDataPath
    /\ Judged
    /\ AppliedSoFar
    /\ PrunedSoFar
    /\ PassDone

(* The absence of a resource is not mistaken for one.                      *)
LEMMA NoCRNotCR == NoCR \notin CRs
BY ReconcilerAssumption DEF CRs, Statuses

(* The spec of a resource is never the absence of one.                     *)
LEMMA SpecOfCR == ASSUME NEW c \in CRs PROVE SpecOf(c) # NoCR
BY NoCRNotCR, ReconcilerAssumption DEF CRs, SpecOf

(* Every budget of the environment is a natural number.                    *)
LEMMA Bounds ==
    /\ MaxEdits \in Nat /\ MaxFaults \in Nat /\ MaxCrashes \in Nat
    /\ MaxChurn \in Nat /\ MaxFlushes \in Nat
BY ReconcilerAssumption

(* The workloads the code knows by name are files, in the directories      *)
(* their manifests are in.                                                 *)
LEMMA WorkloadFiles ==
    /\ Workloads \subseteq Files
    /\ ProxyDeployment \in Workloads
    /\ {NodeCollector, ClusterCollector, LoggingDaemonSet} \subseteq Workloads
BY ManifestsAssumption DEF Workloads

(* An address a spec leads to is one the connection can have.              *)
LEMMA DataPathType ==
    ASSUME NEW spec \in Specs PROVE DataPath(spec) \in Addrs \cup {NoAddr}
<1>1. spec.external \in ExternalAddrs \cup {NoAddr}
  BY ReconcilerAssumption DEF SpecType
<1> QED BY <1>1 DEF DataPath, Addrs

(* A resource Reconcile has read has a spec the user wrote and a status    *)
(* the operator may have written.                                          *)
LEMMA SnapSpec ==
    ASSUME PassTypeOK, snap # NoCR PROVE snap.spec \in Specs /\ snap.status \in Statuses \cup {"none"}
BY DEF PassTypeOK, CRs

(* The initial state has the types.                                        *)
LEMMA TypeInit == Init => TypeOK
<1> SUFFICES ASSUME Init PROVE TypeOK
  OBVIOUS
<1>1. ClusterTypeOK
  BY DEF Init, ClusterTypeOK
<1>2. QueueTypeOK /\ PassTypeOK
  BY DEF Init, QueueTypeOK, PassTypeOK, Verdicts
<1>3. Gauges!GaugesTypeOK
  BY DEF Init, Gauges!GaugesInit, Gauges!GaugesTypeOK
<1>4. BudgetsTypeOK
  BY Bounds DEF Init, BudgetsTypeOK
<1> QED BY <1>1, <1>2, <1>3, <1>4 DEF TypeOK

(* Every step keeps the types, given that a pass which reads snap has one. *)
LEMMA TypeStep == TypeOK /\ SnapPresent /\ [Next]_vars => TypeOK'
<1> SUFFICES ASSUME TypeOK, SnapPresent, [Next]_vars PROVE TypeOK'
  OBVIOUS
<1> USE NoCRNotCR, Bounds, WorkloadFiles
    DEF TypeOK, SnapPresent, Statuses, Verdicts, Spend, Goto, NoFault, Fault, Requeue,
        queue, locals, sink, budgets, cluster, KeepWorld, KeepObjs
<1>1. ASSUME NEW spec \in Specs, CreateCR(spec) PROVE TypeOK'
  <2>1. ClusterTypeOK'
    BY <1>1 DEF CreateCR, UserWrites, CRs, ClusterTypeOK
  <2>2. PassTypeOK'
    BY <1>1 DEF CreateCR, UserWrites, CRs, PassTypeOK
  <2>3. QueueTypeOK'
    BY <1>1 DEF CreateCR, UserWrites, CRs, QueueTypeOK
  <2>4. BudgetsTypeOK'
    BY <1>1 DEF CreateCR, UserWrites, CRs, BudgetsTypeOK
  <2>5. Gauges!GaugesTypeOK'
    BY <1>1 DEF CreateCR, UserWrites, CRs, Gauges!GaugesTypeOK
  <2> QED BY <2>1, <2>2, <2>3, <2>4, <2>5
<1>2. ASSUME NEW spec \in Specs, EditCR(spec) PROVE TypeOK'
  <2>1. ClusterTypeOK'
    BY <1>2 DEF EditCR, UserWrites, CRs, ClusterTypeOK
  <2>2. PassTypeOK'
    BY <1>2 DEF EditCR, UserWrites, CRs, PassTypeOK
  <2>3. QueueTypeOK'
    BY <1>2 DEF EditCR, UserWrites, CRs, QueueTypeOK
  <2>4. BudgetsTypeOK'
    BY <1>2 DEF EditCR, UserWrites, CRs, BudgetsTypeOK
  <2>5. Gauges!GaugesTypeOK'
    BY <1>2 DEF EditCR, UserWrites, CRs, Gauges!GaugesTypeOK
  <2> QED BY <2>1, <2>2, <2>3, <2>4, <2>5
<1>3. CASE DeleteCR
  <2>1. ClusterTypeOK'
    BY <1>3 DEF DeleteCR, UserWrites, ClusterTypeOK
  <2>2. PassTypeOK'
    BY <1>3 DEF DeleteCR, UserWrites, PassTypeOK
  <2>3. QueueTypeOK'
    BY <1>3 DEF DeleteCR, UserWrites, QueueTypeOK
  <2>4. BudgetsTypeOK'
    BY <1>3 DEF DeleteCR, UserWrites, BudgetsTypeOK
  <2>5. Gauges!GaugesTypeOK'
    BY <1>3 DEF DeleteCR, UserWrites, Gauges!GaugesTypeOK
  <2> QED BY <2>1, <2>2, <2>3, <2>4, <2>5
<1>4. CASE Age
  <2>1. ClusterTypeOK'
    BY <1>4 DEF Age, ClusterTypeOK
  <2>2. PassTypeOK'
    BY <1>4 DEF Age, PassTypeOK
  <2>3. QueueTypeOK'
    BY <1>4 DEF Age, QueueTypeOK
  <2>4. BudgetsTypeOK'
    BY <1>4 DEF Age, BudgetsTypeOK
  <2>5. Gauges!GaugesTypeOK'
    BY <1>4 DEF Age, Gauges!GaugesTypeOK
  <2> QED BY <2>1, <2>2, <2>3, <2>4, <2>5
<1>5. ASSUME NEW w \in Workloads, BecomeReady(w) PROVE TypeOK'
  <2>1. ClusterTypeOK'
    BY <1>5 DEF BecomeReady, ClusterTypeOK
  <2>2. PassTypeOK'
    BY <1>5 DEF BecomeReady, PassTypeOK
  <2>3. QueueTypeOK'
    BY <1>5 DEF BecomeReady, QueueTypeOK
  <2>4. BudgetsTypeOK'
    BY <1>5 DEF BecomeReady, BudgetsTypeOK
  <2>5. Gauges!GaugesTypeOK'
    BY <1>5 DEF BecomeReady, Gauges!GaugesTypeOK
  <2> QED BY <2>1, <2>2, <2>3, <2>4, <2>5
<1>6. ASSUME NEW w \in Workloads, NEW l \in {"down", "degraded"}, Degrade(w, l) PROVE TypeOK'
  <2>1. ClusterTypeOK'
    BY <1>6 DEF Degrade, ClusterTypeOK
  <2>2. PassTypeOK'
    BY <1>6 DEF Degrade, PassTypeOK
  <2>3. QueueTypeOK'
    BY <1>6 DEF Degrade, QueueTypeOK
  <2>4. BudgetsTypeOK'
    BY <1>6 DEF Degrade, BudgetsTypeOK
  <2>5. Gauges!GaugesTypeOK'
    BY <1>6 DEF Degrade, Gauges!GaugesTypeOK
  <2> QED BY <2>1, <2>2, <2>3, <2>4, <2>5
<1>7. ASSUME NEW f \in Files, Tamper(f) PROVE TypeOK'
  <2>1. ClusterTypeOK'
    BY <1>7 DEF Tamper, ObjectsGone, ClusterTypeOK
  <2>2. PassTypeOK'
    BY <1>7 DEF Tamper, ObjectsGone, PassTypeOK
  <2>3. QueueTypeOK'
    BY <1>7 DEF Tamper, ObjectsGone, QueueTypeOK
  <2>4. BudgetsTypeOK'
    BY <1>7 DEF Tamper, ObjectsGone, BudgetsTypeOK
  <2>5. Gauges!GaugesTypeOK'
    BY <1>7 DEF Tamper, ObjectsGone, Gauges!GaugesTypeOK
  <2> QED BY <2>1, <2>2, <2>3, <2>4, <2>5
<1>8. CASE LegacyChanges
  <2>1. ClusterTypeOK'
    BY <1>8 DEF LegacyChanges, ClusterTypeOK
  <2>2. PassTypeOK'
    BY <1>8 DEF LegacyChanges, PassTypeOK
  <2>3. QueueTypeOK'
    BY <1>8 DEF LegacyChanges, QueueTypeOK
  <2>4. BudgetsTypeOK'
    BY <1>8 DEF LegacyChanges, BudgetsTypeOK
  <2>5. Gauges!GaugesTypeOK'
    BY <1>8 DEF LegacyChanges, Gauges!GaugesTypeOK
  <2> QED BY <2>1, <2>2, <2>3, <2>4, <2>5
<1>9. CASE SecretChanges
  <2>1. ClusterTypeOK'
    BY <1>9 DEF SecretChanges, ClusterTypeOK
  <2>2. PassTypeOK'
    BY <1>9 DEF SecretChanges, PassTypeOK
  <2>3. QueueTypeOK'
    BY <1>9 DEF SecretChanges, QueueTypeOK
  <2>4. BudgetsTypeOK'
    BY <1>9 DEF SecretChanges, BudgetsTypeOK
  <2>5. Gauges!GaugesTypeOK'
    BY <1>9 DEF SecretChanges, Gauges!GaugesTypeOK
  <2> QED BY <2>1, <2>2, <2>3, <2>4, <2>5
<1>10. CASE DeliverEvent
  <2>1. ClusterTypeOK'
    BY <1>10 DEF DeliverEvent, ClusterTypeOK
  <2>2. PassTypeOK'
    BY <1>10 DEF DeliverEvent, PassTypeOK
  <2>3. QueueTypeOK'
    BY <1>10 DEF DeliverEvent, QueueTypeOK
  <2>4. BudgetsTypeOK'
    BY <1>10 DEF DeliverEvent, BudgetsTypeOK
  <2>5. Gauges!GaugesTypeOK'
    BY <1>10 DEF DeliverEvent, Gauges!GaugesTypeOK
  <2> QED BY <2>1, <2>2, <2>3, <2>4, <2>5
<1>11. CASE FireTimer
  <2>1. ClusterTypeOK'
    BY <1>11 DEF FireTimer, ClusterTypeOK
  <2>2. PassTypeOK'
    BY <1>11 DEF FireTimer, PassTypeOK
  <2>3. QueueTypeOK'
    BY <1>11 DEF FireTimer, QueueTypeOK
  <2>4. BudgetsTypeOK'
    BY <1>11 DEF FireTimer, BudgetsTypeOK
  <2>5. Gauges!GaugesTypeOK'
    BY <1>11 DEF FireTimer, Gauges!GaugesTypeOK
  <2> QED BY <2>1, <2>2, <2>3, <2>4, <2>5
<1>12. CASE FlushTick
  <2>1. ClusterTypeOK'
    BY <1>12 DEF FlushTick, ClusterTypeOK
  <2>2. PassTypeOK'
    BY <1>12 DEF FlushTick, PassTypeOK
  <2>3. QueueTypeOK'
    BY <1>12 DEF FlushTick, QueueTypeOK
  <2>4. BudgetsTypeOK'
    BY <1>12 DEF FlushTick, BudgetsTypeOK
  <2>5. Gauges!GaugesTypeOK'
    BY <1>12 DEF FlushTick, Gauges!GaugesTypeOK
  <2> QED BY <2>1, <2>2, <2>3, <2>4, <2>5
<1>13. CASE Crash
  <2>1. ClusterTypeOK'
    BY <1>13 DEF Crash, Gauges!Restart, ClusterTypeOK
  <2>2. PassTypeOK'
    BY <1>13 DEF Crash, Gauges!Restart, PassTypeOK
  <2>3. QueueTypeOK'
    BY <1>13 DEF Crash, Gauges!Restart, QueueTypeOK
  <2>4. BudgetsTypeOK'
    BY <1>13 DEF Crash, Gauges!Restart, BudgetsTypeOK
  <2>5. Gauges!GaugesTypeOK'
    BY <1>13 DEF Crash, Gauges!Restart, Gauges!GaugesTypeOK
  <2> QED BY <2>1, <2>2, <2>3, <2>4, <2>5
<1>14. CASE Dequeue
  <2>1. ClusterTypeOK'
    BY <1>14 DEF Dequeue, ClusterTypeOK
  <2>2. PassTypeOK'
    BY <1>14 DEF Dequeue, PassTypeOK
  <2>3. QueueTypeOK'
    BY <1>14 DEF Dequeue, QueueTypeOK
  <2>4. BudgetsTypeOK'
    BY <1>14 DEF Dequeue, BudgetsTypeOK
  <2>5. Gauges!GaugesTypeOK'
    BY <1>14 DEF Dequeue, Gauges!GaugesTypeOK
  <2> QED BY <2>1, <2>2, <2>3, <2>4, <2>5
<1>15. CASE Fetch
  <2>1. ClusterTypeOK'
    BY <1>15 DEF Fetch, ClusterTypeOK
  <2>2. PassTypeOK'
    <3>1. snap' \in CRs \cup {NoCR} /\ verdict' \in Verdicts
      BY <1>15 DEF Fetch, PassTypeOK, ClusterTypeOK
    <3>2. todo' \in SUBSET Files /\ canExport' \in BOOLEAN /\ healthy' \in BOOLEAN
      BY <1>15 DEF Fetch, PassTypeOK
    <3>3. pc' \in {"idle", "teardown", "preprocess"}
      BY <1>15 DEF Fetch
    <3> QED BY <3>1, <3>2, <3>3 DEF PassTypeOK
  <2>3. QueueTypeOK'
    BY <1>15 DEF Fetch, QueueTypeOK
  <2>4. BudgetsTypeOK'
    BY <1>15 DEF Fetch, BudgetsTypeOK
  <2>5. Gauges!GaugesTypeOK'
    BY <1>15 DEF Fetch, Gauges!GaugesTypeOK
  <2> QED BY <2>1, <2>2, <2>3, <2>4, <2>5
<1>16. CASE Teardown
  <2>1. ClusterTypeOK'
    BY <1>16 DEF Teardown, Gauges!Close, ClusterTypeOK
  <2>2. PassTypeOK'
    BY <1>16 DEF Teardown, Gauges!Close, PassTypeOK
  <2>3. QueueTypeOK'
    BY <1>16 DEF Teardown, Gauges!Close, QueueTypeOK
  <2>4. BudgetsTypeOK'
    BY <1>16 DEF Teardown, Gauges!Close, BudgetsTypeOK
  <2>5. Gauges!GaugesTypeOK'
    BY <1>16 DEF Teardown, Gauges!Close, Gauges!GaugesTypeOK
  <2> QED BY <2>1, <2>2, <2>3, <2>4, <2>5
<1>17. CASE DeleteAll
  <2>1. ClusterTypeOK'
    BY <1>17 DEF DeleteAll, ObjectsGone, ClusterTypeOK
  <2>2. PassTypeOK'
    BY <1>17 DEF DeleteAll, ObjectsGone, PassTypeOK
  <2>3. QueueTypeOK'
    BY <1>17 DEF DeleteAll, ObjectsGone, QueueTypeOK
  <2>4. BudgetsTypeOK'
    BY <1>17 DEF DeleteAll, ObjectsGone, BudgetsTypeOK
  <2>5. Gauges!GaugesTypeOK'
    BY <1>17 DEF DeleteAll, ObjectsGone, Gauges!GaugesTypeOK
  <2> QED BY <2>1, <2>2, <2>3, <2>4, <2>5
<1>18. CASE Deleted
  <2>1. ClusterTypeOK'
    BY <1>18 DEF Deleted, StatusWorkloads, ClusterTypeOK
  <2>2. PassTypeOK'
    BY <1>18 DEF Deleted, StatusWorkloads, PassTypeOK
  <2>3. QueueTypeOK'
    BY <1>18 DEF Deleted, StatusWorkloads, QueueTypeOK
  <2>4. BudgetsTypeOK'
    BY <1>18 DEF Deleted, StatusWorkloads, BudgetsTypeOK
  <2>5. Gauges!GaugesTypeOK'
    BY <1>18 DEF Deleted, StatusWorkloads, Gauges!GaugesTypeOK
  <2> QED BY <2>1, <2>2, <2>3, <2>4, <2>5
<1>19. CASE Preprocess
  <2>1. ClusterTypeOK'
    BY <1>19 DEF Preprocess, ClusterTypeOK
  <2>2. PassTypeOK'
    BY <1>19 DEF Preprocess, PassTypeOK
  <2>3. QueueTypeOK'
    BY <1>19 DEF Preprocess, QueueTypeOK
  <2>4. BudgetsTypeOK'
    BY <1>19 DEF Preprocess, BudgetsTypeOK
  <2>5. Gauges!GaugesTypeOK'
    BY <1>19 DEF Preprocess, Gauges!GaugesTypeOK
  <2> QED BY <2>1, <2>2, <2>3, <2>4, <2>5
<1>20. CASE ReadSecret
  <2>1. ClusterTypeOK'
    BY <1>20 DEF ReadSecret, ClusterTypeOK
  <2>2. PassTypeOK'
    BY <1>20 DEF ReadSecret, PassTypeOK
  <2>3. QueueTypeOK'
    BY <1>20 DEF ReadSecret, QueueTypeOK
  <2>4. BudgetsTypeOK'
    BY <1>20 DEF ReadSecret, BudgetsTypeOK
  <2>5. Gauges!GaugesTypeOK'
    BY <1>20 DEF ReadSecret, Gauges!GaugesTypeOK
  <2> QED BY <2>1, <2>2, <2>3, <2>4, <2>5
<1>21. CASE ConnectSink
  <2>1. ClusterTypeOK'
    BY <1>21 DEF ConnectSink, Gauges!Connect, Gauges!ConnectFails, ClusterTypeOK
  <2>2. PassTypeOK'
    BY <1>21 DEF ConnectSink, Gauges!Connect, Gauges!ConnectFails, PassTypeOK
  <2>3. QueueTypeOK'
    BY <1>21 DEF ConnectSink, Gauges!Connect, Gauges!ConnectFails, QueueTypeOK
  <2>4. BudgetsTypeOK'
    BY <1>21 DEF ConnectSink, Gauges!Connect, Gauges!ConnectFails, BudgetsTypeOK
  <2>5. Gauges!GaugesTypeOK'
    <3>1. addr' \in {addr, DataPath(snap.spec), NoAddr} /\ latest' = latest
      BY <1>21 DEF ConnectSink, Gauges!Connect, Gauges!ConnectFails
    <3>2. snap # NoCR
      BY <1>21 DEF ConnectSink
    <3> QED BY <3>1, <3>2, SnapSpec, DataPathType DEF Gauges!GaugesTypeOK
  <2> QED BY <2>1, <2>2, <2>3, <2>4, <2>5
<1>22. CASE Validate
  <2>1. ClusterTypeOK'
    BY <1>22 DEF Validate, Judge, ClusterTypeOK
  <2>2. PassTypeOK'
    BY <1>22 DEF Validate, Judge, PassTypeOK
  <2>3. QueueTypeOK'
    BY <1>22 DEF Validate, Judge, QueueTypeOK
  <2>4. BudgetsTypeOK'
    BY <1>22 DEF Validate, Judge, BudgetsTypeOK
  <2>5. Gauges!GaugesTypeOK'
    BY <1>22 DEF Validate, Judge, Gauges!GaugesTypeOK
  <2> QED BY <2>1, <2>2, <2>3, <2>4, <2>5
<1>23. CASE ReadUID
  <2>1. ClusterTypeOK'
    BY <1>23 DEF ReadUID, ResourceFiles, ClusterTypeOK
  <2>2. PassTypeOK'
    BY <1>23 DEF ReadUID, ResourceFiles, PassTypeOK
  <2>3. QueueTypeOK'
    BY <1>23 DEF ReadUID, ResourceFiles, QueueTypeOK
  <2>4. BudgetsTypeOK'
    BY <1>23 DEF ReadUID, ResourceFiles, BudgetsTypeOK
  <2>5. Gauges!GaugesTypeOK'
    BY <1>23 DEF ReadUID, ResourceFiles, Gauges!GaugesTypeOK
  <2> QED BY <2>1, <2>2, <2>3, <2>4, <2>5
<1>24. CASE Apply
  <2>1. ClusterTypeOK'
    <3>1. snap.spec \in Specs
      BY <1>24, SnapSpec DEF Apply
    <3>2. objs' \in [Files -> Specs \cup {Absent}]
      BY <1>24, <3>1 DEF Apply, ClusterTypeOK
    <3>3. UNCHANGED <<cr, aged, level, legacy, secret>>
      BY <1>24 DEF Apply
    <3> QED BY <3>2, <3>3 DEF ClusterTypeOK
  <2>2. PassTypeOK'
    BY <1>24 DEF Apply, PassTypeOK
  <2>3. QueueTypeOK'
    BY <1>24 DEF Apply, QueueTypeOK
  <2>4. BudgetsTypeOK'
    BY <1>24 DEF Apply, BudgetsTypeOK
  <2>5. Gauges!GaugesTypeOK'
    BY <1>24 DEF Apply, Gauges!GaugesTypeOK
  <2> QED BY <2>1, <2>2, <2>3, <2>4, <2>5
<1>25. CASE Applied
  <2>1. ClusterTypeOK'
    BY <1>25 DEF Applied, ResourceFiles, ClusterTypeOK
  <2>2. PassTypeOK'
    BY <1>25 DEF Applied, ResourceFiles, PassTypeOK
  <2>3. QueueTypeOK'
    BY <1>25 DEF Applied, ResourceFiles, QueueTypeOK
  <2>4. BudgetsTypeOK'
    BY <1>25 DEF Applied, ResourceFiles, BudgetsTypeOK
  <2>5. Gauges!GaugesTypeOK'
    BY <1>25 DEF Applied, ResourceFiles, Gauges!GaugesTypeOK
  <2> QED BY <2>1, <2>2, <2>3, <2>4, <2>5
<1>26. CASE Prune
  <2>1. ClusterTypeOK'
    BY <1>26 DEF Prune, ObjectsGone, ClusterTypeOK
  <2>2. PassTypeOK'
    BY <1>26 DEF Prune, ObjectsGone, PassTypeOK
  <2>3. QueueTypeOK'
    BY <1>26 DEF Prune, ObjectsGone, QueueTypeOK
  <2>4. BudgetsTypeOK'
    BY <1>26 DEF Prune, ObjectsGone, BudgetsTypeOK
  <2>5. Gauges!GaugesTypeOK'
    BY <1>26 DEF Prune, ObjectsGone, Gauges!GaugesTypeOK
  <2> QED BY <2>1, <2>2, <2>3, <2>4, <2>5
<1>27. CASE Pruned
  <2>1. ClusterTypeOK'
    BY <1>27 DEF Pruned, StatusWorkloads, ClusterTypeOK
  <2>2. PassTypeOK'
    BY <1>27 DEF Pruned, StatusWorkloads, PassTypeOK
  <2>3. QueueTypeOK'
    BY <1>27 DEF Pruned, StatusWorkloads, QueueTypeOK
  <2>4. BudgetsTypeOK'
    BY <1>27 DEF Pruned, StatusWorkloads, BudgetsTypeOK
  <2>5. Gauges!GaugesTypeOK'
    BY <1>27 DEF Pruned, StatusWorkloads, Gauges!GaugesTypeOK
  <2> QED BY <2>1, <2>2, <2>3, <2>4, <2>5
<1>28. ASSUME NEW w \in Workloads, ReadHealth(w) PROVE TypeOK'
  <2>1. ClusterTypeOK'
    BY <1>28 DEF ReadHealth, ClusterTypeOK
  <2>2. PassTypeOK'
    BY <1>28 DEF ReadHealth, PassTypeOK
  <2>3. QueueTypeOK'
    BY <1>28 DEF ReadHealth, QueueTypeOK
  <2>4. BudgetsTypeOK'
    <3>1. (NoFault \/ Fault) /\ KeepWorld
      BY <1>28, Zenon DEF ReadHealth
    <3> QED BY <3>1 DEF BudgetsTypeOK
  <2>5. Gauges!GaugesTypeOK'
    BY <1>28 DEF ReadHealth, Gauges!GaugesTypeOK
  <2> QED BY <2>1, <2>2, <2>3, <2>4, <2>5
<1>29. CASE HealthRead
  <2>1. ClusterTypeOK'
    BY <1>29 DEF HealthRead, ClusterTypeOK
  <2>2. PassTypeOK'
    BY <1>29 DEF HealthRead, PassTypeOK
  <2>3. QueueTypeOK'
    BY <1>29 DEF HealthRead, QueueTypeOK
  <2>4. BudgetsTypeOK'
    BY <1>29 DEF HealthRead, BudgetsTypeOK
  <2>5. Gauges!GaugesTypeOK'
    BY <1>29 DEF HealthRead, Gauges!GaugesTypeOK
  <2> QED BY <2>1, <2>2, <2>3, <2>4, <2>5
<1>30. CASE Report
  <2>1. ClusterTypeOK'
    <3>1. StatusNow \in Statuses
      BY DEF StatusNow
    <3>2. cr' \in CRs \cup {NoCR}
      <4>1. cr' = cr \/ (cr # NoCR /\ cr' = [cr EXCEPT !.status = StatusNow])
        BY <1>30 DEF Report, PatchStatus
      <4>2. ASSUME cr \in CRs PROVE [cr EXCEPT !.status = StatusNow] \in CRs
        BY <4>2, <3>1 DEF CRs
      <4> QED BY <4>1, <4>2 DEF ClusterTypeOK
    <3>3. UNCHANGED <<aged, objs, level, legacy, secret>>
      BY <1>30 DEF Report
    <3> QED BY <3>2, <3>3 DEF ClusterTypeOK
  <2>2. PassTypeOK'
    BY <1>30 DEF Report, PatchStatus, StatusNow, Gauges!Send, PassTypeOK
  <2>3. QueueTypeOK'
    BY <1>30 DEF Report, PatchStatus, StatusNow, Gauges!Send, QueueTypeOK
  <2>4. BudgetsTypeOK'
    <3>1. faults' = faults \/ (faults < MaxFaults /\ faults' = faults + 1)
      BY <1>30 DEF Report
    <3>2. UNCHANGED <<edits, crashes, churn, flushes>>
      BY <1>30 DEF Report
    <3> QED BY <3>1, <3>2 DEF BudgetsTypeOK
  <2>5. Gauges!GaugesTypeOK'
    BY <1>30 DEF Report, PatchStatus, StatusNow, Gauges!Send, Gauges!GaugesTypeOK
  <2> QED BY <2>1, <2>2, <2>3, <2>4, <2>5
<1>31. CASE UNCHANGED vars
  BY <1>31 DEF vars, ClusterTypeOK, QueueTypeOK, PassTypeOK, BudgetsTypeOK, Gauges!GaugesTypeOK
<1> QED
  BY <1>1, <1>2, <1>3, <1>4, <1>5, <1>6, <1>7, <1>8, <1>9, <1>10, <1>11, <1>12, <1>13, <1>14, <1>15, <1>16, <1>17, <1>18, <1>19, <1>20, <1>21, <1>22, <1>23, <1>24, <1>25, <1>26, <1>27, <1>28, <1>29, <1>30, <1>31
  DEF Next, Operator, User, World

-----------------------------------------------------------------------------
(* The loop.                                                               *)

(* Every step keeps the facts about the loop: types, a snap where the pass *)
(* reads one, and a wake-up where one is needed.                           *)
LEMMA LoopStep == LoopInv /\ [Next]_vars => LoopInv'
<1> SUFFICES ASSUME LoopInv, [Next]_vars PROVE LoopInv'
  OBVIOUS
<1>0. TypeOK'
  BY TypeStep DEF LoopInv
<1> DEFINE LoopGoal == SnapPresent' /\ NoLostUpdate' /\ NeverForgotten' /\ ClosedWithoutResource'
<1> USE NoCRNotCR
    DEF LoopInv, SnapPresent, NoLostUpdate, NeverForgotten, ClosedWithoutResource, SpecOf,
        Goto, NoFault, Requeue, queue, locals, sink, cluster, KeepWorld, KeepObjs
<1>1. ASSUME NEW spec \in Specs, CreateCR(spec) PROVE LoopGoal
  BY <1>1 DEF CreateCR, UserWrites, CRs
<1>2. ASSUME NEW spec \in Specs, EditCR(spec) PROVE LoopGoal
  BY <1>2 DEF EditCR, UserWrites, CRs
<1>3. ASSUME DeleteCR PROVE LoopGoal
  BY <1>3 DEF DeleteCR, UserWrites
<1>4. ASSUME Age PROVE LoopGoal
  BY <1>4 DEF Age
<1>5. ASSUME NEW w \in Workloads, BecomeReady(w) PROVE LoopGoal
  BY <1>5 DEF BecomeReady
<1>6. ASSUME NEW w \in Workloads, NEW l \in {"down", "degraded"}, Degrade(w, l) PROVE LoopGoal
  BY <1>6 DEF Degrade
<1>7. ASSUME NEW f \in Files, Tamper(f) PROVE LoopGoal
  BY <1>7 DEF Tamper, ObjectsGone
<1>8. ASSUME LegacyChanges PROVE LoopGoal
  BY <1>8 DEF LegacyChanges
<1>9. ASSUME SecretChanges PROVE LoopGoal
  BY <1>9 DEF SecretChanges
<1>10. ASSUME DeliverEvent PROVE LoopGoal
  BY <1>10 DEF DeliverEvent
<1>11. ASSUME FireTimer PROVE LoopGoal
  BY <1>11 DEF FireTimer
<1>12. ASSUME FlushTick PROVE LoopGoal
  BY <1>12 DEF FlushTick
<1>13. ASSUME Crash PROVE LoopGoal
  BY <1>13 DEF Crash, Gauges!Restart
<1>14. ASSUME Dequeue PROVE LoopGoal
  BY <1>14 DEF Dequeue
<1>15. ASSUME Fetch PROVE LoopGoal
  BY <1>15 DEF Fetch
<1>16. ASSUME Teardown PROVE LoopGoal
  BY <1>16 DEF Teardown, Gauges!Close
<1>17. ASSUME DeleteAll PROVE LoopGoal
  BY <1>17 DEF DeleteAll, ObjectsGone
<1>18. ASSUME Deleted PROVE LoopGoal
  <2>1. CASE snap = NoCR
    <3>1. cr # NoCR => SpecOf(cr) # SpecOf(snap)
      BY <2>1, SpecOfCR DEF TypeOK, ClusterTypeOK
    <3> QED BY <1>18, <2>1, <3>1 DEF Deleted
  <2>2. CASE snap # NoCR
    BY <1>18, <2>2 DEF Deleted
  <2> QED BY <2>1, <2>2
<1>19. ASSUME Preprocess PROVE LoopGoal
  BY <1>19 DEF Preprocess
<1>20. ASSUME ReadSecret PROVE LoopGoal
  BY <1>20 DEF ReadSecret
<1>21. ASSUME ConnectSink PROVE LoopGoal
  BY <1>21 DEF ConnectSink, Gauges!Connect, Gauges!ConnectFails
<1>22. ASSUME Validate PROVE LoopGoal
  BY <1>22 DEF Validate, Judge
<1>23. ASSUME ReadUID PROVE LoopGoal
  BY <1>23 DEF ReadUID, ResourceFiles
<1>24. ASSUME Apply PROVE LoopGoal
  BY <1>24 DEF Apply
<1>25. ASSUME Applied PROVE LoopGoal
  BY <1>25 DEF Applied, ResourceFiles
<1>26. ASSUME Prune PROVE LoopGoal
  BY <1>26 DEF Prune, ObjectsGone
<1>27. ASSUME Pruned PROVE LoopGoal
  BY <1>27 DEF Pruned, StatusWorkloads
<1>28. ASSUME NEW w \in Workloads, ReadHealth(w) PROVE LoopGoal
  BY <1>28 DEF ReadHealth
<1>29. ASSUME HealthRead PROVE LoopGoal
  BY <1>29 DEF HealthRead
<1>30. ASSUME Report PROVE LoopGoal
  BY <1>30 DEF Report, PatchStatus, StatusNow, Gauges!Send
<1>31. ASSUME UNCHANGED vars PROVE LoopGoal
  BY <1>31 DEF vars
<1> QED
  BY <1>0, <1>1, <1>2, <1>3, <1>4, <1>5, <1>6, <1>7, <1>8, <1>9, <1>10, <1>11, <1>12, <1>13, <1>14, <1>15, <1>16, <1>17, <1>18, <1>19, <1>20, <1>21, <1>22, <1>23, <1>24, <1>25, <1>26, <1>27, <1>28, <1>29, <1>30, <1>31
  DEF Next, Operator, User, World

-----------------------------------------------------------------------------
(* One pass.                                                               *)

(* What others change is counted.                                          *)
LEMMA ChurnCounts == ASSUME TypeOK, Spend(churn, MaxChurn) PROVE churn' # 0
BY Bounds DEF TypeOK, BudgetsTypeOK, Spend

(* No directory is both applied and deleted, and while data can be         *)
(* exported every one is either.                                           *)
LEMMA WantedOrNot ==
    ASSUME NEW spec \in Specs
    PROVE  /\ \A canSend \in BOOLEAN : EnabledDirs(spec, canSend) \cap DisabledDirs(spec) = {}
           /\ EnabledDirs(spec, TRUE) \cup DisabledDirs(spec) = Dirs
BY DEF EnabledDirs, DisabledDirs, Dirs

(* Every step keeps the facts about the pass under way: what has been      *)
(* connected, judged, applied and deleted so far.                          *)
LEMMA PassStep == TypeOK /\ SnapPresent /\ PassInv /\ [Next]_vars => PassInv'
<1> SUFFICES ASSUME TypeOK, SnapPresent, PassInv, [Next]_vars PROVE PassInv'
  OBVIOUS
<1> DEFINE PassGoal == PathKnown' /\ SinkFollowsDataPath' /\ Judged'
                       /\ AppliedSoFar' /\ PrunedSoFar' /\ PassDone'
<1> USE DEF PassInv, PathKnown, SinkFollowsDataPath, Judged, AppliedSoFar, PrunedSoFar, PassDone,
            Wanted, Unwanted, Placed,
            Goto, NoFault, Requeue, queue, locals, sink, cluster, budgets, KeepWorld, KeepObjs
<1>1. ASSUME NEW spec \in Specs, CreateCR(spec) PROVE PassGoal
  BY <1>1 DEF CreateCR, UserWrites, CRs
<1>2. ASSUME NEW spec \in Specs, EditCR(spec) PROVE PassGoal
  BY <1>2 DEF EditCR, UserWrites, CRs
<1>3. ASSUME DeleteCR PROVE PassGoal
  BY <1>3 DEF DeleteCR, UserWrites
<1>4. ASSUME Age PROVE PassGoal
  BY <1>4 DEF Age
<1>5. ASSUME NEW w \in Workloads, BecomeReady(w) PROVE PassGoal
  BY <1>5 DEF BecomeReady
<1>6. ASSUME NEW w \in Workloads, NEW l \in {"down", "degraded"}, Degrade(w, l) PROVE PassGoal
  BY <1>6, ChurnCounts DEF Degrade
<1>7. ASSUME NEW f \in Files, Tamper(f) PROVE PassGoal
  <2>1. \A g \in Files : objs'[g] \in {objs[g], Absent}
    BY <1>7 DEF Tamper, ObjectsGone
  <2>2. UNCHANGED <<pc, snap, canExport, verdict, todo, addr>>
    BY <1>7 DEF Tamper
  <2>3. churn' # 0
    BY <1>7, ChurnCounts DEF Tamper
  <2> QED BY <2>1, <2>2, <2>3 DEF ResourceFiles
<1>8. ASSUME LegacyChanges PROVE PassGoal
  BY <1>8, ChurnCounts DEF LegacyChanges
<1>9. ASSUME SecretChanges PROVE PassGoal
  BY <1>9, ChurnCounts DEF SecretChanges
<1>10. ASSUME DeliverEvent PROVE PassGoal
  BY <1>10 DEF DeliverEvent
<1>11. ASSUME FireTimer PROVE PassGoal
  BY <1>11 DEF FireTimer
<1>12. ASSUME FlushTick PROVE PassGoal
  BY <1>12 DEF FlushTick
<1>13. ASSUME Crash PROVE PassGoal
  BY <1>13 DEF Crash, Gauges!Restart
<1>14. ASSUME Dequeue PROVE PassGoal
  BY <1>14 DEF Dequeue
<1>15. ASSUME Fetch PROVE PassGoal
  BY <1>15 DEF Fetch
<1>16. ASSUME Teardown PROVE PassGoal
  BY <1>16 DEF Teardown, Gauges!Close
<1>17. ASSUME DeleteAll PROVE PassGoal
  BY <1>17 DEF DeleteAll, ObjectsGone
<1>18. ASSUME Deleted PROVE PassGoal
  BY <1>18 DEF Deleted, StatusWorkloads
<1>19. ASSUME Preprocess PROVE PassGoal
  <2>1. pc' \in {"idle", "secret", "connect"} /\ snap' = snap
    BY <1>19 DEF Preprocess
  <2>2. pc' # "idle" /\ canExport' => DataPath(snap.spec) # NoAddr
    BY <1>19, ManifestsAssumption DEF Preprocess, DataPath, Addrs
  <2> QED BY <2>1, <2>2
<1>20. ASSUME ReadSecret PROVE PassGoal
  BY <1>20 DEF ReadSecret
<1>21. ASSUME ConnectSink PROVE PassGoal
  BY <1>21 DEF ConnectSink, Gauges!Connect, Gauges!ConnectFails
<1>22. ASSUME Validate PROVE PassGoal
  BY <1>22 DEF Validate, Judge
<1>23. ASSUME ReadUID PROVE PassGoal
  BY <1>23 DEF ReadUID, ResourceFiles
<1>24. ASSUME Apply PROVE PassGoal
  <2>1. UNCHANGED <<snap, canExport, verdict, addr, churn>> /\ pc = "apply"
    BY <1>24 DEF Apply
  <2>2. CASE pc' = "idle"
    BY <2>1, <2>2
  <2>3. CASE pc' = "apply"
    <3>1. PICK f \in Files :
              /\ todo' = todo \ {f}
              /\ objs' = IF Excluded(snap.spec, f) THEN objs ELSE [objs EXCEPT ![f] = snap.spec]
      BY <1>24, <2>3 DEF Apply
    <3>2. \A g \in Files : objs'[g] = objs[g] \/ objs'[g] = snap.spec
      BY <3>1 DEF TypeOK, ClusterTypeOK
    <3>3. Excluded(snap.spec, f) \/ objs'[f] = snap.spec
      BY <3>1 DEF TypeOK, ClusterTypeOK
    <3> QED BY <2>1, <2>3, <3>1, <3>2, <3>3 DEF ResourceFiles
  <2> QED BY <1>24, <2>2, <2>3 DEF Apply
<1>25. ASSUME Applied PROVE PassGoal
  BY <1>25 DEF Applied, ResourceFiles
<1>26. ASSUME Prune PROVE PassGoal
  <2>1. UNCHANGED <<snap, canExport, verdict, addr, churn>> /\ pc = "prune"
    BY <1>26 DEF Prune
  <2>2. CASE pc' = "idle"
    BY <2>1, <2>2
  <2>3. CASE pc' = "prune"
    <3>1. PICK f \in Files : f \in todo /\ todo' = todo \ {f} /\ ObjectsGone({f})
      BY <1>26, <2>3 DEF Prune, First
    <3>2. \A g \in Files : objs'[g] = IF g = f THEN Absent ELSE objs[g]
      BY <3>1 DEF ObjectsGone
    <3>3. snap.spec \in Specs /\ canExport \in BOOLEAN
      BY <1>26, SnapSpec DEF Prune, TypeOK, PassTypeOK, SnapPresent
    <3>4. f \notin Wanted
      BY <2>1, <3>1, <3>3, WantedOrNot DEF ResourceFiles
    <3> QED BY <2>1, <2>3, <3>1, <3>2, <3>4 DEF ResourceFiles
  <2> QED BY <1>26, <2>2, <2>3 DEF Prune
<1>27. ASSUME Pruned PROVE PassGoal
  BY <1>27 DEF Pruned, StatusWorkloads
<1>28. ASSUME NEW w \in Workloads, ReadHealth(w) PROVE PassGoal
  BY <1>28 DEF ReadHealth
<1>29. ASSUME HealthRead PROVE PassGoal
  BY <1>29 DEF HealthRead
<1>30. ASSUME Report PROVE PassGoal
  BY <1>30 DEF Report, PatchStatus, StatusNow, Gauges!Send
<1>31. ASSUME UNCHANGED vars PROVE PassGoal
  BY <1>31 DEF vars
<1> QED
  BY <1>1, <1>2, <1>3, <1>4, <1>5, <1>6, <1>7, <1>8, <1>9, <1>10, <1>11, <1>12, <1>13, <1>14, <1>15, <1>16, <1>17, <1>18, <1>19, <1>20, <1>21, <1>22, <1>23, <1>24, <1>25, <1>26, <1>27, <1>28, <1>29, <1>30, <1>31
  DEF Next, Operator, User, World

-----------------------------------------------------------------------------
(* With no request failed so far, a legacy install is no reason to tear    *)
(* down a valid spec while a component is deployed.                        *)
TornDownForCause == faults = 0 => WarningKeepsComponents

IInv == LoopInv /\ PassInv /\ TornDownForCause

(* A request that fails is counted.                                        *)
LEMMA FaultCounts == ASSUME TypeOK, Fault PROVE faults' # 0
BY Bounds DEF TypeOK, BudgetsTypeOK, Fault, Spend

(* A step that leaves the objects and the pass alone leaves the cause.     *)
LEMMA CauseKept ==
    ASSUME TypeOK, TornDownForCause, UNCHANGED <<pc, snap>>, faults' = 0 => faults = 0,
           \A f \in Files : objs'[f] \in {objs[f], Absent}
    PROVE  TornDownForCause'
<1>1. Deployed' \subseteq Deployed
  BY WorkloadFiles DEF Deployed
<1> QED BY <1>1 DEF TornDownForCause, WarningKeepsComponents

(* Every step keeps the cause of a teardown; only Validate leads to one.   *)
LEMMA CauseStep == TypeOK /\ SnapPresent /\ TornDownForCause /\ [Next]_vars => TornDownForCause'
<1> SUFFICES ASSUME TypeOK, SnapPresent, TornDownForCause, [Next]_vars PROVE TornDownForCause'
  OBVIOUS
<1> USE DEF Goto, NoFault, Requeue, queue, locals, sink, cluster, budgets, KeepWorld, KeepObjs
<1>1. CASE User
  <2>1. UNCHANGED <<pc, snap, objs, faults>>
    BY <1>1 DEF User, CreateCR, EditCR, DeleteCR, UserWrites
  <2> QED BY <2>1, CauseKept
<1>2. CASE World
  <2>1. UNCHANGED <<pc, snap, faults>>
    BY <1>2 DEF World, Age, BecomeReady, Degrade, Tamper, LegacyChanges, SecretChanges
  <2>2. \A f \in Files : objs'[f] \in {objs[f], Absent}
    BY <1>2 DEF World, Age, BecomeReady, Degrade, Tamper, LegacyChanges, SecretChanges, ObjectsGone
  <2> QED BY <2>1, <2>2, CauseKept
<1>3. CASE DeliverEvent \/ FireTimer \/ FlushTick \/ UNCHANGED vars
  <2>1. UNCHANGED <<pc, snap, objs, faults>>
    BY <1>3 DEF DeliverEvent, FireTimer, FlushTick, vars
  <2> QED BY <2>1, CauseKept
<1>4. CASE Crash
  BY <1>4 DEF Crash, TornDownForCause, WarningKeepsComponents
<1>5. CASE Validate
  <2>1. CASE NoFault /\ verdict' = Judge(LegacyInstall, Deployed)
    <3>1. ~SpecInvalid(snap.spec) /\ verdict' = "error" => Deployed = {}
      BY <2>1 DEF Judge
    <3>2. Deployed' = Deployed /\ snap' = snap
      BY <1>5 DEF Validate, Deployed
    <3>3. pc' = "teardown" => verdict' = "error"
      BY <1>5 DEF Validate
    <3> QED BY <3>1, <3>2, <3>3 DEF TornDownForCause, WarningKeepsComponents
  <2>2. CASE Fault
    BY <2>2, FaultCounts DEF TornDownForCause
  <2> QED BY <1>5, <2>1, <2>2 DEF Validate
<1>6. CASE Fetch
  BY <1>6, FaultCounts DEF Fetch, TornDownForCause, WarningKeepsComponents
<1>7. CASE \/ Dequeue \/ Teardown \/ DeleteAll \/ Deleted \/ Preprocess \/ ReadSecret
           \/ ConnectSink \/ ReadUID \/ Apply \/ Applied \/ Prune \/ Pruned
           \/ (\E w \in Workloads : ReadHealth(w)) \/ HealthRead \/ Report
  <2>1. pc' # "teardown"
    BY <1>7 DEF Dequeue, Teardown, DeleteAll, Deleted, Preprocess, ReadSecret, ConnectSink,
                ReadUID, Apply, Applied, Prune, Pruned, ReadHealth, HealthRead, Report
  <2> QED BY <2>1 DEF TornDownForCause, WarningKeepsComponents
<1> QED BY <1>1, <1>2, <1>3, <1>4, <1>5, <1>6, <1>7 DEF Next, Operator

(* The inductive invariant holds initially.                                *)
LEMMA InvInit == Init => IInv
<1> SUFFICES ASSUME Init PROVE IInv
  OBVIOUS
<1>1. LoopInv
  BY TypeInit DEF Init, LoopInv, SnapPresent, NoLostUpdate, NeverForgotten, SpecOf,
                  ClosedWithoutResource, Gauges!GaugesInit
<1>2. PassInv
  BY DEF Init, PassInv, PathKnown, SinkFollowsDataPath, Judged, AppliedSoFar, PrunedSoFar, PassDone
<1>3. TornDownForCause
  BY DEF Init, TornDownForCause, WarningKeepsComponents
<1> QED BY <1>1, <1>2, <1>3 DEF IInv

(* The inductive invariant is inductive.                                   *)
LEMMA InvStep == IInv /\ [Next]_vars => IInv'
BY LoopStep, PassStep, CauseStep DEF IInv, LoopInv

(* The inductive invariant holds in every reachable state.                 *)
THEOREM InvariantHolds == Spec => []IInv
<1>1. Init => IInv
  BY InvInit
<1>2. IInv /\ [Next]_vars => IInv'
  BY InvStep
<1> QED BY <1>1, <1>2, PTL DEF Spec

(* The type invariant, for every value of the constants.                   *)
THEOREM TypeCorrect == Spec => []TypeOK
<1>1. IInv => TypeOK
  BY DEF IInv, LoopInv
<1> QED BY <1>1, InvariantHolds, PTL

(* An edit of the resource is never lost: whenever Reconcile has not seen  *)
(* the spec that stands, something will make it look.                      *)
THEOREM UpdatesArrive == Spec => []NoLostUpdate
<1>1. IInv => NoLostUpdate
  BY DEF IInv, LoopInv
<1> QED BY <1>1, InvariantHolds, PTL

(* As long as there is a resource, another pass comes, whatever failed.    *)
THEOREM LoopLives == Spec => []NeverForgotten
<1>1. IInv => NeverForgotten
  BY DEF IInv, LoopInv
<1> QED BY <1>1, InvariantHolds, PTL

(* The operator's own gauges go where the manifests it applies point to.   *)
THEOREM SinkOnPath == Spec => []SinkFollowsDataPath
<1>1. IInv => SinkFollowsDataPath
  BY DEF IInv, PassInv
<1> QED BY <1>1, InvariantHolds, PTL

(* Healthy is reported by a pass that has put its spec into every file it  *)
(* enabled and deleted the disabled ones, with or without a way out.       *)
THEOREM HealthyIsApplied == Spec => []HealthyMeansApplied
<1>1. IInv => HealthyMeansApplied
  <2> SUFFICES ASSUME IInv, pc = "report", StatusNow = "Healthy" PROVE HealthyMeansApplied
    BY DEF HealthyMeansApplied
  <2>1. verdict = "valid"
    BY DEF StatusNow
  <2> QED BY <2>1 DEF IInv, PassInv, PassDone, HealthyMeansApplied, Wanted, Unwanted, Placed
<1> QED BY <1>1, InvariantHolds, PTL

(* A legacy install never makes the operator tear down a valid spec of     *)
(* which a component is deployed, as long as no request has failed.        *)
THEOREM WarningKeeps == Spec => [](faults = 0 => WarningKeepsComponents)
<1>1. IInv => TornDownForCause
  BY DEF IInv
<1> QED BY <1>1, InvariantHolds, PTL DEF TornDownForCause

(* Where no request can fail, it never does.                               *)
THEOREM WarningKeepsWithoutFaults == ASSUME MaxFaults = 0 PROVE Spec => []WarningKeepsComponents
<1>1. IInv => WarningKeepsComponents
  BY Bounds DEF IInv, LoopInv, TypeOK, BudgetsTypeOK, TornDownForCause
<1> QED BY <1>1, InvariantHolds, PTL

(* Only Apply writes a spec into an object.                                *)
LEMMA OnlyApplyWrites ==
    ASSUME IInv, [Next]_vars, NEW f \in Files, objs'[f] # objs[f], objs'[f] # Absent
    PROVE  Apply
<1> USE DEF KeepObjs, cluster
<1>1. ASSUME NEW gone, ObjectsGone(gone) PROVE FALSE
  BY <1>1 DEF ObjectsGone
<1>2. ~User
  BY DEF User, CreateCR, EditCR, DeleteCR, UserWrites
<1>3. ~World
  BY <1>1 DEF World, Age, BecomeReady, Degrade, Tamper, LegacyChanges, SecretChanges
<1>4. ~(DeliverEvent \/ FireTimer \/ FlushTick \/ Crash \/ UNCHANGED vars)
  BY DEF DeliverEvent, FireTimer, FlushTick, Crash, vars
<1>5. ~(\/ Dequeue \/ Fetch \/ Teardown \/ DeleteAll \/ Deleted \/ Preprocess \/ ReadSecret
        \/ ConnectSink \/ Validate \/ ReadUID \/ Applied \/ Prune \/ Pruned
        \/ (\E w \in Workloads : ReadHealth(w)) \/ HealthRead \/ Report)
  BY <1>1 DEF Dequeue, Fetch, Teardown, DeleteAll, Deleted, Preprocess, ReadSecret, ConnectSink,
              Validate, ReadUID, Applied, Prune, Pruned, ReadHealth, HealthRead, Report
<1> QED BY <1>2, <1>3, <1>4, <1>5 DEF Next, Operator

(* A step that creates an object of a collection component is taken with   *)
(* the operator connected to where the object's spec points.               *)
LEMMA CreationStep ==
    ASSUME IInv, [Next]_vars, NEW f \in Files,
           objs[f] = Absent, objs'[f] # Absent, Manifest[f].dir # "proxy"
    PROVE  addr = DataPath(objs'[f]) /\ addr # NoAddr
<1>1. Apply
  BY OnlyApplyWrites
<1>2. f \in todo /\ objs'[f] = snap.spec
  BY <1>1 DEF Apply, First, IInv, LoopInv, TypeOK, ClusterTypeOK
<1>3. canExport
  BY <1>1, <1>2 DEF Apply, IInv, PassInv, AppliedSoFar, Wanted, ResourceFiles, EnabledDirs
<1> QED BY <1>1, <1>2, <1>3 DEF Apply, IInv, PassInv, SinkFollowsDataPath

(* When an object of a collector or log shipper comes into being, the      *)
(* operator itself is connected to the data path of the spec in it, as a   *)
(* pass that found the proxy available at its start left it.               *)
THEOREM CollectionWaits == Spec => CollectionWaitsForDataPath
<1>1. IInv /\ [Next]_vars =>
        [\A f \in Files :
            objs[f] = Absent /\ objs'[f] # Absent /\ Manifest[f].dir # "proxy"
                => addr = DataPath(objs'[f]) /\ addr # NoAddr]_vars
  BY CreationStep
<1> QED BY <1>1, InvariantHolds, PTL DEF Spec, CollectionWaitsForDataPath

(* After the teardown of a resource that is gone, no flush begins.         *)
THEOREM Silent == Spec => SilentWithoutResource
<1>1. IInv => [FlushTick /\ pc # "teardown" => snap # NoCR]_vars
  BY DEF IInv, LoopInv, ClosedWithoutResource, FlushTick
<1> QED BY <1>1, InvariantHolds, PTL DEF Spec, SilentWithoutResource

-----------------------------------------------------------------------------
(* The loop implements the level-triggered one.                            *)

Woken == watch \/ dirty \/ timer \/ pc = "fetch"
Working == pc \notin {"idle", "fetch"}

(* A status written into the resource leaves its spec alone.               *)
LEMMA StatusKeepsSpec ==
    ASSUME cr \in CRs, PatchStatus(StatusNow)
    PROVE  cr' \in CRs /\ cr'.spec = cr.spec
<1>1. StatusNow \in Statuses
  BY DEF StatusNow, Statuses
<1> QED BY <1>1 DEF PatchStatus, CRs

(* What a pass does until it ends is a stuttering step of the loop.        *)
LEMMA PassStutters ==
    ASSUME Working, Working', UNCHANGED <<snap, watch, dirty, timer>>, SpecOf(cr') = SpecOf(cr)
    PROVE  UNCHANGED Level!levelVars
BY DEF Level!levelVars, Working, SpecOf

(* A pass that ends with a request in the delaying queue is a Finish.      *)
LEMMA RequeueFinishes ==
    ASSUME Working, Requeue, snap' = snap, SpecOf(cr') = SpecOf(cr)
    PROVE  Level!Finish
BY DEF Level!Finish, Working, Requeue, Goto, SpecOf

(* Every step is a step of the level-triggered loop or leaves it alone.    *)
LEMMA LevelStep == IInv /\ [Next]_vars => [Level!Next]_(Level!levelVars)
<1> SUFFICES ASSUME IInv, [Next]_vars PROVE [Level!Next]_(Level!levelVars)
  OBVIOUS
<1>0. TypeOK /\ SnapPresent
  BY DEF IInv, LoopInv
<1> USE DEF Working, Goto, NoFault, queue, locals, sink, cluster, budgets, KeepWorld, KeepObjs
<1>1. ASSUME NEW spec \in Specs, CreateCR(spec) PROVE Level!Write(spec)
  <2>1. SpecOf(cr) = NoCR /\ SpecOf(cr') = spec
    BY <1>1, NoCRNotCR, ReconcilerAssumption DEF CreateCR, UserWrites, SpecOf
  <2>2. UNCHANGED <<snap, dirty, timer, pc>> /\ watch' = TRUE
    BY <1>1 DEF CreateCR, UserWrites
  <2>3. spec # NoCR
    BY ReconcilerAssumption
  <2> QED BY <2>1, <2>2, <2>3 DEF Level!Write, SpecOf
<1>2. ASSUME NEW spec \in Specs, EditCR(spec) PROVE Level!Write(spec)
  <2>1. cr' = [cr EXCEPT !.spec = spec] /\ cr # NoCR /\ cr.spec # spec
    BY <1>2 DEF EditCR, UserWrites
  <2>2. cr' \in CRs /\ cr'.spec = spec
    BY <1>0, <2>1 DEF TypeOK, ClusterTypeOK, CRs
  <2>3. SpecOf(cr) # spec /\ SpecOf(cr') = spec
    BY <2>1, <2>2, NoCRNotCR DEF SpecOf
  <2>4. UNCHANGED <<snap, dirty, timer, pc>> /\ watch' = TRUE
    BY <1>2 DEF EditCR, UserWrites
  <2> QED BY <2>3, <2>4 DEF Level!Write, SpecOf
<1>3. CASE DeleteCR
  <2>1. SpecOf(cr) # NoCR /\ SpecOf(cr') = NoCR
    BY <1>0, <1>3, SpecOfCR DEF DeleteCR, UserWrites, SpecOf, TypeOK, ClusterTypeOK
  <2>2. UNCHANGED <<snap, dirty, timer, pc>> /\ watch' = TRUE
    BY <1>3 DEF DeleteCR, UserWrites
  <2>3. Level!Write(NoCR)
    BY <2>1, <2>2 DEF Level!Write, SpecOf
  <2> QED BY <2>3 DEF Level!Next
<1>4. CASE World \/ FlushTick \/ UNCHANGED vars
  <2>1. UNCHANGED <<cr, snap, watch, dirty, timer, pc>>
    BY <1>4 DEF World, Age, BecomeReady, Degrade, Tamper, LegacyChanges, SecretChanges, FlushTick, vars
  <2> QED BY <2>1 DEF Level!levelVars, SpecOf
<1>5. CASE DeliverEvent \/ FireTimer \/ Dequeue
  <2>1. UNCHANGED <<cr, snap>> /\ Woken /\ Woken'
    BY <1>5 DEF DeliverEvent, FireTimer, Dequeue, Woken
  <2>2. Working' = Working
    BY <1>5 DEF DeliverEvent, FireTimer, Dequeue
  <2> QED BY <2>1, <2>2 DEF Level!levelVars, SpecOf, Woken
<1>6. CASE Fetch
  <2>1. CASE Fault /\ Requeue /\ UNCHANGED <<snap, verdict>>
    BY <1>6, <2>1 DEF Fetch, Requeue, Level!levelVars, SpecOf
  <2>2. CASE snap' = cr /\ pc' \in {"teardown", "preprocess"}
    <3>1. pc = "fetch" /\ Working' /\ UNCHANGED cr
      BY <1>6, <2>2 DEF Fetch
    <3>2. Woken' \in BOOLEAN
      BY DEF Woken
    <3> QED BY <2>2, <3>1, <3>2 DEF Level!Next, Level!Look, SpecOf, Woken
  <2> QED BY <1>6, <2>1, <2>2 DEF Fetch
<1>7. CASE Crash
  <2>1. SpecOf(cr) # NoCR <=> cr # NoCR
    BY <1>0, SpecOfCR DEF SpecOf, TypeOK, ClusterTypeOK
  <2> QED BY <1>7, <2>1 DEF Crash, Level!Next, Level!Restart, SpecOf
<1>8. CASE \/ Teardown \/ DeleteAll \/ Validate \/ Applied \/ Pruned \/ HealthRead
           \/ \E w \in Workloads : ReadHealth(w)
  BY <1>8, PassStutters
  DEF Teardown, DeleteAll, Validate, Applied, Pruned, HealthRead, ReadHealth, SpecOf
<1>9. CASE Preprocess \/ ReadSecret \/ ConnectSink \/ ReadUID \/ Apply \/ Prune
  <2>1. Working /\ UNCHANGED <<cr, snap, watch, dirty>>
    BY <1>9 DEF Preprocess, ReadSecret, ConnectSink, ReadUID, Apply, Prune
  <2>2. Requeue \/ (Working' /\ UNCHANGED timer)
    BY <1>9 DEF Preprocess, ReadSecret, ConnectSink, ReadUID, Apply, Prune
  <2> QED BY <2>1, <2>2, PassStutters, RequeueFinishes DEF Level!Next, SpecOf
<1>10. CASE Deleted
  <2>1. CASE snap = NoCR
    <3>1. Working /\ pc' = "idle" /\ UNCHANGED <<cr, snap, watch, dirty, timer>>
      BY <1>10, <2>1 DEF Deleted
    <3> QED BY <2>1, <3>1 DEF Level!Next, Level!Rest, SpecOf
  <2>2. CASE snap # NoCR
    BY <1>10, <2>2, PassStutters DEF Deleted, SpecOf
  <2> QED BY <2>1, <2>2
<1>11. CASE Report
  <2>1. Working /\ Requeue /\ snap' = snap
    BY <1>11 DEF Report
  <2>2. SpecOf(cr') = SpecOf(cr)
    <3>1. CASE cr' = cr
      BY <3>1 DEF SpecOf
    <3>2. CASE PatchStatus(StatusNow)
      <4>1. cr \in CRs /\ cr # NoCR
        BY <1>0, <3>2 DEF TypeOK, ClusterTypeOK, PatchStatus
      <4> QED BY <3>2, <4>1, StatusKeepsSpec, NoCRNotCR DEF SpecOf
    <3> QED BY <1>11, <3>1, <3>2 DEF Report
  <2> QED BY <2>1, <2>2, RequeueFinishes DEF Level!Next
<1> QED
  BY <1>1, <1>2, <1>3, <1>4, <1>5, <1>6, <1>7, <1>8, <1>9, <1>10, <1>11
  DEF Next, Operator, User, Level!Next

(* The operator's loop is level triggered: it implements LevelTriggered.   *)
THEOREM ImplementsLevelTriggered == Spec => IsLevelTriggered
<1>1. Init => Level!Init
  BY DEF Init, Level!Init, SpecOf
<1>2. IInv /\ [Next]_vars => [Level!Next]_(Level!levelVars)
  BY LevelStep
<1> QED BY <1>1, <1>2, InvariantHolds, PTL DEF Spec, IsLevelTriggered, Level!Spec

-----------------------------------------------------------------------------
(* An installation in place stays in place.                                *)

(* The object of a file is left as it is, or becomes what the resource     *)
(* asks for.                                                               *)
Steady(f) ==
    \/ objs'[f] = objs[f]
    \/ Manifest[f].dir \in EnabledDirs(cr.spec, TRUE) /\ objs'[f] = cr.spec
    \/ Manifest[f].dir \in DisabledDirs(cr.spec) /\ objs'[f] = Absent

(* A step that changes no object but to what the resource asks for, and    *)
(* begins no pass for anything else, does not disturb the installation.    *)
LEMMA ServingKept ==
    ASSUME TypeOK, Serving,
           cr' # NoCR, cr'.spec = cr.spec, legacy' = legacy,
           \A f \in Files : Steady(f),
           pc' \notin {"teardown", "deleteAll"},
           pc' \notin {"idle", "fetch"} => SpecOf(snap') = cr.spec
    PROVE  Serving'
<1>1. cr.spec \in Specs
  BY DEF TypeOK, ClusterTypeOK, CRs, Serving
<1>2. EnabledDirs(cr.spec, TRUE) \cap DisabledDirs(cr.spec) = {}
  BY <1>1, WantedOrNot
<1>3. \A f \in ResourceFiles(EnabledDirs(cr.spec, TRUE)) : Excluded(cr.spec, f) \/ objs'[f] = cr.spec
  BY <1>2 DEF Serving, InPlace, ResourceFiles, Steady
<1>4. \A f \in ResourceFiles(DisabledDirs(cr.spec)) : objs'[f] = Absent
  BY <1>2 DEF Serving, InPlace, ResourceFiles, Steady
<1> QED BY <1>3, <1>4 DEF Serving, InPlace, SpecOf

(* Every step that is not of others keeps the installation.                *)
LEMMA ServiceStep == IInv /\ [Next]_vars => [Serving => Serving' \/ User \/ World]_vars
<1> SUFFICES ASSUME IInv, [Next]_vars, Serving, ~User, ~World PROVE Serving'
  BY DEF vars
<1>0. TypeOK /\ SnapPresent /\ cr \in CRs /\ cr # NoCR
  BY DEF IInv, LoopInv, TypeOK, ClusterTypeOK, Serving
<1>1. Working => snap # NoCR /\ snap.spec = cr.spec
  <2>1. Working => pc \notin {"idle", "fetch", "teardown", "deleteAll"}
    BY DEF Working, Serving
  <2> QED BY <1>0, <2>1 DEF Serving, SnapPresent, SpecOf
<1>2. cr.spec \in Specs
  BY <1>0 DEF CRs
<1> USE DEF Goto, NoFault, Requeue, queue, locals, sink, cluster, budgets, KeepWorld, KeepObjs
<1>3. CASE DeliverEvent \/ FireTimer \/ FlushTick \/ Dequeue \/ UNCHANGED vars
  <2>1. UNCHANGED <<cr, objs, legacy, snap>> /\ pc' \in {pc, "fetch"}
    BY <1>3 DEF DeliverEvent, FireTimer, FlushTick, Dequeue, vars
  <2> QED BY <1>0, <2>1, ServingKept DEF Steady, Serving
<1>4. CASE Crash
  <2>1. UNCHANGED <<cr, objs, legacy>> /\ pc' = "idle"
    BY <1>4 DEF Crash
  <2> QED BY <1>0, <2>1, ServingKept DEF Steady
<1>5. CASE Fetch
  <2>1. UNCHANGED <<cr, objs, legacy>> /\ (pc' = "idle" \/ (pc' = "preprocess" /\ snap' = cr))
    BY <1>0, <1>5 DEF Fetch
  <2> QED BY <1>0, <2>1, ServingKept DEF Steady, SpecOf
<1>6. CASE Teardown \/ DeleteAll \/ Deleted
  BY <1>6 DEF Teardown, DeleteAll, Deleted, Serving
<1>7. CASE \/ Preprocess \/ ReadSecret \/ ConnectSink \/ ReadUID \/ Applied \/ Pruned
           \/ (\E w \in Workloads : ReadHealth(w)) \/ HealthRead
  <2>1. Working /\ UNCHANGED <<cr, objs, legacy, snap>> /\ pc' \notin {"teardown", "deleteAll"}
    BY <1>7 DEF Preprocess, ReadSecret, ConnectSink, ReadUID, Applied, Pruned, ReadHealth,
                HealthRead, Working, Serving
  <2> QED BY <1>0, <1>1, <2>1, ServingKept DEF Steady, SpecOf
<1>8. CASE Validate
  <2>1. Working /\ UNCHANGED <<cr, objs, legacy, snap>>
    BY <1>8 DEF Validate, Working
  <2>2. ~LegacyInstall /\ ~SpecInvalid(snap.spec)
    BY <1>1, <2>1 DEF LegacyInstall, Serving
  <2>3. verdict' = "valid"
    BY <1>8, <2>2 DEF Validate, Judge
  <2>4. pc' = "readUID"
    BY <1>8, <2>3 DEF Validate
  <2> QED BY <1>0, <1>1, <2>1, <2>4, ServingKept DEF Steady, SpecOf
<1>9. CASE Apply
  <2>1. Working /\ UNCHANGED <<cr, legacy, snap>> /\ pc = "apply" /\ pc' \in {"apply", "idle"}
    BY <1>9 DEF Apply, Working
  <2>2. \A f \in todo : f \in Files /\ Manifest[f].dir \in EnabledDirs(snap.spec, canExport)
    BY <2>1 DEF IInv, PassInv, AppliedSoFar, Wanted, ResourceFiles
  <2>3. EnabledDirs(snap.spec, canExport) \subseteq EnabledDirs(snap.spec, TRUE)
    BY DEF EnabledDirs
  <2>4. \A f \in Files : objs'[f] = objs[f] \/ (f \in todo /\ objs'[f] = snap.spec)
    BY <1>0, <1>9 DEF Apply, First, TypeOK, ClusterTypeOK
  <2>5. \A f \in Files : Steady(f)
    BY <1>1, <2>1, <2>2, <2>3, <2>4 DEF Steady
  <2> QED BY <1>0, <1>1, <2>1, <2>5, ServingKept DEF SpecOf
<1>10. CASE Prune
  <2>1. Working /\ UNCHANGED <<cr, legacy, snap>> /\ pc = "prune" /\ pc' \in {"prune", "idle"}
    BY <1>10 DEF Prune, Working
  <2>2. \A f \in todo : Manifest[f].dir \in DisabledDirs(snap.spec)
    BY <2>1 DEF IInv, PassInv, PrunedSoFar, Unwanted, ResourceFiles
  <2>3. \A f \in Files : objs'[f] = objs[f] \/ (f \in todo /\ objs'[f] = Absent)
    BY <1>10 DEF Prune, ObjectsGone, First
  <2>4. \A f \in Files : Steady(f)
    BY <1>1, <2>1, <2>2, <2>3 DEF Steady
  <2> QED BY <1>0, <1>1, <2>1, <2>4, ServingKept DEF SpecOf
<1>11. CASE Report
  <2>1. UNCHANGED <<objs, legacy>> /\ pc' = "idle"
    BY <1>11 DEF Report
  <2>2. cr' # NoCR /\ cr'.spec = cr.spec
    BY <1>0, <1>11, StatusKeepsSpec, NoCRNotCR DEF Report
  <2> QED BY <1>0, <2>1, <2>2, ServingKept DEF Steady
<1> QED
  BY <1>3, <1>4, <1>5, <1>6, <1>7, <1>8, <1>9, <1>10, <1>11 DEF Next, Operator

(* Only others disturb an installation that is what its resource asks for: *)
(* no step of the operator does, whatever fails, and no restart.           *)
THEOREM Undisturbed == Spec => ServiceStays
<1>1. IInv /\ [Next]_vars => [Serving => Serving' \/ User \/ World]_vars
  BY ServiceStep
<1> QED BY <1>1, InvariantHolds, PTL DEF Spec, ServiceStays

-----------------------------------------------------------------------------
(* Reconcile's use of the connection.                                      *)
LEMMA GaugesStep == LoopInv /\ PathKnown /\ [Next]_vars => [Gauges!GaugesNext]_<<addr, latest>>
<1> SUFFICES ASSUME LoopInv, PathKnown, [Next]_vars PROVE [Gauges!GaugesNext]_<<addr, latest>>
  OBVIOUS
<1>1. CASE Teardown
  BY <1>1 DEF Teardown, Gauges!GaugesNext
<1>2. CASE ConnectSink
  <2>1. CASE UNCHANGED sink
    BY <2>1 DEF sink
  <2>2. CASE canExport /\ (Gauges!Connect(DataPath(snap.spec)) \/ Gauges!ConnectFails(DataPath(snap.spec)))
    <3>1. snap.spec \in Specs
      BY <1>2, SnapSpec DEF ConnectSink, LoopInv, SnapPresent, TypeOK
    <3>2. DataPath(snap.spec) \in Addrs
      BY <1>2, <2>2, <3>1, DataPathType DEF ConnectSink, PathKnown
    <3> QED
      BY <2>2, <3>2 DEF Gauges!GaugesNext
  <2> QED
    BY <1>2, <2>1, <2>2 DEF ConnectSink
<1>3. CASE Report
  <2>1. StatusNow \in Statuses
    BY DEF StatusNow, Statuses
  <2>2. [n \in {"status"} |-> StatusNow] \in Gauges!Reports
    <3>1. [n \in {"status"} |-> StatusNow] \in [{"status"} -> Statuses]
      BY <2>1
    <3>2. [{"status"} -> Statuses] \in {[N -> Statuses] : N \in SUBSET {"status"}}
      OBVIOUS
    <3> QED
      BY <3>1, <3>2 DEF Gauges!Reports
  <2>3. CASE UNCHANGED sink
    BY <2>3 DEF sink
  <2> QED
    BY <1>3, <2>2, <2>3 DEF Report, Gauges!GaugesNext
<1>4. CASE Crash
  BY <1>4 DEF Crash, Gauges!GaugesNext
<1>5. CASE UNCHANGED sink
  BY <1>5 DEF sink
<1>6. Operator /\ ~Teardown /\ ~ConnectSink /\ ~Report => UNCHANGED sink
  BY DEF Operator, Dequeue, Fetch, DeleteAll, Deleted, Preprocess, ReadSecret, Validate, ReadUID,
         Apply, Applied, Prune, Pruned, ReadHealth, HealthRead
<1>7. User \/ World \/ DeliverEvent \/ FireTimer \/ FlushTick \/ UNCHANGED vars => UNCHANGED sink
  BY DEF User, UserWrites, CreateCR, EditCR, DeleteCR, World, Age, BecomeReady, Degrade, Tamper,
         LegacyChanges, SecretChanges, DeliverEvent, FireTimer, FlushTick, vars
<1> QED
  BY <1>1, <1>2, <1>3, <1>4, <1>5, <1>6, <1>7 DEF Next

(* The reconciler only makes calls MetricGauges knows, with addresses a    *)
(* connection can have and statuses a gauge can show, and a pass that is   *)
(* cut off by a restart leaves nothing of them: with ConnectionShowsGauges *)
(* of MetricConnectionProofs, the two sides of the interface agree.        *)
THEOREM UsesGauges == Spec => Gauges!GaugesSpec
<1>1. Init => Gauges!GaugesInit
  BY DEF Init
<1>2. IInv => LoopInv /\ PathKnown
  BY DEF IInv, PassInv
<1> QED
  BY <1>1, <1>2, GaugesStep, InvariantHolds, PTL DEF Spec, Gauges!GaugesSpec

-----------------------------------------------------------------------------
(* An invalid spec is applied only under the cover of a legacy install.    *)

(* Manifests are applied under a warning, or for a spec without an error.  *)
ApplyJudged ==
    pc \in {"readUID", "apply", "prune"} =>
        verdict = "warning" \/ (verdict = "valid" /\ ~SpecInvalid(snap.spec))

(* Legacy workloads are none of the operator's doing.                      *)
LegacyCounted == legacy \/ verdict = "warning" => churn # 0

(* Whoever steps, it is Validate that lets a pass apply, and what it finds *)
(* of a legacy install is there.                                           *)
LEMMA JudgedStep ==
    TypeOK /\ ApplyJudged /\ LegacyCounted /\ [Next]_vars => ApplyJudged' /\ LegacyCounted'
<1> SUFFICES ASSUME TypeOK, ApplyJudged, LegacyCounted, [Next]_vars
             PROVE  ApplyJudged' /\ LegacyCounted'
  OBVIOUS
<1> USE DEF Goto, queue, locals, sink, cluster, budgets, KeepWorld, KeepObjs
<1>1. CASE User \/ DeliverEvent \/ FireTimer \/ FlushTick \/ UNCHANGED vars
  <2>1. UNCHANGED <<pc, verdict, snap, legacy, churn>>
    BY <1>1 DEF User, CreateCR, EditCR, DeleteCR, UserWrites, DeliverEvent, FireTimer, FlushTick, vars
  <2> QED BY <2>1 DEF ApplyJudged, LegacyCounted
<1>2. CASE World
  <2>1. UNCHANGED <<pc, verdict, snap>>
    BY <1>2 DEF World, Age, BecomeReady, Degrade, Tamper, LegacyChanges, SecretChanges
  <2>2. UNCHANGED <<legacy, churn>> \/ churn' # 0
    BY <1>2, ChurnCounts DEF World, Age, BecomeReady, Degrade, Tamper, LegacyChanges, SecretChanges
  <2> QED BY <2>1, <2>2 DEF ApplyJudged, LegacyCounted
<1>3. CASE Crash
  BY <1>3 DEF Crash, ApplyJudged, LegacyCounted
<1>4. CASE Fetch
  BY <1>4 DEF Fetch, Requeue, ApplyJudged, LegacyCounted
<1>5. CASE Validate
  <2>1. PICK found \in {FALSE, LegacyInstall}, seen \in SUBSET Deployed : verdict' = Judge(found, seen)
    BY <1>5 DEF Validate
  <2>2. verdict' = "warning" => legacy
    BY <2>1 DEF Judge, LegacyInstall
  <2>3. verdict' = "warning" \/ verdict' = "error" \/ (verdict' = "valid" /\ ~SpecInvalid(snap.spec))
    BY <2>1 DEF Judge
  <2>4. UNCHANGED <<snap, legacy, churn>> /\ (verdict' = "error" => pc' = "teardown")
    BY <1>5 DEF Validate
  <2> QED BY <2>2, <2>3, <2>4 DEF ApplyJudged, LegacyCounted
<1>6. CASE \/ Dequeue \/ Teardown \/ DeleteAll \/ Deleted \/ Preprocess \/ ReadSecret
           \/ ConnectSink \/ ReadUID \/ Apply \/ Applied \/ Prune \/ Pruned
           \/ (\E w \in Workloads : ReadHealth(w)) \/ HealthRead \/ Report
  <2>1. UNCHANGED <<verdict, snap, legacy, churn>>
    BY <1>6 DEF Dequeue, Teardown, DeleteAll, Deleted, Preprocess, ReadSecret, ConnectSink,
                ReadUID, Apply, Applied, Prune, Pruned, ReadHealth, HealthRead, Report
  <2>2. pc' \in {"readUID", "apply", "prune"} => pc \in {"readUID", "apply", "prune"}
    BY <1>6 DEF Dequeue, Teardown, DeleteAll, Deleted, Preprocess, ReadSecret, ConnectSink,
                ReadUID, Apply, Applied, Prune, Pruned, ReadHealth, HealthRead, Report, Requeue
  <2> QED BY <2>1, <2>2 DEF ApplyJudged, LegacyCounted
<1> QED BY <1>1, <1>2, <1>3, <1>4, <1>5, <1>6 DEF Next, Operator

(* validateEnvironment comes before the spec's own errors and turns into a *)
(* warning: that is the one way an invalid spec gets into the cluster, and *)
(* it takes somebody else's legacy install.                                *)
THEOREM InvalidNeedsLegacy ==
    Spec => [][\A f \in Files :
                  \/ objs'[f] = objs[f]
                  \/ objs'[f] = Absent
                  \/ ~SpecInvalid(objs'[f])
                  \/ verdict = "warning" /\ churn # 0]_vars
<1>1. Init => ApplyJudged /\ LegacyCounted
  BY DEF Init, ApplyJudged, LegacyCounted
<1>2. IInv => TypeOK
  BY DEF IInv, LoopInv
<1>3. IInv /\ ApplyJudged /\ LegacyCounted /\ [Next]_vars =>
        [\A f \in Files :
            \/ objs'[f] = objs[f]
            \/ objs'[f] = Absent
            \/ ~SpecInvalid(objs'[f])
            \/ verdict = "warning" /\ churn # 0]_vars
  <2> SUFFICES ASSUME IInv, ApplyJudged, LegacyCounted, [Next]_vars, NEW f \in Files,
                      objs'[f] # objs[f], objs'[f] # Absent, SpecInvalid(objs'[f])
               PROVE  verdict = "warning" /\ churn # 0
    OBVIOUS
  <2>1. Apply
    BY OnlyApplyWrites
  <2>2. pc = "apply" /\ objs'[f] = snap.spec
    BY <2>1 DEF Apply, IInv, LoopInv, TypeOK, ClusterTypeOK
  <2> QED BY <2>2 DEF ApplyJudged, LegacyCounted
<1> QED BY <1>1, <1>2, <1>3, JudgedStep, InvariantHolds, PTL DEF Spec

(* Where nobody else changes anything, no invalid spec is ever applied.    *)
THEOREM InvalidNeverApplied == ASSUME MaxChurn = 0 PROVE Spec => InvalidSpecNotApplied
<1>1. IInv => churn = 0
  BY Bounds DEF IInv, LoopInv, TypeOK, BudgetsTypeOK
<1>2. churn = 0 /\ [\A f \in Files :
                      \/ objs'[f] = objs[f]
                      \/ objs'[f] = Absent
                      \/ ~SpecInvalid(objs'[f])
                      \/ verdict = "warning" /\ churn # 0]_vars
      => [\A f \in Files : objs'[f] = objs[f] \/ objs'[f] = Absent \/ ~SpecInvalid(objs'[f])]_vars
  OBVIOUS
<1> QED BY <1>1, <1>2, InvalidNeedsLegacy, InvariantHolds, PTL DEF InvalidSpecNotApplied

(* While the resource is known to be invalid, the connection is open only  *)
(* from the connect of a pass, which comes before its validation, to the   *)
(* teardown.                                                               *)
OpenOnlyToJudge == verdict = "error" /\ addr # NoAddr => pc \in {"validate", "teardown"}

LEMMA WindowStep == TypeOK /\ OpenOnlyToJudge /\ [Next]_vars => OpenOnlyToJudge'
<1> SUFFICES ASSUME TypeOK, OpenOnlyToJudge, [Next]_vars PROVE OpenOnlyToJudge'
  OBVIOUS
<1> USE DEF Goto, queue, locals, sink, cluster, budgets, KeepWorld, KeepObjs
<1>1. CASE User \/ World \/ DeliverEvent \/ FireTimer \/ FlushTick \/ UNCHANGED vars
  <2>1. UNCHANGED <<pc, verdict, addr>>
    BY <1>1 DEF User, CreateCR, EditCR, DeleteCR, UserWrites, World, Age, BecomeReady, Degrade,
                Tamper, LegacyChanges, SecretChanges, DeliverEvent, FireTimer, FlushTick, vars
  <2> QED BY <2>1 DEF OpenOnlyToJudge
<1>2. CASE Crash
  BY <1>2 DEF Crash, OpenOnlyToJudge
<1>3. CASE Fetch
  BY <1>3 DEF Fetch, Requeue, OpenOnlyToJudge
<1>4. CASE Teardown
  BY <1>4 DEF Teardown, Gauges!Close, OpenOnlyToJudge
<1>5. CASE ConnectSink
  BY <1>5 DEF ConnectSink, Gauges!Connect, Gauges!ConnectFails, Requeue, OpenOnlyToJudge
<1>6. CASE Validate
  BY <1>6 DEF Validate, OpenOnlyToJudge
<1>7. CASE Report
  BY <1>7 DEF Report, Requeue, Gauges!Send, OpenOnlyToJudge
<1>8. CASE \/ Dequeue \/ DeleteAll \/ Deleted \/ Preprocess \/ ReadSecret \/ ReadUID
           \/ Apply \/ Applied \/ Prune \/ Pruned
           \/ (\E w \in Workloads : ReadHealth(w)) \/ HealthRead
  <2>1. UNCHANGED <<verdict, addr>> /\ pc \notin {"validate", "teardown"}
    BY <1>8 DEF Dequeue, DeleteAll, Deleted, Preprocess, ReadSecret, ReadUID, Apply, Applied,
                Prune, Pruned, ReadHealth, HealthRead
  <2> QED BY <2>1 DEF OpenOnlyToJudge
<1> QED BY <1>1, <1>2, <1>3, <1>4, <1>5, <1>6, <1>7, <1>8 DEF Next, Operator

(* A flush takes gauges of a resource that was found invalid only while a  *)
(* later pass is about to find it invalid once more: NoStatusGaugesWhile-  *)
(* Invalid, which the code breaks, is broken nowhere else.                 *)
THEOREM InvalidSendsBriefly == Spec => [][FlushTick /\ verdict = "error" => pc \in {"validate", "teardown"}]_vars
<1>1. Init => OpenOnlyToJudge
  BY DEF Init, OpenOnlyToJudge
<1>2. IInv => TypeOK
  BY DEF IInv, LoopInv
<1>3. OpenOnlyToJudge => [FlushTick /\ verdict = "error" => pc \in {"validate", "teardown"}]_vars
  BY DEF OpenOnlyToJudge, FlushTick
<1> QED BY <1>1, <1>2, <1>3, WindowStep, InvariantHolds, PTL DEF Spec
=============================================================================
