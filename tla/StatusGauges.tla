---------------------------- MODULE StatusGauges ----------------------------
(***************************************************************************)
(* What the operator makes of the workloads it has read: the status of the *)
(* resource (internal/health/status.go) and the gauges it sends of it      *)
(* (internal/wavefront/metric/status and .../version).                     *)
(*                                                                         *)
(* A reading gives every workload that was asked for a record of whether   *)
(* it is healthy.  Messages and tags are left out.                         *)
(***************************************************************************)
EXTENDS Integers

Collectors == {"wavefront-cluster-collector", "wavefront-node-collector"}
OperatorName == "wavefront-controller-manager"
Workload == Collectors \cup {"wavefront-proxy", "wavefront-logging", OperatorName}

(* The workloads of the three components that have a gauge of their own.   *)
Component == [metrics |-> Collectors, logging |-> {"wavefront-logging"}, proxy |-> {"wavefront-proxy"}]

(* GenerateWavefrontStatus asks for the enabled ones, and for the operator.*)
AskedFor(spec) ==
    {OperatorName} \cup UNION {Component[c] : c \in {d \in DOMAIN Component : spec[d]}}

(* The values of the gauges.                                               *)
Unhealthy == 0
Installing == 1
Healthy == 2
NotEnabled == 3

(* reportAggregateStatus: the status, ...                                  *)
Aggregate(reading, young) ==
    IF \A w \in DOMAIN reading : reading[w].healthy THEN "Healthy"
    ELSE IF young THEN "Installing" ELSE "Unhealthy"

(* Mutant: the flag is set on a copy of the element, as a range over       *)
(* values would.                                                           *)
FlagCopies(reading, young) ==
    [w \in DOMAIN reading |-> [healthy |-> reading[w].healthy, installing |-> FALSE]]

(* ... and the flag it leaves on every workload, healthy ones included.    *)
Flagged(reading, young) ==
    [w \in DOMAIN reading |->
        [healthy |-> reading[w].healthy, installing |-> Aggregate(reading, young) = "Installing"]]

(* componentStatusMetric, of the flagged workloads of a component.         *)
ComponentGauge(flagged, c) ==
    LET there == Component[c] \cap DOMAIN flagged
    IN IF there = {} THEN NotEnabled
       ELSE IF \A w \in there : flagged[w].healthy THEN Healthy
       ELSE IF \E w \in there : flagged[w].installing THEN Installing
       ELSE Unhealthy

(* integrationStatus, of the status that is also patched into the resource.*)
IntegrationGauge(status) ==
    IF status = "Installing" THEN Installing ELSE IF status = "Healthy" THEN Healthy ELSE Unhealthy

(* status.Metrics.                                                         *)
Gauges(status, flagged) ==
    [integration |-> IntegrationGauge(status),
     components |-> [c \in DOMAIN Component |-> ComponentGauge(flagged, c)]]

-----------------------------------------------------------------------------
(* version.Metrics: a release <<major, minor, patch>> as a number, here in *)
(* ten-thousandths.  Two digits are left for each part.                    *)
Release == Nat \X Nat \X Nat

(* Mutant: minor and patch may have any number of digits.                  *)
AnyDigits(v) == v \in Release
Encodable(v) == v \in Release /\ v[2] < 100 /\ v[3] < 100
EncodeSemver(v) == 10000 * v[1] + 100 * v[2] + v[3]
VersionGauge(v) == IF Encodable(v) THEN EncodeSemver(v) ELSE "none"

Older(v, w) ==
    \/ v[1] < w[1]
    \/ v[1] = w[1] /\ v[2] < w[2]
    \/ v[1] = w[1] /\ v[2] = w[2] /\ v[3] < w[3]
=============================================================================
