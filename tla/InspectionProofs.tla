-------------------------- MODULE InspectionProofs --------------------------
(***************************************************************************)
(* Theorems about Inspection, for every set of legacy workloads, of        *)
(* resources and of clusters to start from, and any number of changes and  *)
(* faults.                                                                 *)
(***************************************************************************)
EXTENDS Inspection, SequenceTheorems, TLAPS

Distinct(s) == \A i, j \in DOMAIN s : s[i] = s[j] => i = j

(* What the loops have still to read, and have read.                       *)
Visits ==
    /\ spec \in SpecType
    /\ app \in [Workload -> Availability]
    /\ legacy \subseteq Legacy
    /\ todo \in Seq(Workload) /\ unread \subseteq Legacy
    /\ faults \in Nat
    /\ pc \in {"legacy", "deployed"} => ~spec.allowLegacy
    /\ pc = "legacy" => unread # {}
    /\ pc = "deployed" => todo # <<>> /\ Range(todo) \subseteq Range(DeployedOrder)
    /\ DOMAIN reading \subseteq AskedFor(spec)
    /\ reading \in [DOMAIN reading -> [healthy : BOOLEAN]]
    /\ pc \in {"legacy", "deployed", "validated"} => DOMAIN reading = {}
    /\ pc \in {"object", "pods"} =>
           /\ AskedFor(spec) = DOMAIN reading \cup Range(todo)
           /\ Distinct(todo)
    /\ pc = "object" => DOMAIN reading \cap Range(todo) = {}
    /\ pc = "pods" => todo # <<>> /\ Head(todo) \in DOMAIN reading
                      /\ DOMAIN reading \cap Range(Tail(todo)) = {}
    /\ pc = "reported" => DOMAIN reading = AskedFor(spec)

Calm == faults = 0 /\ OneWay

Present(w) == app[w] # "absent"
IfLegacy == IF \E w \in Range(DeployedOrder) : Present(w) THEN "warning" ELSE "error"

(* The scan for legacy workloads.  Unless some came, none that was asked   *)
(* for is there; and if none is to be found any more, there was a moment   *)
(* without any.                                                            *)
LegacyInv ==
    pc = "legacy" /\ Calm =>
        /\ VerdictNow(spec) \in moments
        /\ "legacy back" \notin changed => legacy \cap (Legacy \ unread) = {}
        /\ SpecVerdict(spec) \in moments \/ legacy \cap unread # {}

(* The scan for the operator's own, in the same way.                       *)
DeployedInv ==
    pc = "deployed" /\ Calm =>
        /\ "legacy gone" \notin changed => legacy # {}
        /\ "better" \notin changed =>
               \A w \in Range(DeployedOrder) : w \in Range(todo) \/ ~Present(w)
        /\ "error" \in moments \/ \E w \in Range(todo) : Present(w)
        /\ IfLegacy \in moments

(* The health check.  A workload that was read as healthy is, unless some  *)
(* got worse; one that was read as unhealthy is, unless some got better;   *)
(* and if nothing spoils the status any more, there was a moment without   *)
(* a flaw.                                                                 *)
Unlisted(w) == pc = "pods" /\ w = Head(todo)
Spoils(w) ==
    \/ w \in DOMAIN reading /\ ~reading[w].healthy
    \/ w \in Range(todo) /\ (w \in killed \/ (app[w] # "full" /\ ~Unlisted(w)))
BadNow == IF young THEN "Installing" ELSE "Unhealthy"

HealthInv ==
    pc \in {"object", "pods"} /\ Calm =>
        /\ StatusNow(spec) \in moments
        /\ "worse" \notin changed =>
               \A w \in DOMAIN reading :
                   reading[w].healthy => app[w] = "full" /\ (w \in killed => Unlisted(w))
        /\ "better" \notin changed =>
               \A w \in DOMAIN reading : ~reading[w].healthy => ~WellNow(w)
        /\ (\E w \in DOMAIN reading : ~reading[w].healthy) => BadNow \in moments
        /\ "Healthy" \in moments \/ \E w \in Workload : Spoils(w)

(* The gauges that were sent, and how old the resource was then.           *)
SentInv ==
    pc = "reported" /\ verdict # "error" =>
        \E y \in BOOLEAN :
            report.gauges = Gauges(IF verdict = "valid" THEN Aggregate(reading, y) ELSE "Unhealthy",
                                   Flagged(reading, y))

(* The version that was reported, and the gauge.                           *)
ReleaseInv ==
    pc = "reported" =>
        report.release \in Releases /\ report.version = VersionGauge(report.release)

VerdictInv == LegacyInv /\ DeployedInv /\ VerdictOfAMoment
StatusInv == HealthInv /\ StatusOfAMoment
IInv == Visits /\ VerdictInv /\ StatusInv /\ SentInv /\ ReleaseInv

-----------------------------------------------------------------------------
(* Sequences and the workloads in them.                                    *)
LEMMA HeadOrTail ==
    ASSUME NEW s \in Seq(Workload), s # <<>>
    PROVE  /\ Head(s) \in Workload /\ Tail(s) \in Seq(Workload)
           /\ Head(s) \in Range(s)
           /\ Range(s) = {Head(s)} \cup Range(Tail(s))
<1>1. /\ Head(s) \in Workload /\ Tail(s) \in Seq(Workload)
      /\ Len(s) \in Nat /\ Len(s) >= 1 /\ Len(Tail(s)) = Len(s) - 1
      /\ \A i \in 1..(Len(s) - 1) : Tail(s)[i] = s[i + 1]
  BY HeadTailProperties
<1>2. \A w : w \in Range(s) <=> \E i \in 1..Len(s) : s[i] = w
  BY DEF Range
<1>3. \A w : w \in Range(Tail(s)) <=> \E i \in 1..(Len(s) - 1) : s[i + 1] = w
  <2>1. Range(Tail(s)) = {Tail(s)[i] : i \in 1..(Len(s) - 1)}
    BY <1>1, RangeEquality
  <2> QED
    BY <1>1, <2>1
<1>4. Head(s) = s[1]
  OBVIOUS
<1>5. ASSUME NEW w, w \in Range(s), w # Head(s) PROVE w \in Range(Tail(s))
  <2>1. PICK i \in 1..Len(s) : s[i] = w
    BY <1>2, <1>5
  <2>2. i - 1 \in 1..(Len(s) - 1) /\ s[(i - 1) + 1] = w
    BY <1>1, <1>4, <1>5, <2>1
  <2> QED
    BY <1>3, <2>2
<1>6. ASSUME NEW w, w \in Range(Tail(s)) PROVE w \in Range(s)
  <2>1. PICK i \in 1..(Len(s) - 1) : s[i + 1] = w
    BY <1>3, <1>6
  <2>2. i + 1 \in 1..Len(s)
    BY <1>1
  <2> QED
    BY <1>2, <2>1, <2>2
<1>7. Head(s) \in Range(s)
  BY <1>1, <1>2, <1>4
<1> QED
  BY <1>1, <1>5, <1>6, <1>7

LEMMA TailDistinct ==
    ASSUME NEW s \in Seq(Workload), s # <<>>, Distinct(s)
    PROVE  /\ Distinct(Tail(s))
           /\ Head(s) \notin Range(Tail(s))
<1>1. /\ Tail(s) \in Seq(Workload) /\ Len(s) \in Nat /\ Len(s) >= 1 /\ Head(s) = s[1]
      /\ Len(Tail(s)) = Len(s) - 1
      /\ \A i \in 1..(Len(s) - 1) : Tail(s)[i] = s[i + 1]
  BY HeadTailProperties
<1>2. DOMAIN s = 1..Len(s) /\ DOMAIN Tail(s) = 1..(Len(s) - 1)
  BY <1>1
<1>3. \A i \in 1..(Len(s) - 1) : Tail(s)[i] = s[i + 1] /\ i + 1 \in 1..Len(s) /\ i + 1 # 1
  BY <1>1
<1>4. Distinct(Tail(s))
  BY <1>1, <1>2, <1>3 DEF Distinct
<1>5. Head(s) \notin Range(Tail(s))
  BY <1>1, <1>2, <1>3 DEF Range, Distinct
<1> QED
  BY <1>4, <1>5

LEMMA Names ==
    /\ AskedFor(spec) \subseteq Workload
    /\ OperatorName \in AskedFor(spec)
    /\ Range(DeployedOrder) \subseteq Workload
    /\ DeployedOrder \in Seq(Workload) /\ DeployedOrder # <<>>
    /\ <<>> \in Seq(Workload)
<1>1. AskedFor(spec) \subseteq Workload
  BY DEF AskedFor, Component, Workload
<1>2. DeployedOrder \in Seq(Workload) /\ DeployedOrder # <<>>
  BY DEF DeployedOrder, Workload, Collectors
<1>3. Range(DeployedOrder) \subseteq Workload
  BY <1>2, RangeOfSeq
<1> QED
  BY <1>1, <1>2, <1>3, EmptySeq DEF AskedFor

LEMMA Joined ==
    ASSUME NEW s \in Seq(Workload), NEW t \in Seq(Workload), Distinct(s), Distinct(t),
           Range(s) \cap Range(t) = {}
    PROVE  /\ s \o t \in Seq(Workload) /\ Distinct(s \o t)
           /\ Range(s \o t) = Range(s) \cup Range(t)
<1>1. s \o t \in Seq(Workload) /\ Range(s \o t) = Range(s) \cup Range(t)
  BY RangeConcatenation
<1>2. /\ Len(s) \in Nat /\ Len(t) \in Nat
      /\ DOMAIN (s \o t) = 1..(Len(s) + Len(t))
      /\ \A i \in 1..(Len(s) + Len(t)) :
             (s \o t)[i] = IF i <= Len(s) THEN s[i] ELSE t[i - Len(s)]
  BY ConcatProperties
<1>3. ASSUME NEW i \in DOMAIN (s \o t), NEW j \in DOMAIN (s \o t), (s \o t)[i] = (s \o t)[j]
      PROVE  i = j
  <2>1. ASSUME NEW k \in 1..(Len(s) + Len(t))
        PROVE  /\ k <= Len(s) => k \in DOMAIN s /\ s[k] \in Range(s)
               /\ ~(k <= Len(s)) => k - Len(s) \in DOMAIN t /\ t[k - Len(s)] \in Range(t)
    BY <1>2 DEF Range
  <2> QED
    BY <1>2, <1>3, <2>1 DEF Distinct
<1> QED
  BY <1>1, <1>3 DEF Distinct

LEMMA Orders ==
    ASSUME NEW s \in SpecType
    PROVE  /\ HealthOrder(s) \in Seq(Workload) /\ Distinct(HealthOrder(s))
           /\ Range(HealthOrder(s)) = AskedFor(s)
<1> DEFINE P == IF s.proxy THEN <<"wavefront-proxy">> ELSE <<>>
           M == IF s.metrics THEN <<"wavefront-cluster-collector", "wavefront-node-collector">>
                ELSE <<>>
           L == IF s.logging THEN <<"wavefront-logging">> ELSE <<>>
           O == <<OperatorName>>
<1>1. /\ P \in Seq(Workload) /\ Distinct(P)
      /\ Range(P) = IF s.proxy THEN {"wavefront-proxy"} ELSE {}
  <2>1. CASE s.proxy
    BY <2>1 DEF Workload, Distinct, Range
  <2>2. CASE ~s.proxy
    BY <2>2 DEF Workload, Distinct, Range
  <2> QED
    BY <2>1, <2>2
<1>2. /\ M \in Seq(Workload) /\ Distinct(M)
      /\ Range(M) = IF s.metrics THEN Collectors ELSE {}
  <2>1. CASE s.metrics
    BY <2>1 DEF Workload, Collectors, Distinct, Range
  <2>2. CASE ~s.metrics
    BY <2>2 DEF Workload, Distinct, Range
  <2> QED
    BY <2>1, <2>2
<1>3. /\ L \in Seq(Workload) /\ Distinct(L)
      /\ Range(L) = IF s.logging THEN {"wavefront-logging"} ELSE {}
  <2>1. CASE s.logging
    BY <2>1 DEF Workload, Distinct, Range
  <2>2. CASE ~s.logging
    BY <2>2 DEF Workload, Distinct, Range
  <2> QED
    BY <2>1, <2>2
<1>4. O \in Seq(Workload) /\ Distinct(O) /\ Range(O) = {OperatorName}
  BY DEF Workload, Distinct, Range
<1>5. HealthOrder(s) = ((P \o M) \o L) \o O
  BY DEF HealthOrder
<1>6. AskedFor(s) = Range(P) \cup Range(M) \cup Range(L) \cup Range(O)
  BY <1>1, <1>2, <1>3, <1>4 DEF AskedFor, Component
<1>7. /\ Range(P) \cap Range(M) = {}
      /\ (Range(P) \cup Range(M)) \cap Range(L) = {}
      /\ (Range(P) \cup Range(M) \cup Range(L)) \cap Range(O) = {}
  BY <1>1, <1>2, <1>3, <1>4 DEF Collectors, OperatorName
<1> HIDE DEF P, M, L, O
<1>8. /\ P \o M \in Seq(Workload) /\ Distinct(P \o M)
      /\ Range(P \o M) = Range(P) \cup Range(M)
  BY <1>1, <1>2, <1>7, Joined
<1>9. /\ (P \o M) \o L \in Seq(Workload) /\ Distinct((P \o M) \o L)
      /\ Range((P \o M) \o L) = Range(P) \cup Range(M) \cup Range(L)
  BY <1>3, <1>7, <1>8, Joined
<1>10. /\ ((P \o M) \o L) \o O \in Seq(Workload) /\ Distinct(((P \o M) \o L) \o O)
       /\ Range(((P \o M) \o L) \o O) = Range(P) \cup Range(M) \cup Range(L) \cup Range(O)
  BY <1>4, <1>7, <1>9, Joined
<1> QED
  BY <1>5, <1>6, <1>10

-----------------------------------------------------------------------------
(* What a change of the cluster does: the pass does not notice.            *)
LEMMA ChangeKinds1 ==
    ASSUME Change
    PROVE  UNCHANGED <<pass, faults>>
BY DEF Change, LegacyChanges, AppChanges, KilledChanges, Age, Changes

LEMMA AppType ==
    ASSUME app \in [Workload -> Availability], legacy \subseteq Legacy, Change
    PROVE  app' \in [Workload -> Availability] /\ legacy' \subseteq Legacy
BY DEF Change, LegacyChanges, AppChanges, KilledChanges, Age

LEMMA FaultsType ==
    /\ \A b : ReadNo(b) /\ faults \in Nat => faults' \in Nat
    /\ Fault /\ faults \in Nat => faults' \in Nat /\ faults' # 0
BY DEF ReadNo, Fault

LEMMA VisitsInit == Init => Visits
<1> SUFFICES ASSUME Init PROVE Visits
  OBVIOUS
<1>1. DOMAIN reading = {} /\ reading \in [DOMAIN reading -> [healthy : BOOLEAN]]
  BY DEF Init, NoReading
<1>2. todo \in Seq(Workload)
  BY DEF Init
<1> QED
  BY <1>1, <1>2, InspectionAssumption DEF Init, Visits

(* A step of the validation.                                               *)
LEMMA ScanKeeps ==
    ASSUME Visits, pc \in {"legacy", "deployed"}, pc' \in {"legacy", "deployed", "validated"},
           UNCHANGED <<cluster, spec, reading>>, faults' \in Nat,
           unread' \subseteq Legacy, todo' \in Seq(Workload),
           pc' = "legacy" => unread' # {},
           pc' = "deployed" => todo' # <<>> /\ Range(todo') \subseteq Range(DeployedOrder)
    PROVE  Visits'
BY DEF Visits, cluster

LEMMA VisitsStep == Visits /\ [Next]_vars => Visits'
<1> SUFFICES ASSUME Visits, [Next]_vars PROVE Visits'
  OBVIOUS
<1>1. CASE UNCHANGED vars
  BY <1>1 DEF vars, pass, cluster, Visits, Distinct
<1>2. CASE Change
  <2>1. /\ UNCHANGED <<pass, faults>> /\ app' \in [Workload -> Availability]
        /\ legacy' \subseteq Legacy
    BY <1>2, ChangeKinds1, AppType DEF Visits
  <2> QED
    BY <2>1 DEF pass, Visits, Distinct
<1>3. ASSUME NEW s \in Specs, Begin(s) PROVE Visits'
  <2>1. s \in SpecType /\ spec' = s
    BY <1>3, InspectionAssumption DEF Begin
  <2>2. DOMAIN reading' = {} /\ reading' \in [DOMAIN reading' -> [healthy : BOOLEAN]]
    BY <1>3 DEF Begin, NoReading
  <2>3. todo' \in Seq(Workload) /\ unread' \subseteq Legacy
        /\ \/ pc' = "validated"
           \/ pc' = "legacy" /\ unread' # {} /\ ~s.allowLegacy
    <3>1. s.allowLegacy \in BOOLEAN
      BY <2>1 DEF SpecType
    <3>2. CASE s.allowLegacy \/ Legacy = {}
      BY <1>3, <3>2, Names DEF Begin, Judged, Visits
    <3>3. CASE ~(s.allowLegacy \/ Legacy = {})
      BY <1>3, <3>1, <3>3 DEF Begin, Visits
    <3> QED
      BY <3>2, <3>3
  <2> QED
    BY <1>3, <2>1, <2>2, <2>3 DEF Begin, cluster, Visits
<1>4. ASSUME NEW l \in Legacy, AskLegacy(l) PROVE Visits'
  <2>1. pc = "legacy" /\ UNCHANGED <<cluster, spec, reading>>
    BY <1>4 DEF AskLegacy
  <2>2. faults' \in Nat
    BY <1>4, FaultsType DEF AskLegacy, Visits
  <2>3. \/ pc' = "deployed" /\ unread' = {} /\ todo' = DeployedOrder
        \/ unread' = unread \ {l} /\ unread = {l} /\ pc' = "validated" /\ todo' = <<>>
        \/ unread' = unread \ {l} /\ unread # {l} /\ pc' = pc /\ todo' = todo
    BY <1>4 DEF AskLegacy, Judged
  <2>4. /\ unread' \subseteq Legacy /\ todo' \in Seq(Workload)
        /\ pc' \in {"legacy", "deployed", "validated"}
    BY <2>1, <2>3, Names DEF Visits
  <2>5. /\ pc' = "legacy" => unread' # {}
        /\ pc' = "deployed" => todo' # <<>> /\ Range(todo') \subseteq Range(DeployedOrder)
    BY <2>1, <2>3, Names DEF Visits
  <2> QED
    BY <2>1, <2>2, <2>4, <2>5, ScanKeeps
<1>5. CASE AskDeployed
  <2>1. pc = "deployed" /\ Tail(todo) \in Seq(Workload)
    BY <1>5, HeadOrTail DEF AskDeployed, Visits
  <2>2. faults' \in Nat
    BY <1>5, FaultsType DEF AskDeployed, Visits
  <2>3. /\ UNCHANGED <<cluster, spec, unread, reading>>
        /\ \/ pc' = "validated" /\ todo' = <<>>
           \/ pc' = pc /\ todo' = Tail(todo) /\ todo' # <<>>
    BY <1>5 DEF AskDeployed, Judged
  <2>4. /\ unread' \subseteq Legacy /\ todo' \in Seq(Workload)
        /\ pc' \in {"deployed", "validated"}
        /\ pc' = "deployed" => todo' # <<>> /\ Range(todo') \subseteq Range(DeployedOrder)
    BY <2>1, <2>3, Names, HeadOrTail DEF Visits
  <2> QED
    BY <2>1, <2>2, <2>3, <2>4, ScanKeeps
<1>6. CASE BeginHealth
  <2>1. /\ pc = "validated" /\ pc' = "object" /\ todo' = HealthOrder(spec) /\ faults' = 0
        /\ UNCHANGED <<cluster, spec, unread, reading>>
    BY <1>6 DEF BeginHealth
  <2>2. DOMAIN reading = {}
    BY <2>1 DEF Visits
  <2> QED
    BY <2>1, <2>2, Orders DEF cluster, Visits
<1>7. CASE ReadObject
  <2> DEFINE w == Head(todo)
  <2>1. /\ pc = "object" /\ todo # <<>> /\ todo \in Seq(Workload) /\ Distinct(todo)
        /\ AskedFor(spec) = DOMAIN reading \cup Range(todo)
        /\ DOMAIN reading \cap Range(todo) = {}
        /\ reading \in [DOMAIN reading -> [healthy : BOOLEAN]]
    BY <1>7 DEF ReadObject, Visits
  <2>2. /\ w \in Workload /\ Tail(todo) \in Seq(Workload)
        /\ Range(todo) = {w} \cup Range(Tail(todo))
        /\ Distinct(Tail(todo)) /\ w \notin Range(Tail(todo))
    BY <2>1, HeadOrTail, TailDistinct
  <2>3. UNCHANGED <<cluster, spec, unread>> /\ faults' \in Nat
    BY <1>7, FaultsType DEF ReadObject, Visits
  <2>4. PICK h \in BOOLEAN : Read(w, h)
    BY <1>7 DEF ReadObject
  <2>5. /\ DOMAIN reading' = DOMAIN reading \cup {w}
        /\ reading' \in [DOMAIN reading' -> [healthy : BOOLEAN]]
    BY <2>1, <2>4 DEF Read
  <2>6. CASE pc' = "object" /\ todo' = Tail(todo)
    BY <2>1, <2>2, <2>3, <2>5, <2>6 DEF cluster, Visits
  <2>7. CASE pc' = "pods" /\ todo' = todo
    BY <2>1, <2>2, <2>3, <2>5, <2>7 DEF cluster, Visits
  <2> QED
    BY <1>7, <2>1, <2>6, <2>7 DEF ReadObject
<1>8. CASE ListPods
  <2> DEFINE w == Head(todo)
  <2>1. /\ pc = "pods" /\ todo # <<>> /\ todo \in Seq(Workload) /\ Distinct(todo)
        /\ AskedFor(spec) = DOMAIN reading \cup Range(todo)
        /\ w \in DOMAIN reading /\ DOMAIN reading \cap Range(Tail(todo)) = {}
        /\ reading \in [DOMAIN reading -> [healthy : BOOLEAN]]
    BY <1>8 DEF ListPods, Visits
  <2>2. /\ w \in Workload /\ Tail(todo) \in Seq(Workload)
        /\ Range(todo) = {w} \cup Range(Tail(todo))
        /\ Distinct(Tail(todo))
    BY <2>1, HeadOrTail, TailDistinct
  <2>3. /\ UNCHANGED <<cluster, spec, unread>> /\ faults' \in Nat
        /\ pc' = "object" /\ todo' = Tail(todo)
    BY <1>8 DEF ListPods, Fault, Visits
  <2>4. DOMAIN reading' = DOMAIN reading /\ reading' \in [DOMAIN reading' -> [healthy : BOOLEAN]]
    <3>1. CASE UNCHANGED reading
      BY <2>1, <3>1
    <3>2. CASE Read(w, reading[w].healthy /\ w \notin killed)
      <4>1. (reading[w].healthy /\ w \notin killed) \in BOOLEAN
        OBVIOUS
      <4> DEFINE h == reading[w].healthy /\ w \notin killed
      <4>2. h \in BOOLEAN /\ Read(w, h)
        BY <3>2, <4>1
      <4> HIDE DEF h
      <4> QED
        BY <2>1, <4>2 DEF Read
    <3> QED
      BY <1>8, <3>1, <3>2 DEF ListPods
  <2> QED
    BY <2>1, <2>2, <2>3, <2>4 DEF cluster, Visits
<1>9. CASE \E v \in Releases : Report(v)
  <2>1. pc = "object" /\ todo = <<>> /\ pc' = "reported"
        /\ UNCHANGED <<cluster, spec, unread, todo, reading, faults>>
    BY <1>9 DEF Report
  <2>2. Range(todo) = {}
    BY <2>1 DEF Range
  <2>3. DOMAIN reading = AskedFor(spec)
    BY <2>1, <2>2 DEF Visits
  <2> QED
    BY <2>1, <2>3 DEF cluster, Visits
<1>10. CASE EndPass
  BY <1>10 DEF EndPass, cluster, Visits
<1> QED
  BY <1>1, <1>2, <1>3, <1>4, <1>5, <1>6, <1>7, <1>8, <1>9, <1>10 DEF Next, Look

-----------------------------------------------------------------------------
(* Every change goes one way.                                              *)
LegacyGone == legacy' \subseteq legacy /\ UNCHANGED <<app, killed, young>>
LegacyBack == legacy \subseteq legacy' /\ UNCHANGED <<app, killed, young>>
Better ==
    /\ UNCHANGED <<legacy, young>> /\ killed' \subseteq killed
    /\ \A w \in Workload : /\ app[w] # "absent" => app'[w] # "absent"
                           /\ app[w] = "full" => app'[w] = "full"
Worse ==
    /\ UNCHANGED <<legacy, young>> /\ killed \subseteq killed'
    /\ \A w \in Workload : /\ app[w] = "absent" => app'[w] = "absent"
                           /\ app[w] # "full" => app'[w] # "full"
Aged == UNCHANGED <<legacy, app, killed>>

OneKind(kind) ==
    \/ kind = "legacy gone" /\ LegacyGone
    \/ kind = "legacy back" /\ LegacyBack
    \/ kind = "better" /\ Better
    \/ kind = "worse" /\ Worse
    \/ kind = "aged" /\ Aged

LEMMA Ways ==
    ASSUME Visits, Change, pc \notin {"idle", "validated", "reported"}
    PROVE  \E kind : /\ OneKind(kind)
                     /\ changed' = changed \cup {kind} /\ moments' = moments \cup {LookNow'}
                     /\ UNCHANGED <<pass, faults>>
<1>1. ASSUME NEW kind, Changes(kind)
      PROVE  /\ changed' = changed \cup {kind} /\ moments' = moments \cup {LookNow'}
             /\ UNCHANGED <<pass, faults>>
  BY <1>1 DEF Changes
<1>2. ASSUME NEW l \in Legacy, LegacyChanges(l) PROVE \E kind : OneKind(kind) /\ Changes(kind)
  <2>1. CASE l \in legacy
    BY <1>2, <2>1 DEF LegacyChanges, OneKind, LegacyGone
  <2>2. CASE l \notin legacy
    BY <1>2, <2>2 DEF LegacyChanges, OneKind, LegacyBack
  <2> QED
    BY <2>1, <2>2
<1>3. ASSUME NEW w \in Workload, KilledChanges(w) PROVE \E kind : OneKind(kind) /\ Changes(kind)
  <2>1. CASE w \in killed
    <3>1. Better
      BY <1>3, <2>1 DEF KilledChanges, Better
    <3>2. Changes("better")
      BY <1>3, <2>1 DEF KilledChanges
    <3> QED
      BY <3>1, <3>2 DEF OneKind
  <2>2. CASE w \notin killed
    <3>1. Worse
      BY <1>3, <2>2 DEF KilledChanges, Worse
    <3>2. Changes("worse")
      BY <1>3, <2>2 DEF KilledChanges
    <3> QED
      BY <3>1, <3>2 DEF OneKind
  <2> QED
    BY <2>1, <2>2
<1>4. ASSUME NEW w \in Workload, NEW a \in Availability, AppChanges(w, a)
      PROVE  \E kind : OneKind(kind) /\ Changes(kind)
  <2>1. app \in [Workload -> Availability] /\ a # app[w] /\ app' = [app EXCEPT ![w] = a]
        /\ UNCHANGED <<legacy, killed, young>>
    BY <1>4 DEF AppChanges, Visits
  <2>2. app[w] \in Availability
    BY <2>1
  <2>3. CASE Rank[a] > Rank[app[w]]
    <3>1. a # "absent" /\ app[w] # "full"
      BY <2>1, <2>2, <2>3 DEF Rank, Availability
    <3>2. Better
      BY <2>1, <3>1 DEF Better
    <3>3. Changes("better")
      BY <1>4, <2>3 DEF AppChanges
    <3> QED
      BY <3>2, <3>3 DEF OneKind
  <2>4. CASE ~(Rank[a] > Rank[app[w]])
    <3>1. a # "full" /\ app[w] # "absent"
      BY <2>1, <2>2, <2>4 DEF Rank, Availability
    <3>2. Worse
      BY <2>1, <3>1 DEF Worse
    <3>3. Changes("worse")
      BY <1>4, <2>4 DEF AppChanges
    <3> QED
      BY <3>2, <3>3 DEF OneKind
  <2> QED
    BY <2>3, <2>4
<1>5. ASSUME Age PROVE \E kind : OneKind(kind) /\ Changes(kind)
  BY <1>5 DEF Age, OneKind, Aged
<1>6. \E kind : OneKind(kind) /\ Changes(kind)
  BY <1>2, <1>3, <1>4, <1>5 DEF Change
<1> QED
  BY <1>1, <1>6

-----------------------------------------------------------------------------
(* The validation.                                                         *)
LEMMA VerdictSplit ==
    ~spec.allowLegacy =>
        VerdictNow(spec) = IF legacy = {} THEN SpecVerdict(spec) ELSE IfLegacy
BY DEF VerdictNow, SpecVerdict, IfLegacy, Present

LEMMA LegacyUnderChange ==
    ASSUME Visits, LegacyInv, Change, pc = "legacy"
    PROVE  LegacyInv'
<1> SUFFICES ASSUME Calm'
             PROVE  /\ VerdictNow(spec)' \in moments'
                    /\ "legacy back" \notin changed' => legacy' \cap (Legacy \ unread') = {}
                    /\ SpecVerdict(spec)' \in moments' \/ legacy' \cap unread' # {}
  BY DEF LegacyInv
<1>1. PICK kind : /\ OneKind(kind)
                  /\ changed' = changed \cup {kind} /\ moments' = moments \cup {LookNow'}
                  /\ UNCHANGED <<pass, faults>>
  BY Ways
<1>2. UNCHANGED <<pc, spec, unread>> /\ ~spec.allowLegacy
  BY <1>1 DEF pass, Visits
<1>3. Calm /\ \A a \in changed' : a = kind
  BY <1>1 DEF Calm, OneWay
<1>4. /\ "legacy back" \notin changed => legacy \cap (Legacy \ unread) = {}
      /\ SpecVerdict(spec) \in moments \/ legacy \cap unread # {}
  BY <1>3 DEF LegacyInv
<1>5. LookNow' = VerdictNow(spec)' /\ SpecVerdict(spec)' = SpecVerdict(spec)
  BY <1>2 DEF LookNow, SpecVerdict
<1>6. VerdictNow(spec)' \in moments'
  BY <1>1, <1>5
<1>7. CASE kind = "legacy gone"
  <2>1. legacy' \subseteq legacy /\ "legacy back" \notin changed
    BY <1>1, <1>3, <1>7 DEF OneKind, LegacyGone
  <2>2. legacy' \cap (Legacy \ unread') = {}
    BY <1>2, <1>4, <2>1
  <2>3. legacy' = {} => VerdictNow(spec)' = SpecVerdict(spec)'
    BY <1>2 DEF VerdictNow, SpecVerdict
  <2>4. legacy' = {} \/ legacy' \cap unread' # {}
    BY <1>2, <2>1, <2>2 DEF Visits
  <2> QED
    BY <1>5, <1>6, <2>2, <2>3, <2>4
<1>8. CASE kind # "legacy gone"
  <2>1. legacy \subseteq legacy'
    BY <1>1, <1>8 DEF OneKind, LegacyBack, Better, Worse, Aged
  <2>2. "legacy back" \notin changed' => legacy' = legacy
    BY <1>1, <1>8 DEF OneKind, LegacyBack, Better, Worse, Aged
  <2> QED
    BY <1>1, <1>2, <1>4, <1>5, <1>6, <2>1, <2>2
<1> QED
  BY <1>7, <1>8

LEMMA DeployedUnderChange ==
    ASSUME Visits, DeployedInv, Change, pc = "deployed"
    PROVE  DeployedInv'
<1> SUFFICES ASSUME Calm'
             PROVE  /\ "legacy gone" \notin changed' => legacy' # {}
                    /\ "better" \notin changed' =>
                           \A w \in Range(DeployedOrder) : w \in Range(todo') \/ ~Present(w)'
                    /\ "error" \in moments' \/ \E w \in Range(todo') : Present(w)'
                    /\ IfLegacy' \in moments'
  BY DEF DeployedInv
<1>1. PICK kind : /\ OneKind(kind)
                  /\ changed' = changed \cup {kind} /\ moments' = moments \cup {LookNow'}
                  /\ UNCHANGED <<pass, faults>>
  BY Ways
<1>2. UNCHANGED <<pc, spec, todo>> /\ ~spec.allowLegacy
  BY <1>1 DEF pass, Visits
<1>3. Calm /\ \A a \in changed' : a = kind
  BY <1>1 DEF Calm, OneWay
<1>4. /\ "legacy gone" \notin changed => legacy # {}
      /\ "better" \notin changed =>
             \A w \in Range(DeployedOrder) : w \in Range(todo) \/ ~Present(w)
      /\ "error" \in moments \/ \E w \in Range(todo) : Present(w)
      /\ IfLegacy \in moments
  BY <1>3 DEF DeployedInv
<1>5. "legacy gone" \notin changed' => legacy' # {}
  BY <1>1, <1>4 DEF OneKind, LegacyBack, Better, Worse, Aged
<1>6. legacy' # {} => LookNow' = IfLegacy'
  BY <1>2, <1>2 DEF LookNow, VerdictNow, IfLegacy, Present
<1>7. Range(todo) \subseteq Workload /\ Range(DeployedOrder) \subseteq Workload
  BY Names, RangeOfSeq DEF Visits
<1>8. CASE kind \in {"legacy gone", "legacy back", "aged"}
  <2>1. app' = app
    BY <1>1, <1>8 DEF OneKind, LegacyGone, LegacyBack, Aged
  <2>2. IfLegacy' = IfLegacy /\ \A w : Present(w)' <=> Present(w)
    BY <2>1 DEF IfLegacy, Present
  <2> QED
    BY <1>1, <1>2, <1>4, <1>5, <2>2
<1>9. CASE kind = "better"
  <2>1. \A w \in Workload : Present(w) => Present(w)'
    <3>1. Better
      BY <1>1, <1>9 DEF OneKind
    <3> QED
      BY <3>1 DEF Better, Present
  <2>2. legacy' # {} /\ "better" \in changed'
    BY <1>1, <1>3, <1>5, <1>9
  <2> QED
    BY <1>1, <1>2, <1>4, <1>5, <1>6, <1>7, <2>1, <2>2
<1>10. CASE kind = "worse"
  <2>1. \A w \in Workload : Present(w)' => Present(w)
    <3>1. Worse
      BY <1>1, <1>10 DEF OneKind
    <3> QED
      BY <3>1 DEF Worse, Present
  <2>2. legacy' # {} /\ "better" \notin changed
    BY <1>1, <1>3, <1>5, <1>10
  <2>3. \A w \in Range(DeployedOrder) : w \in Range(todo') \/ ~Present(w)'
    BY <1>2, <1>4, <1>7, <2>1, <2>2
  <2>4. IfLegacy' \in moments'
    BY <1>1, <1>6, <2>2
  <2>5. (\A w \in Range(todo') : ~Present(w)') => IfLegacy' = "error"
    BY <2>3 DEF IfLegacy
  <2> QED
    BY <1>5, <2>3, <2>4, <2>5
<1> QED
  BY <1>1, <1>8, <1>9, <1>10 DEF OneKind

LEMMA VerdictStep == Visits /\ VerdictInv /\ [Next]_vars => VerdictInv'
<1> SUFFICES ASSUME Visits, VerdictInv, [Next]_vars PROVE VerdictInv'
  OBVIOUS
<1>0. LegacyInv /\ DeployedInv /\ VerdictOfAMoment
  BY DEF VerdictInv
<1>1. CASE UNCHANGED vars
  BY <1>0, <1>1 DEF vars, cluster, pass, history, VerdictInv, LegacyInv, DeployedInv,
                    VerdictOfAMoment, Calm, OneWay, VerdictNow, IfLegacy, Present, SpecVerdict
<1>2. CASE Change
  <2>1. UNCHANGED <<pass, faults>>
    BY <1>2, ChangeKinds1
  <2>2. pc = "validated" => UNCHANGED history
    BY <1>2 DEF Change, LegacyChanges, AppChanges, KilledChanges, Age, Changes
  <2>3. VerdictOfAMoment'
    BY <1>0, <2>1, <2>2 DEF pass, history, VerdictOfAMoment, OneWay
  <2>4. LegacyInv'
    <3>1. CASE pc = "legacy"
      BY <1>0, <1>2, <3>1, LegacyUnderChange
    <3>2. CASE pc # "legacy"
      BY <2>1, <3>2 DEF pass, LegacyInv
    <3> QED
      BY <3>1, <3>2
  <2>5. DeployedInv'
    <3>1. CASE pc = "deployed"
      BY <1>0, <1>2, <3>1, DeployedUnderChange
    <3>2. CASE pc # "deployed"
      BY <2>1, <3>2 DEF pass, DeployedInv
    <3> QED
      BY <3>1, <3>2
  <2> QED
    BY <2>3, <2>4, <2>5 DEF VerdictInv
<1>3. ASSUME NEW s \in Specs, Begin(s) PROVE VerdictInv'
  <2>1. /\ spec' = s /\ s.allowLegacy \in BOOLEAN /\ UNCHANGED cluster
        /\ moments' = {VerdictNow(s)} /\ changed' = {}
    BY <1>3, InspectionAssumption DEF Begin, SpecType
  <2>2. VerdictNow(spec)' = VerdictNow(s)
    BY <2>1 DEF VerdictNow, cluster
  <2>3. CASE s.allowLegacy \/ Legacy = {}
    <3>1. pc' = "validated" /\ verdict' = SpecVerdict(s)
      BY <1>3, <2>3 DEF Begin, Judged
    <3>2. VerdictNow(s) = SpecVerdict(s)
      BY <2>3 DEF VerdictNow, SpecVerdict, Visits
    <3> QED
      BY <2>1, <3>1, <3>2 DEF VerdictInv, LegacyInv, DeployedInv, VerdictOfAMoment
  <2>4. CASE ~(s.allowLegacy \/ Legacy = {})
    <3>1. pc' = "legacy" /\ unread' = Legacy
      BY <1>3, <2>1, <2>4 DEF Begin
    <3>2. legacy = {} => VerdictNow(s) = SpecVerdict(s)
      BY DEF VerdictNow, SpecVerdict
    <3>3. legacy' = legacy /\ legacy \subseteq Legacy /\ SpecVerdict(spec)' = SpecVerdict(s)
      BY <2>1 DEF cluster, Visits, SpecVerdict
    <3>4. legacy \cap Legacy # {} \/ legacy = {}
      BY <3>3
    <3>5. LegacyInv'
      BY <2>1, <2>2, <3>1, <3>2, <3>3, <3>4 DEF LegacyInv
    <3> QED
      BY <3>1, <3>5 DEF VerdictInv, DeployedInv, VerdictOfAMoment
  <2> QED
    BY <2>3, <2>4
<1>4. ASSUME NEW l \in Legacy, AskLegacy(l) PROVE VerdictInv'
  <2>1. /\ pc = "legacy" /\ ~spec.allowLegacy
        /\ UNCHANGED <<cluster, spec, history>> /\ UNCHANGED <<legacy, app, changed, moments>>
    BY <1>4 DEF AskLegacy, Visits, cluster, history
  <2>2. Calm' => Calm /\ UNCHANGED faults
    BY <1>4, <2>1, FaultsType DEF AskLegacy, ReadNo, Fault, Calm, OneWay, Visits
  <2>3. CASE l \in legacy /\ pc' = "deployed" /\ todo' = DeployedOrder
    <3>1. IfLegacy' = IfLegacy /\ (\A w : Present(w)' <=> Present(w))
      BY <2>1 DEF IfLegacy, Present
    <3>2. Calm' => IfLegacy \in moments
      BY <2>1, <2>2, <2>3, <1>0, VerdictSplit DEF LegacyInv
    <3>3. IfLegacy = "error" \/ \E w \in Range(DeployedOrder) : Present(w)
      BY DEF IfLegacy
    <3>4. DeployedInv'
      BY <2>1, <2>3, <3>1, <3>2, <3>3 DEF DeployedInv
    <3> QED
      BY <2>3, <3>4 DEF VerdictInv, LegacyInv, VerdictOfAMoment
  <2>4. CASE /\ ReadNo(l \in legacy) /\ unread' = unread \ {l}
             /\ IF unread = {l} THEN pc' = "validated" /\ verdict' = SpecVerdict(spec) ELSE pc' = pc
    <3>1. Calm' => l \notin legacy
      BY <2>2, <2>4, FaultsType DEF ReadNo, Visits, Calm
    <3>2. CASE unread = {l} /\ pc' = "validated" /\ verdict' = SpecVerdict(spec)
      <4>1. Calm' => SpecVerdict(spec) \in moments
        BY <1>0, <2>1, <2>2, <3>1, <3>2 DEF LegacyInv
      <4> QED
        BY <2>1, <3>2, <4>1 DEF VerdictInv, LegacyInv, DeployedInv, VerdictOfAMoment, Calm
    <3>3. CASE pc' = "legacy"
      <4>1. VerdictNow(spec)' = VerdictNow(spec) /\ SpecVerdict(spec)' = SpecVerdict(spec)
        BY <2>1 DEF VerdictNow, SpecVerdict
      <4>2. LegacyInv'
        BY <1>0, <2>1, <2>2, <2>4, <3>1, <4>1 DEF LegacyInv
      <4> QED
        BY <3>3, <4>2 DEF VerdictInv, DeployedInv, VerdictOfAMoment
    <3> QED
      BY <2>1, <2>4, <3>2, <3>3
  <2> QED
    BY <1>4, <2>3, <2>4 DEF AskLegacy, Judged
<1>5. CASE AskDeployed
  <2> DEFINE w == Head(todo)
  <2>1. /\ pc = "deployed" /\ todo \in Seq(Workload) /\ todo # <<>>
        /\ UNCHANGED <<cluster, spec, history>> /\ UNCHANGED <<legacy, app, changed, moments>>
    BY <1>5 DEF AskDeployed, Visits, cluster, history
  <2>2. w \in Range(todo) /\ Range(todo) = {w} \cup Range(Tail(todo))
    BY <2>1, HeadOrTail
  <2>3. Calm' => Calm /\ UNCHANGED faults
    BY <1>5, <2>1, FaultsType DEF AskDeployed, ReadNo, Fault, Calm, OneWay, Visits
  <2>4. CASE Present(w) /\ pc' = "validated" /\ verdict' = "warning"
    <3>1. Calm' => "warning" \in moments
      <4>1. ASSUME Calm' PROVE IfLegacy \in moments /\
              ("better" \notin changed =>
                 \A v \in Range(DeployedOrder) : v \in Range(todo) \/ ~Present(v))
        BY <1>0, <2>1, <2>3, <4>1 DEF DeployedInv
      <4>2. w \in Range(DeployedOrder)
        BY <2>1, <2>2 DEF Visits
      <4>3. IfLegacy = "warning"
        BY <2>4, <4>2 DEF IfLegacy
      <4> QED
        BY <4>1, <4>3
    <3> QED
      BY <2>1, <2>4, <3>1 DEF VerdictInv, LegacyInv, DeployedInv, VerdictOfAMoment, Calm
  <2>5. CASE /\ ReadNo(Present(w))
             /\ IF Tail(todo) = <<>> THEN pc' = "validated" /\ verdict' = "error"
                ELSE todo' = Tail(todo) /\ pc' = pc
    <3>1. Calm' => ~Present(w)
      BY <2>3, <2>5, FaultsType DEF ReadNo, Visits, Calm
    <3>2. CASE Tail(todo) = <<>> /\ pc' = "validated" /\ verdict' = "error"
      <4>1. Range(Tail(todo)) = {}
        BY <3>2 DEF Range
      <4>2. Calm' => "error" \in moments
        BY <1>0, <2>1, <2>2, <2>3, <3>1, <4>1 DEF DeployedInv
      <4> QED
        BY <2>1, <3>2, <4>2 DEF VerdictInv, LegacyInv, DeployedInv, VerdictOfAMoment, Calm
    <3>3. CASE todo' = Tail(todo) /\ pc' = "deployed"
      <4>1. IfLegacy' = IfLegacy /\ (\A v : Present(v)' <=> Present(v))
        BY <2>1 DEF IfLegacy, Present
      <4>2. DeployedInv'
        BY <1>0, <2>1, <2>2, <2>3, <3>1, <3>3, <4>1 DEF DeployedInv
      <4> QED
        BY <3>3, <4>2 DEF VerdictInv, LegacyInv, VerdictOfAMoment
    <3> QED
      BY <2>1, <2>5, <3>2, <3>3
  <2> QED
    BY <1>5, <2>4, <2>5 DEF AskDeployed, Judged, Present
<1>6. CASE \/ BeginHealth \/ ReadObject \/ ListPods \/ EndPass
           \/ \E v \in Releases : Report(v)
  <2>1. pc' \notin {"legacy", "deployed", "validated"}
    BY <1>6 DEF BeginHealth, ReadObject, ListPods, Report, EndPass
  <2> QED
    BY <2>1 DEF VerdictInv, LegacyInv, DeployedInv, VerdictOfAMoment
<1> QED
  BY <1>1, <1>2, <1>3, <1>4, <1>5, <1>6 DEF Next, Look

-----------------------------------------------------------------------------
(* The health check.                                                       *)
LEMMA StatusSplit ==
    StatusNow(spec) = IF \A w \in AskedFor(spec) : WellNow(w) THEN "Healthy" ELSE BadNow
BY DEF StatusNow, BadNow

(* HealthInv without its condition.                                        *)
HealthFacts ==
    /\ StatusNow(spec) \in moments
    /\ "worse" \notin changed =>
           \A w \in DOMAIN reading :
               reading[w].healthy => app[w] = "full" /\ (w \in killed => Unlisted(w))
    /\ "better" \notin changed =>
           \A w \in DOMAIN reading : ~reading[w].healthy => ~WellNow(w)
    /\ (\E w \in DOMAIN reading : ~reading[w].healthy) => BadNow \in moments
    /\ "Healthy" \in moments \/ \E w \in Workload : Spoils(w)

LEMMA HealthUnderChange ==
    ASSUME Visits, HealthInv, Change, pc \in {"object", "pods"}
    PROVE  HealthInv'
<1> SUFFICES ASSUME Calm' PROVE HealthFacts'
  BY DEF HealthInv, HealthFacts
<1>1. PICK kind : /\ OneKind(kind)
                  /\ changed' = changed \cup {kind} /\ moments' = moments \cup {LookNow'}
                  /\ UNCHANGED <<pass, faults>>
  BY Ways
<1>2. UNCHANGED <<pc, spec, todo, reading>>
  BY <1>1 DEF pass
<1>3. Calm /\ \A a \in changed' : a = kind
  BY <1>1 DEF Calm, OneWay
<1>4. HealthFacts
  BY <1>3 DEF HealthInv, HealthFacts
<1>5. /\ AskedFor(spec) = DOMAIN reading \cup Range(todo) /\ AskedFor(spec) \subseteq Workload
      /\ pc = "pods" => Head(todo) \in DOMAIN reading /\ Head(todo) \in Range(todo)
  BY Names, HeadOrTail DEF Visits
<1>6. LookNow' = StatusNow(spec)'
  BY <1>2 DEF LookNow
<1>7. StatusNow(spec)' \in moments'
  BY <1>1, <1>6
<1>8. StatusNow(spec)' = (IF \A w \in AskedFor(spec) : WellNow(w)' THEN "Healthy" ELSE BadNow')
  BY <1>2 DEF StatusNow, BadNow
<1>9. \A w : Unlisted(w)' <=> Unlisted(w)
  BY <1>2 DEF Unlisted
<1>10. CASE kind \in {"legacy gone", "legacy back"}
  <2>1. UNCHANGED <<app, killed, young>>
    BY <1>1, <1>10 DEF OneKind, LegacyGone, LegacyBack
  <2>2. BadNow' = BadNow /\ (\A w : (Spoils(w)' <=> Spoils(w)) /\ (WellNow(w)' <=> WellNow(w)))
    BY <1>2, <1>9, <2>1 DEF BadNow, Spoils, WellNow
  <2> QED
    BY <1>1, <1>2, <1>4, <1>7, <1>9, <2>1, <2>2 DEF HealthFacts
<1>11. CASE kind = "better"
  <2>1. Better /\ "worse" \notin changed /\ "better" \in changed'
    BY <1>1, <1>3, <1>11 DEF OneKind
  <2>2. BadNow' = BadNow
    BY <2>1 DEF Better, BadNow
  <2>3. \A w \in DOMAIN reading :
            reading[w].healthy => app'[w] = "full" /\ (w \in killed' => Unlisted(w))
    BY <1>4, <1>5, <2>1 DEF HealthFacts, Better
  <2>4. ASSUME \A w \in Workload : ~Spoils(w)' PROVE "Healthy" \in moments'
    <3>1. \A w \in DOMAIN reading : reading[w].healthy
      BY <1>2, <1>5, <2>4 DEF Spoils
    <3>2. \A w \in Range(todo) : w \notin killed' /\ (app'[w] = "full" \/ Unlisted(w))
      BY <1>2, <1>5, <1>9, <2>4 DEF Spoils
    <3>3. \A w \in AskedFor(spec) : app'[w] = "full" /\ w \notin killed'
      BY <1>5, <2>3, <3>1, <3>2 DEF Unlisted
    <3>4. StatusNow(spec)' = "Healthy"
      BY <1>8, <3>3 DEF WellNow
    <3> QED
      BY <1>7, <3>4
  <2> QED
    BY <1>1, <1>2, <1>4, <1>7, <1>9, <2>1, <2>2, <2>3, <2>4 DEF HealthFacts
<1>12. CASE kind = "worse"
  <2>1. Worse /\ "better" \notin changed /\ "worse" \in changed'
    BY <1>1, <1>3, <1>12 DEF OneKind
  <2>2. BadNow' = BadNow
    BY <2>1 DEF Worse, BadNow
  <2>3. \A w \in Workload : WellNow(w)' => WellNow(w)
    BY <2>1 DEF Worse, WellNow
  <2>4. \A w \in Workload : Spoils(w) => Spoils(w)'
    BY <1>2, <1>9, <2>1 DEF Worse, Spoils
  <2> QED
    BY <1>1, <1>2, <1>4, <1>5, <1>7, <2>1, <2>2, <2>3, <2>4 DEF HealthFacts
<1>13. CASE kind = "aged"
  <2>1. UNCHANGED <<app, killed>> /\ "better" \notin changed
    BY <1>1, <1>3, <1>13 DEF OneKind, Aged
  <2>2. \A w : (Spoils(w)' <=> Spoils(w)) /\ (WellNow(w)' <=> WellNow(w))
    BY <1>2, <1>9, <2>1 DEF Spoils, WellNow
  <2>3. ASSUME NEW w \in DOMAIN reading, ~reading[w].healthy PROVE BadNow' \in moments'
    <3>1. ~WellNow(w)' /\ w \in AskedFor(spec)
      BY <1>4, <1>5, <2>1, <2>2, <2>3 DEF HealthFacts
    <3> QED
      BY <1>7, <1>8, <3>1
  <2> QED
    BY <1>1, <1>2, <1>4, <1>7, <1>9, <2>1, <2>2, <2>3 DEF HealthFacts
<1> QED
  BY <1>1, <1>10, <1>11, <1>12, <1>13 DEF OneKind

LEMMA ObjectRead ==
    ASSUME Visits, HealthInv, ReadObject
    PROVE  HealthInv'
<1> SUFFICES ASSUME Calm' PROVE HealthFacts'
  BY DEF HealthInv, HealthFacts
<1> DEFINE w == Head(todo)
<1>1. /\ pc = "object" /\ todo # <<>> /\ todo \in Seq(Workload)
      /\ AskedFor(spec) = DOMAIN reading \cup Range(todo)
      /\ DOMAIN reading \cap Range(todo) = {}
      /\ UNCHANGED <<legacy, app, killed, young, spec, moments, changed>>
  BY DEF ReadObject, Visits, cluster, history
<1>2. Calm /\ faults' = faults
  BY <1>1, FaultsType DEF ReadObject, ReadNo, Fault, Calm, OneWay, Visits
<1>3. HealthFacts
  BY <1>1, <1>2 DEF HealthInv, HealthFacts
<1>4. w \in Workload /\ w \in Range(todo) /\ Range(todo) = {w} \cup Range(Tail(todo))
  BY <1>1, HeadOrTail
<1>5. /\ StatusNow(spec)' = StatusNow(spec) /\ BadNow' = BadNow
      /\ \A v : WellNow(v)' <=> WellNow(v)
  BY <1>1 DEF StatusNow, BadNow, WellNow
<1>6. ~WellNow(w) => BadNow \in moments
  BY <1>1, <1>3, <1>4, StatusSplit DEF HealthFacts
<1>7. CASE app[w] = "absent" /\ Read(w, FALSE) /\ todo' = Tail(todo) /\ pc' = pc
  <2>1. /\ DOMAIN reading' = DOMAIN reading \cup {w} /\ ~reading'[w].healthy
        /\ \A v \in DOMAIN reading : v # w => reading'[v] = reading[v]
    BY <1>7 DEF Read
  <2>2. ~WellNow(w)
    BY <1>7 DEF WellNow
  <2>3. \E v \in Workload : Spoils(v)'
    <3>1. ASSUME NEW v, v = w PROVE Spoils(v)'
      BY <2>1, <3>1 DEF Spoils
    <3> QED
      BY <1>4, <3>1
  <2>4. \A v : ~Unlisted(v)
    BY <1>1 DEF Unlisted
  <2>5. "worse" \notin changed' => \A v \in DOMAIN reading' :
            reading'[v].healthy => app'[v] = "full" /\ (v \in killed' => Unlisted(v)')
    BY <1>1, <1>3, <2>1, <2>4 DEF HealthFacts
  <2>6. "better" \notin changed' =>
            \A v \in DOMAIN reading' : ~reading'[v].healthy => ~WellNow(v)'
    BY <1>1, <1>3, <1>5, <2>1, <2>2 DEF HealthFacts
  <2> QED
    BY <1>1, <1>3, <1>4, <1>5, <1>6, <2>2, <2>3, <2>5, <2>6 DEF HealthFacts
<1>8. CASE Read(w, app[w] = "full") /\ todo' = todo /\ pc' = "pods"
  <2>1. /\ DOMAIN reading' = DOMAIN reading \cup {w}
        /\ reading'[w].healthy = (app[w] = "full")
        /\ \A v \in DOMAIN reading : v # w => reading'[v] = reading[v]
    BY <1>8 DEF Read
  <2>2. /\ \A v : ~Unlisted(v)
        /\ \A v : Unlisted(v)' <=> v = w
    BY <1>1, <1>8 DEF Unlisted
  <2>3. "worse" \notin changed' => \A v \in DOMAIN reading' :
            reading'[v].healthy => app'[v] = "full" /\ (v \in killed' => Unlisted(v)')
    BY <1>1, <1>3, <2>1, <2>2 DEF HealthFacts
  <2>4. "better" \notin changed' =>
            \A v \in DOMAIN reading' : ~reading'[v].healthy => ~WellNow(v)'
    BY <1>1, <1>3, <1>5, <2>1 DEF HealthFacts, WellNow
  <2>5. (\E v \in DOMAIN reading' : ~reading'[v].healthy) => BadNow' \in moments'
    BY <1>1, <1>3, <1>5, <1>6, <2>1 DEF HealthFacts, WellNow
  <2>6. \A v \in Workload : Spoils(v) => Spoils(v)'
    BY <1>1, <1>4, <1>8, <2>1, <2>2 DEF Spoils
  <2> QED
    BY <1>1, <1>3, <1>5, <2>3, <2>4, <2>5, <2>6 DEF HealthFacts
<1>9. \/ app[w] = "absent" /\ Read(w, FALSE) /\ todo' = Tail(todo) /\ pc' = pc
      \/ Read(w, app[w] = "full") /\ todo' = todo /\ pc' = "pods"
  <2>1. app[w] # "absent" => ~ReadNo(app[w] # "absent")
    BY <1>2, FaultsType DEF ReadNo, Fault, Visits, Calm
  <2> QED
    BY <2>1, Zenon DEF ReadObject
<1> QED
  BY <1>7, <1>8, <1>9

LEMMA PodsListed ==
    ASSUME Visits, HealthInv, ListPods
    PROVE  HealthInv'
<1> SUFFICES ASSUME Calm' PROVE HealthFacts'
  BY DEF HealthInv, HealthFacts
<1> DEFINE w == Head(todo)
<1>1. /\ pc = "pods" /\ todo # <<>> /\ todo \in Seq(Workload)
      /\ AskedFor(spec) = DOMAIN reading \cup Range(todo)
      /\ w \in DOMAIN reading /\ pc' = "object" /\ todo' = Tail(todo)
      /\ UNCHANGED <<legacy, app, killed, young, spec, moments, changed>>
      /\ reading \in [DOMAIN reading -> [healthy : BOOLEAN]]
  BY DEF ListPods, Visits, cluster, history
<1>2. Calm /\ faults' = faults
  BY <1>1, FaultsType DEF ListPods, Fault, Calm, OneWay, Visits
<1>3. HealthFacts
  BY <1>1, <1>2 DEF HealthInv, HealthFacts
<1>4. w \in Workload /\ w \in Range(todo) /\ Range(todo) = {w} \cup Range(Tail(todo))
  BY <1>1, HeadOrTail
<1>5. /\ StatusNow(spec)' = StatusNow(spec) /\ BadNow' = BadNow
      /\ \A v : WellNow(v)' <=> WellNow(v)
  BY <1>1 DEF StatusNow, BadNow, WellNow
<1>6. ~WellNow(w) => BadNow \in moments
  BY <1>1, <1>3, <1>4, StatusSplit DEF HealthFacts
<1>7. Read(w, reading[w].healthy /\ w \notin killed)
  BY <1>2, FaultsType DEF ListPods, Fault, Visits
<1>8. /\ DOMAIN reading' = DOMAIN reading
      /\ reading'[w].healthy <=> reading[w].healthy /\ w \notin killed
      /\ \A v \in DOMAIN reading : v # w => reading'[v] = reading[v]
  BY <1>1, <1>7 DEF Read
<1>9. /\ \A v : ~Unlisted(v)'
      /\ \A v : Unlisted(v) <=> v = w
  BY <1>1 DEF Unlisted
<1>10. "worse" \notin changed' => \A v \in DOMAIN reading' :
            reading'[v].healthy => app'[v] = "full" /\ (v \in killed' => Unlisted(v)')
  BY <1>1, <1>3, <1>8, <1>9 DEF HealthFacts
<1>11. "better" \notin changed' =>
            \A v \in DOMAIN reading' : ~reading'[v].healthy => ~WellNow(v)'
  BY <1>1, <1>3, <1>5, <1>8 DEF HealthFacts, WellNow
<1>12. (\E v \in DOMAIN reading' : ~reading'[v].healthy) => BadNow' \in moments'
  BY <1>1, <1>3, <1>5, <1>6, <1>8 DEF HealthFacts, WellNow
<1>13. ASSUME NEW v \in Workload, Spoils(v) PROVE Spoils(v)'
  <2>1. CASE v = w
    BY <1>1, <1>8, <1>9, <1>13, <2>1 DEF Spoils
  <2>2. CASE v # w
    BY <1>1, <1>4, <1>8, <1>9, <1>13, <2>2 DEF Spoils
  <2> QED
    BY <2>1, <2>2
<1> QED
  BY <1>1, <1>3, <1>5, <1>10, <1>11, <1>12, <1>13 DEF HealthFacts

LEMMA StatusStep == Visits /\ StatusInv /\ [Next]_vars => StatusInv'
<1> SUFFICES ASSUME Visits, StatusInv, [Next]_vars PROVE StatusInv'
  OBVIOUS
<1>0. HealthInv /\ StatusOfAMoment
  BY DEF StatusInv
<1>1. CASE UNCHANGED vars
  <2>1. HealthInv'
    <3>1. UNCHANGED <<legacy, app, killed, young, pc, spec, todo, reading, moments, changed, faults>>
      BY <1>1 DEF vars, cluster, pass, history
    <3>2. (Calm' <=> Calm) /\ StatusNow(spec)' = StatusNow(spec) /\ BadNow' = BadNow
      BY <3>1 DEF Calm, OneWay, StatusNow, WellNow, BadNow
    <3>3. \A w : /\ Spoils(w)' <=> Spoils(w)
                 /\ Unlisted(w)' <=> Unlisted(w)
                 /\ WellNow(w)' <=> WellNow(w)
      BY <3>1 DEF Spoils, Unlisted, WellNow
    <3> QED
      BY <1>0, <3>1, <3>2, <3>3 DEF HealthInv
  <2>2. StatusOfAMoment'
    BY <1>0, <1>1 DEF vars, pass, history, StatusOfAMoment, OneWay
  <2> QED
    BY <2>1, <2>2 DEF StatusInv
<1>2. CASE Change
  <2>1. UNCHANGED <<pass, faults>>
    BY <1>2, ChangeKinds1
  <2>2. pc = "reported" => UNCHANGED history
    BY <1>2 DEF Change, LegacyChanges, AppChanges, KilledChanges, Age, Changes
  <2>3. StatusOfAMoment'
    BY <1>0, <2>1, <2>2 DEF pass, history, StatusOfAMoment, OneWay
  <2>4. HealthInv'
    <3>1. CASE pc \in {"object", "pods"}
      BY <1>0, <1>2, <3>1, HealthUnderChange
    <3>2. CASE pc \notin {"object", "pods"}
      BY <2>1, <3>2 DEF pass, HealthInv
    <3> QED
      BY <3>1, <3>2
  <2> QED
    BY <2>3, <2>4 DEF StatusInv
<1>3. CASE BeginHealth
  <2>1. /\ pc = "validated" /\ pc' = "object" /\ todo' = HealthOrder(spec)
        /\ moments' = {StatusNow(spec)} /\ UNCHANGED <<app, killed, young, spec, reading>>
    BY <1>3 DEF BeginHealth, cluster
  <2>2. DOMAIN reading' = {} /\ Range(todo') = AskedFor(spec)
    BY <2>1, Orders DEF Visits
  <2>3. StatusNow(spec)' = StatusNow(spec)
    BY <2>1 DEF StatusNow, WellNow
  <2>4. ASSUME NEW w \in AskedFor(spec), ~WellNow(w) PROVE Spoils(w)'
    BY <2>1, <2>2, <2>4 DEF WellNow, Spoils, Unlisted
  <2>5. "Healthy" \in moments' \/ \E w \in Workload : Spoils(w)'
    BY <2>1, <2>4, Names DEF StatusNow
  <2> QED
    BY <2>1, <2>2, <2>3, <2>5 DEF StatusInv, HealthInv, StatusOfAMoment
<1>4. CASE ReadObject
  <2>1. pc' # "reported"
    BY <1>4 DEF ReadObject
  <2> QED
    BY <1>0, <1>4, <2>1, ObjectRead DEF StatusInv, StatusOfAMoment
<1>5. CASE ListPods
  <2>1. pc' # "reported"
    BY <1>5 DEF ListPods
  <2> QED
    BY <1>0, <1>5, <2>1, PodsListed DEF StatusInv, StatusOfAMoment
<1>6. CASE \E v \in Releases : Report(v)
  <2>1. /\ pc = "object" /\ todo = <<>> /\ pc' = "reported"
        /\ UNCHANGED <<verdict, faults, changed, moments>>
    BY <1>6 DEF Report, history
  <2>2. verdict = "valid" => report'.status = Aggregate(reading, young)
    BY <1>6 DEF Report
  <2>3. Calm' => Calm
    BY <2>1 DEF Calm, OneWay
  <2>4. Range(todo) = {}
    BY <2>1 DEF Range
  <2>5. CASE \A w \in DOMAIN reading : reading[w].healthy
    <3>1. Aggregate(reading, young) = "Healthy"
      BY <2>5 DEF Aggregate
    <3>2. \A w \in Workload : ~Spoils(w)
      BY <2>4, <2>5 DEF Spoils
    <3>3. Calm => "Healthy" \in moments
      BY <1>0, <2>1, <3>2 DEF HealthInv
    <3> QED
      BY <2>1, <2>2, <2>3, <3>1, <3>3 DEF StatusInv, HealthInv, StatusOfAMoment, Calm
  <2>6. CASE ~(\A w \in DOMAIN reading : reading[w].healthy)
    <3>1. Aggregate(reading, young) = BadNow
      BY <2>6 DEF Aggregate, BadNow
    <3>2. Calm => BadNow \in moments
      BY <1>0, <2>1, <2>6 DEF HealthInv
    <3> QED
      BY <2>1, <2>2, <2>3, <3>1, <3>2 DEF StatusInv, HealthInv, StatusOfAMoment, Calm
  <2> QED
    BY <2>5, <2>6
<1>7. CASE EndPass \/ AskDeployed \/ (\E l \in Legacy : AskLegacy(l)) \/ (\E s \in Specs : Begin(s))
  <2>1. pc' \notin {"object", "pods", "reported"}
    BY <1>7 DEF EndPass, AskDeployed, AskLegacy, Begin, Judged
  <2> QED
    BY <2>1 DEF StatusInv, HealthInv, StatusOfAMoment
<1> QED
  BY <1>1, <1>2, <1>3, <1>4, <1>5, <1>6, <1>7 DEF Next, Look

-----------------------------------------------------------------------------
(* The gauges.                                                             *)
LEMMA SentStep == SentInv /\ [Next]_vars => SentInv'
<1> SUFFICES ASSUME SentInv, [Next]_vars PROVE SentInv'
  OBVIOUS
<1>1. CASE UNCHANGED vars \/ Change
  <2>1. UNCHANGED <<pc, verdict, reading, report>>
    BY <1>1, ChangeKinds1 DEF vars, pass
  <2> QED
    BY <2>1 DEF SentInv
<1>2. CASE \E v \in Releases : Report(v)
  <2>1. UNCHANGED <<verdict, reading>>
    BY <1>2 DEF Report
  <2>2. verdict # "error" =>
            report'.gauges = Gauges(IF verdict = "valid" THEN Aggregate(reading, young)
                                    ELSE "Unhealthy", Flagged(reading, young))
    BY <1>2 DEF Report
  <2>3. Aggregate(reading, young) = Aggregate(reading, young = TRUE)
        /\ Flagged(reading, young) = Flagged(reading, young = TRUE)
    BY DEF Aggregate, Flagged
  <2>4. (young = TRUE) \in BOOLEAN
    OBVIOUS
  <2> QED
    BY <2>1, <2>2, <2>3, <2>4 DEF SentInv
<1>3. CASE \/ BeginHealth \/ ReadObject \/ ListPods \/ EndPass \/ AskDeployed
           \/ (\E l \in Legacy : AskLegacy(l)) \/ (\E s \in Specs : Begin(s))
  <2>1. pc' # "reported"
    BY <1>3 DEF BeginHealth, ReadObject, ListPods, EndPass, AskDeployed, AskLegacy, Begin, Judged
  <2> QED
    BY <2>1 DEF SentInv
<1> QED
  BY <1>1, <1>2, <1>3 DEF Next, Look

LEMMA ReleaseStep == ReleaseInv /\ [Next]_vars => ReleaseInv'
<1> SUFFICES ASSUME ReleaseInv, [Next]_vars PROVE ReleaseInv'
  OBVIOUS
<1>1. CASE UNCHANGED vars \/ Change
  <2>1. UNCHANGED <<pc, report>>
    BY <1>1, ChangeKinds1 DEF vars, pass
  <2> QED
    BY <2>1 DEF ReleaseInv
<1>2. CASE \E v \in Releases : Report(v)
  BY <1>2 DEF Report, ReleaseInv
<1>3. CASE \/ BeginHealth \/ ReadObject \/ ListPods \/ EndPass \/ AskDeployed
           \/ (\E l \in Legacy : AskLegacy(l)) \/ (\E s \in Specs : Begin(s))
  <2>1. pc' # "reported"
    BY <1>3 DEF BeginHealth, ReadObject, ListPods, EndPass, AskDeployed, AskLegacy, Begin, Judged
  <2> QED
    BY <2>1 DEF ReleaseInv
<1> QED
  BY <1>1, <1>2, <1>3 DEF Next, Look

(* Of what the workloads are read as, whatever it is.                      *)
LEMMA LowestGauge ==
    ASSUME NEW r, DOMAIN r \subseteq Workload, NEW y \in BOOLEAN, NEW valid \in BOOLEAN,
           NEW g, g = Gauges(IF valid THEN Aggregate(r, y) ELSE "Unhealthy", Flagged(r, y))
    PROVE  /\ \A c \in Range(g.components) : g.integration <= c
           /\ valid /\ OperatorName \in DOMAIN r /\ r[OperatorName].healthy =>
                  g.integration \in Range(g.components) \cup {Healthy}
<1> DEFINE f == Flagged(r, y)
           status == IF valid THEN Aggregate(r, y) ELSE "Unhealthy"
<1>1. /\ g.integration = IntegrationGauge(status)
      /\ g.components = [c \in DOMAIN Component |-> ComponentGauge(f, c)]
  BY DEF Gauges
<1>2. Range(g.components) = {ComponentGauge(f, c) : c \in DOMAIN Component}
  BY <1>1 DEF Range
<1>3. /\ DOMAIN f = DOMAIN r
      /\ \A w \in DOMAIN r : /\ f[w].healthy = r[w].healthy
                             /\ f[w].installing = (Aggregate(r, y) = "Installing")
  BY DEF Flagged
<1>4. ASSUME NEW c \in DOMAIN Component PROVE IntegrationGauge(status) <= ComponentGauge(f, c)
  <2>1. CASE ~valid
    BY <2>1 DEF IntegrationGauge, ComponentGauge, Unhealthy, Installing, Healthy, NotEnabled
  <2>2. CASE valid /\ \A w \in DOMAIN r : r[w].healthy
    <3>1. ComponentGauge(f, c) \in {Healthy, NotEnabled}
      BY <1>3, <2>2 DEF ComponentGauge
    <3> QED
      BY <2>2, <3>1 DEF Aggregate, IntegrationGauge, Unhealthy, Installing, Healthy, NotEnabled
  <2>3. CASE valid /\ ~(\A w \in DOMAIN r : r[w].healthy) /\ y
    <3>1. Aggregate(r, y) = "Installing"
      BY <2>3 DEF Aggregate
    <3>2. ComponentGauge(f, c) \in {Healthy, NotEnabled, Installing}
      BY <1>3, <3>1 DEF ComponentGauge
    <3> QED
      <4>1. IntegrationGauge(status) = Installing
        BY <2>3, <3>1 DEF IntegrationGauge
      <4> QED
        BY <3>2, <4>1 DEF Installing, Healthy, NotEnabled
  <2>4. CASE valid /\ ~(\A w \in DOMAIN r : r[w].healthy) /\ ~y
    <3>1. Aggregate(r, y) = "Unhealthy"
      BY <2>4 DEF Aggregate
    <3> QED
      BY <2>4, <3>1 DEF IntegrationGauge, ComponentGauge, Unhealthy, Installing, Healthy, NotEnabled
  <2> QED
    BY <2>1, <2>2, <2>3, <2>4
<1>5. ASSUME valid, OperatorName \in DOMAIN r, r[OperatorName].healthy
      PROVE  IntegrationGauge(status) \in Range(g.components) \cup {Healthy}
  <2>1. CASE \A w \in DOMAIN r : r[w].healthy
    BY <1>5, <2>1 DEF Aggregate, IntegrationGauge
  <2>2. CASE ~(\A w \in DOMAIN r : r[w].healthy)
    <3>1. PICK w \in DOMAIN r : ~r[w].healthy
      BY <2>2
    <3>2. PICK c \in DOMAIN Component : w \in Component[c]
      BY <1>5, <3>1 DEF Component, Workload
    <3>3. w \in Component[c] \cap DOMAIN f /\ ~f[w].healthy
      BY <1>3, <3>1, <3>2
    <3>4. IntegrationGauge(status) = ComponentGauge(f, c)
      <4>1. CASE y
        <5>1. Aggregate(r, y) = "Installing"
          BY <2>2, <4>1 DEF Aggregate
        <5>2. f[w].installing
          BY <1>3, <3>1, <5>1
        <5> QED
          BY <1>5, <3>3, <5>1, <5>2 DEF IntegrationGauge, ComponentGauge
      <4>2. CASE ~y
        <5>1. Aggregate(r, y) = "Unhealthy"
          BY <2>2, <4>2 DEF Aggregate
        <5>2. \A v \in DOMAIN f : ~f[v].installing
          BY <1>3, <5>1
        <5> QED
          BY <1>5, <3>3, <5>1, <5>2 DEF IntegrationGauge, ComponentGauge
      <4> QED
        BY <4>1, <4>2
    <3> QED
      BY <1>2, <3>4
  <2> QED
    BY <2>1, <2>2
<1> QED
  BY <1>1, <1>2, <1>4, <1>5

-----------------------------------------------------------------------------
(* The rest of the type invariant, which the visits do not need.           *)
RestOK ==
    /\ killed \subseteq Workload
    /\ young \in BOOLEAN
    /\ pc \in {"idle", "legacy", "deployed", "validated", "object", "pods", "reported"}
    /\ verdict \in {"valid", "warning", "error"}
    /\ report.status \in {"none", "Healthy", "Installing", "Unhealthy"}
    /\ changed \subseteq ChangeKinds
    /\ changes \in 0..MaxChanges
    /\ faults \in 0..MaxFaults

LEMMA FaultBound ==
    ASSUME faults \in 0..MaxFaults
    PROVE  /\ Fault => faults' \in 0..MaxFaults
           /\ \A b : ReadNo(b) => faults' \in 0..MaxFaults
BY InspectionAssumption DEF Fault, ReadNo

LEMMA ChangeBound ==
    ASSUME NEW kind \in ChangeKinds, Changes(kind), changed \subseteq ChangeKinds,
           changes \in 0..MaxChanges
    PROVE  changed' \subseteq ChangeKinds /\ changes' \in 0..MaxChanges
BY InspectionAssumption DEF Changes, history

LEMMA RestStep == RestOK /\ [Next]_vars => RestOK'
<1> SUFFICES ASSUME RestOK, [Next]_vars PROVE RestOK'
  OBVIOUS
<1>0. 0 \in 0..MaxFaults
  BY InspectionAssumption
<1>1. CASE UNCHANGED vars
  BY <1>1 DEF vars, cluster, pass, history, RestOK
<1>2. CASE Change
  <2>1. UNCHANGED <<pc, verdict, report, faults>>
    BY <1>2, ChangeKinds1 DEF pass
  <2>2. killed' \subseteq Workload /\ young' \in BOOLEAN
    BY <1>2 DEF Change, LegacyChanges, AppChanges, KilledChanges, Age, RestOK
  <2>3. PICK kind \in ChangeKinds : Changes(kind)
    BY <1>2 DEF Change, LegacyChanges, AppChanges, KilledChanges, Age, ChangeKinds
  <2>4. changed' \subseteq ChangeKinds /\ changes' \in 0..MaxChanges
    BY <2>3, ChangeBound DEF RestOK
  <2> QED
    BY <2>1, <2>2, <2>4 DEF RestOK
<1>3. CASE Look
  <2>1. UNCHANGED <<killed, young, changes>>
    BY <1>3 DEF Look, Begin, AskLegacy, AskDeployed, BeginHealth, ReadObject, ListPods, Report,
                EndPass, cluster
  <2>2. changed' \subseteq ChangeKinds
    BY <1>3 DEF Look, Begin, AskLegacy, AskDeployed, BeginHealth, ReadObject, ListPods, Report,
                EndPass, history, RestOK
  <2>3. pc' \in {"idle", "legacy", "deployed", "validated", "object", "pods", "reported"}
    BY <1>3 DEF Look, Begin, AskLegacy, AskDeployed, BeginHealth, ReadObject, ListPods, Report,
                EndPass, Judged, RestOK
  <2>4. verdict' \in {"valid", "warning", "error"}
    BY <1>3 DEF Look, Begin, AskLegacy, AskDeployed, BeginHealth, ReadObject, ListPods, Report,
                EndPass, Judged, SpecVerdict, RestOK
  <2>5. report'.status \in {"none", "Healthy", "Installing", "Unhealthy"}
    <3>1. CASE \E v \in Releases : Report(v)
      <4>1. report'.status = IF verdict = "valid" THEN Aggregate(reading, young) ELSE "Unhealthy"
        BY <3>1 DEF Report
      <4> QED
        BY <4>1 DEF Aggregate
    <3>2. CASE EndPass \/ \E s \in Specs : Begin(s)
      BY <3>2 DEF EndPass, Begin, NoReport
    <3>3. CASE \/ \E l \in Legacy : AskLegacy(l)
               \/ AskDeployed \/ BeginHealth \/ ReadObject \/ ListPods
      BY <3>3 DEF AskLegacy, AskDeployed, BeginHealth, ReadObject, ListPods, RestOK
    <3> QED
      BY <1>3, <3>1, <3>2, <3>3 DEF Look
  <2>6. faults' \in 0..MaxFaults
    BY <1>0, <1>3, FaultBound DEF Look, Begin, AskLegacy, AskDeployed, BeginHealth, ReadObject,
                                  ListPods, Report, EndPass, RestOK
  <2> QED
    BY <2>1, <2>2, <2>3, <2>4, <2>5, <2>6 DEF RestOK
<1> QED
  BY <1>1, <1>2, <1>3 DEF Next

-----------------------------------------------------------------------------
(* What the invariants say holds of every behaviour.                       *)
THEOREM InvariantHolds == Spec => []IInv
<1>1. Init => IInv
  BY VisitsInit DEF Init, IInv, VerdictInv, LegacyInv, DeployedInv, VerdictOfAMoment,
                    StatusInv, HealthInv, StatusOfAMoment, SentInv, ReleaseInv
<1>2. IInv /\ [Next]_vars => IInv'
  BY VisitsStep, VerdictStep, StatusStep, SentStep, ReleaseStep DEF IInv
<1> QED
  BY <1>1, <1>2, PTL DEF Spec

(* The values of all variables, for any bounds.                            *)
THEOREM TypeCorrect == Spec => []TypeOK
<1>1. Init => RestOK
  BY InspectionAssumption DEF Init, RestOK, NoReport
<1>2. RestOK /\ [Next]_vars => RestOK'
  BY RestStep
<1>3. IInv /\ RestOK => TypeOK
  BY DEF IInv, Visits, RestOK, TypeOK
<1> QED
  BY <1>1, <1>2, <1>3, InvariantHolds, PTL DEF Spec

(* For any set of legacy workloads, asked for in any order, Validate's     *)
(* verdict is that of a moment unless a read failed or the cluster changed *)
(* in two ways.                                                            *)
THEOREM VerdictIsOfAMoment == Spec => []VerdictOfAMoment
<1>1. IInv => VerdictOfAMoment
  BY DEF IInv, VerdictInv
<1> QED
  BY <1>1, InvariantHolds, PTL

(* So is the status that is reported of a valid resource.                  *)
THEOREM StatusIsOfAMoment == Spec => []StatusOfAMoment
<1>1. IInv => StatusOfAMoment
  BY DEF IInv, StatusInv
<1> QED
  BY <1>1, InvariantHolds, PTL

(* Of a resource without an error, the integration's gauge is no higher    *)
(* than any component's; if the resource is valid and the operator's own   *)
(* workload healthy, it is one of theirs or says healthy.                  *)
THEOREM GaugesTellOneStory == Spec => []GaugesAgree
<1>1. IInv => GaugesAgree
  <2> SUFFICES ASSUME IInv, pc = "reported", verdict # "error"
               PROVE  LET integration == report.gauges.integration
                          components == Range(report.gauges.components)
                      IN /\ \A g \in components : integration <= g
                         /\ verdict = "valid" /\ reading[OperatorName].healthy =>
                                integration \in components \cup {Healthy}
    BY DEF GaugesAgree
  <2>1. PICK y \in BOOLEAN :
            report.gauges = Gauges(IF verdict = "valid" THEN Aggregate(reading, y) ELSE "Unhealthy",
                                   Flagged(reading, y))
    BY DEF IInv, SentInv
  <2>2. DOMAIN reading \subseteq Workload /\ OperatorName \in DOMAIN reading
    BY Names DEF IInv, Visits
  <2>3. (verdict = "valid") \in BOOLEAN
    OBVIOUS
  <2> QED
    BY <2>1, <2>2, <2>3, LowestGauge
<1> QED
  BY <1>1, InvariantHolds, PTL

(* For all releases, the later one has the higher gauge: two digits are    *)
(* enough for what is encoded at all.                                      *)
THEOREM NewerIsHigher == Spec => []NewerReleaseIsHigher
<1>1. ASSUME NEW v \in Releases, NEW w \in Releases,
             Encodable(v), Encodable(w), Older(v, w)
      PROVE  EncodeSemver(v) < EncodeSemver(w)
  <2>1. /\ v[1] \in Nat /\ v[2] \in 0..99 /\ v[3] \in 0..99
        /\ w[1] \in Nat /\ w[2] \in 0..99 /\ w[3] \in 0..99
    BY <1>1 DEF Encodable, Release
  <2>2. PICK a \in Nat, b \in 0..99, c \in 0..99 : v[1] = a /\ v[2] = b /\ v[3] = c
    BY <2>1
  <2>3. PICK x \in Nat, y \in 0..99, z \in 0..99 : w[1] = x /\ w[2] = y /\ w[3] = z
    BY <2>1
  <2>4. a < x \/ (a = x /\ b < y) \/ (a = x /\ b = y /\ c < z)
    BY <1>1, <2>2, <2>3 DEF Older
  <2>5. 10000 * a + 100 * b + c < 10000 * x + 100 * y + z
    BY <2>4
  <2> QED
    BY <2>2, <2>3, <2>5 DEF EncodeSemver
<1>2. ReleaseInv => NewerReleaseIsHigher
  BY <1>1 DEF ReleaseInv, VersionGauge, NewerReleaseIsHigher
<1>3. IInv => NewerReleaseIsHigher
  BY <1>2 DEF IInv
<1> QED
  BY <1>3, InvariantHolds, PTL
=============================================================================
