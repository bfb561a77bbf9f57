----------------------------- MODULE MetricSink -----------------------------
(***************************************************************************)
(* What metric.Connection promises to the proxy at the other end.  A       *)
(* session lasts from a successful Connect to the next Close or Connect to *)
(* another address.  During a session the proxy receives only values that  *)
(* were the latest value of their gauge at some moment of this very        *)
(* session.  One report of a session may still be under way when it ends,  *)
(* since the flush loop sends outside the lock; it may arrive after Close, *)
(* even in a later session, and until it is over nothing of a later        *)
(* session is delivered.                                                   *)
(***************************************************************************)
EXTENDS MetricGauges

VARIABLES
    offered,    \* the points that were current at some moment of the session
    delivered,  \* those of them the proxy received
    late        \* the points of an earlier session still on their way

sinkVars == <<addr, latest, offered, delivered, late>>

SinkTypeOK ==
    /\ GaugesTypeOK
    /\ offered \subseteq Points
    /\ delivered \subseteq Points
    /\ late \subseteq Points

SinkInit == GaugesInit /\ offered = {} /\ delivered = {} /\ late = {}

StartSession(a) ==
    /\ addr # a
    /\ Connect(a)
    /\ offered' = Current'
    /\ delivered' = {}
    /\ UNCHANGED late

(* Points that were offered may be on their way when the session ends, but *)
(* not while those of an earlier one are.                                  *)
EndSession ==
    /\ Close
    /\ IF late = {} THEN late' \in SUBSET offered ELSE UNCHANGED late
    /\ offered' = {}
    /\ delivered' = {}

Report(report) ==
    /\ Send(report)
    /\ offered' = offered \cup Current'
    /\ UNCHANGED <<delivered, late>>

Deliver ==
    /\ late = {}
    /\ \E P \in SUBSET offered : delivered' = delivered \cup P
    /\ UNCHANGED <<addr, latest, offered, late>>

(* They arrive, late, or are lost.                                         *)
LateReport ==
    /\ late # {}
    /\ late' = {}
    /\ UNCHANGED <<addr, latest, offered, delivered>>

SinkNext ==
    \/ \E a \in Addrs : StartSession(a)
    \/ EndSession
    \/ \E report \in Reports : Report(report)
    \/ Deliver
    \/ LateReport

SinkSpec == SinkInit /\ [][SinkNext]_sinkVars
=============================================================================
