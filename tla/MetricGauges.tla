---------------------------- MODULE MetricGauges ----------------------------
(***************************************************************************)
(* What the reconciler sees of metric.Connection                           *)
(* (internal/wavefront/metric/connection.go): the address it is connected  *)
(* to and the latest value reported under every gauge name.  The operators *)
(* below are the three calls Reconcile makes; each is one critical section *)
(* of Connection.mu.  They leave out the sender and the flush loop, which  *)
(* MetricConnection models and shows to implement MetricSink.              *)
(***************************************************************************)
CONSTANTS
    Addrs,      \* normalised proxy addresses
    NoAddr,     \* the empty address of a connection that is closed
    Names,      \* gauge names
    Values,     \* gauge values
    NoValue     \* the name is not in Connection.metrics

ASSUME GaugesAssumption == NoAddr \notin Addrs /\ NoValue \notin Values

VARIABLES
    addr,       \* Connection.addr
    latest      \* Connection.metrics: the last value reported under a name

GaugesTypeOK ==
    /\ addr \in Addrs \cup {NoAddr}
    /\ latest \in [Names -> Values \cup {NoValue}]

GaugesInit ==
    /\ addr = NoAddr
    /\ latest = [n \in Names |-> NoValue]

Points == [name : Names, value : Values]

(* The points a flush at this moment would send. *)
Current ==
    IF addr = NoAddr
    THEN {}
    ELSE {[name |-> n, value |-> latest[n]] : n \in {m \in Names : latest[m] # NoValue}}

(* A report gives some of the names a value: a function on a set of names. *)
Reports == UNION {[N -> Values] : N \in SUBSET Names}

(* Connecting to the address one is connected to changes nothing. *)
Connect(a) == addr' = a /\ UNCHANGED latest

(* newSender failed, after the old connection was closed. *)
ConnectFails(a) == addr # a /\ addr' = NoAddr /\ UNCHANGED latest

Close == addr' = NoAddr /\ UNCHANGED latest

(* Names that are not reported keep their last value: nothing ever removes *)
(* a name from the map.                                                    *)
Send(report) ==
    /\ latest' = [n \in Names |-> IF n \in DOMAIN report THEN report[n] ELSE latest[n]]
    /\ UNCHANGED addr

(* A new process starts with NewConnection.                                *)
Restart ==
    /\ addr' = NoAddr
    /\ latest' = [n \in Names |-> NoValue]

GaugesNext ==
    \/ \E a \in Addrs : Connect(a) \/ ConnectFails(a)
    \/ Close
    \/ \E report \in Reports : Send(report)
    \/ Restart

GaugesSpec == GaugesInit /\ [][GaugesNext]_<<addr, latest>>
=============================================================================
