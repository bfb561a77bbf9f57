------------------------- MODULE MCMetricConnection -------------------------
(***************************************************************************)
(* An instance of MetricConnection: two proxies, one of them written in    *)
(* two ways, and senders enough to reconnect.                              *)
(***************************************************************************)
EXTENDS MetricConnection

CONSTANTS a1, a2, plain1, scheme1, scheme2

MCAddrs == {a1, a2}
MCRawAddrs == {plain1, scheme1, scheme2}
MCNormalize == [r \in MCRawAddrs |-> IF r = scheme2 THEN a2 ELSE a1]
=============================================================================
