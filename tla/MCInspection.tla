---------------------------- MODULE MCInspection ----------------------------
(***************************************************************************)
(* An instance of Inspection.                                              *)
(***************************************************************************)
EXTENDS Inspection

MCLegacy == {<<"wavefront", "wavefront-collector">>, <<"wavefront", "wavefront-proxy">>,
             <<"default", "wavefront-proxy">>}

Everything == [metrics |-> TRUE, logging |-> TRUE, proxy |-> TRUE,
               invalid |-> FALSE, allowLegacy |-> FALSE]
MCSpecs == {Everything,
            [Everything EXCEPT !.proxy = FALSE, !.logging = FALSE, !.allowLegacy = TRUE],
            [Everything EXCEPT !.metrics = FALSE, !.invalid = TRUE]}

(* Nothing is installed yet; an installation is under way, or nearly done: *)
(* one change makes all well, and two while the workloads are read can     *)
(* hide that one was always down.                                          *)
Fresh == [w \in Workload |-> IF w = OperatorName THEN "full" ELSE "absent"]
NearlyDone == [w \in Workload |-> IF w = "wavefront-logging" THEN "short" ELSE "full"]
UnderWay == [NearlyDone EXCEPT !["wavefront-proxy"] = "absent"]
MCWorlds == {Fresh, UnderWay, NearlyDone}

MCReleases == {<<1, 99, 99>>, <<1, 99, 100>>, <<1, 100, 0>>, <<2, 0, 0>>}
=============================================================================
