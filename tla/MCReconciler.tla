---------------------------- MODULE MCReconciler ----------------------------
(***************************************************************************)
(* Instances of Reconciler.  The files are one object of each kind the     *)
(* code treats in its own way: the default collector config, the four      *)
(* workloads it knows by name, in walk order.                              *)
(***************************************************************************)
EXTENDS Reconciler

CONSTANTS external, r1, r2

MCManifest == <<[dir |-> "collector"], [dir |-> "collector"], [dir |-> "collector"],
                [dir |-> "logging"], [dir |-> "proxy"]>>

(* deploy/internal as it is: service accounts, configs, the service too.   *)
DeployManifest == <<[dir |-> "collector"], [dir |-> "collector"], [dir |-> "collector"],
                    [dir |-> "collector"], [dir |-> "logging"], [dir |-> "logging"],
                    [dir |-> "logging"], [dir |-> "proxy"], [dir |-> "proxy"]>>

Base ==
    [proxy |-> TRUE, external |-> NoAddr, metrics |-> TRUE, logging |-> TRUE,
     customConfig |-> FALSE, secret |-> FALSE, allowLegacy |-> FALSE,
     excessive |-> {}, revision |-> r1]

Full == Base
Edited == [Base EXCEPT !.revision = r2]
External == [Base EXCEPT !.proxy = FALSE, !.external = external, !.customConfig = TRUE,
                         !.logging = FALSE]
ExternalLogs == [Base EXCEPT !.proxy = FALSE, !.external = external, !.metrics = FALSE]
Tolerant == [Base EXCEPT !.allowLegacy = TRUE, !.logging = FALSE]
TolerantSecret == [Tolerant EXCEPT !.secret = TRUE]
TwoProxies == [Base EXCEPT !.external = external, !.logging = FALSE]
ExternalGreedy == [External EXCEPT !.excessive = {"collector"}]

SwitchSpecs == {Full, External}
EditSpecs == {Full, Edited}
InvalidSpecs == {Full, TwoProxies}
ExternalSpecs == {External, ExternalGreedy}
LegacySpecs == {Tolerant, ExternalLogs}
LiveSpecs == {TolerantSecret, ExternalLogs, ExternalGreedy}
=============================================================================
