----------------------------- MODULE MCRollout -----------------------------
(***************************************************************************)
(* Instances of Rollout.                                                   *)
(***************************************************************************)
EXTENDS Rollout

CONSTANTS port, url, url2

(* Everything through an HTTP proxy; an external proxy; metrics only.      *)
MCOptions ==
    {[logging |-> TRUE, address |-> port, http |-> TRUE],
     [logging |-> TRUE, address |-> url, http |-> FALSE],
     [logging |-> FALSE, address |-> port, http |-> FALSE]}

(* The HTTP proxy is given up.                                             *)
HttpOptions ==
    {[logging |-> FALSE, address |-> port, http |-> TRUE],
     [logging |-> FALSE, address |-> port, http |-> FALSE]}

(* One external proxy or another.                                          *)
UrlOptions == {[logging |-> TRUE, address |-> a, http |-> FALSE] : a \in {url, url2}}

OneSecret == <<[host |-> "a", ca |-> 1]>>
Rotated == <<[host |-> "a", ca |-> 1], [host |-> "a", ca |-> 2]>>
NoSecrets == <<>>
=============================================================================
