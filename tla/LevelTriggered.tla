--------------------------- MODULE LevelTriggered ---------------------------
(***************************************************************************)
(* What the reconcile loop promises whatever a pass does: it is level      *)
(* triggered.  It is not told what changed, only that something may have,  *)
(* and it acts on what it finds when it looks.  Several writes may be met  *)
(* by one look, but no write by none, and a look always finds the latest.  *)
(***************************************************************************)
CONSTANTS
    Wants,      \* what can be asked for
    None        \* nothing is asked for

VARIABLES
    want,       \* what is asked for now
    seen,       \* what the last look found
    wake,       \* another look will be taken
    busy        \* something is being done about what was seen

levelVars == <<want, seen, wake, busy>>

Init == want = None /\ seen = None /\ wake = FALSE /\ busy = FALSE

Write(w) ==
    /\ w # want
    /\ want' = w
    /\ wake' = TRUE
    /\ UNCHANGED <<seen, busy>>

(* Whether there is reason to look again may be known already.             *)
Look ==
    /\ wake /\ ~busy
    /\ seen' = want
    /\ busy' = TRUE
    /\ wake' \in BOOLEAN
    /\ UNCHANGED want

(* As long as something is asked for, every look is followed by another.   *)
Finish ==
    /\ busy
    /\ busy' = FALSE
    /\ wake' = TRUE
    /\ UNCHANGED <<want, seen>>

Rest ==
    /\ busy /\ seen = None
    /\ busy' = FALSE
    /\ UNCHANGED <<want, seen, wake>>

(* All is forgotten but what is asked for.                                 *)
Restart ==
    /\ seen' = None
    /\ busy' = FALSE
    /\ wake' = (want # None)
    /\ UNCHANGED want

Next ==
    \/ \E w \in Wants \cup {None} : Write(w)
    \/ Look \/ Finish \/ Rest \/ Restart

Spec == Init /\ [][Next]_levelVars

-----------------------------------------------------------------------------
(* What differs from what was seen will be looked at.                      *)
Informed == want # seen => wake

(* What is asked for is being worked on or will be.                        *)
Alive == want # None => wake \/ busy
=============================================================================
