------------------------ MODULE LevelTriggeredProofs ------------------------
(***************************************************************************)
(* What every implementation of LevelTriggered inherits.                   *)
(***************************************************************************)
EXTENDS LevelTriggered, TLAPS

(* However writes, looks, ends and restarts meet, no write is overlooked   *)
(* and the work on what is asked for never comes to an end.                *)
THEOREM NothingOverlooked == Spec => [](Informed /\ Alive)
<1> DEFINE Inv == Informed /\ Alive
<1>1. Init => Inv
  BY DEF Init, Informed, Alive
<1>2. Inv /\ [Next]_levelVars => Inv'
  <2> SUFFICES ASSUME Inv, [Next]_levelVars PROVE Inv'
    OBVIOUS
  <2> USE DEF Informed, Alive
  <2>1. ASSUME NEW w \in Wants \cup {None}, Write(w) PROVE Inv'
    BY <2>1 DEF Write
  <2>2. CASE Look
    BY <2>2 DEF Look
  <2>3. CASE Finish
    BY <2>3 DEF Finish
  <2>4. CASE Rest
    BY <2>4 DEF Rest
  <2>5. CASE Restart
    BY <2>5 DEF Restart
  <2>6. CASE UNCHANGED levelVars
    BY <2>6 DEF levelVars
  <2> QED BY <2>1, <2>2, <2>3, <2>4, <2>5, <2>6 DEF Next
<1> QED BY <1>1, <1>2, PTL DEF Spec
=============================================================================
