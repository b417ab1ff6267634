---------------------------- MODULE MCControlPage ----------------------------
(* Two tabs that use one vehicle, or one tab that uses two.                   *)
EXTENDS ControlPage

VARIABLE tabs   \* how many tabs there are: chosen at the start, and kept

CONSTANTS p1, p2, truck_01, truck_02

TwoPages == {p1, p2}
TwoVehicles == {truck_01, truck_02}

mcvars == <<pageVars, tabs>>

MCInit == PageInit /\ tabs \in {1, 2}

MCNext ==
  /\ PageNext
  /\ tabs = 1 => socket'[p2] = "none" /\ ~stopped'[p2]
  /\ tabs = 2 => online' \subseteq {truck_01}
  /\ UNCHANGED tabs

\* PageFairSpec of each choice.
MCFairSpec ==
  /\ MCInit /\ [][MCNext]_mcvars
  /\ \A p \in Pages : WF_mcvars(Process(p) /\ UNCHANGED tabs)
  /\ WF_mcvars(Disconnect /\ UNCHANGED tabs)
=============================================================================
