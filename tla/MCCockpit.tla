------------------------------ MODULE MCCockpit ------------------------------
(* One configured vehicle, an identifier nobody configured, and an operator *)
(* who accelerates and asks for remote mode.  Either one page connects and  *)
(* anything may be reported and asked for, or a second one replaces it.     *)
EXTENDS Cockpit

VARIABLE pages   \* how many pages connect: chosen at the start, and kept

OneTruck == [v \in {"truck_01"} |-> "address_01"]
TruckAndUnknown == {"truck_01", "truck_99"}

\* With a threshold of one click this frame asks for remote mode.
EnterRemote ==
  [Released EXCEPT !.accelerator = 50,
                   !.pressed = {"encoder_clockwise", "encoder_confirm"}]

Inputs == {Released, EnterRemote}
Throttle == {[Released EXCEPT !.accelerator = 50]}

Report(v, source, sequence, state) ==
  [vehicle |-> v, source |-> source, sequence |-> sequence, state |-> state]

Free == [EmptyVehicleState EXCEPT !.drive_mode = "STANDBY"]
Ours ==
  [EmptyVehicleState EXCEPT !.drive_mode = "REMOTE", !.cockpit_id = "self"]

OwnReport == Report("truck_01", "address_01", 1, Ours)

Arriving ==
  {OwnReport,
   Report("truck_01", "address_01", 0, Free),
   Report("truck_01", "address_02", 1, Free),
   Report("truck_99", "address_02", 1, Ours)}

mcvars == <<vars, pages>>

MCInit == Init /\ pages \in {1, 2}

MCNext ==
  /\ Next
  /\ session' <= pages
  /\ pages = 2 =>
       /\ \A v \in DOMAIN records' : records'[v].state = Ours
       /\ \A i \in DOMAIN received' : received'[i].vehicle # "truck_99"
  /\ UNCHANGED pages

\* FairSpec of each choice.
MCFairSpec ==
  /\ MCInit /\ [][MCNext]_mcvars
  /\ WF_mcvars(Loop /\ UNCHANGED pages)
  /\ WF_mcvars((\E s \in reads : PageEnds(s)) /\ UNCHANGED pages)

\* Two pages, and nothing but what they do and one report.
MCPagesSpec ==
  /\ Init /\ pages = 2
  /\ [][MCNext]_mcvars
=============================================================================
