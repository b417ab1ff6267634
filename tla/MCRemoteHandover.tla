--------------------------- MODULE MCRemoteHandover ---------------------------
(* Exchanges of one vehicle with an operator who waits, selections of two   *)
(* vehicles by one who does not, and one who presses twice.                 *)
EXTENDS RemoteHandover, TLC

CONSTANTS truck_01, truck_02

Trucks == {truck_01, truck_02}

\* Each vehicle stands for its address, too, and nothing tells the two apart.
TwoTrucks == [v \in Trucks |-> v]
Symmetry == Permutations(Trucks)

\* An operator who waits, with a network that loses commands: for remote mode, for
\* the switch, and for both.
Waiting ==
  [patient |-> TRUE, lossy |-> TRUE, vehicles |-> {truck_01}, asks |-> TRUE,
   presses |-> 0, time |-> 0, commands |-> 4, reports |-> 3]

Switching == [Waiting EXCEPT !.asks = FALSE, !.presses = 3]
Both == [Waiting EXCEPT !.presses = 2, !.commands = 3, !.reports = 2]

\* With silences, after which older reports are taken: for remote mode, with a
\* network that loses nothing, and for the switch.
SilentHanding == [Waiting EXCEPT !.lossy = FALSE, !.commands = 3, !.time = 1]
SilentSwitching == [Switching EXCEPT !.presses = 2, !.time = 1]

\* Two vehicles, selected one over the other.
Pair == [Waiting EXCEPT !.lossy = FALSE, !.vehicles = Configured,
                        !.commands = 2, !.reports = 2]

\* An operator who does not wait, with two vehicles.
Changing ==
  [Pair EXCEPT !.patient = FALSE, !.lossy = TRUE, !.reports = 1]

Checked ==
  {Waiting, Switching, Both, SilentHanding, SilentSwitching, Pair, Changing}

Hasty == {[Switching EXCEPT !.patient = FALSE]}
=============================================================================
