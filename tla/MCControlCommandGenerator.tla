---------------------- MODULE MCControlCommandGenerator ----------------------
(* Three scenarios, one per behaviour: the dial and its pauses, the two     *)
(* hold combinations, and the latched switches with a vehicle that confirms *)
(* them in any order.  Each takes every order of its own frames and reports.*)
EXTENDS ControlCommandGenerator

VARIABLE scenario   \* chosen at the start, and kept

F(keys, brake, clutch) ==
  [Released EXCEPT !.pressed = keys, !.brake = brake, !.clutch = clutch]

Cw == "encoder_clockwise"
Ccw == "encoder_counter_clockwise"
Ok == "encoder_confirm"

DialFrames ==
  {F({Cw}, 0, 0), F({Ccw}, 0, 0), F({Cw, Ccw}, 0, 0), F({Ok}, 30, 0),
   F({Cw, Ok}, 0, 0)}

\* Threshold, above it and below it; with and without r1; with the dial.
HoldFrames ==
  {F({"l1"}, 0, 21), F({"l1"}, 0, 20), F({"l1", "r1"}, 21, 21),
   F({"l1", Cw}, 0, 21), F({"l1", Ok}, 0, 21)}

LatchFrames ==
  {F({"cross"}, 0, 0), F({"triangle"}, 20, 0), F({"cross", "triangle"}, 0, 0),
   F({"l3"}, 21, 0), F({"r3"}, 21, 0), F({"l3", "r3"}, 21, 0), F({"r3"}, 20, 0),
   [F({"r2", "plus"}, 100, 0) EXCEPT !.wheel = -100, !.pov = "UP_LEFT"],
   [F({}, 50, 0) EXCEPT !.wheel = 1]}

DialStates ==
  {[EmptyVehicleState EXCEPT !.drive_mode = m] : m \in {"STANDBY", "REMOTE"}}

HoldStates ==
  {[EmptyVehicleState EXCEPT !.on["parking"] = b, !.on["remote_emergency"] = b]
     : b \in BOOLEAN}

Report(gear, stopped, switchedOn) ==
  [EmptyVehicleState EXCEPT !.gear = gear, !.stopped = stopped,
     !.on = [s \in LatchedSwitch |-> s \in switchedOn]]

LatchStates ==
  {Report("NEUTRAL", TRUE, {}), Report("REVERSE", TRUE, {"light_near"}),
   Report("DRIVE", FALSE, {"light_reverse", "light_far"}),
   Report("NEUTRAL", TRUE, LightGroup),
   Report("DRIVE", TRUE, {"light_position", "light_near", "light_far"})}

Scenario ==
  [dial |-> [frames |-> DialFrames, states |-> DialStates, until |-> 4],
   holds |-> [frames |-> HoldFrames, states |-> HoldStates, until |-> 4],
   latches |-> [frames |-> LatchFrames, states |-> LatchStates, until |-> 0]]

AllFrames == {Released} \cup UNION {Scenario[s].frames : s \in DOMAIN Scenario}
AllStates == UNION {Scenario[s].states : s \in DOMAIN Scenario}

MCInit == Init /\ scenario \in DOMAIN Scenario

MCNext ==
  /\ \/ \E frame \in Scenario[scenario].frames \cup {Released} : Input(frame)
     \/ \E state \in Scenario[scenario].states : Sync(state)
     \/ Generate \/ Reset
     \/ now < Scenario[scenario].until /\ Tick
  /\ UNCHANGED scenario

MCSpec == MCInit /\ [][MCNext]_<<vars, scenario>>
=============================================================================
