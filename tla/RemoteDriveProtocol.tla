------------------------- MODULE RemoteDriveProtocol -------------------------
(***************************************************************************)
(* The messages of proto/remote_drive.proto, with the data the cockpit     *)
(* takes decisions on.  A ControlCommand keeps every field; its sixteen    *)
(* latched SwitchCommand fields are one function from LatchedSwitch.  A    *)
(* VehicleState keeps the owner, the mode, the gear, whether the speed     *)
(* allows a gear change and the state of each latched switch: what the     *)
(* cockpit only forwards to the page (steering, bucket, horn, ...) is left *)
(* out.  Identifiers are those of a cockpit: "self" is ours, "other" any   *)
(* other one, "" is the empty string a free vehicle reports.               *)
(*                                                                         *)
(* Units: percent for pedals and wheel, hundredths of a degree for the     *)
(* steering angle, so that every value is an integer.                      *)
(***************************************************************************)
EXTENDS Integers

SwitchCommand == {"NO_CONTROL", "OFF", "ON"}
HoldCommand == {"NO_CONTROL", "ON"}
GearState == {"NEUTRAL", "REVERSE", "DRIVE"}
GearCommand == GearState \cup {"NO_CONTROL"}
BucketCommand == {"NO_CONTROL", "UP", "DOWN"}
DriveMode == {"AUTO", "MANUAL", "STANDBY", "REMOTE"}
RemoteModeRequest == {"NONE", "ENTER", "EXIT"}
CockpitId == {"self", "other", ""}

LightGroup == {"light_position", "light_working_rear", "light_danger",
               "light_front", "light_working_side"}

LatchedSwitch == LightGroup \cup
  {"parking", "remote_emergency", "window_wiper", "light_near", "light_far",
   "light_turn_left", "light_turn_right", "light_reverse",
   "light_double_flash", "light_fog", "diff_lock"}

ControlCommand ==
  [steering: Int, accelerator: Int, brake: Int, gear: GearCommand,
   bucket: BucketCommand, mode: RemoteModeRequest, horn: HoldCommand,
   spray: HoldCommand, light_brake: SwitchCommand,
   switch: [LatchedSwitch -> SwitchCommand]]

VehicleState ==
  [cockpit_id: CockpitId, drive_mode: DriveMode, gear: GearState,
   stopped: BOOLEAN, on: [LatchedSwitch -> BOOLEAN]]

\* pb::ControlCommand{}: every proto3 field at its default.
EmptyCommand ==
  [steering |-> 0, accelerator |-> 0, brake |-> 0, gear |-> "NO_CONTROL",
   bucket |-> "NO_CONTROL", mode |-> "NONE", horn |-> "NO_CONTROL",
   spray |-> "NO_CONTROL", light_brake |-> "NO_CONTROL",
   switch |-> [s \in LatchedSwitch |-> "NO_CONTROL"]]

\* pb::VehicleState{}: speed 0, so the vehicle counts as stopped.
EmptyVehicleState ==
  [cockpit_id |-> "", drive_mode |-> "AUTO", gear |-> "NEUTRAL",
   stopped |-> TRUE, on |-> [s \in LatchedSwitch |-> FALSE]]

\* validControlCommand of the codec: the ranges a command must respect for
\* encodeControlCommand to produce a datagram (the enumerations hold by type).
ValidControlCommand(c) ==
  /\ -9000 <= c.steering /\ c.steering <= 9000
  /\ c.accelerator \in 0 .. 100
  /\ c.brake \in 0 .. 100
=============================================================================
