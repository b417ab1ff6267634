---------------------------- MODULE GeneratorOps ----------------------------
(***************************************************************************)
(* The methods of ControlCommandGenerator as operators on the object's     *)
(* state, a record g of type Generator.  A method that changes the object  *)
(* is an operator that returns the changed record; the private steps of    *)
(* processInputState are composed in the order the code calls them.        *)
(*                                                                         *)
(* A definition marked "Mutant" is a plausible bug in the definition that  *)
(* follows it: nothing uses it, and putting it in place of that definition *)
(* must make the property it names fail.                                   *)
(***************************************************************************)
EXTENDS RemoteDriveProtocol, InputDeviceState

CONSTANTS
  HoldDuration,      \* kHoldDuration, 500 ms
  RotationTimeout,   \* kRemoteRotationTimeout, 5000 ms
  RotationThreshold  \* kRemoteRotationThreshold, 12 clicks

ASSUME GeneratorAssumption ==
  /\ HoldDuration \in Nat
  /\ RotationTimeout \in Nat
  /\ RotationThreshold \in Nat \ {0}

(***************************************************************************)
(* The object's state.  An empty std::optional time point is NoTime.  The  *)
(* two hold timers are indexed by the switch they toggle.                  *)
(***************************************************************************)
NoTime == -1
Time == Nat \cup {NoTime}
Combo == {"parking", "remote_emergency"}

Generator ==
  [current: Frame, previous: Frame, command: ControlCommand,
   vehicle: VehicleState, holdStart: [Combo -> Time],
   cw: Nat, ccw: Nat, lastRotation: Time]

\* The constructor; reset() assigns a newly constructed object.
NewGenerator ==
  [current |-> Released, previous |-> Released, command |-> EmptyCommand,
   vehicle |-> [EmptyVehicleState EXCEPT !.on["parking"] = TRUE],
   holdStart |-> [c \in Combo |-> NoTime],
   cw |-> 0, ccw |-> 0, lastRotation |-> NoTime]

(***************************************************************************)
(* Switches.                                                               *)
(***************************************************************************)
SwitchTo(enabled) == IF enabled THEN "ON" ELSE "OFF"
HoldTo(pressed) == IF pressed THEN "ON" ELSE "NO_CONTROL"

RequestedState(command, actual) ==
  command = "ON" \/ (command = "NO_CONTROL" /\ actual)

ToggleSwitch(command, actual) == SwitchTo(~RequestedState(command, actual))

\* Mutant for RequestIsHonoured: any report confirms the request.
ClearConfirmedSwitchByAnyReport(command, actual) == "NO_CONTROL"

ClearConfirmedSwitch(command, actual) ==
  IF command = SwitchTo(actual) THEN "NO_CONTROL" ELSE command

ClearConfirmedGear(command, actual) ==
  IF command = actual THEN "NO_CONTROL" ELSE command

\* The switch commands of g after each switch in S has been toggled.
Toggled(g, S) ==
  [s \in LatchedSwitch |->
     IF s \in S THEN ToggleSwitch(g.command.switch[s], g.vehicle.on[s])
                ELSE g.command.switch[s]]

(***************************************************************************)
(* The steps of processInputState.                                         *)
(***************************************************************************)
Rose(g, button) == button \in g.current.pressed \ g.previous.pressed

PovEntered(g, directions) ==
  g.current.pov \in directions /\ g.previous.pov \notin directions

TakeFrame(g, frame) == [g EXCEPT !.previous = g.current, !.current = frame]

\* kGearShiftBrakeThreshold and kGearShiftMaxSpeed.
CanShift(g) == g.current.brake > 20 /\ g.vehicle.stopped

RequestedGear(frame) ==
  IF "select" \in frame.pressed \/ {"l3", "r3"} \subseteq frame.pressed
  THEN "NEUTRAL"
  ELSE IF "l3" \in frame.pressed THEN "DRIVE"
  ELSE IF "r3" \in frame.pressed THEN "REVERSE"
  ELSE "NO_CONTROL"

\* Mutant for ReverseLightAgrees: only reverse gear touches the light.
UpdateGearOnlyLighting(g) ==
  LET gear == RequestedGear(g.current)
  IN  IF CanShift(g) /\ gear # "NO_CONTROL"
      THEN [g EXCEPT !.command.gear = gear,
                     !.command.switch["light_reverse"] =
                         IF gear = "REVERSE" THEN "ON" ELSE @]
      ELSE g

UpdateGear(g) ==
  LET gear == RequestedGear(g.current)
  IN  IF CanShift(g) /\ gear # "NO_CONTROL"
      THEN [g EXCEPT !.command =
              [@ EXCEPT !.gear = gear,
                        !.switch["light_reverse"] = SwitchTo(gear = "REVERSE")]]
      ELSE g

\* The switches whose button went down, or whose hat direction was entered.
ToggledByInput(g) ==
  {s \in LatchedSwitch :
     \/ s = "window_wiper" /\ Rose(g, "l2")
     \/ s = "light_fog" /\ Rose(g, "square")
     \/ s = "diff_lock" /\ Rose(g, "start")
     \/ s = "light_near" /\ Rose(g, "cross")
     \/ s = "light_far" /\ Rose(g, "triangle")
     \/ s = "light_double_flash" /\ Rose(g, "circle")
     \/ s = "light_turn_left" /\ PovEntered(g, PovLeft)
     \/ s = "light_turn_right" /\ PovEntered(g, PovRight)}

Headlights == {"light_near", "light_far"}

\* Mutant for LightGroupAgrees: the group follows both headlights, not any.
LinkLightGroupToBoth(g, switch) ==
  LET lit == \A s \in Headlights : RequestedState(switch[s], g.vehicle.on[s])
  IN  [s \in LatchedSwitch |->
         IF s \in LightGroup THEN SwitchTo(lit) ELSE switch[s]]

\* A change of either headlight drives the whole group to "any headlight on".
LinkLightGroup(g, switch) ==
  LET lit == \E s \in Headlights : RequestedState(switch[s], g.vehicle.on[s])
  IN  [s \in LatchedSwitch |->
         IF s \in LightGroup THEN SwitchTo(lit) ELSE switch[s]]

UpdateToggleControls(g) ==
  LET pressed == ToggledByInput(g)
      switch == Toggled(g, pressed)
  IN  [g EXCEPT !.command.switch =
         IF pressed \cap Headlights # {} THEN LinkLightGroup(g, switch)
                                         ELSE switch]

ResetRemoteRotation(g) ==
  [g EXCEPT !.cw = 0, !.ccw = 0, !.lastRotation = NoTime]

ExpireRotation(g, now) ==
  IF g.lastRotation # NoTime /\ now - g.lastRotation > RotationTimeout
  THEN ResetRemoteRotation(g)
  ELSE g

\* Mutant for DialDecides: turning one way leaves the other way's count.
CountRotationBothWays(g, now) ==
  LET clockwise == Rose(g, "encoder_clockwise")
      counter == Rose(g, "encoder_counter_clockwise")
  IN  IF clockwise /\ counter THEN ResetRemoteRotation(g)
      ELSE IF clockwise THEN [g EXCEPT !.cw = @ + 1, !.lastRotation = now]
      ELSE IF counter THEN [g EXCEPT !.ccw = @ + 1, !.lastRotation = now]
      ELSE g

CountRotation(g, now) ==
  LET clockwise == Rose(g, "encoder_clockwise")
      counter == Rose(g, "encoder_counter_clockwise")
  IN  IF clockwise /\ counter THEN ResetRemoteRotation(g)
      ELSE IF clockwise
      THEN [g EXCEPT !.cw = @ + 1, !.ccw = 0, !.lastRotation = now]
      ELSE IF counter
      THEN [g EXCEPT !.ccw = @ + 1, !.cw = 0, !.lastRotation = now]
      ELSE g

ResetCommandForRemoteEntry(g) ==
  [g EXCEPT !.command = EmptyCommand,
            !.holdStart = [c \in Combo |-> NoTime]]

\* Mutant for FreshRemoteSession: entering keeps what was latched before.
SubmitRequestKeepingCommand(g) ==
  IF g.cw >= RotationThreshold THEN [g EXCEPT !.command.mode = "ENTER"]
  ELSE IF g.ccw >= RotationThreshold THEN [g EXCEPT !.command.mode = "EXIT"]
  ELSE g

SubmitRequest(g) ==
  IF g.cw >= RotationThreshold
  THEN [ResetCommandForRemoteEntry(g) EXCEPT !.command.mode = "ENTER"]
  ELSE IF g.ccw >= RotationThreshold
  THEN [g EXCEPT !.command.mode = "EXIT"]
  ELSE g

UpdateRemoteModeRequest(g, now) ==
  LET counted == CountRotation(ExpireRotation(g, now), now)
  IN  IF Rose(g, "encoder_confirm")
      THEN ResetRemoteRotation(SubmitRequest(counted))
      ELSE counted

\* Mutant for CommandEncodable: the wheel turns past kMaxSteeringDegrees.
UpdateContinuousControlsUnscaled(g) ==
  [g EXCEPT !.command =
     [@ EXCEPT !.steering = g.current.wheel * 100,
               !.accelerator = g.current.accelerator,
               !.brake = g.current.brake,
               !.horn = HoldTo(g.current.pov \in PovUp),
               !.spray = HoldTo("r2" \in g.current.pressed),
               !.light_brake = SwitchTo(g.current.brake > 0)]]

UpdateContinuousControls(g) ==
  [g EXCEPT !.command =
     [@ EXCEPT !.steering = g.current.wheel * 90,
               !.accelerator = g.current.accelerator,
               !.brake = g.current.brake,
               !.horn = HoldTo(g.current.pov \in PovUp),
               !.spray = HoldTo("r2" \in g.current.pressed),
               !.light_brake = SwitchTo(g.current.brake > 0)]]

RequestedBucket(frame) ==
  LET keys == frame.pressed \cap {"plus", "minus"}
  IN  IF keys = {"plus"} THEN "UP"
      ELSE IF keys = {"minus"} THEN "DOWN" ELSE "NO_CONTROL"

UpdateBucket(g) ==
  [g EXCEPT !.command.bucket = RequestedBucket(g.current)]

\* kParkingClutchThreshold and kEmergencyBrakeThreshold.
ComboHeld(c, frame) ==
  IF c = "parking"
  THEN frame.clutch > 20 /\ "l1" \in frame.pressed /\ "r1" \notin frame.pressed
  ELSE frame.brake > 20 /\ "r1" \in frame.pressed

\* Mutant for HoldsTrackCombo: releasing the combination does not stop the
\* timer.
UpdateHoldsOnPressOnly(g, now) ==
  [g EXCEPT !.holdStart = [c \in Combo |->
     IF ComboHeld(c, g.current) /\ ~ComboHeld(c, g.previous)
     THEN now ELSE g.holdStart[c]]]

UpdateHolds(g, now) ==
  [g EXCEPT !.holdStart = [c \in Combo |->
     IF ~ComboHeld(c, g.current) THEN NoTime
     ELSE IF ~ComboHeld(c, g.previous) THEN now
     ELSE g.holdStart[c]]]

(***************************************************************************)
(* The public methods.                                                     *)
(***************************************************************************)
\* Mutant for ContinuousFollowsInput: the pedals are mapped before the dial,
\* whose request then clears them.
ProcessInputStatePedalsFirst(g, frame, now) ==
  LET latched == UpdateToggleControls(UpdateGear(TakeFrame(g, frame)))
      mapped == UpdateBucket(UpdateContinuousControls(latched))
  IN  UpdateHolds(UpdateRemoteModeRequest(mapped, now), now)

ProcessInputState(g, frame, now) ==
  LET latched == UpdateToggleControls(UpdateGear(TakeFrame(g, frame)))
      requested == UpdateRemoteModeRequest(latched, now)
  IN  UpdateHolds(UpdateBucket(UpdateContinuousControls(requested)), now)

HoldElapsed(g, c, now) ==
  g.holdStart[c] # NoTime /\ now - g.holdStart[c] >= HoldDuration

\* Mutant for HoldFiresOnce: the timer keeps running after it fired.
GenerateCommandKeepingHold(g, now) ==
  [g EXCEPT !.command.switch =
     Toggled(g, {c \in Combo : HoldElapsed(g, c, now)})]

\* The object after generateCommand; the command it returns is the object's.
GenerateCommand(g, now) ==
  LET fired == {c \in Combo : HoldElapsed(g, c, now)}
  IN  [g EXCEPT !.command.switch = Toggled(g, fired),
                !.holdStart = [c \in Combo |->
                   IF c \in fired THEN NoTime ELSE g.holdStart[c]]]

ExitCommand == [EmptyCommand EXCEPT !.mode = "EXIT"]

\* Mutant for EntryIsConfirmed: any report confirms the request.
ModeConfirmedByAnyReport(request, mode) == request # "NONE"

ModeConfirmed(request, mode) ==
  \/ request = "ENTER" /\ mode = "REMOTE"
  \/ request = "EXIT" /\ mode # "REMOTE"

SyncVehicleState(g, state) ==
  LET c == g.command
  IN  [g EXCEPT
        !.vehicle = state,
        !.command = [c EXCEPT
          !.mode = IF ModeConfirmed(c.mode, state.drive_mode)
                   THEN "NONE" ELSE c.mode,
          !.gear = ClearConfirmedGear(c.gear, state.gear),
          !.switch = [s \in LatchedSwitch |->
             ClearConfirmedSwitch(c.switch[s], state.on[s])]]]
=============================================================================
