-------------------------- MODULE GeneratorOpsProofs --------------------------
(***************************************************************************)
(* Lemmas about the methods of the generator, for every object and every   *)
(* argument of their types: first that each step keeps the object well     *)
(* typed, in the order the code calls them, then what each step changes    *)
(* and what it leaves alone.  The state machines that contain a generator  *)
(* are proved from them.                                                   *)
(***************************************************************************)
EXTENDS GeneratorOps, TLAPS

(***************************************************************************)
(* Types of the switches and of the two messages.                          *)
(***************************************************************************)

LEMMA SwitchToType ==
  ASSUME NEW enabled \in BOOLEAN
  PROVE  SwitchTo(enabled) \in SwitchCommand
BY DEF SwitchTo, SwitchCommand

LEMMA EmptyCommandType == EmptyCommand \in ControlCommand
BY DEF EmptyCommand, ControlCommand, GearCommand, GearState, BucketCommand,
       RemoteModeRequest, HoldCommand, SwitchCommand

LEMMA NewGeneratorType == NewGenerator \in Generator
<1>1. Released \in Frame
  BY DEF Released, Frame, PovDirection
<1>2. [EmptyVehicleState EXCEPT !.on["parking"] = TRUE] \in VehicleState
  BY DEF EmptyVehicleState, VehicleState, CockpitId, DriveMode, GearState
<1> QED
  BY <1>1, <1>2, EmptyCommandType DEF NewGenerator, Generator, Time, NoTime

LEMMA ToggledType ==
  ASSUME NEW g \in Generator, NEW S
  PROVE  Toggled(g, S) \in [LatchedSwitch -> SwitchCommand]
BY DEF Toggled, ToggleSwitch, RequestedState, SwitchTo, SwitchCommand,
       Generator, ControlCommand, VehicleState

\* Replacing the switches of the command, or the whole command, keeps the type.
LEMMA SwitchesReplaced ==
  ASSUME NEW g \in Generator, NEW s \in [LatchedSwitch -> SwitchCommand]
  PROVE  [g EXCEPT !.command.switch = s] \in Generator
BY DEF Generator, ControlCommand

LEMMA TakeFrameType ==
  ASSUME NEW g \in Generator, NEW frame \in Frame
  PROVE  TakeFrame(g, frame) \in Generator
BY DEF TakeFrame, Generator

LEMMA UpdateGearType ==
  ASSUME NEW g \in Generator
  PROVE  UpdateGear(g) \in Generator
<1> DEFINE gear == RequestedGear(g.current)
<1>1. gear \in GearCommand
  BY DEF RequestedGear, GearCommand, GearState
<1>2. SwitchTo(gear = "REVERSE") \in SwitchCommand
  BY SwitchToType
<1> QED
  BY <1>1, <1>2 DEF UpdateGear, Generator, ControlCommand

LEMMA UpdateToggleControlsType ==
  ASSUME NEW g \in Generator
  PROVE  UpdateToggleControls(g) \in Generator
<1> DEFINE switch == Toggled(g, ToggledByInput(g))
<1>1. switch \in [LatchedSwitch -> SwitchCommand]
  BY ToggledType
<1>2. LinkLightGroup(g, switch) \in [LatchedSwitch -> SwitchCommand]
  BY <1>1, SwitchToType DEF LinkLightGroup
<1> HIDE DEF switch
<1> QED
  BY <1>1, <1>2, SwitchesReplaced DEF UpdateToggleControls, switch

LEMMA RotationReplaced ==
  ASSUME NEW g \in Generator, NEW up \in Nat, NEW down \in Nat,
         NEW last \in Time
  PROVE  /\ [g EXCEPT !.cw = up, !.ccw = down, !.lastRotation = last]
              \in Generator
         /\ [g EXCEPT !.ccw = up, !.cw = down, !.lastRotation = last]
              \in Generator
BY DEF Generator

LEMMA ResetRemoteRotationType ==
  ASSUME NEW g \in Generator
  PROVE  ResetRemoteRotation(g) \in Generator
<1>1. NoTime \in Time
  BY DEF Time
<1> QED
  BY <1>1, RotationReplaced DEF ResetRemoteRotation

LEMMA CountRotationType ==
  ASSUME NEW g \in Generator, NEW time \in Nat
  PROVE  CountRotation(ExpireRotation(g, time), time) \in Generator
<1> DEFINE e == ExpireRotation(g, time)
<1>1. e \in Generator
  BY ResetRemoteRotationType DEF ExpireRotation
<1> HIDE DEF e
<1>2. e.cw + 1 \in Nat /\ e.ccw + 1 \in Nat /\ time \in Time
  BY <1>1 DEF Generator, Time
<1>3. CountRotation(e, time) \in Generator
  BY <1>1, <1>2, RotationReplaced, ResetRemoteRotationType DEF CountRotation
<1> QED
  BY <1>3 DEF e

LEMMA ResetForEntryType ==
  ASSUME NEW g \in Generator
  PROVE  ResetCommandForRemoteEntry(g) \in Generator
BY EmptyCommandType DEF ResetCommandForRemoteEntry, Generator, Time, NoTime

LEMMA RequestType ==
  ASSUME NEW g \in Generator, NEW request \in RemoteModeRequest
  PROVE  [g EXCEPT !.command.mode = request] \in Generator
BY DEF Generator, ControlCommand

LEMMA UpdateRemoteModeRequestType ==
  ASSUME NEW g \in Generator, NEW time \in Nat
  PROVE  UpdateRemoteModeRequest(g, time) \in Generator
<1> DEFINE counted == CountRotation(ExpireRotation(g, time), time)
<1>1. counted \in Generator
  BY CountRotationType
<1> HIDE DEF counted
<1>2. {"ENTER", "EXIT"} \subseteq RemoteModeRequest
  BY DEF RemoteModeRequest
<1>3. SubmitRequest(counted) \in Generator
  BY <1>1, <1>2, ResetForEntryType, RequestType DEF SubmitRequest
<1> QED
  BY <1>1, <1>3, ResetRemoteRotationType DEF UpdateRemoteModeRequest, counted

LEMMA UpdateContinuousControlsType ==
  ASSUME NEW g \in Generator
  PROVE  UpdateContinuousControls(g) \in Generator
<1> DEFINE f == g.current
           command == [g.command EXCEPT
                         !.steering = f.wheel * 90,
                         !.accelerator = f.accelerator,
                         !.brake = f.brake,
                         !.horn = HoldTo(f.pov \in PovUp),
                         !.spray = HoldTo("r2" \in f.pressed),
                         !.light_brake = SwitchTo(f.brake > 0)]
<1>1. f \in Frame /\ g.command \in ControlCommand
  BY DEF Generator
<1>2. f.wheel * 90 \in Int /\ f.accelerator \in Int /\ f.brake \in Int
  BY <1>1 DEF Frame
<1>3. /\ HoldTo(f.pov \in PovUp) \in HoldCommand
      /\ HoldTo("r2" \in f.pressed) \in HoldCommand
      /\ SwitchTo(f.brake > 0) \in SwitchCommand
  BY DEF HoldTo, HoldCommand, SwitchTo, SwitchCommand
<1>4. command \in ControlCommand
  BY <1>1, <1>2, <1>3 DEF ControlCommand
<1>5. UpdateContinuousControls(g) = [g EXCEPT !.command = command]
  BY DEF UpdateContinuousControls, Generator
<1> QED
  BY <1>4, <1>5 DEF Generator

LEMMA UpdateBucketType ==
  ASSUME NEW g \in Generator
  PROVE  UpdateBucket(g) \in Generator
<1>1. RequestedBucket(g.current) \in BucketCommand
  BY DEF RequestedBucket, BucketCommand
<1> QED
  BY <1>1 DEF UpdateBucket, Generator, ControlCommand

LEMMA UpdateHoldsType ==
  ASSUME NEW g \in Generator, NEW time \in Nat
  PROVE  UpdateHolds(g, time) \in Generator
BY DEF UpdateHolds, Generator, Time

LEMMA ProcessInputStateType ==
  ASSUME NEW g \in Generator, NEW frame \in Frame, NEW time \in Nat
  PROVE  ProcessInputState(g, frame, time) \in Generator
BY TakeFrameType, UpdateGearType, UpdateToggleControlsType,
   UpdateRemoteModeRequestType, UpdateContinuousControlsType,
   UpdateBucketType, UpdateHoldsType
   DEF ProcessInputState

LEMMA GenerateCommandType ==
  ASSUME NEW g \in Generator, NEW time \in Nat
  PROVE  GenerateCommand(g, time) \in Generator
<1> DEFINE fired == {c \in Combo : HoldElapsed(g, c, time)}
           toggled == [g EXCEPT !.command.switch = Toggled(g, fired)]
           start == [c \in Combo |->
                       IF c \in fired THEN NoTime ELSE g.holdStart[c]]
<1>1. toggled \in Generator
  BY ToggledType, SwitchesReplaced
<1>2. start \in [Combo -> Time]
  BY DEF Generator, Time
<1>3. GenerateCommand(g, time) = [toggled EXCEPT !.holdStart = start]
  BY DEF GenerateCommand
<1> HIDE DEF toggled, start
<1> QED
  BY <1>1, <1>2, <1>3 DEF Generator

LEMMA SyncVehicleStateType ==
  ASSUME NEW g \in Generator, NEW state \in VehicleState
  PROVE  SyncVehicleState(g, state) \in Generator
<1> DEFINE c == g.command
           mode == IF ModeConfirmed(c.mode, state.drive_mode)
                   THEN "NONE" ELSE c.mode
           gear == ClearConfirmedGear(c.gear, state.gear)
           switch == [s \in LatchedSwitch |->
                        ClearConfirmedSwitch(c.switch[s], state.on[s])]
<1>1. c \in ControlCommand
  BY DEF Generator
<1>2. mode \in RemoteModeRequest /\ gear \in GearCommand
  BY <1>1 DEF ControlCommand, RemoteModeRequest, ClearConfirmedGear, GearCommand
<1>3. switch \in [LatchedSwitch -> SwitchCommand]
  BY <1>1 DEF ControlCommand, ClearConfirmedSwitch, SwitchCommand
<1>4. SyncVehicleState(g, state) =
        [g EXCEPT !.vehicle = state,
                  !.command = [c EXCEPT !.mode = mode, !.gear = gear,
                                        !.switch = switch]]
  BY DEF SyncVehicleState
<1> HIDE DEF mode, gear, switch
<1>5. [c EXCEPT !.mode = mode, !.gear = gear, !.switch = switch]
        \in ControlCommand
  BY <1>1, <1>2, <1>3 DEF ControlCommand
<1> QED
  BY <1>4, <1>5 DEF Generator

(***************************************************************************)
(* What each step of a frame leaves alone.  A frame is processed in three  *)
(* stages: the latched controls, the request of the dial, then the         *)
(* continuous controls and the holds.                                      *)
(***************************************************************************)
Latched(g, frame) == UpdateToggleControls(UpdateGear(TakeFrame(g, frame)))

Requested(g, frame, time) == UpdateRemoteModeRequest(Latched(g, frame), time)

NoHolds == [c \in Combo |-> NoTime]

LEMMA TakeFrameKeeps ==
  ASSUME NEW g \in Generator, NEW frame \in Frame
  PROVE  LET h == TakeFrame(g, frame)
         IN  /\ h.current = frame /\ h.previous = g.current
             /\ h.command = g.command /\ h.vehicle = g.vehicle
             /\ h.holdStart = g.holdStart
BY DEF TakeFrame, Generator

LEMMA UpdateGearKeeps ==
  ASSUME NEW g \in Generator
  PROVE  LET h == UpdateGear(g)
         IN  /\ h.current = g.current /\ h.previous = g.previous
             /\ h.vehicle = g.vehicle /\ h.holdStart = g.holdStart
             /\ \A s \in LatchedSwitch \ {"light_reverse"} :
                   h.command.switch[s] = g.command.switch[s]
BY DEF UpdateGear, Generator, ControlCommand

LEMMA UpdateToggleControlsKeeps ==
  ASSUME NEW g \in Generator
  PROVE  LET h == UpdateToggleControls(g)
         IN  /\ h.current = g.current /\ h.previous = g.previous
             /\ h.vehicle = g.vehicle /\ h.holdStart = g.holdStart
             /\ h.command.gear = g.command.gear
BY DEF UpdateToggleControls, Generator, ControlCommand

LEMMA LatchedKeeps ==
  ASSUME NEW g \in Generator, NEW frame \in Frame
  PROVE  LET h == Latched(g, frame)
         IN  /\ h \in Generator
             /\ h.current = frame /\ h.previous = g.current
             /\ h.vehicle = g.vehicle /\ h.holdStart = g.holdStart
<1> DEFINE taken == TakeFrame(g, frame)
           geared == UpdateGear(taken)
<1>1. /\ taken \in Generator
      /\ taken.current = frame /\ taken.previous = g.current
      /\ taken.vehicle = g.vehicle /\ taken.holdStart = g.holdStart
  BY TakeFrameType, TakeFrameKeeps
<1> HIDE DEF taken
<1>2. /\ geared \in Generator
      /\ geared.current = frame /\ geared.previous = g.current
      /\ geared.vehicle = g.vehicle /\ geared.holdStart = g.holdStart
  BY <1>1, UpdateGearType, UpdateGearKeeps
<1> HIDE DEF geared
<1>3. Latched(g, frame) = UpdateToggleControls(geared)
  BY DEF Latched, geared, taken
<1> QED
  BY <1>2, <1>3, UpdateToggleControlsType, UpdateToggleControlsKeeps

LEMMA CountRotationKeeps ==
  ASSUME NEW g \in Generator, NEW time \in Nat
  PROVE  LET h == CountRotation(ExpireRotation(g, time), time)
         IN  /\ h.current = g.current /\ h.previous = g.previous
             /\ h.vehicle = g.vehicle /\ h.holdStart = g.holdStart
             /\ h.command = g.command
<1> DEFINE e == ExpireRotation(g, time)
<1>1. /\ e \in Generator
      /\ e.current = g.current /\ e.previous = g.previous
      /\ e.vehicle = g.vehicle /\ e.holdStart = g.holdStart
      /\ e.command = g.command
  BY ResetRemoteRotationType DEF ExpireRotation, ResetRemoteRotation, Generator
<1> HIDE DEF e
<1>2. LET h == CountRotation(e, time)
      IN  /\ h.current = e.current /\ h.previous = e.previous
          /\ h.vehicle = e.vehicle /\ h.holdStart = e.holdStart
          /\ h.command = e.command
  BY <1>1 DEF CountRotation, ResetRemoteRotation, Generator
<1> QED
  BY <1>1, <1>2 DEF e

\* The dial touches, of the latched controls, all or nothing.
LEMMA RequestKeepsOrClears ==
  ASSUME NEW g \in Generator, NEW time \in Nat
  PROVE  LET h == UpdateRemoteModeRequest(g, time)
         IN  /\ h.current = g.current /\ h.previous = g.previous
             /\ h.vehicle = g.vehicle
             /\ \/ /\ h.command.gear = g.command.gear
                   /\ h.command.switch = g.command.switch
                   /\ h.holdStart = g.holdStart
                \/ /\ h.command.gear = "NO_CONTROL"
                   /\ h.command.switch = EmptyCommand.switch
                   /\ h.holdStart = NoHolds
<1> DEFINE k == CountRotation(ExpireRotation(g, time), time)
           r == SubmitRequest(k)
<1>1. /\ k \in Generator
      /\ k.current = g.current /\ k.previous = g.previous
      /\ k.vehicle = g.vehicle /\ k.holdStart = g.holdStart
      /\ k.command = g.command
  BY CountRotationType, CountRotationKeeps
<1>2. UpdateRemoteModeRequest(g, time) \in {k, ResetRemoteRotation(r)}
  BY DEF UpdateRemoteModeRequest
<1> HIDE DEF k
<1>3. /\ r.current = k.current /\ r.previous = k.previous
      /\ r.vehicle = k.vehicle
      /\ \/ /\ r.command.gear = k.command.gear
            /\ r.command.switch = k.command.switch
            /\ r.holdStart = k.holdStart
         \/ /\ r.command.gear = "NO_CONTROL"
            /\ r.command.switch = EmptyCommand.switch
            /\ r.holdStart = NoHolds
  BY <1>1 DEF SubmitRequest, ResetCommandForRemoteEntry, Generator,
              ControlCommand, EmptyCommand, NoHolds
<1>4. r \in Generator
  BY <1>1, ResetForEntryType, RequestType
     DEF SubmitRequest, RemoteModeRequest
<1> HIDE DEF r
<1>5. LET h == ResetRemoteRotation(r)
      IN  /\ h.current = r.current /\ h.previous = r.previous
          /\ h.vehicle = r.vehicle /\ h.command = r.command
          /\ h.holdStart = r.holdStart
  BY <1>4 DEF ResetRemoteRotation, Generator
<1> QED
  BY <1>1, <1>2, <1>3, <1>5

LEMMA RequestedKeepsOrClears ==
  ASSUME NEW g \in Generator, NEW frame \in Frame, NEW time \in Nat
  PROVE  LET r == Requested(g, frame, time)
             l == Latched(g, frame)
         IN  /\ r \in Generator
             /\ r.current = frame /\ r.previous = g.current
             /\ r.vehicle = g.vehicle
             /\ \/ /\ r.command.gear = l.command.gear
                   /\ r.command.switch = l.command.switch
                   /\ r.holdStart = g.holdStart
                \/ /\ r.command.gear = "NO_CONTROL"
                   /\ r.command.switch = EmptyCommand.switch
                   /\ r.holdStart = NoHolds
BY LatchedKeeps, UpdateRemoteModeRequestType, RequestKeepsOrClears
   DEF Requested

\* The steps before the dial and after it leave it alone.
LEMMA LatchedDial ==
  ASSUME NEW g \in Generator, NEW frame \in Frame
  PROVE  LET h == Latched(g, frame)
         IN  /\ h.cw = g.cw /\ h.ccw = g.ccw /\ h.lastRotation = g.lastRotation
             /\ h.command.mode = g.command.mode
<1> DEFINE t == TakeFrame(g, frame)
           u == UpdateGear(t)
<1>1. t \in Generator /\ t.cw = g.cw /\ t.ccw = g.ccw
      /\ t.lastRotation = g.lastRotation /\ t.command = g.command
  BY TakeFrameType DEF TakeFrame, Generator
<1> HIDE DEF t
<1>2. /\ u \in Generator /\ u.cw = t.cw /\ u.ccw = t.ccw
      /\ u.lastRotation = t.lastRotation
      /\ u.command.mode = t.command.mode
  BY <1>1, UpdateGearType DEF UpdateGear, Generator, ControlCommand
<1> HIDE DEF u
<1>3. LET h == UpdateToggleControls(u)
      IN  /\ h.cw = u.cw /\ h.ccw = u.ccw /\ h.lastRotation = u.lastRotation
          /\ h.command.mode = u.command.mode
  BY <1>2 DEF UpdateToggleControls, Generator, ControlCommand
<1> QED
  BY <1>1, <1>2, <1>3 DEF Latched, t, u

LEMMA RestDial ==
  ASSUME NEW g \in Generator, NEW time \in Nat
  PROVE  LET h == UpdateHolds(UpdateBucket(UpdateContinuousControls(g)), time)
         IN  /\ h.cw = g.cw /\ h.ccw = g.ccw /\ h.lastRotation = g.lastRotation
             /\ h.command.mode = g.command.mode
<1> DEFINE u == UpdateContinuousControls(g)
           b == UpdateBucket(u)
<1>1. /\ u \in Generator /\ u.cw = g.cw /\ u.ccw = g.ccw
      /\ u.lastRotation = g.lastRotation
      /\ u.command.mode = g.command.mode
  BY UpdateContinuousControlsType
     DEF UpdateContinuousControls, Generator, ControlCommand
<1> HIDE DEF u
<1>2. /\ b \in Generator /\ b.cw = u.cw /\ b.ccw = u.ccw
      /\ b.lastRotation = u.lastRotation
      /\ b.command.mode = u.command.mode
  BY <1>1, UpdateBucketType DEF UpdateBucket, Generator, ControlCommand
<1> HIDE DEF b
<1>3. LET h == UpdateHolds(b, time)
      IN  h.cw = b.cw /\ h.ccw = b.ccw /\ h.lastRotation = b.lastRotation
          /\ h.command = b.command
  BY <1>2 DEF UpdateHolds, Generator
<1> QED
  BY <1>1, <1>2, <1>3 DEF u, b

FollowsFrame(c, f) ==
  /\ c.steering = f.wheel * 90
  /\ c.accelerator = f.accelerator
  /\ c.brake = f.brake
  /\ c.horn = HoldTo(f.pov \in PovUp)
  /\ c.spray = HoldTo("r2" \in f.pressed)
  /\ c.light_brake = SwitchTo(f.brake > 0)
  /\ c.bucket = RequestedBucket(f)

\* The last stage: the continuous controls come from the frame, the latched ones
\* from the stages before, the holds from the two frames.
NextHolds(start, before, after, time) ==
  [c \in Combo |-> IF ~ComboHeld(c, after) THEN NoTime
                   ELSE IF ~ComboHeld(c, before) THEN time
                   ELSE start[c]]

LEMMA ProcessInputStateFields ==
  ASSUME NEW g \in Generator, NEW frame \in Frame, NEW time \in Nat
  PROVE  LET p == ProcessInputState(g, frame, time)
             r == Requested(g, frame, time)
         IN  /\ p.current = frame /\ p.vehicle = g.vehicle
             /\ p.command.gear = r.command.gear
             /\ p.command.switch = r.command.switch
             /\ FollowsFrame(p.command, frame)
             /\ p.holdStart = NextHolds(r.holdStart, g.current, frame, time)
<1> DEFINE r == Requested(g, frame, time)
           u == UpdateContinuousControls(r)
           b == UpdateBucket(u)
<1>1. /\ r \in Generator /\ r.current = frame /\ r.previous = g.current
      /\ r.vehicle = g.vehicle
  BY RequestedKeepsOrClears
<1>2. ProcessInputState(g, frame, time) = UpdateHolds(b, time)
  BY DEF ProcessInputState, Requested, Latched
<1> HIDE DEF r
<1>3. /\ u.current = frame /\ u.previous = g.current
      /\ u.vehicle = g.vehicle
      /\ u.holdStart = r.holdStart
      /\ u.command.gear = r.command.gear
      /\ u.command.switch = r.command.switch
      /\ u.command.steering = frame.wheel * 90
      /\ u.command.accelerator = frame.accelerator
      /\ u.command.brake = frame.brake
      /\ u.command.horn = HoldTo(frame.pov \in PovUp)
      /\ u.command.spray = HoldTo("r2" \in frame.pressed)
      /\ u.command.light_brake = SwitchTo(frame.brake > 0)
  BY <1>1 DEF UpdateContinuousControls, Generator, ControlCommand
<1>4. u \in Generator
  BY <1>1, UpdateContinuousControlsType
<1> HIDE DEF u
<1>5. /\ b.current = u.current /\ b.previous = u.previous
      /\ b.vehicle = u.vehicle
      /\ b.holdStart = u.holdStart
      /\ b.command = [u.command EXCEPT !.bucket = RequestedBucket(u.current)]
  BY <1>4 DEF UpdateBucket, Generator
<1>6. b \in Generator /\ u.command \in ControlCommand
  BY <1>4, UpdateBucketType DEF Generator
<1> HIDE DEF b
<1>7. LET p == UpdateHolds(b, time)
      IN  /\ p.current = b.current /\ p.command = b.command
          /\ p.vehicle = b.vehicle
          /\ p.holdStart =
               NextHolds(b.holdStart, b.previous, b.current, time)
  BY <1>6 DEF UpdateHolds, NextHolds, Generator
<1>8. /\ b.command.bucket = RequestedBucket(u.current)
      /\ b.command.gear = u.command.gear
      /\ b.command.switch = u.command.switch
      /\ b.command.steering = u.command.steering
      /\ b.command.accelerator = u.command.accelerator
      /\ b.command.brake = u.command.brake
      /\ b.command.horn = u.command.horn
      /\ b.command.spray = u.command.spray
      /\ b.command.light_brake = u.command.light_brake
  BY <1>5, <1>6 DEF ControlCommand
<1>9. FollowsFrame(b.command, frame)
  BY <1>3, <1>8 DEF FollowsFrame
<1> QED
  BY <1>2, <1>3, <1>5, <1>7, <1>8, <1>9 DEF r

(***************************************************************************)
(* What the latched stage does to the linked controls.                     *)
(***************************************************************************)
GearAgreesWithLight(gear, light) ==
  /\ gear = "REVERSE" => light # "OFF"
  /\ gear \in {"NEUTRAL", "DRIVE"} => light # "ON"

GroupAgrees(switch) ==
  /\ (\E s \in Headlights : switch[s] = "ON") =>
        \A l \in LightGroup : switch[l] # "OFF"
  /\ \A l, m \in LightGroup : ~(switch[l] = "ON" /\ switch[m] = "OFF")

LEMMA LatchedGearAgrees ==
  ASSUME NEW g \in Generator, NEW frame \in Frame,
         GearAgreesWithLight(g.command.gear,
                             g.command.switch["light_reverse"])
  PROVE  LET c == Latched(g, frame).command
         IN  GearAgreesWithLight(c.gear, c.switch["light_reverse"])
<1> DEFINE taken == TakeFrame(g, frame)
           geared == UpdateGear(taken)
           toggled == UpdateToggleControls(geared)
<1>1. taken \in Generator /\ taken.command = g.command
  BY TakeFrameType, TakeFrameKeeps
<1> HIDE DEF taken
<1>2. "light_reverse" \in LatchedSwitch
  BY DEF LatchedSwitch
<1>3. GearAgreesWithLight(geared.command.gear,
                          geared.command.switch["light_reverse"])
  <2> DEFINE gear == RequestedGear(taken.current)
             light == SwitchTo(gear = "REVERSE")
  <2>1. CASE geared = taken
    BY <1>1, <2>1
  <2>2. CASE geared # taken
    <3>1. geared.command.gear = gear
          /\ geared.command.switch["light_reverse"] = light
      BY <1>1, <1>2, <2>2 DEF UpdateGear, Generator, ControlCommand
    <3>2. GearAgreesWithLight(gear, light)
      BY DEF GearAgreesWithLight, SwitchTo
    <3> QED
      BY <3>1, <3>2
  <2> QED
    BY <2>1, <2>2
<1>4. geared \in Generator
  BY <1>1, UpdateGearType
<1> HIDE DEF geared
<1>5. toggled.command.gear = geared.command.gear
  BY <1>4, UpdateToggleControlsKeeps
<1>6. toggled.command.switch["light_reverse"]
        = geared.command.switch["light_reverse"]
  <2>1. /\ "light_reverse" \notin ToggledByInput(geared)
        /\ "light_reverse" \notin LightGroup
    BY DEF ToggledByInput, LightGroup
  <2> QED
    BY <1>2, <1>4, <2>1
       DEF UpdateToggleControls, LinkLightGroup, Toggled, Generator,
           ControlCommand
<1> QED
  BY <1>3, <1>5, <1>6 DEF Latched, geared, taken

LEMMA LatchedGroupAgrees ==
  ASSUME NEW g \in Generator, NEW frame \in Frame,
         GroupAgrees(g.command.switch)
  PROVE  GroupAgrees(Latched(g, frame).command.switch)
<1> DEFINE geared == UpdateGear(TakeFrame(g, frame))
           switch == geared.command.switch
           pressed == ToggledByInput(geared)
           toggled == Toggled(geared, pressed)
           linked == LinkLightGroup(geared, toggled)
<1>1. geared \in Generator
  BY TakeFrameType, UpdateGearType
<1>2. \A s \in LatchedSwitch \ {"light_reverse"} :
         switch[s] = g.command.switch[s]
  BY TakeFrameType, TakeFrameKeeps, UpdateGearKeeps
<1>3. /\ Headlights \subseteq LatchedSwitch \ {"light_reverse"}
      /\ LightGroup \subseteq LatchedSwitch \ {"light_reverse"}
      /\ Headlights \cap LightGroup = {}
      /\ LightGroup \cap pressed = {}
  BY DEF Headlights, LightGroup, LatchedSwitch, ToggledByInput
<1>4. Latched(g, frame).command.switch =
        IF pressed \cap Headlights # {} THEN linked ELSE toggled
  BY <1>1 DEF Latched, UpdateToggleControls, Generator, ControlCommand
<1> HIDE DEF geared
<1>5. toggled \in [LatchedSwitch -> SwitchCommand]
  BY <1>1, ToggledType
<1>6. CASE pressed \cap Headlights = {}
  <2>1. \A s \in Headlights \cup LightGroup :
           toggled[s] = g.command.switch[s]
    BY <1>2, <1>3, <1>6 DEF Toggled
  <2> QED
    BY <1>4, <1>6, <2>1 DEF GroupAgrees
<1>7. CASE pressed \cap Headlights # {}
  <2> HIDE DEF toggled
  <2> DEFINE lit == \E s \in Headlights :
                       RequestedState(toggled[s], geared.vehicle.on[s])
  <2>1. \A l \in LightGroup : linked[l] = SwitchTo(lit)
    BY <1>3 DEF LinkLightGroup
  <2>2. \A s \in Headlights : linked[s] = toggled[s]
    BY <1>3 DEF LinkLightGroup
  <2>3. (\E s \in Headlights : linked[s] = "ON") => lit
    BY <2>2 DEF RequestedState
  <2> HIDE DEF linked, lit
  <2>4. GroupAgrees(linked)
    BY <2>1, <2>3 DEF GroupAgrees, SwitchTo
  <2> QED
    BY <1>4, <1>7, <2>4
<1> QED
  BY <1>6, <1>7

LEMMA NothingAgrees ==
  /\ GearAgreesWithLight("NO_CONTROL", EmptyCommand.switch["light_reverse"])
  /\ GroupAgrees(EmptyCommand.switch)
BY DEF GearAgreesWithLight, GroupAgrees, EmptyCommand, Headlights, LightGroup,
       LatchedSwitch

LEMMA SyncKeeps ==
  ASSUME NEW g \in Generator, NEW state \in VehicleState
  PROVE  LET h == SyncVehicleState(g, state)
         IN  /\ h.current = g.current /\ h.previous = g.previous
             /\ h.holdStart = g.holdStart
             /\ h.command.gear \in {g.command.gear, "NO_CONTROL"}
             /\ \A s \in LatchedSwitch :
                   h.command.switch[s] \in {g.command.switch[s], "NO_CONTROL"}
             /\ h.command.steering = g.command.steering
             /\ h.command.accelerator = g.command.accelerator
             /\ h.command.brake = g.command.brake
             /\ h.command.horn = g.command.horn
             /\ h.command.spray = g.command.spray
             /\ h.command.light_brake = g.command.light_brake
             /\ h.command.bucket = g.command.bucket
BY DEF SyncVehicleState, ClearConfirmedGear, ClearConfirmedSwitch, Generator,
       ControlCommand

ChangesCombosOnly(before, after) ==
  /\ after = [before EXCEPT !.switch = after.switch]
  /\ \A s \in LatchedSwitch \ Combo : after.switch[s] = before.switch[s]

LEMMA GenerateKeeps ==
  ASSUME NEW g \in Generator, NEW time \in Nat
  PROVE  LET h == GenerateCommand(g, time)
         IN  /\ h.current = g.current /\ h.vehicle = g.vehicle
             /\ \A c \in Combo : h.holdStart[c] \in {g.holdStart[c], NoTime}
             /\ ChangesCombosOnly(g.command, h.command)
<1> DEFINE fired == {c \in Combo : HoldElapsed(g, c, time)}
           s == Toggled(g, fired)
           h == GenerateCommand(g, time)
<1>1. s \in [LatchedSwitch -> SwitchCommand]
  BY ToggledType
<1>2. \A x \in LatchedSwitch \ Combo : s[x] = g.command.switch[x]
  BY DEF Toggled
<1>3. /\ h.current = g.current /\ h.vehicle = g.vehicle
      /\ h.command = [g.command EXCEPT !.switch = s]
  BY DEF GenerateCommand, Generator
<1>4. \A c \in Combo : h.holdStart[c] \in {g.holdStart[c], NoTime}
  BY DEF GenerateCommand, Generator
<1>5. ChangesCombosOnly(g.command, h.command)
  <2>1. g.command \in ControlCommand
    BY DEF Generator
  <2>2. h.command.switch = s
    BY <1>3, <2>1 DEF ControlCommand
  <2> QED
    BY <1>2, <1>3, <2>2 DEF ChangesCombosOnly
<1> QED
  BY <1>3, <1>4, <1>5

\* A generator without input, command or running hold stays so on its own.
Neutral(g) ==
  /\ g.current = Released
  /\ g.command = EmptyCommand
  /\ g.holdStart = NoHolds

LEMMA NeutralStays ==
  ASSUME NEW g \in Generator, Neutral(g)
  PROVE  /\ \A state \in VehicleState : Neutral(SyncVehicleState(g, state))
         /\ \A time \in Nat : Neutral(GenerateCommand(g, time))
<1>1. ASSUME NEW state \in VehicleState
      PROVE  Neutral(SyncVehicleState(g, state))
  <2> DEFINE h == SyncVehicleState(g, state)
             c == g.command
             mode == IF ModeConfirmed(c.mode, state.drive_mode)
                     THEN "NONE" ELSE c.mode
             gear == ClearConfirmedGear(c.gear, state.gear)
             switch == [s \in LatchedSwitch |->
                          ClearConfirmedSwitch(c.switch[s], state.on[s])]
  <2>1. switch = EmptyCommand.switch
    BY DEF Neutral, ClearConfirmedSwitch, SwitchTo, EmptyCommand
  <2>2. mode = "NONE" /\ gear = "NO_CONTROL"
    BY DEF Neutral, EmptyCommand, ClearConfirmedGear
  <2>3. /\ h.current = g.current /\ h.holdStart = g.holdStart
        /\ h.command = [c EXCEPT !.mode = mode, !.gear = gear,
                                 !.switch = switch]
    BY DEF SyncVehicleState, Generator
  <2> HIDE DEF switch, mode, gear
  <2>4. [EmptyCommand EXCEPT !.mode = "NONE", !.gear = "NO_CONTROL",
                             !.switch = EmptyCommand.switch] = EmptyCommand
    <3>1. EmptyCommand.mode = "NONE" /\ EmptyCommand.gear = "NO_CONTROL"
      BY DEF EmptyCommand
    <3> QED
      BY <3>1, EmptyCommandType DEF ControlCommand
  <2>5. h.command = EmptyCommand
    BY <2>1, <2>2, <2>3, <2>4 DEF Neutral
  <2> QED
    BY <2>3, <2>5 DEF Neutral
<1>2. ASSUME NEW time \in Nat
      PROVE  Neutral(GenerateCommand(g, time))
  <2> DEFINE fired == {c \in Combo : HoldElapsed(g, c, time)}
             h == GenerateCommand(g, time)
  <2>1. fired = {}
    BY DEF HoldElapsed, Neutral, NoHolds
  <2>2. Toggled(g, fired) = EmptyCommand.switch
    BY <2>1 DEF Toggled, Neutral, EmptyCommand
  <2>3. [c \in Combo |-> IF c \in fired THEN NoTime ELSE g.holdStart[c]]
          = NoHolds
    BY <2>1 DEF Neutral, NoHolds
  <2>4. /\ h.current = g.current
        /\ h.command = [g.command EXCEPT !.switch = Toggled(g, fired)]
        /\ h.holdStart =
             [c \in Combo |-> IF c \in fired THEN NoTime ELSE g.holdStart[c]]
    BY DEF GenerateCommand, Generator
  <2> HIDE DEF fired
  <2> QED
    BY <2>2, <2>3, <2>4 DEF Neutral, EmptyCommand
<1> QED
  BY <1>1, <1>2

LEMMA NewIsNeutral == Neutral(NewGenerator)
BY DEF Neutral, NewGenerator, NoHolds

\* kMaxSteeringDegrees is the largest angle the codec accepts.
LEMMA InRange ==
  ASSUME NEW f \in Frame, NEW c \in ControlCommand,
         c.steering = f.wheel * 90,
         c.accelerator = f.accelerator,
         c.brake = f.brake
  PROVE  ValidControlCommand(c)
<1>1. /\ f.wheel \in Int /\ -100 <= f.wheel /\ f.wheel <= 100
      /\ f.accelerator \in 0 .. 100
      /\ f.brake \in 0 .. 100
  BY DEF Frame
<1>2. -9000 <= c.steering /\ c.steering <= 9000
  BY <1>1
<1> QED
  BY <1>1, <1>2 DEF ValidControlCommand
=============================================================================
