----------------------- MODULE ControlCommandGenerator -----------------------
(***************************************************************************)
(* The generator as a component: its owner calls processInputState with    *)
(* the frames of the input device, generateCommand on the control period,  *)
(* syncVehicleState with the reports of the vehicle and reset, in any      *)
(* order, while the steady clock advances.                                 *)
(*                                                                         *)
(* dial and held are history variables: what the operator did, recorded    *)
(* without looking at the generator's counters and timers, so that the     *)
(* properties can say when a request was really asked for.                 *)
(***************************************************************************)
EXTENDS GeneratorOps, Sequences

CONSTANTS
  Frames,         \* the frames the input device may produce
  VehicleStates,  \* the states the vehicle may report
  MaxTime,        \* bound of the clock
  MaxClicks       \* bound of the rotation counters

ASSUME InputAssumption ==
  /\ Frames \subseteq Frame
  /\ VehicleStates \subseteq VehicleState
  /\ MaxTime \in Nat
  /\ MaxClicks \in Nat

VARIABLES
  generator,  \* the ControlCommandGenerator object
  now,        \* the steady clock
  dial,       \* the last RotationThreshold events of the dial
  held        \* since when each combination is held, and whether it is spent

vars == <<generator, now, dial, held>>

NotHeld == [since |-> NoTime, spent |-> FALSE]

TypeOK ==
  /\ generator \in Generator
  /\ now \in Nat
  /\ dial \in Seq([turn: {"cw", "ccw", "both", "confirm"}, at: Nat])
  /\ held \in [Combo -> [since: Time, spent: BOOLEAN]]

Init ==
  /\ generator = NewGenerator
  /\ now = 0
  /\ dial = <<>>
  /\ held = [c \in Combo |-> NotHeld]

(***************************************************************************)
(* History: the events of the dial, and the combinations being held.       *)
(***************************************************************************)
Log(events, turn) ==
  LET longer == Append(events, [turn |-> turn, at |-> now])
  IN  IF Len(longer) > RotationThreshold THEN Tail(longer) ELSE longer

WentDown(frame) == frame.pressed \ generator.current.pressed

\* The events of the dial up to and including the turn this frame brings.
TurnsWith(frame) ==
  CASE {"encoder_clockwise", "encoder_counter_clockwise"}
          \subseteq WentDown(frame) -> Log(dial, "both")
    [] WentDown(frame) \cap {"encoder_clockwise", "encoder_counter_clockwise"}
          = {"encoder_clockwise"} -> Log(dial, "cw")
    [] WentDown(frame) \cap {"encoder_clockwise", "encoder_counter_clockwise"}
          = {"encoder_counter_clockwise"} -> Log(dial, "ccw")
    [] OTHER -> dial

Confirms(frame) == "encoder_confirm" \in WentDown(frame)

\* RotationThreshold turns one way in a row, no pause above RotationTimeout
\* between two of them or after the last.
Deliberate(turns, way) ==
  /\ Len(turns) = RotationThreshold
  /\ \A i \in 1 .. RotationThreshold :
        /\ turns[i].turn = way
        /\ (IF i = RotationThreshold THEN now ELSE turns[i + 1].at)
             - turns[i].at <= RotationTimeout

Enters(frame) == Confirms(frame) /\ Deliberate(TurnsWith(frame), "cw")

HeldWith(frame, c) ==
  IF ~ComboHeld(c, frame) THEN NotHeld
  ELSE IF held[c] = NotHeld THEN [since |-> now, spent |-> FALSE]
  ELSE [held[c] EXCEPT !.spent = @ \/ Enters(frame)]

Due(c) ==
  /\ held[c] # NotHeld
  /\ ~held[c].spent
  /\ now - held[c].since >= HoldDuration

(***************************************************************************)
(* The calls.                                                              *)
(***************************************************************************)
Input(frame) ==
  /\ generator.cw < MaxClicks /\ generator.ccw < MaxClicks
  /\ generator' = ProcessInputState(generator, frame, now)
  /\ dial' = IF Confirms(frame) THEN Log(TurnsWith(frame), "confirm")
                                ELSE TurnsWith(frame)
  /\ held' = [c \in Combo |-> HeldWith(frame, c)]
  /\ UNCHANGED now

Generate ==
  /\ generator' = GenerateCommand(generator, now)
  /\ held' = [c \in Combo |-> [held[c] EXCEPT !.spent = @ \/ Due(c)]]
  /\ UNCHANGED <<now, dial>>

Sync(state) ==
  /\ generator' = SyncVehicleState(generator, state)
  /\ UNCHANGED <<now, dial, held>>

Reset ==
  /\ generator' = NewGenerator
  /\ dial' = <<>>
  /\ held' = [c \in Combo |-> NotHeld]
  /\ UNCHANGED now

Tick ==
  /\ now < MaxTime
  /\ now' = now + 1
  /\ UNCHANGED <<generator, dial, held>>

Next ==
  \/ \E frame \in Frames : Input(frame)
  \/ Generate
  \/ \E state \in VehicleStates : Sync(state)
  \/ Reset
  \/ Tick

Spec == Init /\ [][Next]_vars

(***************************************************************************)
(* Properties.                                                             *)
(***************************************************************************)

\* The continuous controls of the command being sent are always those of the
\* latest frame, whatever reset them in between: accepting a request to enter
\* remote mode clears the whole command while the operator may be standing on
\* the brake, and the brake must still be in the command afterwards.
ContinuousFollowsInput ==
  LET c == generator.command
      f == generator.current
  IN  /\ c.steering = f.wheel * 90
      /\ c.accelerator = f.accelerator
      /\ c.brake = f.brake
      /\ c.horn = HoldTo(f.pov \in PovUp)
      /\ c.spray = HoldTo("r2" \in f.pressed)
      /\ c.bucket = RequestedBucket(f)
      /\ f.brake > 0 => c.light_brake = "ON"

\* A hold timer runs only while its combination is held in the latest frame,
\* and no timer comes from the future: a released combination can never fire,
\* and parking and emergency stop are never both being timed.
HoldsTrackCombo ==
  \A c \in Combo : generator.holdStart[c] # NoTime =>
    /\ ComboHeld(c, generator.current)
    /\ generator.holdStart[c] <= now

\* A gear being requested and the reversing light being requested never
\* contradict each other, although the vehicle confirms them separately.
ReverseLightAgrees ==
  LET light == generator.command.switch["light_reverse"]
  IN  /\ generator.command.gear = "REVERSE" => light # "OFF"
      /\ generator.command.gear \in {"NEUTRAL", "DRIVE"} => light # "ON"

\* While a headlight is being switched on no light of its group is being
\* switched off, and the group itself is never asked for both.
LightGroupAgrees ==
  LET switch == generator.command.switch
  IN  /\ (\E s \in Headlights : switch[s] = "ON") =>
            \A l \in LightGroup : switch[l] # "OFF"
      /\ \A l, m \in LightGroup : ~(switch[l] = "ON" /\ switch[m] = "OFF")

\* Every command the generator holds is one the codec encodes.  One it refused
\* would leave the cockpit as an empty datagram, which counts as sent.
CommandEncodable == ValidControlCommand(generator.command)

\* A remote mode request is made by a confirmation that ends the full number
\* of consecutive clicks one way, and by nothing else; such a confirmation
\* always makes it.  The generator's counters never remember a click that a
\* pause, an opposite click or an earlier confirmation has made void.
DialDecides ==
  [][LET frame == generator'.current
         turns == TurnsWith(frame)
         mode == generator.command.mode
     IN  IF Confirms(frame)
         THEN generator'.command.mode =
                IF Deliberate(turns, "cw") THEN "ENTER"
                ELSE IF Deliberate(turns, "ccw") THEN "EXIT" ELSE mode
         ELSE generator'.command.mode \in {mode, "NONE"}
    ]_vars

\* A request to enter remote mode starts from a clean command: nothing that
\* was latched before it, and no hold that began before it, goes with it.
FreshRemoteSession ==
  [][Enters(generator'.current) =>
       /\ generator'.command.gear = "NO_CONTROL"
       /\ \A s \in LatchedSwitch :
            generator'.command.switch[s] = "NO_CONTROL"
       /\ \A c \in Combo : generator'.holdStart[c] \in {NoTime, now}
    ]_vars

\* Generating a command toggles parking or emergency stop exactly when the
\* combination has been held for HoldDuration, once per hold, and not in a
\* hold that a new remote session has cancelled.
HoldFiresOnce ==
  [][Generate =>
       \A c \in Combo :
         generator'.command.switch[c] =
           IF Due(c) THEN ToggleSwitch(generator.command.switch[c],
                                       generator.vehicle.on[c])
                     ELSE generator.command.switch[c]
    ]_vars
=============================================================================
