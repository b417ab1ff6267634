--------------------------- MODULE GeneratorProofs ---------------------------
(***************************************************************************)
(* The generator's invariants and the operator's gestures, proved for      *)
(* every device, vehicle and timing constant, from what its methods do to  *)
(* the object.                                                             *)
(***************************************************************************)
EXTENDS ControlCommandGenerator, GeneratorOpsProofs

(***************************************************************************)
(* Types.                                                                  *)
(***************************************************************************)

LEMMA LogType ==
  ASSUME NEW events \in Seq([turn: {"cw", "ccw", "both", "confirm"}, at: Nat]),
         NEW turn \in {"cw", "ccw", "both", "confirm"}, now \in Nat
  PROVE  Log(events, turn)
           \in Seq([turn: {"cw", "ccw", "both", "confirm"}, at: Nat])
<1> DEFINE event == [turn |-> turn, at |-> now]
<1>1. event \in [turn: {"cw", "ccw", "both", "confirm"}, at: Nat]
  OBVIOUS
<1> HIDE DEF event
<1>2. Append(events, event)
        \in Seq([turn: {"cw", "ccw", "both", "confirm"}, at: Nat])
  BY <1>1
<1>3. Append(events, event) # <<>>
  BY <1>1
<1>4. Tail(Append(events, event))
        \in Seq([turn: {"cw", "ccw", "both", "confirm"}, at: Nat])
  BY <1>2, <1>3
<1> QED
  BY <1>2, <1>4 DEF Log, event

LEMMA DialType ==
  ASSUME TypeOK, NEW frame \in Frame
  PROVE  /\ TurnsWith(frame)
              \in Seq([turn: {"cw", "ccw", "both", "confirm"}, at: Nat])
         /\ Log(TurnsWith(frame), "confirm")
              \in Seq([turn: {"cw", "ccw", "both", "confirm"}, at: Nat])
<1>1. TurnsWith(frame)
        \in Seq([turn: {"cw", "ccw", "both", "confirm"}, at: Nat])
  BY LogType DEF TurnsWith, TypeOK
<1> QED
  BY <1>1, LogType DEF TypeOK

LEMMA HeldType ==
  ASSUME TypeOK, NEW frame \in Frame, NEW c \in Combo
  PROVE  HeldWith(frame, c) \in [since: Time, spent: BOOLEAN]
<1>1. NotHeld \in [since: Time, spent: BOOLEAN]
  BY DEF NotHeld, Time
<1>2. [since |-> now, spent |-> FALSE] \in [since: Time, spent: BOOLEAN]
  BY DEF TypeOK, Time
<1>3. Enters(frame) \in BOOLEAN
  BY DEF Enters, Confirms
<1>4. [held[c] EXCEPT !.spent = @ \/ Enters(frame)]
        \in [since: Time, spent: BOOLEAN]
  BY <1>3 DEF TypeOK
<1> QED
  BY <1>1, <1>2, <1>4 DEF HeldWith

LEMMA TypeStep ==
  ASSUME TypeOK, [Next]_vars
  PROVE  TypeOK'
<1>1. ASSUME NEW frame \in Frames, Input(frame) PROVE TypeOK'
  <2>1. frame \in Frame
    BY InputAssumption
  <2>2. generator' \in Generator
    BY <1>1, <2>1, ProcessInputStateType DEF Input, TypeOK
  <2>3. dial' \in Seq([turn: {"cw", "ccw", "both", "confirm"}, at: Nat])
    BY <1>1, <2>1, DialType DEF Input
  <2>4. held' \in [Combo -> [since: Time, spent: BOOLEAN]]
    BY <1>1, <2>1, HeldType DEF Input
  <2> QED
    BY <1>1, <2>2, <2>3, <2>4 DEF Input, TypeOK
<1>2. CASE Generate
  <2>1. generator' \in Generator
    BY <1>2, GenerateCommandType DEF Generate, TypeOK
  <2>2. \A c \in Combo : Due(c) \in BOOLEAN
    BY DEF Due
  <2>3. held' \in [Combo -> [since: Time, spent: BOOLEAN]]
    BY <1>2, <2>2 DEF Generate, TypeOK
  <2> QED
    BY <1>2, <2>1, <2>3 DEF Generate, TypeOK
<1>3. ASSUME NEW state \in VehicleStates, Sync(state) PROVE TypeOK'
  <2>1. state \in VehicleState
    BY InputAssumption
  <2> QED
    BY <1>3, <2>1, SyncVehicleStateType DEF Sync, TypeOK
<1>4. CASE Reset
  BY <1>4, NewGeneratorType DEF Reset, TypeOK, NotHeld, Time
<1>5. CASE Tick
  BY <1>5 DEF Tick, TypeOK
<1>6. CASE UNCHANGED vars
  BY <1>6 DEF vars, TypeOK
<1> QED
  BY <1>1, <1>2, <1>3, <1>4, <1>5, <1>6 DEF Next

\* The generator, its timers and the history variables always have their types:
\* a rotation count never goes negative and every latched command stays one of
\* the protocol's values.
THEOREM TypeCorrect == Spec => []TypeOK
<1>1. Init => TypeOK
  BY NewGeneratorType DEF Init, TypeOK, NotHeld, Time
<1>2. TypeOK /\ [Next]_vars => TypeOK'
  BY TypeStep
<1> QED
  BY <1>1, <1>2, PTL DEF Spec

(***************************************************************************)
(* The invariants.  Each is inductive together with TypeOK; one induction  *)
(* over the actions serves them all.                                       *)
(***************************************************************************)
IInv ==
  /\ TypeOK
  /\ ContinuousFollowsInput
  /\ HoldsTrackCombo
  /\ ReverseLightAgrees
  /\ LightGroupAgrees

\* The linked lights, in the words of the lemmas above.
LEMMA AgreementsRestated ==
  /\ ReverseLightAgrees <=>
       GearAgreesWithLight(generator.command.gear,
                           generator.command.switch["light_reverse"])
  /\ LightGroupAgrees <=> GroupAgrees(generator.command.switch)
BY DEF ReverseLightAgrees, GearAgreesWithLight, LightGroupAgrees, GroupAgrees

LEMMA InitialInvariant == Init => IInv
<1> SUFFICES ASSUME Init PROVE IInv
  OBVIOUS
<1>1. TypeOK
  BY NewGeneratorType DEF Init, TypeOK, NotHeld, Time
<1>2. generator = NewGenerator
  BY DEF Init
<1>3. ContinuousFollowsInput
  BY <1>2 DEF ContinuousFollowsInput, NewGenerator, EmptyCommand, Released,
              HoldTo, PovUp, RequestedBucket
<1>4. HoldsTrackCombo
  BY <1>2 DEF HoldsTrackCombo, NewGenerator
<1>5. ReverseLightAgrees /\ LightGroupAgrees
  BY <1>2, NothingAgrees, AgreementsRestated DEF NewGenerator, EmptyCommand
<1> QED
  BY <1>1, <1>3, <1>4, <1>5 DEF IInv

LEMMA InputInvariant ==
  ASSUME IInv, NEW frame \in Frames, Input(frame)
  PROVE  /\ ContinuousFollowsInput'
         /\ HoldsTrackCombo'
         /\ ReverseLightAgrees'
         /\ LightGroupAgrees'
<1> DEFINE r == Requested(generator, frame, now)
           l == Latched(generator, frame)
<1>1. frame \in Frame /\ generator \in Generator /\ now \in Nat
  BY InputAssumption DEF IInv, TypeOK
<1>2. generator' = ProcessInputState(generator, frame, now) /\ now' = now
  BY DEF Input
<1>3. ContinuousFollowsInput'
  <2>1. generator'.current = frame /\ FollowsFrame(generator'.command, frame)
    BY <1>1, <1>2, ProcessInputStateFields
  <2> QED
    BY <2>1 DEF FollowsFrame, ContinuousFollowsInput, SwitchTo
<1>4. \A c \in Combo : r.holdStart[c] \in {generator.holdStart[c], NoTime}
  BY <1>1, RequestedKeepsOrClears DEF NoHolds
<1>5. HoldsTrackCombo'
  <2> SUFFICES ASSUME NEW c \in Combo, generator'.holdStart[c] # NoTime
               PROVE  /\ ComboHeld(c, generator'.current)
                      /\ generator'.holdStart[c] <= now'
    BY DEF HoldsTrackCombo
  <2>1. /\ generator'.current = frame
        /\ generator'.holdStart =
             NextHolds(r.holdStart, generator.current, frame, now)
    BY <1>1, <1>2, ProcessInputStateFields
  <2>2. ComboHeld(c, frame)
    BY <2>1 DEF NextHolds
  <2>3. \/ generator'.holdStart[c] = now
        \/ /\ ComboHeld(c, generator.current)
           /\ generator'.holdStart[c] = generator.holdStart[c]
    BY <1>4, <2>1, <2>2 DEF NextHolds
  <2>4. generator'.holdStart[c] <= now
    BY <1>1, <2>3 DEF IInv, HoldsTrackCombo
  <2> QED
    BY <1>2, <2>1, <2>2, <2>4
<1>6. /\ generator'.command.gear = r.command.gear
      /\ generator'.command.switch = r.command.switch
  BY <1>1, <1>2, ProcessInputStateFields
<1>7. /\ GearAgreesWithLight(l.command.gear, l.command.switch["light_reverse"])
      /\ GroupAgrees(l.command.switch)
  BY <1>1, LatchedGearAgrees, LatchedGroupAgrees, AgreementsRestated DEF IInv
<1>8. /\ GearAgreesWithLight(r.command.gear, r.command.switch["light_reverse"])
      /\ GroupAgrees(r.command.switch)
  BY <1>1, <1>7, RequestedKeepsOrClears, NothingAgrees
<1>9. ReverseLightAgrees' /\ LightGroupAgrees'
  BY <1>6, <1>8
     DEF ReverseLightAgrees, GearAgreesWithLight, LightGroupAgrees, GroupAgrees
<1> QED
  BY <1>3, <1>5, <1>9

LEMMA GenerateInvariant ==
  ASSUME IInv, Generate
  PROVE  /\ ContinuousFollowsInput'
         /\ HoldsTrackCombo'
         /\ ReverseLightAgrees'
         /\ LightGroupAgrees'
<1>1. generator \in Generator /\ now \in Nat /\ now' = now
      /\ generator' = GenerateCommand(generator, now)
  BY DEF IInv, TypeOK, Generate
<1>2. /\ generator'.current = generator.current
      /\ \A c \in Combo :
            generator'.holdStart[c] \in {generator.holdStart[c], NoTime}
  BY <1>1, GenerateKeeps
<1>3. ChangesCombosOnly(generator.command, generator'.command)
  BY <1>1, GenerateKeeps
<1>4. generator.command \in ControlCommand
  BY <1>1 DEF Generator
<1>5. ContinuousFollowsInput'
  BY <1>2, <1>3, <1>4
     DEF IInv, ContinuousFollowsInput, ControlCommand, ChangesCombosOnly
<1>6. HoldsTrackCombo'
  BY <1>1, <1>2 DEF IInv, HoldsTrackCombo
<1>7. /\ "light_reverse" \in LatchedSwitch \ Combo
      /\ Headlights \cup LightGroup \subseteq LatchedSwitch \ Combo
  BY DEF LatchedSwitch, Combo, Headlights, LightGroup
<1>8. /\ generator'.command.gear = generator.command.gear
      /\ \A s \in LatchedSwitch \ Combo :
            generator'.command.switch[s] = generator.command.switch[s]
  BY <1>3, <1>4 DEF ControlCommand, ChangesCombosOnly
<1>9. ReverseLightAgrees'
  BY <1>7, <1>8 DEF IInv, ReverseLightAgrees
<1>10. LightGroupAgrees'
  BY <1>7, <1>8 DEF IInv, LightGroupAgrees
<1> QED
  BY <1>5, <1>6, <1>9, <1>10

LEMMA SyncInvariant ==
  ASSUME IInv, NEW state \in VehicleStates, Sync(state)
  PROVE  /\ ContinuousFollowsInput'
         /\ HoldsTrackCombo'
         /\ ReverseLightAgrees'
         /\ LightGroupAgrees'
<1>1. /\ generator \in Generator /\ state \in VehicleState /\ now' = now
      /\ generator' = SyncVehicleState(generator, state)
  BY InputAssumption DEF IInv, TypeOK, Sync
<1>2. ContinuousFollowsInput'
  BY <1>1, SyncKeeps DEF IInv, ContinuousFollowsInput
<1>3. HoldsTrackCombo'
  BY <1>1, SyncKeeps DEF IInv, HoldsTrackCombo
<1>4. /\ generator'.command.gear \in {generator.command.gear, "NO_CONTROL"}
      /\ \A s \in LatchedSwitch :
            generator'.command.switch[s]
              \in {generator.command.switch[s], "NO_CONTROL"}
  BY <1>1, SyncKeeps
<1>5. "light_reverse" \in LatchedSwitch
      /\ Headlights \cup LightGroup \subseteq LatchedSwitch
  BY DEF LatchedSwitch, Headlights, LightGroup
<1>6. ReverseLightAgrees'
  BY <1>4, <1>5 DEF IInv, ReverseLightAgrees
<1>7. LightGroupAgrees'
  BY <1>4, <1>5 DEF IInv, LightGroupAgrees
<1> QED
  BY <1>2, <1>3, <1>6, <1>7

\* All the invariants of the generator hold in every reachable state.
THEOREM GeneratorInvariant == Spec => []IInv
<1>1. Init => IInv
  BY InitialInvariant
<1>2. IInv /\ [Next]_vars => IInv'
  <2> SUFFICES ASSUME IInv, [Next]_vars
               PROVE  /\ ContinuousFollowsInput'
                      /\ HoldsTrackCombo'
                      /\ ReverseLightAgrees'
                      /\ LightGroupAgrees'
    BY TypeStep DEF IInv
  <2>1. ASSUME NEW frame \in Frames, Input(frame)
        PROVE  /\ ContinuousFollowsInput'
               /\ HoldsTrackCombo'
               /\ ReverseLightAgrees'
               /\ LightGroupAgrees'
    BY <2>1, InputInvariant
  <2>2. CASE Generate
    BY <2>2, GenerateInvariant
  <2>3. ASSUME NEW state \in VehicleStates, Sync(state)
        PROVE  /\ ContinuousFollowsInput'
               /\ HoldsTrackCombo'
               /\ ReverseLightAgrees'
               /\ LightGroupAgrees'
    BY <2>3, SyncInvariant
  <2>4. CASE Reset
    <3>1. generator' = NewGenerator /\ now' = now
      BY <2>4 DEF Reset
    <3>2. ContinuousFollowsInput'
      BY <3>1 DEF ContinuousFollowsInput, NewGenerator, EmptyCommand,
                  Released, HoldTo, PovUp, RequestedBucket
    <3>3. HoldsTrackCombo'
      BY <3>1 DEF HoldsTrackCombo, NewGenerator
    <3>4. ReverseLightAgrees' /\ LightGroupAgrees'
      BY <3>1, NothingAgrees
         DEF ReverseLightAgrees, LightGroupAgrees, GearAgreesWithLight,
             GroupAgrees, NewGenerator, EmptyCommand
    <3> QED
      BY <3>2, <3>3, <3>4
  <2>5. CASE Tick
    <3>1. generator' = generator /\ now \in Nat /\ now' = now + 1
      BY <2>5 DEF Tick, IInv, TypeOK
    <3>2. HoldsTrackCombo'
      <4> SUFFICES ASSUME NEW c \in Combo, generator.holdStart[c] # NoTime
                   PROVE  /\ ComboHeld(c, generator.current)
                          /\ generator.holdStart[c] <= now + 1
        BY <3>1 DEF HoldsTrackCombo
      <4>1. generator.holdStart[c] \in Nat
        BY DEF IInv, TypeOK, Generator, Time
      <4> QED
        BY <3>1, <4>1 DEF IInv, HoldsTrackCombo
    <3> QED
      BY <3>1, <3>2
         DEF IInv, ContinuousFollowsInput, ReverseLightAgrees, LightGroupAgrees
  <2>6. CASE UNCHANGED vars
    BY <2>6 DEF vars, IInv, ContinuousFollowsInput, HoldsTrackCombo,
                ReverseLightAgrees, LightGroupAgrees
  <2> QED
    BY <2>1, <2>2, <2>3, <2>4, <2>5, <2>6 DEF Next
<1> QED
  BY <1>1, <1>2, PTL DEF Spec

\* Whatever reset the command in between, its pedals, wheel and held buttons are
\* those of the latest frame.
THEOREM ContinuousControls == Spec => []ContinuousFollowsInput
<1>1. IInv => ContinuousFollowsInput
  BY DEF IInv
<1> QED
  BY <1>1, GeneratorInvariant, PTL

\* A hold is timed only while its combination is held.
THEOREM Holds == Spec => []HoldsTrackCombo
<1>1. IInv => HoldsTrackCombo
  BY DEF IInv
<1> QED
  BY <1>1, GeneratorInvariant, PTL

\* The pending gear and the reversing light are never asked for contradictory
\* states, although the vehicle confirms them one by one.
THEOREM ReverseLight == Spec => []ReverseLightAgrees
<1>1. IInv => ReverseLightAgrees
  BY DEF IInv
<1> QED
  BY <1>1, GeneratorInvariant, PTL

\* Neither are the headlights and the light group that follows them.
THEOREM LightGroupLinked == Spec => []LightGroupAgrees
<1>1. IInv => LightGroupAgrees
  BY DEF IInv
<1> QED
  BY <1>1, GeneratorInvariant, PTL

\* The codec never refuses a command of the generator.
THEOREM Encodable == Spec => []CommandEncodable
<1>1. IInv => CommandEncodable
  <2> SUFFICES ASSUME IInv PROVE CommandEncodable
    OBVIOUS
  <2>1. /\ generator.current \in Frame
        /\ generator.command \in ControlCommand
    BY DEF IInv, TypeOK, Generator
  <2>2. /\ generator.command.steering = generator.current.wheel * 90
        /\ generator.command.accelerator = generator.current.accelerator
        /\ generator.command.brake = generator.current.brake
    BY DEF IInv, ContinuousFollowsInput
  <2> QED
    BY <2>1, <2>2, InRange DEF CommandEncodable
<1> QED
  BY <1>1, GeneratorInvariant, PTL

(***************************************************************************)
(* What the counters and timers remember, against what the operator did.   *)
(* Both say the same of a request, and of a hold, at every moment: the     *)
(* code counts turns forwards and forgets, the history looks back.         *)
(***************************************************************************)
Way == {"cw", "ccw"}
DialEvent == [turn: {"cw", "ccw", "both", "confirm"}, at: Nat]

\* The last k events of the dial turned it one way, without a pause above
\* RotationTimeout between two of them or after the last.
Fresh(events, way, k, time) ==
  /\ k <= Len(events)
  /\ \A i \in Len(events) - k + 1 .. Len(events) :
       /\ events[i].turn = way
       /\ (IF i = Len(events) THEN time ELSE events[i + 1].at) - events[i].at
            <= RotationTimeout

Clicks(g, way) == IF way = "cw" THEN g.cw ELSE g.ccw

\* The clicks that a pause has not made void.
Live(g, way, time) ==
  IF g.lastRotation # NoTime /\ time - g.lastRotation > RotationTimeout
  THEN 0 ELSE Clicks(g, way)

\* The counters hold the longest run of turns that may still count.
DialInv ==
  /\ Len(dial) <= RotationThreshold
  /\ \A i \in 1 .. Len(dial) : dial[i].at <= now
  /\ \A way \in Way : \A k \in 1 .. RotationThreshold :
       Fresh(dial, way, k, now) <=> k <= Live(generator, way, now)
  /\ \A way \in Way : Clicks(generator, way) > 0 =>
       /\ Len(dial) > 0
       /\ generator.lastRotation = dial[Len(dial)].at

\* A timer runs for each hold that is not spent, since it began.
HeldInv ==
  \A c \in Combo :
    /\ held[c] # NotHeld <=> ComboHeld(c, generator.current)
    /\ held[c] # NotHeld => held[c].since # NoTime
    /\ generator.holdStart[c] =
         IF held[c] # NotHeld /\ ~held[c].spent THEN held[c].since ELSE NoTime

GestureInv == IInv /\ DialInv /\ HeldInv

(***************************************************************************)
(* A frame and the dial.                                                   *)
(***************************************************************************)
Down(g, frame) == frame.pressed \ g.current.pressed

\* Which way the buttons that went down turn the dial.
Turn(down) ==
  IF {"encoder_clockwise", "encoder_counter_clockwise"} \subseteq down THEN "both"
  ELSE IF "encoder_clockwise" \in down THEN "cw"
  ELSE IF "encoder_counter_clockwise" \in down THEN "ccw" ELSE "none"

Counted(g, turn, way, time) ==
  IF turn = way THEN Live(g, way, time) + 1
  ELSE IF turn = "none" THEN Live(g, way, time) ELSE 0

Confirmed(g, frame) == "encoder_confirm" \in Down(g, frame)

LEMMA LiveType ==
  ASSUME NEW g \in Generator, NEW way, NEW time
  PROVE  Live(g, way, time) \in Nat /\ Clicks(g, way) \in Nat
BY DEF Live, Clicks, Generator

LEMMA Expired ==
  ASSUME NEW g \in Generator, NEW time \in Nat
  PROVE  LET e == ExpireRotation(g, time)
         IN  /\ e \in Generator /\ e.current = g.current
             /\ e.previous = g.previous
             /\ \A way \in Way : Clicks(e, way) = Live(g, way, time)
             /\ \A way \in Way : Clicks(e, way) > 0
                  => e.lastRotation = g.lastRotation
<1> DEFINE e == ExpireRotation(g, time)
<1>1. CASE g.lastRotation # NoTime /\ time - g.lastRotation > RotationTimeout
  <2>1. e = ResetRemoteRotation(g)
    BY <1>1 DEF ExpireRotation
  <2>2. /\ e \in Generator /\ e.current = g.current /\ e.previous = g.previous
        /\ e.cw = 0 /\ e.ccw = 0
    BY <2>1, ResetRemoteRotationType DEF ResetRemoteRotation, Generator
  <2> HIDE DEF e
  <2>3. \A way \in Way : Clicks(e, way) = 0 /\ Live(g, way, time) = 0
    BY <1>1, <2>2 DEF Clicks, Live
  <2>4. QED
    BY <2>2, <2>3 DEF e
<1>2. CASE ~(g.lastRotation # NoTime /\ time - g.lastRotation > RotationTimeout)
  <2>1. e = g
    BY <1>2 DEF ExpireRotation
  <2>2. \A way \in Way : Live(g, way, time) = Clicks(g, way)
    BY <1>2 DEF Live
  <2>3. QED
    BY <2>1, <2>2
<1>3. QED
  BY <1>1, <1>2

LEMMA CountsTurn ==
  ASSUME NEW g \in Generator, NEW time \in Nat,
         NEW turn, turn = Turn(g.current.pressed \ g.previous.pressed)
  PROVE  LET k == CountRotation(ExpireRotation(g, time), time)
         IN  /\ \A way \in Way : Clicks(k, way) = Counted(g, turn, way, time)
             /\ \A way \in Way : Clicks(k, way) > 0 =>
                  k.lastRotation = IF turn = "none" THEN g.lastRotation ELSE time
<1> DEFINE e == ExpireRotation(g, time)
           k == CountRotation(e, time)
<1>1. /\ e \in Generator /\ e.current = g.current /\ e.previous = g.previous
      /\ \A way \in Way : Clicks(e, way) = Live(g, way, time)
      /\ \A way \in Way : Clicks(e, way) > 0 => e.lastRotation = g.lastRotation
  BY Expired
<1> HIDE DEF e
<1>2. /\ Rose(e, "encoder_clockwise") <=> turn \in {"both", "cw"}
      /\ Rose(e, "encoder_counter_clockwise") <=> turn \in {"both", "ccw"}
      /\ turn \in {"both", "cw", "ccw", "none"}
  BY <1>1 DEF Rose, Turn
<1>3. Live(g, "cw", time) \in Nat /\ Live(g, "ccw", time) \in Nat
  BY LiveType
<1>4. e.cw = Live(g, "cw", time) /\ e.ccw = Live(g, "ccw", time)
  BY <1>1 DEF Way, Clicks
<1>5. CASE turn = "both"
  <2>1. k.cw = 0 /\ k.ccw = 0
    BY <1>1, <1>2, <1>5 DEF CountRotation, ResetRemoteRotation, Generator
  <2>2. QED
    BY <1>5, <2>1 DEF Way, Clicks, Counted, e
<1>6. CASE turn = "cw"
  <2>1. k.cw = e.cw + 1 /\ k.ccw = 0 /\ k.lastRotation = time
    BY <1>1, <1>2, <1>6 DEF CountRotation, Generator
  <2>2. QED
    BY <1>3, <1>4, <1>6, <2>1 DEF Way, Clicks, Counted, e
<1>7. CASE turn = "ccw"
  <2>1. k.ccw = e.ccw + 1 /\ k.cw = 0 /\ k.lastRotation = time
    BY <1>1, <1>2, <1>7 DEF CountRotation, Generator
  <2>2. QED
    BY <1>3, <1>4, <1>7, <2>1 DEF Way, Clicks, Counted, e
<1>8. CASE turn = "none"
  <2>1. k = e
    BY <1>2, <1>8 DEF CountRotation
  <2>2. \A way \in Way : Counted(g, turn, way, time) = Live(g, way, time)
    BY <1>8 DEF Counted, Way
  <2>3. QED
    BY <1>1, <1>8, <2>1, <2>2 DEF e
<1>9. QED
  BY <1>2, <1>5, <1>6, <1>7, <1>8

\* A confirmation makes a request of the clicks and spends them.
LEMMA RequestMade ==
  ASSUME NEW k \in Generator
  PROVE  LET h == ResetRemoteRotation(SubmitRequest(k))
         IN  /\ h.cw = 0 /\ h.ccw = 0
             /\ h.command.mode = IF k.cw >= RotationThreshold THEN "ENTER"
                                 ELSE IF k.ccw >= RotationThreshold THEN "EXIT"
                                 ELSE k.command.mode
             /\ k.cw >= RotationThreshold =>
                  /\ h.command.gear = "NO_CONTROL"
                  /\ h.command.switch = EmptyCommand.switch
                  /\ h.holdStart = NoHolds
             /\ ~(k.cw >= RotationThreshold) => h.holdStart = k.holdStart
<1> DEFINE r == SubmitRequest(k)
           h == ResetRemoteRotation(r)
<1>1. r \in Generator
  BY ResetForEntryType, RequestType DEF SubmitRequest, RemoteModeRequest
<1>2. /\ r.command.mode = IF k.cw >= RotationThreshold THEN "ENTER"
                          ELSE IF k.ccw >= RotationThreshold THEN "EXIT"
                          ELSE k.command.mode
      /\ k.cw >= RotationThreshold =>
           /\ r.command.gear = "NO_CONTROL"
           /\ r.command.switch = EmptyCommand.switch
           /\ r.holdStart = NoHolds
      /\ ~(k.cw >= RotationThreshold) => r.holdStart = k.holdStart
  BY DEF SubmitRequest, ResetCommandForRemoteEntry, Generator, ControlCommand,
         EmptyCommand, NoHolds
<1> HIDE DEF r
<1>3. h.cw = 0 /\ h.ccw = 0 /\ h.command = r.command /\ h.holdStart = r.holdStart
  BY <1>1 DEF ResetRemoteRotation, Generator
<1> HIDE DEF h
<1>4. QED
  BY <1>2, <1>3 DEF h, r

\* A frame, for the dial, the mode and the holds.
LEMMA FrameGestures ==
  ASSUME NEW g \in Generator, NEW frame \in Frame, NEW time \in Nat,
         NEW turn, turn = Turn(Down(g, frame))
  PROVE  LET p == ProcessInputState(g, frame, time)
             entered == Counted(g, turn, "cw", time) >= RotationThreshold
             left == Counted(g, turn, "ccw", time) >= RotationThreshold
         IN  /\ p \in Generator /\ p.current = frame
             /\ ~Confirmed(g, frame) =>
                  /\ p.command.mode = g.command.mode
                  /\ \A way \in Way : Clicks(p, way) = Counted(g, turn, way, time)
                  /\ \A way \in Way : Clicks(p, way) > 0 => p.lastRotation =
                       IF turn = "none" THEN g.lastRotation ELSE time
                  /\ p.holdStart =
                       NextHolds(g.holdStart, g.current, frame, time)
             /\ Confirmed(g, frame) =>
                  /\ \A way \in Way : Clicks(p, way) = 0
                  /\ p.command.mode = IF entered THEN "ENTER"
                                      ELSE IF left THEN "EXIT"
                                      ELSE g.command.mode
                  /\ entered =>
                       /\ p.command.gear = "NO_CONTROL"
                       /\ p.command.switch = EmptyCommand.switch
                       /\ p.holdStart =
                            NextHolds(NoHolds, g.current, frame, time)
                  /\ ~entered => p.holdStart =
                       NextHolds(g.holdStart, g.current, frame, time)
<1> DEFINE l == Latched(g, frame)
           k == CountRotation(ExpireRotation(l, time), time)
           r == Requested(g, frame, time)
           p == ProcessInputState(g, frame, time)
<1>1. /\ l \in Generator /\ l.current = frame /\ l.previous = g.current
      /\ l.holdStart = g.holdStart
      /\ l.cw = g.cw /\ l.ccw = g.ccw /\ l.lastRotation = g.lastRotation
      /\ l.command.mode = g.command.mode
  BY LatchedKeeps, LatchedDial
<1>2. r = IF Rose(l, "encoder_confirm") THEN ResetRemoteRotation(SubmitRequest(k))
                                        ELSE k
  BY DEF Requested, UpdateRemoteModeRequest
<1>3. p = UpdateHolds(UpdateBucket(UpdateContinuousControls(r)), time)
  BY DEF ProcessInputState, Requested, Latched
<1>4. /\ p \in Generator /\ p.current = frame
      /\ p.command.gear = r.command.gear
      /\ p.command.switch = r.command.switch
      /\ p.holdStart = NextHolds(r.holdStart, g.current, frame, time)
  BY ProcessInputStateType, ProcessInputStateFields
<1>5. r \in Generator
  BY RequestedKeepsOrClears
<1> HIDE DEF l, r, p
<1>6. /\ p.cw = r.cw /\ p.ccw = r.ccw /\ p.lastRotation = r.lastRotation
      /\ p.command.mode = r.command.mode
  BY <1>3, <1>5, RestDial
<1>7. Rose(l, "encoder_confirm") <=> Confirmed(g, frame)
  BY <1>1 DEF Rose, Confirmed, Down
<1>8. /\ k \in Generator /\ k.command = l.command /\ k.holdStart = l.holdStart
  BY <1>1, CountRotationType, CountRotationKeeps
<1>9. /\ \A way \in Way : Clicks(k, way) = Counted(l, turn, way, time)
      /\ \A way \in Way : Clicks(k, way) > 0 =>
           k.lastRotation = IF turn = "none" THEN l.lastRotation ELSE time
  <2>1. turn = Turn(l.current.pressed \ l.previous.pressed)
    BY <1>1 DEF Down
  <2>2. QED
    BY <1>1, <2>1, CountsTurn
<1>10. \A way : Counted(l, turn, way, time) = Counted(g, turn, way, time)
  BY <1>1 DEF Counted, Live, Clicks
<1> HIDE DEF k
<1>11. CASE ~Confirmed(g, frame)
  <2>1. r = k
    BY <1>2, <1>7, <1>11
  <2>2. \A way : Clicks(p, way) = Clicks(k, way)
    BY <1>6, <2>1 DEF Clicks
  <2>3. QED
    BY <1>1, <1>4, <1>6, <1>8, <1>9, <1>10, <1>11, <2>1, <2>2 DEF p
<1>12. CASE Confirmed(g, frame)
  <2>1. r = ResetRemoteRotation(SubmitRequest(k))
    BY <1>2, <1>7, <1>12
  <2>2. /\ k.cw = Counted(g, turn, "cw", time)
        /\ k.ccw = Counted(g, turn, "ccw", time)
    BY <1>9, <1>10 DEF Clicks, Way
  <2>3. /\ r.cw = 0 /\ r.ccw = 0
        /\ r.command.mode = IF k.cw >= RotationThreshold THEN "ENTER"
                            ELSE IF k.ccw >= RotationThreshold THEN "EXIT"
                            ELSE k.command.mode
        /\ k.cw >= RotationThreshold =>
             /\ r.command.gear = "NO_CONTROL"
             /\ r.command.switch = EmptyCommand.switch
             /\ r.holdStart = NoHolds
        /\ ~(k.cw >= RotationThreshold) => r.holdStart = k.holdStart
    BY <1>8, <2>1, RequestMade
  <2>4. \A way \in Way : Clicks(p, way) = 0
    BY <1>6, <2>3 DEF Clicks
  <2>5. k.holdStart = g.holdStart /\ k.command.mode = g.command.mode
    BY <1>1, <1>8
  <2>6. QED
    BY <1>4, <1>6, <1>12, <2>2, <2>3, <2>4, <2>5 DEF p
<1>13. QED
  BY <1>11, <1>12

(***************************************************************************)
(* The history of the dial.                                                *)
(***************************************************************************)
LEMMA LogFacts ==
  ASSUME NEW events \in Seq(DialEvent), Len(events) <= RotationThreshold,
         NEW turn, now \in Nat, turn \in {"cw", "ccw", "both", "confirm"},
         \A i \in 1 .. Len(events) : events[i].at <= now
  PROVE  LET log == Log(events, turn)
             d == (Len(events) + 1) - Len(log)
         IN  /\ log \in Seq(DialEvent) /\ Len(log) \in Nat \ {0}
             /\ Len(log) <= RotationThreshold
             /\ log[Len(log)] = [turn |-> turn, at |-> now]
             /\ d \in 0 .. 1
             /\ d = 1 => Len(events) = RotationThreshold
             /\ \A i \in 1 .. Len(log) - 1 : log[i] = events[i + d]
             /\ \A i \in 1 .. Len(log) : log[i].at <= now
<1> DEFINE e == [turn |-> turn, at |-> now]
           longer == Append(events, e)
           log == Log(events, turn)
           n == Len(events)
<1>1. e \in DialEvent
  BY DEF DialEvent
<1>2. e.at = now
  OBVIOUS
<1> HIDE DEF e
<1>3. /\ longer \in Seq(DialEvent) /\ Len(longer) = n + 1 /\ longer[n + 1] = e
      /\ \A i \in 1 .. n : longer[i] = events[i]
      /\ n \in Nat /\ longer # <<>>
  BY <1>1
<1>4. RotationThreshold \in Nat \ {0}
  BY GeneratorAssumption
<1> HIDE DEF longer, n
<1>5. log = IF n + 1 > RotationThreshold THEN Tail(longer) ELSE longer
  BY <1>3 DEF Log, longer, e
<1>6. CASE n + 1 > RotationThreshold
  <2>1. n = RotationThreshold
    BY <1>3, <1>4, <1>6 DEF n
  <2>2. /\ log \in Seq(DialEvent) /\ Len(log) = n
        /\ \A i \in 1 .. n : log[i] = longer[i + 1]
    BY <1>3, <1>5, <1>6
  <2>3. log[n] = e /\ \A i \in 1 .. n - 1 : log[i] = events[i + 1]
    <3>1. n \in 1 .. n /\ \A i \in 1 .. n - 1 : i \in 1 .. n /\ i + 1 \in 1 .. n
      BY <1>3, <1>4, <2>1
    <3>2. QED
      BY <1>3, <2>2, <3>1
  <2> HIDE DEF log
  <2>4. (n + 1) - Len(log) = 1
    BY <1>3, <2>2
  <2>5. \A i \in 1 .. n - 1 : i + 1 \in 1 .. n
    BY <1>3
  <2>6. \A i \in 1 .. n : log[i].at <= now
    <3> SUFFICES ASSUME NEW i \in 1 .. n PROVE log[i].at <= now
      OBVIOUS
    <3>1. CASE i = n
      BY <1>2, <2>3, <3>1
    <3>2. CASE i # n
      <4>1. i \in 1 .. n - 1
        BY <1>3, <3>2
      <4>2. QED
        BY <2>3, <2>5, <4>1 DEF n
    <3>3. QED
      BY <3>1, <3>2
  <2>7. QED
    BY <1>4, <2>1, <2>2, <2>3, <2>4, <2>6 DEF n, log, e
<1>7. CASE ~(n + 1 > RotationThreshold)
  <2>1. log = longer
    BY <1>5, <1>7
  <2> HIDE DEF log
  <2>2. /\ log \in Seq(DialEvent) /\ Len(log) = n + 1 /\ log[n + 1] = e
        /\ \A i \in 1 .. n : log[i] = events[i]
    BY <1>3, <2>1
  <2>3. (n + 1) - Len(log) = 0 /\ \A i \in 1 .. n : i + 0 = i
    BY <1>3, <2>2
  <2>4. \A i \in 1 .. n + 1 : log[i].at <= now
    <3> SUFFICES ASSUME NEW i \in 1 .. n + 1 PROVE log[i].at <= now
      OBVIOUS
    <3>1. CASE i = n + 1
      BY <1>2, <2>2, <3>1
    <3>2. CASE i # n + 1
      <4>1. i \in 1 .. n
        BY <1>3, <3>2
      <4>2. QED
        BY <2>2, <4>1 DEF n
    <3>3. QED
      BY <3>1, <3>2
  <2>5. /\ Len(log) \in Nat \ {0} /\ Len(log) <= RotationThreshold
        /\ Len(log) - 1 = n
    BY <1>3, <1>4, <1>7, <2>2
  <2>6. \A i \in 1 .. Len(log) - 1 : log[i] = events[i + 0]
    BY <2>2, <2>3, <2>5
  <2>7. QED
    BY <2>2, <2>3, <2>4, <2>5, <2>6 DEF n, log, e
<1>8. QED
  BY <1>6, <1>7

\* A run that ends with the new turn is one shorter without it.
LEMMA FreshLogged ==
  ASSUME NEW events \in Seq(DialEvent), Len(events) <= RotationThreshold,
         NEW turn, now \in Nat, turn \in {"cw", "ccw", "both", "confirm"},
         \A i \in 1 .. Len(events) : events[i].at <= now,
         NEW way \in Way, NEW k \in 1 .. RotationThreshold
  PROVE  Fresh(Log(events, turn), way, k, now)
           <=> turn = way /\ (k = 1 \/ Fresh(events, way, k - 1, now))
<1> DEFINE log == Log(events, turn)
           m == Len(log)
           n == Len(events)
           d == (n + 1) - m
<1>1. /\ log \in Seq(DialEvent) /\ m \in Nat \ {0} /\ m <= RotationThreshold
      /\ log[m] = [turn |-> turn, at |-> now]
      /\ d \in 0 .. 1
      /\ d = 1 => n = RotationThreshold
      /\ \A i \in 1 .. m - 1 : log[i] = events[i + d]
  BY LogFacts
<1>2. n \in Nat /\ k \in Nat /\ RotationThreshold \in Nat \ {0}
      /\ RotationTimeout \in Nat
  BY GeneratorAssumption
<1>3. log[m].turn = turn /\ log[m].at = now
  BY <1>1
<1> HIDE DEF log, m, n, d
<1>4. m = n + 1 - d
  BY <1>1, <1>2 DEF d
<1>5. ASSUME Fresh(log, way, k, now)
      PROVE  turn = way /\ (k = 1 \/ Fresh(events, way, k - 1, now))
  <2>1. /\ k <= m
        /\ \A i \in m - k + 1 .. m :
             /\ log[i].turn = way
             /\ (IF i = m THEN now ELSE log[i + 1].at) - log[i].at <= RotationTimeout
    BY <1>5 DEF Fresh, m
  <2>2. m \in m - k + 1 .. m
    BY <1>1, <1>2
  <2>3. turn = way
    BY <1>3, <2>1, <2>2
  <2>4. ASSUME k # 1
        PROVE  Fresh(events, way, k - 1, now)
    <3>1. k - 1 <= n
      BY <1>1, <1>2, <1>4, <2>1
    <3>2. ASSUME NEW j \in n - (k - 1) + 1 .. n
          PROVE  /\ events[j].turn = way
                 /\ (IF j = n THEN now ELSE events[j + 1].at) - events[j].at
                      <= RotationTimeout
      <4>1. /\ j - d \in m - k + 1 .. m /\ j - d \in 1 .. m - 1 /\ (j - d) + d = j
            /\ (j - d) + 1 \in 1 .. m
            /\ (j = n <=> (j - d) + 1 = m) /\ j - d # m
            /\ (j # n => (j - d) + 1 \in 1 .. m - 1 /\ ((j - d) + 1) + d = j + 1)
        BY <1>1, <1>2, <1>4, <2>1, <2>4
      <4>2. events[j] = log[j - d]
        BY <1>1, <4>1
      <4>3. log[j - d].turn = way
            /\ log[(j - d) + 1].at - log[j - d].at <= RotationTimeout
        BY <2>1, <4>1
      <4>4. CASE j = n
        BY <1>3, <4>1, <4>2, <4>3, <4>4
      <4>5. CASE j # n
        <5>1. log[(j - d) + 1] = events[j + 1]
          BY <1>1, <4>1, <4>5
        <5>2. QED
          BY <4>2, <4>3, <4>5, <5>1
      <4>6. QED
        BY <4>4, <4>5
    <3>3. QED
      BY <3>1, <3>2 DEF Fresh, n
  <2>5. QED
    BY <2>3, <2>4
<1>6. ASSUME turn = way, k = 1 \/ Fresh(events, way, k - 1, now)
      PROVE  Fresh(log, way, k, now)
  <2>1. CASE k = 1
    <3>1. k <= m /\ \A i \in m - k + 1 .. m : i = m
      BY <1>1, <2>1
    <3>2. now - log[m].at <= RotationTimeout
      BY <1>2, <1>3
    <3>3. \A i \in m - k + 1 .. m :
            /\ log[i].turn = way
            /\ (IF i = m THEN now ELSE log[i + 1].at) - log[i].at <= RotationTimeout
      BY <1>3, <1>6, <3>1, <3>2
    <3>4. QED
      BY <3>1, <3>3 DEF Fresh, m
  <2>2. CASE k # 1
    <3>1. /\ k - 1 <= n
          /\ \A j \in n - (k - 1) + 1 .. n :
               /\ events[j].turn = way
               /\ (IF j = n THEN now ELSE events[j + 1].at) - events[j].at
                    <= RotationTimeout
      BY <1>6, <2>2 DEF Fresh, n
    <3>2. k <= m
      BY <1>1, <1>2, <1>4, <3>1
    <3>3. ASSUME NEW i \in m - k + 1 .. m
          PROVE  /\ log[i].turn = way
                 /\ (IF i = m THEN now ELSE log[i + 1].at) - log[i].at
                      <= RotationTimeout
      <4>1. CASE i = m
        BY <1>2, <1>3, <1>6, <4>1
      <4>2. CASE i # m
        <5>1. /\ i \in 1 .. m - 1 /\ i + d \in n - (k - 1) + 1 .. n
              /\ (i + d = n <=> i + 1 = m)
              /\ (i + 1 # m => i + 1 \in 1 .. m - 1 /\ (i + 1) + d = (i + d) + 1)
          BY <1>1, <1>2, <1>4, <3>2, <4>2
        <5>2. log[i] = events[i + d]
          BY <1>1, <5>1
        <5>3. CASE i + 1 = m
          BY <1>3, <3>1, <4>2, <5>1, <5>2, <5>3
        <5>4. CASE i + 1 # m
          <6>1. log[i + 1] = events[(i + d) + 1]
            BY <1>1, <5>1, <5>4
          <6>2. QED
            BY <3>1, <4>2, <5>1, <5>2, <5>4, <6>1
        <5>5. QED
          BY <5>3, <5>4
      <4>3. QED
        BY <4>1, <4>2
    <3>4. QED
      BY <3>2, <3>3 DEF Fresh, m
  <2>3. QED
    BY <2>1, <2>2
<1>7. QED
  BY <1>5, <1>6 DEF log

\* Counting forwards and looking back agree on the turns up to this frame.
LEMMA TurnsCounted ==
  ASSUME TypeOK, DialInv, NEW frame \in Frame,
         NEW turn, turn = Turn(Down(generator, frame))
  PROVE  /\ turn \in {"both", "cw", "ccw", "none"}
         /\ turn = "none" => TurnsWith(frame) = dial
         /\ turn # "none" => TurnsWith(frame) = Log(dial, turn)
         /\ \A way \in Way : \A k \in 1 .. RotationThreshold :
              Fresh(TurnsWith(frame), way, k, now)
                <=> k <= Counted(generator, turn, way, now)
<1>1. /\ dial \in Seq(DialEvent) /\ Len(dial) <= RotationThreshold /\ now \in Nat
      /\ \A i \in 1 .. Len(dial) : dial[i].at <= now
      /\ generator \in Generator
  BY DEF TypeOK, DialInv, DialEvent
<1>2. turn \in {"both", "cw", "ccw", "none"}
  BY DEF Turn
<1>3. /\ turn = "none" => TurnsWith(frame) = dial
      /\ turn # "none" => TurnsWith(frame) = Log(dial, turn)
  <2> DEFINE d == frame.pressed \ generator.current.pressed
             both == {"encoder_clockwise", "encoder_counter_clockwise"} \subseteq d
             cw == d \cap {"encoder_clockwise", "encoder_counter_clockwise"}
                     = {"encoder_clockwise"}
             ccw == d \cap {"encoder_clockwise", "encoder_counter_clockwise"}
                      = {"encoder_counter_clockwise"}
  <2>1. TurnsWith(frame) = IF both THEN Log(dial, "both")
                           ELSE IF cw THEN Log(dial, "cw")
                           ELSE IF ccw THEN Log(dial, "ccw") ELSE dial
    BY DEF TurnsWith, WentDown
  <2>2. /\ both <=> turn = "both"
        /\ cw <=> turn = "cw"
        /\ ccw <=> turn = "ccw"
    BY DEF Turn, Down
  <2> HIDE DEF both, cw, ccw
  <2>3. QED
    BY <1>2, <2>1, <2>2
<1>4. ASSUME NEW way \in Way, NEW k \in 1 .. RotationThreshold
      PROVE  Fresh(TurnsWith(frame), way, k, now)
               <=> k <= Counted(generator, turn, way, now)
  <2>1. Live(generator, way, now) \in Nat /\ RotationThreshold \in Nat
    BY <1>1, LiveType, GeneratorAssumption
  <2>2. \A j \in 1 .. RotationThreshold :
          Fresh(dial, way, j, now) <=> j <= Live(generator, way, now)
    BY DEF DialInv
  <2>3. CASE turn = "none"
    BY <1>3, <2>2, <2>3 DEF Counted, Way
  <2>4. CASE turn # "none"
    <3>1. TurnsWith(frame) = Log(dial, turn)
          /\ turn \in {"cw", "ccw", "both", "confirm"}
      BY <1>2, <1>3, <2>4
    <3>2. Fresh(TurnsWith(frame), way, k, now)
            <=> turn = way /\ (k = 1 \/ Fresh(dial, way, k - 1, now))
      BY <1>1, <3>1, FreshLogged
    <3>3. k # 1 => k - 1 \in 1 .. RotationThreshold
      BY <2>1
    <3>4. turn = way => Counted(generator, turn, way, now)
                          = Live(generator, way, now) + 1
      BY DEF Counted
    <3>5. turn # way => Counted(generator, turn, way, now) = 0
      BY <2>4 DEF Counted
    <3>6. QED
      BY <2>1, <2>2, <3>2, <3>3, <3>4, <3>5
  <2>5. QED
    BY <2>3, <2>4
<1>5. QED
  BY <1>2, <1>3, <1>4

LEMMA CountedType ==
  ASSUME NEW g \in Generator, NEW way, NEW turn, NEW time
  PROVE  Counted(g, turn, way, time) \in Nat
BY LiveType DEF Counted

\* A confirmation makes the request that the history asks for.
LEMMA DeliberateIsCounted ==
  ASSUME TypeOK, DialInv, NEW frame \in Frame, NEW way \in Way,
         NEW turn, turn = Turn(Down(generator, frame))
  PROVE  /\ Deliberate(TurnsWith(frame), way)
              <=> Counted(generator, turn, way, now) >= RotationThreshold
         /\ TurnsWith(frame) \in Seq(DialEvent)
         /\ Len(TurnsWith(frame)) <= RotationThreshold
         /\ \A i \in 1 .. Len(TurnsWith(frame)) : TurnsWith(frame)[i].at <= now
         /\ turn # "none" => /\ Len(TurnsWith(frame)) > 0
                             /\ TurnsWith(frame)[Len(TurnsWith(frame))].at = now
<1> DEFINE turns == TurnsWith(frame)
<1>1. /\ dial \in Seq(DialEvent) /\ Len(dial) <= RotationThreshold /\ now \in Nat
      /\ \A i \in 1 .. Len(dial) : dial[i].at <= now
      /\ generator \in Generator
  BY DEF TypeOK, DialInv, DialEvent
<1>2. RotationThreshold \in Nat \ {0}
  BY GeneratorAssumption
<1>3. /\ turn \in {"both", "cw", "ccw", "none"}
      /\ turn = "none" => turns = dial
      /\ turn # "none" => turns = Log(dial, turn)
      /\ Fresh(turns, way, RotationThreshold, now)
           <=> RotationThreshold <= Counted(generator, turn, way, now)
  BY <1>2, TurnsCounted
<1> HIDE DEF turns
<1>4. /\ turns \in Seq(DialEvent) /\ Len(turns) <= RotationThreshold
      /\ \A i \in 1 .. Len(turns) : turns[i].at <= now
      /\ turn # "none" => Len(turns) > 0 /\ turns[Len(turns)].at = now
  <2>1. CASE turn = "none"
    BY <1>1, <1>3, <2>1
  <2>2. CASE turn # "none"
    <3>1. turn \in {"cw", "ccw", "both", "confirm"} /\ turns = Log(dial, turn)
      BY <1>3, <2>2
    <3>2. /\ Log(dial, turn) \in Seq(DialEvent)
          /\ Len(Log(dial, turn)) \in Nat \ {0}
          /\ Len(Log(dial, turn)) <= RotationThreshold
          /\ Log(dial, turn)[Len(Log(dial, turn))] = [turn |-> turn, at |-> now]
          /\ \A i \in 1 .. Len(Log(dial, turn)) : Log(dial, turn)[i].at <= now
      BY <1>1, <3>1, LogFacts
    <3>3. QED
      BY <3>1, <3>2
  <2>3. QED
    BY <2>1, <2>2
<1>5. Deliberate(turns, way) <=> Fresh(turns, way, RotationThreshold, now)
  <2>1. Len(turns) \in Nat
    BY <1>4
  <2>2. RotationThreshold <= Len(turns) <=> Len(turns) = RotationThreshold
    BY <1>2, <1>4, <2>1
  <2>3. RotationThreshold - RotationThreshold + 1 = 1
    BY <1>2
  <2>4. QED
    BY <2>2, <2>3 DEF Deliberate, Fresh
<1>6. Counted(generator, turn, way, now) \in Nat
  BY <1>1, CountedType
<1>7. QED
  BY <1>2, <1>3, <1>4, <1>5, <1>6 DEF turns

LEMMA InputGestures ==
  ASSUME GestureInv, NEW frame \in Frames, Input(frame)
  PROVE  DialInv' /\ HeldInv'
<1> DEFINE g == generator
           p == generator'
           turn == Turn(Down(generator, frame))
<1>1. /\ frame \in Frame /\ generator \in Generator /\ now \in Nat /\ TypeOK
      /\ DialInv /\ HeldInv
  BY InputAssumption DEF GestureInv, IInv, TypeOK
<1>2. /\ generator' = ProcessInputState(generator, frame, now) /\ now' = now
      /\ dial' = (IF Confirms(frame) THEN Log(TurnsWith(frame), "confirm")
                                     ELSE TurnsWith(frame))
      /\ held' = [c \in Combo |-> HeldWith(frame, c)]
  BY DEF Input
<1>3. Confirms(frame) <=> Confirmed(generator, frame)
  BY DEF Confirms, Confirmed, WentDown, Down
<1>4. RotationThreshold \in Nat \ {0} /\ RotationTimeout \in Nat
  BY GeneratorAssumption
<1>5. /\ TurnsWith(frame) \in Seq(DialEvent)
      /\ Len(TurnsWith(frame)) <= RotationThreshold
      /\ \A i \in 1 .. Len(TurnsWith(frame)) : TurnsWith(frame)[i].at <= now
      /\ turn # "none" => /\ Len(TurnsWith(frame)) > 0
                          /\ TurnsWith(frame)[Len(TurnsWith(frame))].at = now
      /\ Enters(frame) <=>
           /\ Confirmed(generator, frame)
           /\ Counted(generator, turn, "cw", now) >= RotationThreshold
  BY <1>1, <1>3, DeliberateIsCounted DEF Enters, Way
<1>6. /\ turn = "none" => TurnsWith(frame) = dial
      /\ \A way \in Way : \A k \in 1 .. RotationThreshold :
           Fresh(TurnsWith(frame), way, k, now)
             <=> k <= Counted(generator, turn, way, now)
  BY <1>1, TurnsCounted
<1>7. /\ p \in Generator /\ p.current = frame
      /\ ~Confirmed(g, frame) =>
           /\ \A way \in Way : Clicks(p, way) = Counted(g, turn, way, now)
           /\ \A way \in Way : Clicks(p, way) > 0 => p.lastRotation =
                IF turn = "none" THEN g.lastRotation ELSE now
      /\ Confirmed(g, frame) => \A way \in Way : Clicks(p, way) = 0
      /\ ~Enters(frame) =>
           p.holdStart = NextHolds(g.holdStart, g.current, frame, now)
      /\ Enters(frame) =>
           p.holdStart = NextHolds(NoHolds, g.current, frame, now)
  BY <1>1, <1>2, <1>5, FrameGestures
<1> HIDE DEF turn
<1>8. DialInv'
  <2>1. CASE ~Confirmed(g, frame)
    <3>1. dial' = TurnsWith(frame)
      BY <1>2, <1>3, <2>1
    <3>2. ASSUME NEW way \in Way
          PROVE  /\ Live(p, way, now) = Counted(g, turn, way, now)
                 /\ Clicks(p, way) > 0 =>
                      /\ Len(dial') > 0 /\ p.lastRotation = dial'[Len(dial')].at
      <4>1. /\ Clicks(p, way) = Counted(g, turn, way, now)
            /\ Clicks(p, way) \in Nat
        BY <1>7, <2>1, LiveType
      <4>2. CASE Clicks(p, way) = 0
        <5>1. Live(p, way, now) = 0
          BY <4>2 DEF Live
        <5>2. QED
          BY <4>1, <4>2, <5>1
      <4>3. CASE Clicks(p, way) > 0 /\ turn # "none"
        <5>1. p.lastRotation = now
          BY <1>7, <2>1, <4>3
        <5>2. ~(now - now > RotationTimeout)
          BY <1>1, <1>4
        <5>3. Live(p, way, now) = Clicks(p, way)
          BY <5>1, <5>2 DEF Live
        <5>4. QED
          BY <1>5, <3>1, <4>1, <4>3, <5>1, <5>3
      <4>4. CASE Clicks(p, way) > 0 /\ turn = "none"
        <5>1. p.lastRotation = g.lastRotation /\ dial' = dial
          BY <1>6, <1>7, <2>1, <3>1, <4>4
        <5>2. Live(g, way, now) = Clicks(p, way)
          BY <4>1, <4>4 DEF Counted, Way
        <5>3. /\ ~(g.lastRotation # NoTime
                    /\ now - g.lastRotation > RotationTimeout)
              /\ Clicks(g, way) = Clicks(p, way)
          BY <4>4, <5>2 DEF Live
        <5>4. Live(p, way, now) = Clicks(p, way)
          BY <5>1, <5>3 DEF Live
        <5>5. Len(dial) > 0 /\ g.lastRotation = dial[Len(dial)].at
          BY <1>1, <4>4, <5>3 DEF DialInv
        <5>6. QED
          BY <4>1, <5>1, <5>4, <5>5
      <4>5. QED
        BY <4>1, <4>2, <4>3, <4>4
    <3>3. QED
      BY <1>2, <1>5, <1>6, <3>1, <3>2 DEF DialInv
  <2>2. CASE Confirmed(g, frame)
    <3>1. dial' = Log(TurnsWith(frame), "confirm")
      BY <1>2, <1>3, <2>2
    <3>2. /\ Len(dial') <= RotationThreshold
          /\ \A i \in 1 .. Len(dial') : dial'[i].at <= now
      <4>1. "confirm" \in {"cw", "ccw", "both", "confirm"}
        OBVIOUS
      <4>2. QED
        BY <1>1, <1>5, <3>1, <4>1, LogFacts
    <3>3. ASSUME NEW way \in Way
          PROVE  /\ Clicks(p, way) = 0 /\ Live(p, way, now) = 0
                 /\ \A k \in 1 .. RotationThreshold : ~Fresh(dial', way, k, now)
      <4>1. Clicks(p, way) = 0
        BY <1>7, <2>2
      <4>2. Live(p, way, now) = 0
        BY <4>1 DEF Live
      <4>3. "confirm" \in {"cw", "ccw", "both", "confirm"} /\ "confirm" # way
        BY DEF Way
      <4>4. \A k \in 1 .. RotationThreshold : ~Fresh(dial', way, k, now)
        BY <1>1, <1>5, <3>1, <4>3, FreshLogged
      <4>5. QED
        BY <4>1, <4>2, <4>4
    <3>4. QED
      BY <1>2, <1>4, <3>2, <3>3 DEF DialInv
  <2>3. QED
    BY <2>1, <2>2
<1>9. ASSUME NEW c \in Combo
      PROVE  /\ held'[c] # NotHeld <=> ComboHeld(c, p.current)
             /\ held'[c] # NotHeld => held'[c].since # NoTime
             /\ p.holdStart[c] =
                  IF held'[c] # NotHeld /\ ~held'[c].spent
                  THEN held'[c].since ELSE NoTime
  <2>1. held'[c] = HeldWith(frame, c)
    BY <1>2
  <2>2. /\ held[c] \in [since: Time, spent: BOOLEAN]
        /\ held[c] # NotHeld <=> ComboHeld(c, g.current)
        /\ held[c] # NotHeld => held[c].since # NoTime
        /\ g.holdStart[c] =
             IF held[c] # NotHeld /\ ~held[c].spent THEN held[c].since ELSE NoTime
    BY <1>1 DEF HeldInv, TypeOK
  <2>3. CASE ~ComboHeld(c, frame)
    <3>1. held'[c] = NotHeld
      BY <2>1, <2>3 DEF HeldWith
    <3>2. p.holdStart[c] = NoTime
      BY <1>7, <2>3 DEF NextHolds
    <3>3. QED
      BY <1>7, <2>3, <3>1, <3>2
  <2>4. CASE ComboHeld(c, frame) /\ held[c] = NotHeld
    <3>1. held'[c] = [since |-> now, spent |-> FALSE]
      BY <2>1, <2>4 DEF HeldWith
    <3>2. p.holdStart[c] = now
      BY <1>7, <2>2, <2>4 DEF NextHolds
    <3>3. now # NoTime
      BY <1>1 DEF NoTime
    <3>4. [since |-> now, spent |-> FALSE] # NotHeld
      BY <3>3 DEF NotHeld
    <3>5. QED
      BY <1>7, <2>4, <3>1, <3>2, <3>3, <3>4
  <2>5. CASE ComboHeld(c, frame) /\ held[c] # NotHeld
    <3> DEFINE h == [held[c] EXCEPT !.spent = @ \/ Enters(frame)]
    <3>1. held'[c] = h
      BY <2>1, <2>5 DEF HeldWith
    <3>2. h.since = held[c].since /\ (h.spent <=> held[c].spent \/ Enters(frame))
      BY <2>2
    <3> HIDE DEF h
    <3>3. h # NotHeld
      BY <2>2, <2>5, <3>2 DEF NotHeld
    <3>4. ComboHeld(c, g.current)
      BY <2>2, <2>5
    <3>5. CASE Enters(frame)
      <4>1. p.holdStart[c] = NoTime
        BY <1>7, <2>5, <3>4, <3>5 DEF NextHolds, NoHolds
      <4>2. QED
        BY <1>7, <2>2, <2>5, <3>1, <3>2, <3>3, <3>5, <4>1
    <3>6. CASE ~Enters(frame)
      <4>1. p.holdStart[c] = g.holdStart[c]
        BY <1>7, <2>5, <3>4, <3>6 DEF NextHolds
      <4>2. h.spent <=> held[c].spent
        BY <3>2, <3>6
      <4>3. QED
        BY <1>7, <2>2, <2>5, <3>1, <3>2, <3>3, <4>1, <4>2
    <3>7. QED
      BY <3>5, <3>6
  <2>6. QED
    BY <2>3, <2>4, <2>5
<1>10. HeldInv'
  BY <1>9 DEF HeldInv
<1>11. QED
  BY <1>8, <1>10

(***************************************************************************)
(* The other steps, and the gestures in every behavior.                    *)
(***************************************************************************)
LEMMA GenerateFields ==
  ASSUME NEW g \in Generator, NEW time \in Nat
  PROVE  LET h == GenerateCommand(g, time)
         IN  /\ h.current = g.current /\ h.command.mode = g.command.mode
             /\ \A way : Clicks(h, way) = Clicks(g, way)
             /\ h.lastRotation = g.lastRotation
             /\ \A c \in Combo :
                  /\ h.holdStart[c] = IF HoldElapsed(g, c, time) THEN NoTime
                                      ELSE g.holdStart[c]
                  /\ h.command.switch[c] =
                       IF HoldElapsed(g, c, time)
                       THEN ToggleSwitch(g.command.switch[c], g.vehicle.on[c])
                       ELSE g.command.switch[c]
<1> DEFINE fired == {c \in Combo : HoldElapsed(g, c, time)}
           h == GenerateCommand(g, time)
<1>1. /\ h.current = g.current /\ h.cw = g.cw /\ h.ccw = g.ccw
      /\ h.lastRotation = g.lastRotation
      /\ h.command = [g.command EXCEPT !.switch = Toggled(g, fired)]
      /\ h.holdStart = [c \in Combo |->
                          IF c \in fired THEN NoTime ELSE g.holdStart[c]]
  BY DEF GenerateCommand, Generator
<1>2. g.command \in ControlCommand
  BY DEF Generator
<1> HIDE DEF h
<1>3. h.command.switch = Toggled(g, fired) /\ h.command.mode = g.command.mode
  BY <1>1, <1>2 DEF ControlCommand
<1>4. \A way : Clicks(h, way) = Clicks(g, way)
  BY <1>1 DEF Clicks
<1>5. Combo \subseteq LatchedSwitch
  BY DEF Combo, LatchedSwitch
<1>6. ASSUME NEW c \in Combo
      PROVE  /\ h.holdStart[c] = IF HoldElapsed(g, c, time) THEN NoTime
                                 ELSE g.holdStart[c]
             /\ h.command.switch[c] =
                  IF HoldElapsed(g, c, time)
                  THEN ToggleSwitch(g.command.switch[c], g.vehicle.on[c])
                  ELSE g.command.switch[c]
  <2>1. c \in fired <=> HoldElapsed(g, c, time)
    OBVIOUS
  <2> HIDE DEF fired
  <2>2. QED
    BY <1>1, <1>3, <1>5, <2>1 DEF Toggled
<1>7. QED
  BY <1>1, <1>3, <1>4, <1>6 DEF h

LEMMA SyncFields ==
  ASSUME NEW g \in Generator, NEW state
  PROVE  LET h == SyncVehicleState(g, state)
         IN  /\ h.current = g.current
             /\ \A way : Clicks(h, way) = Clicks(g, way)
             /\ h.lastRotation = g.lastRotation
             /\ h.holdStart = g.holdStart
             /\ h.command.mode \in {g.command.mode, "NONE"}
BY DEF SyncVehicleState, Generator, ControlCommand, Clicks

LEMMA NewFields ==
  /\ NewGenerator.current = Released
  /\ NewGenerator.command.mode = "NONE"
  /\ \A way : Clicks(NewGenerator, way) = 0
  /\ \A c \in Combo : NewGenerator.holdStart[c] = NoTime
  /\ \A c \in Combo : ~ComboHeld(c, Released)
BY DEF NewGenerator, EmptyCommand, Clicks, ComboHeld, Released

LEMMA LiveKept ==
  ASSUME NEW g, NEW h, NEW way, NEW time,
         Clicks(h, way) = Clicks(g, way), h.lastRotation = g.lastRotation
  PROVE  Live(h, way, time) = Live(g, way, time)
BY DEF Live

\* The timer of a hold has elapsed when the hold is due.
LEMMA ElapsedIsDue ==
  ASSUME HeldInv, NEW c \in Combo
  PROVE  HoldElapsed(generator, c, now) <=> Due(c)
BY DEF HeldInv, HoldElapsed, Due

LEMMA GenerateGestures ==
  ASSUME GestureInv, Generate
  PROVE  DialInv' /\ HeldInv'
<1>1. /\ generator \in Generator /\ now \in Nat /\ DialInv /\ HeldInv
      /\ held \in [Combo -> [since: Time, spent: BOOLEAN]]
  BY DEF GestureInv, IInv, TypeOK
<1>2. /\ generator' = GenerateCommand(generator, now) /\ now' = now /\ dial' = dial
      /\ held' = [c \in Combo |-> [held[c] EXCEPT !.spent = @ \/ Due(c)]]
  BY DEF Generate
<1>3. /\ generator'.current = generator.current
      /\ \A way : Clicks(generator', way) = Clicks(generator, way)
      /\ generator'.lastRotation = generator.lastRotation
      /\ \A c \in Combo : generator'.holdStart[c] =
           IF HoldElapsed(generator, c, now) THEN NoTime
           ELSE generator.holdStart[c]
  BY <1>1, <1>2, GenerateFields
<1>4. \A way : Live(generator', way, now) = Live(generator, way, now)
  BY <1>3, LiveKept
<1>5. DialInv'
  BY <1>1, <1>2, <1>3, <1>4 DEF DialInv
<1>6. ASSUME NEW c \in Combo
      PROVE  /\ held'[c] # NotHeld <=> ComboHeld(c, generator'.current)
             /\ held'[c] # NotHeld => held'[c].since # NoTime
             /\ generator'.holdStart[c] =
                  IF held'[c] # NotHeld /\ ~held'[c].spent
                  THEN held'[c].since ELSE NoTime
  <2> DEFINE h == [held[c] EXCEPT !.spent = @ \/ Due(c)]
  <2>1. held'[c] = h
    BY <1>2
  <2>2. /\ held[c] \in [since: Time, spent: BOOLEAN]
        /\ held[c] # NotHeld <=> ComboHeld(c, generator.current)
        /\ held[c] # NotHeld => held[c].since # NoTime
        /\ generator.holdStart[c] =
             IF held[c] # NotHeld /\ ~held[c].spent THEN held[c].since ELSE NoTime
    BY <1>1 DEF HeldInv
  <2>3. HoldElapsed(generator, c, now) <=> Due(c)
    BY <1>1, ElapsedIsDue
  <2>4. /\ h \in [since: Time, spent: BOOLEAN]
        /\ h.since = held[c].since /\ (h.spent <=> held[c].spent \/ Due(c))
    <3>1. Due(c) \in BOOLEAN
      BY DEF Due
    <3>2. QED
      BY <2>2, <3>1
  <2> HIDE DEF h
  <2>5. CASE held[c] = NotHeld
    <3>1. ~Due(c)
      BY <2>5 DEF Due
    <3>2. h.since = NoTime /\ ~h.spent
      BY <2>4, <2>5, <3>1 DEF NotHeld
    <3>3. h = NotHeld
      BY <2>4, <3>2 DEF NotHeld
    <3>4. QED
      BY <1>3, <2>1, <2>2, <2>3, <2>5, <3>1, <3>3
  <2>6. CASE held[c] # NotHeld
    <3>1. h # NotHeld
      BY <2>2, <2>4, <2>6 DEF NotHeld
    <3>2. CASE Due(c)
      <4>1. generator'.holdStart[c] = NoTime /\ h.spent
        BY <1>3, <2>3, <2>4, <3>2
      <4>2. QED
        BY <1>3, <2>1, <2>2, <2>4, <2>6, <3>1, <4>1
    <3>3. CASE ~Due(c)
      <4>1. generator'.holdStart[c] = generator.holdStart[c]
        BY <1>3, <2>3, <3>3
      <4>2. h.spent <=> held[c].spent
        BY <2>4, <3>3
      <4>3. QED
        BY <1>3, <2>1, <2>2, <2>4, <2>6, <3>1, <4>1, <4>2
    <3>4. QED
      BY <3>2, <3>3
  <2>7. QED
    BY <2>5, <2>6
<1>7. HeldInv'
  BY <1>6 DEF HeldInv
<1>8. QED
  BY <1>5, <1>7

LEMMA SyncGestures ==
  ASSUME GestureInv, NEW state \in VehicleStates, Sync(state)
  PROVE  DialInv' /\ HeldInv'
<1>1. /\ generator \in Generator /\ DialInv /\ HeldInv
      /\ generator' = SyncVehicleState(generator, state)
      /\ now' = now /\ dial' = dial /\ held' = held
  BY DEF GestureInv, IInv, TypeOK, Sync
<1>2. /\ generator'.current = generator.current
      /\ \A way : Clicks(generator', way) = Clicks(generator, way)
      /\ generator'.lastRotation = generator.lastRotation
      /\ generator'.holdStart = generator.holdStart
  BY <1>1, SyncFields
<1>3. \A way : Live(generator', way, now) = Live(generator, way, now)
  BY <1>2, LiveKept
<1>4. DialInv'
  BY <1>1, <1>2, <1>3 DEF DialInv
<1>5. HeldInv'
  BY <1>1, <1>2 DEF HeldInv
<1>6. QED
  BY <1>4, <1>5

\* Nothing turned, nothing held.
LEMMA NewGestures ==
  ASSUME generator = NewGenerator, dial = <<>>,
         held = [c \in Combo |-> NotHeld]
  PROVE  DialInv /\ HeldInv
<1>1. Len(dial) = 0 /\ RotationThreshold \in Nat \ {0}
  BY GeneratorAssumption
<1>2. \A way : Clicks(generator, way) = 0 /\ Live(generator, way, now) = 0
  BY NewFields DEF Live
<1>3. \A way \in Way : \A k \in 1 .. RotationThreshold :
        ~Fresh(dial, way, k, now)
  BY <1>1 DEF Fresh
<1>4. DialInv
  BY <1>1, <1>2, <1>3 DEF DialInv
<1>5. HeldInv
  BY NewFields DEF HeldInv
<1>6. QED
  BY <1>4, <1>5

\* A pause that has made the clicks void has also ended the run.
LEMMA TickGestures ==
  ASSUME GestureInv, Tick
  PROVE  DialInv' /\ HeldInv'
<1>1. /\ generator' = generator /\ dial' = dial /\ held' = held /\ now' = now + 1
      /\ now \in Nat /\ DialInv /\ HeldInv /\ generator \in Generator
      /\ dial \in Seq(DialEvent)
  BY DEF GestureInv, IInv, TypeOK, Tick, DialEvent
<1>2. RotationThreshold \in Nat \ {0} /\ RotationTimeout \in Nat
  BY GeneratorAssumption
<1> DEFINE n == Len(dial)
           g == generator
<1>3. /\ n \in Nat /\ \A i \in 1 .. n : dial[i].at \in Nat
  <2>1. n \in Nat /\ \A i \in 1 .. n : dial[i] \in DialEvent
    BY <1>1
  <2>2. QED
    BY <2>1 DEF DialEvent
<1>4. ASSUME NEW way \in Way, NEW k \in 1 .. RotationThreshold
      PROVE  Fresh(dial, way, k, now + 1) <=> k <= Live(g, way, now + 1)
  <2>1. Fresh(dial, way, k, now) <=> k <= Live(g, way, now)
    BY <1>1 DEF DialInv
  <2>2. Fresh(dial, way, k, now + 1)
          <=> Fresh(dial, way, k, now) /\ (now + 1) - dial[n].at <= RotationTimeout
    <3>1. ASSUME k <= n
          PROVE  /\ n \in n - k + 1 .. n
                 /\ (now + 1) - dial[n].at <= RotationTimeout
                      => now - dial[n].at <= RotationTimeout
      BY <1>1, <1>2, <1>3, <3>1
    <3>2. QED
      BY <3>1 DEF Fresh
  <2>3. /\ Clicks(g, way) \in Nat /\ Live(g, way, now) \in Nat
        /\ Live(g, way, now + 1) \in Nat
    BY <1>1, LiveType
  <2>4. Clicks(g, way) > 0 => n > 0 /\ g.lastRotation = dial[n].at
    BY <1>1 DEF DialInv
  <2>5. CASE Clicks(g, way) = 0
    <3>1. Live(g, way, now) = 0 /\ Live(g, way, now + 1) = 0
      BY <2>5 DEF Live
    <3>2. ~(k <= 0)
      BY <1>2
    <3>3. QED
      BY <2>1, <2>2, <3>1, <3>2
  <2>6. CASE Clicks(g, way) > 0
    <3>1. n > 0 /\ g.lastRotation = dial[n].at /\ dial[n].at \in Nat
          /\ g.lastRotation # NoTime
      BY <1>3, <2>4, <2>6 DEF NoTime
    <3>2. CASE (now + 1) - dial[n].at <= RotationTimeout
      <4>1. /\ ~((now + 1) - g.lastRotation > RotationTimeout)
            /\ ~(now - g.lastRotation > RotationTimeout)
        BY <1>1, <1>2, <3>1, <3>2
      <4>2. Live(g, way, now) = Live(g, way, now + 1)
        BY <4>1 DEF Live
      <4>3. QED
        BY <2>1, <2>2, <3>2, <4>2
    <3>3. CASE ~((now + 1) - dial[n].at <= RotationTimeout)
      <4>1. (now + 1) - g.lastRotation > RotationTimeout
        BY <1>1, <1>2, <3>1, <3>3
      <4>2. Live(g, way, now + 1) = 0
        BY <3>1, <4>1 DEF Live
      <4>3. ~(k <= 0)
        BY <1>2
      <4>4. QED
        BY <2>2, <3>3, <4>2, <4>3
    <3>4. QED
      BY <3>2, <3>3
  <2>7. QED
    BY <2>3, <2>5, <2>6
<1>5. \A i \in 1 .. n : dial[i].at <= now + 1
  BY <1>1, <1>3 DEF DialInv
<1>6. DialInv'
  BY <1>1, <1>4, <1>5 DEF DialInv
<1>7. HeldInv'
  BY <1>1 DEF HeldInv
<1>8. QED
  BY <1>6, <1>7

\* At every moment the counters hold the longest run of turns that may still
\* count, and a timer runs for exactly the holds that are not spent.
THEOREM GestureInvariant == Spec => []GestureInv
<1>1. Init => DialInv /\ HeldInv
  BY NewGestures DEF Init
<1>2. IInv /\ DialInv /\ HeldInv /\ [Next]_vars => DialInv' /\ HeldInv'
  <2> SUFFICES ASSUME IInv, DialInv, HeldInv, [Next]_vars
               PROVE  DialInv' /\ HeldInv'
    OBVIOUS
  <2>0. GestureInv
    BY DEF GestureInv
  <2>1. ASSUME NEW frame \in Frames, Input(frame)
        PROVE  DialInv' /\ HeldInv'
    BY <2>0, <2>1, InputGestures
  <2>2. CASE Generate
    BY <2>0, <2>2, GenerateGestures
  <2>3. ASSUME NEW state \in VehicleStates, Sync(state)
        PROVE  DialInv' /\ HeldInv'
    BY <2>0, <2>3, SyncGestures
  <2>4. CASE Reset
    <3>1. /\ generator' = NewGenerator /\ dial' = <<>>
          /\ held' = [c \in Combo |-> NotHeld]
      BY <2>4 DEF Reset
    <3>2. Len(dial') = 0 /\ RotationThreshold \in Nat \ {0}
      BY <3>1, GeneratorAssumption
    <3>3. \A way : Clicks(generator', way) = 0 /\ Live(generator', way, now') = 0
      BY <3>1, NewFields DEF Live
    <3>4. \A way \in Way : \A k \in 1 .. RotationThreshold :
            ~Fresh(dial', way, k, now')
      BY <3>2 DEF Fresh
    <3>5. DialInv'
      BY <3>2, <3>3, <3>4 DEF DialInv
    <3>6. HeldInv'
      BY <3>1, NewFields DEF HeldInv
    <3>7. QED
      BY <3>5, <3>6
  <2>5. CASE Tick
    BY <2>0, <2>5, TickGestures
  <2>6. CASE UNCHANGED vars
    BY <2>6 DEF vars, DialInv, HeldInv
  <2>7. QED
    BY <2>1, <2>2, <2>3, <2>4, <2>5, <2>6 DEF Next
<1>3. QED
  BY <1>1, <1>2, GeneratorInvariant, PTL DEF Spec, GestureInv

\* Only a frame of the device presses a button.
LEMMA OnlyInputConfirms ==
  ASSUME GestureInv, [Next]_vars, Confirms(generator'.current)
  PROVE  \E frame \in Frames : Input(frame) /\ frame = generator'.current
<1>1. generator \in Generator /\ now \in Nat
  BY DEF GestureInv, IInv, TypeOK
<1>2. generator'.current \notin {generator.current, Released}
  BY DEF Confirms, WentDown, Released
<1>3. ~Generate
  BY <1>1, <1>2, GenerateFields DEF Generate
<1>4. ~(\E state \in VehicleStates : Sync(state))
  BY <1>1, <1>2, SyncFields DEF Sync
<1>5. ~Reset
  BY <1>2, NewFields DEF Reset
<1>6. ~Tick /\ ~(UNCHANGED vars)
  BY <1>2 DEF Tick, vars
<1>7. PICK frame \in Frames : Input(frame)
  BY <1>3, <1>4, <1>5, <1>6 DEF Next
<1>8. generator'.current = frame
  <2>1. frame \in Frame
    BY InputAssumption
  <2>2. generator' = ProcessInputState(generator, frame, now)
    BY <1>7 DEF Input
  <2>3. QED
    BY <1>1, <2>1, <2>2, ProcessInputStateFields
<1>9. QED
  BY <1>7, <1>8

LEMMA ConfirmingFrame ==
  ASSUME GestureInv, NEW frame \in Frames, Input(frame)
  PROVE  /\ generator'.current = frame
         /\ ~Confirms(frame) => generator'.command.mode = generator.command.mode
         /\ Confirms(frame) => generator'.command.mode =
              IF Deliberate(TurnsWith(frame), "cw") THEN "ENTER"
              ELSE IF Deliberate(TurnsWith(frame), "ccw") THEN "EXIT"
              ELSE generator.command.mode
         /\ Enters(frame) =>
              /\ generator'.command.gear = "NO_CONTROL"
              /\ generator'.command.switch = EmptyCommand.switch
              /\ generator'.holdStart =
                   NextHolds(NoHolds, generator.current, frame, now)
<1> DEFINE turn == Turn(Down(generator, frame))
<1>1. /\ frame \in Frame /\ generator \in Generator /\ now \in Nat
      /\ TypeOK /\ DialInv
  BY InputAssumption DEF GestureInv, IInv, TypeOK
<1>2. generator' = ProcessInputState(generator, frame, now)
  BY DEF Input
<1>3. Confirms(frame) <=> Confirmed(generator, frame)
  BY DEF Confirms, Confirmed, WentDown, Down
<1>4. /\ Deliberate(TurnsWith(frame), "cw")
           <=> Counted(generator, turn, "cw", now) >= RotationThreshold
      /\ Deliberate(TurnsWith(frame), "ccw")
           <=> Counted(generator, turn, "ccw", now) >= RotationThreshold
  BY <1>1, DeliberateIsCounted DEF Way
<1>5. Enters(frame) <=> Confirms(frame) /\ Deliberate(TurnsWith(frame), "cw")
  BY DEF Enters
<1>6. QED
  BY <1>1, <1>2, <1>3, <1>4, <1>5, FrameGestures

\* A request follows from a deliberate gesture at the dial and from nothing
\* else, for any threshold and any timeout.
THEOREM Dial == Spec => DialDecides
<1>1. GestureInv /\ [Next]_vars =>
        [LET frame == generator'.current
             turns == TurnsWith(frame)
             mode == generator.command.mode
         IN  IF Confirms(frame)
             THEN generator'.command.mode =
                    IF Deliberate(turns, "cw") THEN "ENTER"
                    ELSE IF Deliberate(turns, "ccw") THEN "EXIT" ELSE mode
             ELSE generator'.command.mode \in {mode, "NONE"}]_vars
  <2> SUFFICES ASSUME GestureInv, Next
               PROVE  /\ Confirms(generator'.current) =>
                           generator'.command.mode =
                             IF Deliberate(TurnsWith(generator'.current), "cw")
                             THEN "ENTER"
                             ELSE IF Deliberate(TurnsWith(generator'.current), "ccw")
                             THEN "EXIT" ELSE generator.command.mode
                      /\ ~Confirms(generator'.current) =>
                           generator'.command.mode
                             \in {generator.command.mode, "NONE"}
    OBVIOUS
  <2>1. CASE Confirms(generator'.current)
    BY <2>1, OnlyInputConfirms, ConfirmingFrame
  <2>2. CASE ~Confirms(generator'.current)
    <3>1. generator \in Generator /\ now \in Nat
      BY DEF GestureInv, IInv, TypeOK
    <3>2. ASSUME NEW frame \in Frames, Input(frame)
          PROVE  generator'.command.mode = generator.command.mode
      BY <2>2, <3>2, ConfirmingFrame
    <3>3. ASSUME Generate
          PROVE  generator'.command.mode \in {generator.command.mode, "NONE"}
      BY <3>1, <3>3, GenerateFields DEF Generate
    <3>4. ASSUME NEW state \in VehicleStates, Sync(state)
          PROVE  generator'.command.mode \in {generator.command.mode, "NONE"}
      BY <3>1, <3>4, SyncFields DEF Sync
    <3>5. ASSUME Reset
          PROVE  generator'.command.mode \in {generator.command.mode, "NONE"}
      BY <3>5, NewFields DEF Reset
    <3>6. ASSUME Tick
          PROVE  generator'.command.mode \in {generator.command.mode, "NONE"}
      BY <3>6 DEF Tick
    <3>7. QED
      BY <2>2, <3>2, <3>3, <3>4, <3>5, <3>6 DEF Next
  <2>3. QED
    BY <2>1, <2>2
<1>2. QED
  BY <1>1, GestureInvariant, PTL DEF Spec, DialDecides

\* A request to enter remote mode carries nothing that was latched or held
\* before it.
THEOREM FreshSession == Spec => FreshRemoteSession
<1>1. GestureInv /\ [Next]_vars =>
        [Enters(generator'.current) =>
           /\ generator'.command.gear = "NO_CONTROL"
           /\ \A s \in LatchedSwitch :
                generator'.command.switch[s] = "NO_CONTROL"
           /\ \A c \in Combo : generator'.holdStart[c] \in {NoTime, now}]_vars
  <2> SUFFICES ASSUME GestureInv, Next, Enters(generator'.current)
               PROVE  /\ generator'.command.gear = "NO_CONTROL"
                      /\ \A s \in LatchedSwitch :
                           generator'.command.switch[s] = "NO_CONTROL"
                      /\ \A c \in Combo : generator'.holdStart[c] \in {NoTime, now}
    OBVIOUS
  <2>1. Confirms(generator'.current)
    BY DEF Enters
  <2>2. PICK frame \in Frames : Input(frame) /\ frame = generator'.current
    BY <2>1, OnlyInputConfirms
  <2>3. /\ generator'.command.gear = "NO_CONTROL"
        /\ generator'.command.switch = EmptyCommand.switch
        /\ generator'.holdStart = NextHolds(NoHolds, generator.current, frame, now)
    BY <2>2, ConfirmingFrame
  <2>4. \A s \in LatchedSwitch : EmptyCommand.switch[s] = "NO_CONTROL"
    BY DEF EmptyCommand
  <2>5. \A c \in Combo : generator'.holdStart[c] \in {NoTime, now}
    BY <2>3 DEF NextHolds, NoHolds
  <2>6. QED
    BY <2>3, <2>4, <2>5
<1>2. QED
  BY <1>1, GestureInvariant, PTL DEF Spec, FreshRemoteSession

\* A command toggles parking or emergency stop exactly for a hold that is due.
THEOREM HoldFires == Spec => HoldFiresOnce
<1>1. GestureInv =>
        (Generate =>
           \A c \in Combo :
             generator'.command.switch[c] =
               IF Due(c) THEN ToggleSwitch(generator.command.switch[c],
                                           generator.vehicle.on[c])
                         ELSE generator.command.switch[c])
  <2> SUFFICES ASSUME GestureInv, Generate, NEW c \in Combo
               PROVE  generator'.command.switch[c] =
                        IF Due(c) THEN ToggleSwitch(generator.command.switch[c],
                                                    generator.vehicle.on[c])
                                  ELSE generator.command.switch[c]
    OBVIOUS
  <2>1. /\ generator \in Generator /\ now \in Nat
        /\ generator' = GenerateCommand(generator, now) /\ HeldInv
    BY DEF GestureInv, IInv, TypeOK, Generate
  <2>2. HoldElapsed(generator, c, now) <=> Due(c)
    BY <2>1, ElapsedIsDue
  <2>3. generator'.command.switch[c] =
          IF HoldElapsed(generator, c, now)
          THEN ToggleSwitch(generator.command.switch[c], generator.vehicle.on[c])
          ELSE generator.command.switch[c]
    BY <2>1, GenerateFields
  <2>4. QED
    BY <2>2, <2>3
<1>2. QED
  BY <1>1, GestureInvariant, PTL DEF Spec, HoldFiresOnce
=============================================================================
