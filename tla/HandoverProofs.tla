--------------------------- MODULE HandoverProofs ---------------------------
(***************************************************************************)
(* A vehicle is taken over only at the operator's request, and a request   *)
(* of an operator who waits for the answers is fulfilled when the cockpit  *)
(* takes it for fulfilled, unless the cockpit may be mistaken about the    *)
(* vehicle (unsure): proved for any number of vehicles, packets and        *)
(* reports, for releases at any time, and for every network that loses,    *)
(* repeats, delays and reorders them.                                      *)
(*                                                                         *)
(* What carries the first proof is the order of the control sequences:     *)
(* every packet that can still enter a vehicle was sent for a request made *)
(* after each EXIT that is on its way before it (InFlight), and so will be *)
(* the packets of a request that is pending (Pending).                     *)
(*                                                                         *)
(* What carries the second is the direction in which things go while the   *)
(* operator waits (Toward): from the state the cockpit knows, over the     *)
(* reports on their way in the order they were sent, to the vehicle        *)
(* itself, the goal is met from some point on, and no packet that can      *)
(* still be executed after that point takes it back.  A release before the *)
(* answer breaks it for the mode of that vehicle, and so does a report     *)
(* that takes the record back: these are the vehicles that join unsure.    *)
(***************************************************************************)
EXTENDS RemoteHandover, GeneratorOpsProofs

(***************************************************************************)
(* The invariant.                                                          *)
(***************************************************************************)
\* The control sequence has not wrapped around.
Numbered ==
  /\ nextSequence \in 1 .. SeqMod - 1
  /\ \A p \in commands : p.sequence < nextSequence

\* Every EXIT in flight to v with a sequence below n is older than the latest
\* request to enter v.
ExitsPrecede(v, n) ==
  \A e \in commands :
    e.vehicle = v /\ e.mode = "EXIT" /\ e.sequence < n => e.sequence < asked[v]

InFlight ==
  \A p \in commands :
    p.mode = "ENTER" =>
      asked[p.vehicle] # 0 /\ ExitsPrecede(p.vehicle, p.sequence)

Pending ==
  selected # NoVehicle /\ generator.command.mode = "ENTER" =>
    asked[selected] # 0 /\ ExitsPrecede(selected, nextSequence)

\* No click towards remote mode waits for its confirmation.
AtRest == generator.cw = 0

IInv ==
  /\ TypeOK
  /\ Numbered
  /\ AtRest
  /\ InFlight
  /\ Pending
  /\ EntersOnRequest

(***************************************************************************)
(* The generator.                                                          *)
(***************************************************************************)
Confirming == "encoder_confirm"
Clockwise == "encoder_clockwise"

\* One frame and the dial: the request changes only with a confirmation, and
\* becomes ENTER only after clicks to the right.
LEMMA DialTakes ==
  ASSUME NEW g \in Generator,
         ~Rose(g, Clockwise)
  PROVE  LET h == UpdateRemoteModeRequest(g, 0)
         IN  /\ h.cw \in {g.cw, 0}
             /\ g.cw = 0 /\ h.command.mode = "ENTER" => g.command.mode = "ENTER"
<1> DEFINE k == CountRotation(ExpireRotation(g, 0), 0)
<1>1. k \in Generator
  BY CountRotationType
<1>2. k.command = g.command
  BY CountRotationKeeps
<1>3. k.cw \in {g.cw, 0}
  <2> DEFINE e == ExpireRotation(g, 0)
  <2>1. /\ e \in Generator /\ e.cw \in {g.cw, 0}
        /\ e.current = g.current /\ e.previous = g.previous
    BY ResetRemoteRotationType
       DEF ExpireRotation, ResetRemoteRotation, Generator
  <2>2. ~Rose(e, Clockwise)
    BY <2>1 DEF Rose
  <2> HIDE DEF e
  <2>3. CountRotation(e, 0).cw \in {e.cw, 0}
    BY <2>1, <2>2 DEF CountRotation, ResetRemoteRotation, Generator, Clockwise
  <2> QED
    BY <2>1, <2>3 DEF e
<1> DEFINE h == UpdateRemoteModeRequest(g, 0)
<1>4. h = IF Rose(g, Confirming) THEN ResetRemoteRotation(SubmitRequest(k))
                                 ELSE k
  BY DEF UpdateRemoteModeRequest, Confirming
<1> HIDE DEF k, h
<1>5. CASE ~Rose(g, Confirming)
  BY <1>2, <1>3, <1>4, <1>5 DEF h
<1>6. CASE Rose(g, Confirming)
  <2> DEFINE r == SubmitRequest(k)
  <2>1. r \in Generator
    BY <1>1, ResetForEntryType, RequestType DEF SubmitRequest, RemoteModeRequest
  <2>2. k.cw = 0 /\ r.command.mode = "ENTER" => k.command.mode = "ENTER"
    BY <1>1, GeneratorAssumption DEF SubmitRequest, Generator, ControlCommand
  <2> HIDE DEF r
  <2>3. h.cw = 0 /\ h.command = r.command
    BY <1>4, <1>6, <2>1 DEF ResetRemoteRotation, Generator, r
  <2> QED
    BY <1>2, <1>3, <2>2, <2>3 DEF h
<1> QED
  BY <1>5, <1>6

\* A confirmation spends the clicks.
LEMMA ConfirmationResets ==
  ASSUME NEW g \in Generator, Rose(g, Confirming)
  PROVE  UpdateRemoteModeRequest(g, 0).cw = 0
<1> DEFINE k == CountRotation(ExpireRotation(g, 0), 0)
           r == SubmitRequest(k)
<1>1. r \in Generator
  BY CountRotationType, ResetForEntryType, RequestType
     DEF SubmitRequest, RemoteModeRequest
<1>2. UpdateRemoteModeRequest(g, 0) = ResetRemoteRotation(r)
  BY DEF UpdateRemoteModeRequest, Confirming
<1> HIDE DEF r
<1> QED
  BY <1>1, <1>2 DEF ResetRemoteRotation, Generator

LEMMA FrameDial ==
  ASSUME NEW g \in Generator, NEW frame \in Frame
  PROVE  LET h == ProcessInputState(g, frame, 0)
         IN  /\ h \in Generator /\ h.current = frame
             /\ Clockwise \notin frame.pressed =>
                  /\ h.cw \in {g.cw, 0}
                  /\ g.cw = 0 /\ h.command.mode = "ENTER"
                       => g.command.mode = "ENTER"
             /\ Confirming \in frame.pressed \ g.current.pressed => h.cw = 0
<1> DEFINE l == Latched(g, frame)
           r == UpdateRemoteModeRequest(l, 0)
           h == ProcessInputState(g, frame, 0)
<1>1. /\ l \in Generator /\ l.current = frame /\ l.previous = g.current
      /\ l.cw = g.cw /\ l.command.mode = g.command.mode
  BY LatchedKeeps, LatchedDial
<1>2. h = UpdateHolds(UpdateBucket(UpdateContinuousControls(r)), 0)
  BY DEF ProcessInputState, Latched
<1>3. h \in Generator /\ h.current = frame
  BY ProcessInputStateType, ProcessInputStateFields
<1> HIDE DEF l, h
<1>4. r \in Generator
  BY <1>1, UpdateRemoteModeRequestType
<1>5. h.cw = r.cw /\ h.command.mode = r.command.mode
  BY <1>2, <1>4, RestDial
<1>6. Clockwise \notin frame.pressed =>
        /\ r.cw \in {l.cw, 0}
        /\ l.cw = 0 /\ r.command.mode = "ENTER" => l.command.mode = "ENTER"
  BY <1>1, DialTakes DEF Rose
<1>7. Confirming \in frame.pressed \ g.current.pressed => r.cw = 0
  BY <1>1, ConfirmationResets DEF Rose
<1> QED
  BY <1>1, <1>3, <1>5, <1>6, <1>7 DEF h

LEMMA ButtonFrame ==
  ASSUME NEW button \in Button
  PROVE  LET down == [Released EXCEPT !.pressed = {button}]
         IN  down \in Frame /\ down.pressed = {button}
BY DEF Released, Frame, PovDirection

LEMMA ReleasedFrame == Released \in Frame /\ Released.pressed = {}
BY DEF Released, Frame, PovDirection

\* A button, pressed and let go.
LEMMA PressedDial ==
  ASSUME NEW g \in Generator, NEW button \in Button
  PROVE  LET h == Pressed(g, button)
         IN  /\ h \in Generator /\ h.current = Released
             /\ button # Clockwise =>
                  /\ h.cw \in {g.cw, 0}
                  /\ g.cw = 0 /\ h.command.mode = "ENTER"
                       => g.command.mode = "ENTER"
             /\ button = Confirming /\ g.current = Released => h.cw = 0
<1> DEFINE down == [Released EXCEPT !.pressed = {button}]
           d == ProcessInputState(g, down, 0)
           h == ProcessInputState(d, Released, 0)
<1>1. down \in Frame /\ down.pressed = {button}
  BY ButtonFrame
<1>2. Pressed(g, button) = h
  BY DEF Pressed
<1> HIDE DEF down
<1>3. /\ d \in Generator
      /\ button # Clockwise =>
           /\ d.cw \in {g.cw, 0}
           /\ g.cw = 0 /\ d.command.mode = "ENTER" => g.command.mode = "ENTER"
      /\ button = Confirming /\ g.current = Released => d.cw = 0
  BY <1>1, FrameDial, ReleasedFrame
<1> HIDE DEF d
<1>4. /\ h \in Generator /\ h.current = Released
      /\ h.cw \in {d.cw, 0}
      /\ d.cw = 0 /\ h.command.mode = "ENTER" => d.command.mode = "ENTER"
  BY <1>3, FrameDial, ReleasedFrame
<1> HIDE DEF h
<1> QED
  BY <1>2, <1>3, <1>4

LEMMA DialledIs ==
  ASSUME generator \in Generator, NEW button \in Button
  PROVE  /\ Dialled(button) \in Generator
         /\ Dialled(button).cw = 0
         /\ button # Clockwise /\ generator.cw = 0 =>
              (Dialled(button).command.mode = "ENTER"
                 => generator.command.mode = "ENTER")
<1> DEFINE d == Pressed(generator, button)
           h == Pressed(d, Confirming)
<1>1. Dialled(button) = h
  BY DEF Dialled, Confirming
<1>2. Confirming \in Button /\ Confirming # Clockwise
  BY DEF Confirming, Clockwise, Button
<1>3. /\ d \in Generator /\ d.current = Released
      /\ button # Clockwise =>
           /\ d.cw \in {generator.cw, 0}
           /\ generator.cw = 0 /\ d.command.mode = "ENTER"
                => generator.command.mode = "ENTER"
  BY PressedDial
<1> HIDE DEF d
<1>4. /\ h \in Generator /\ h.cw = 0
      /\ d.cw = 0 /\ h.command.mode = "ENTER" => d.command.mode = "ENTER"
  BY <1>2, <1>3, PressedDial
<1> HIDE DEF h
<1> QED
  BY <1>1, <1>3, <1>4

\* A report can only clear a request, and sending changes none.
LEMMA SyncDial ==
  ASSUME NEW g \in Generator, NEW state \in VehicleState
  PROVE  LET h == SyncVehicleState(g, state)
         IN  /\ h \in Generator /\ h.cw = g.cw
             /\ h.command.mode \in {g.command.mode, "NONE"}
<1>1. SyncVehicleState(g, state) \in Generator
  BY SyncVehicleStateType
<1>2. LET h == SyncVehicleState(g, state)
      IN  /\ h.cw = g.cw
          /\ h.command.mode \in {g.command.mode, "NONE"}
  BY DEF SyncVehicleState, Generator, ControlCommand
<1> QED
  BY <1>1, <1>2

LEMMA GenerateDial ==
  ASSUME NEW g \in Generator
  PROVE  LET h == GenerateCommand(g, 0)
         IN  /\ h \in Generator /\ h.cw = g.cw
             /\ h.command.mode = g.command.mode
<1>1. GenerateCommand(g, 0) \in Generator
  BY GenerateCommandType
<1>2. LET h == GenerateCommand(g, 0)
      IN  h.cw = g.cw /\ h.command.mode = g.command.mode
  BY DEF GenerateCommand, Generator, ControlCommand
<1> QED
  BY <1>1, <1>2

LEMMA NewDial == NewGenerator.cw = 0 /\ NewGenerator.command.mode = "NONE"
BY DEF NewGenerator, EmptyCommand

LEMMA ExitIs == ExitCommand \in ControlCommand /\ ExitCommand.mode = "EXIT"
BY EmptyCommandType DEF ExitCommand, ControlCommand, RemoteModeRequest

LEMMA SelectedIs ==
  ASSUME TypeOK, NEW v
  PROVE  /\ Selected(v) \in Generator /\ Selected(v).cw = 0
         /\ Selected(v).command.mode = "NONE"
<1>1. HasRecord(records, v) => records[v].state \in VehicleState
  BY DEF HasRecord, TypeOK, IsRecords, Record
<1> QED
  BY <1>1, NewGeneratorType, NewDial, SyncDial DEF Selected

(***************************************************************************)
(* Types.                                                                  *)
(***************************************************************************)
LEMMA NobodyIs == Nobody \in CockpitId /\ Nobody # "self"
BY Zenon DEF Nobody, CockpitId

LEMMA SelfIs == "self" \in CockpitId
BY Zenon DEF CockpitId

\* What a packet does to a vehicle's state.
LEMMA ObeyedIs ==
  ASSUME NEW state \in VehicleState, NEW packet \in Packet
  PROVE  LET new == Obeyed(state, packet)
         IN  /\ new \in VehicleState
             /\ new.cockpit_id = "self" =>
                  \/ packet.mode = "ENTER"
                  \/ packet.mode # "EXIT" /\ state.cockpit_id = "self"
<1> DEFINE s == Moded(state, packet.mode)
<1>1. s \in VehicleState
  BY NobodyIs, SelfIs DEF Moded, Entered, Left, VehicleState, DriveMode
<1>2. s.cockpit_id = "self" =>
        \/ packet.mode = "ENTER"
        \/ packet.mode # "EXIT" /\ state.cockpit_id = "self"
  BY NobodyIs DEF Moded, Left, VehicleState
<1> HIDE DEF s
<1>3. LET new == Obeyed(state, packet)
      IN  new \in VehicleState /\ new.cockpit_id = s.cockpit_id
  BY <1>1 DEF Obeyed, VehicleState, s
<1> QED
  BY <1>2, <1>3

LEMMA EmptyStateType == EmptyVehicleState \in VehicleState
BY DEF EmptyVehicleState, VehicleState, CockpitId, DriveMode, GearState

LEMMA EmptyOwner == EmptyVehicleState.cockpit_id = Nobody
BY Zenon DEF EmptyVehicleState, Nobody

LEMMA MannerIs ==
  ASSUME TypeOK
  PROVE  /\ manner.commands \in 0 .. SeqMod - 2
         /\ manner.reports \in 0 .. SeqMod - 2
         /\ manner.vehicles \subseteq Configured
BY HandoverAssumption DEF TypeOK, Manner

LEMMA NextSequenceIs ==
  ASSUME NEW n \in 0 .. SeqMod - 2
  PROVE  NextSequence(n) = n + 1 /\ n + 1 \in Sequence
BY CacheAssumption DEF NextSequence, Sequence

LEMMA SendIs ==
  ASSUME TypeOK, Numbered, NEW v \in Configured, NEW command \in ControlCommand,
         SendTo(v, command)
  PROVE  /\ nextSequence' = nextSequence + 1
         /\ nextSequence' \in 1 .. SeqMod - 1
         /\ commands' = commands \cup {PacketOf(v, command)}
         /\ PacketOf(v, command) \in Packet
         /\ PacketOf(v, command).vehicle = v
         /\ PacketOf(v, command).sequence = nextSequence
         /\ PacketOf(v, command).mode = command.mode
<1>1. nextSequence \in 1 .. SeqMod - 2
  BY MannerIs, CacheAssumption DEF SendTo
<1>2. /\ nextSequence' = nextSequence + 1
      /\ nextSequence' \in 1 .. SeqMod - 1
      /\ commands' = commands \cup {PacketOf(v, command)}
  BY <1>1, NextSequenceIs, CacheAssumption DEF SendTo
<1>3. nextSequence \in Sequence
  BY DEF TypeOK
<1>4. command.switch[Switch] \in SwitchCommand
  BY DEF ControlCommand, Switch, LatchedSwitch
<1> QED
  BY <1>2, <1>3, <1>4 DEF PacketOf, Packet, ControlCommand

LEMMA UpdateType ==
  ASSUME TypeOK, NEW report \in reports
  PROVE  IsRecords(Update(records, report, now), VehicleState)
<1>1. report.sequence \in Sequence /\ report.state \in VehicleState
  BY DEF TypeOK
<1>2. CASE Accepts(records, report, now)
  <2>1. report.vehicle \in Configured
    BY DEF TypeOK
  <2>2. IsRecords(Stored(records, report, now), VehicleState)
    BY <1>1, <2>1 DEF TypeOK, IsRecords, Stored, Record
  <2> QED
    BY <1>2, <2>2 DEF Update
<1>3. CASE ~Accepts(records, report, now)
  BY <1>3 DEF Update, TypeOK
<1> QED
  BY <1>2, <1>3

(***************************************************************************)
(* The steps.                                                              *)
(***************************************************************************)
LEMMA InitInv == Init => IInv
<1> SUFFICES ASSUME Init PROVE IInv
  OBVIOUS
<1>1. manner.commands \in 0 .. SeqMod - 2
  BY HandoverAssumption DEF Init, Manner
<1>2. 1 \in 1 .. SeqMod - 1 /\ 0 \in Sequence /\ 1 \in Sequence
  BY <1>1, CacheAssumption DEF Sequence
<1>3. IsRecords(NoRecords, VehicleState)
  BY DEF NoRecords, IsRecords
<1>4. TypeOK
  BY <1>2, <1>3, NewGeneratorType, EmptyStateType
     DEF Init, TypeOK, RemoteModeRequest, SwitchCommand
<1>5. EntersOnRequest
  BY NobodyIs, EmptyOwner DEF Init, EntersOnRequest, Owner
<1> QED
  BY <1>2, <1>4, <1>5, NewDial
     DEF Init, IInv, Numbered, AtRest, InFlight, Pending

\* Selecting: nothing is pending.
LEMMA SelectInv ==
  ASSUME IInv, NEW v \in Configured, Select(v), UNCHANGED <<manner, now>>
  PROVE  IInv'
<1>1. /\ generator' \in Generator /\ generator'.cw = 0
      /\ generator'.command.mode = "NONE"
  BY SelectedIs DEF Select, IInv
<1>2. unsure' \subseteq Configured
  BY DEF Select, IInv, TypeOK, CockpitOf, HasRecord, IsRecords
<1>3. TypeOK'
  BY <1>1, <1>2 DEF Select, IInv, TypeOK, RemoteModeRequest, SwitchCommand
<1> QED
  BY <1>1, <1>3 DEF IInv, Select, Numbered, AtRest, InFlight, Pending,
                    ExitsPrecede, EntersOnRequest, Owner

\* A packet that was sent is the latest one, so that no EXIT before an ENTER is
\* new; an ENTER is sent for the pending request.
LEMMA SentInv ==
  ASSUME IInv, NEW v \in Configured, NEW command \in ControlCommand,
         SendTo(v, command), asked' = asked,
         command.mode = "ENTER" =>
           asked[v] # 0 /\ ExitsPrecede(v, nextSequence)
  PROVE  /\ nextSequence' \in Sequence
         /\ commands' \subseteq Packet
         /\ Numbered' /\ InFlight'
         /\ \A w \in Configured :
              ExitsPrecede(w, nextSequence) /\ (w # v \/ command.mode # "EXIT")
                => ExitsPrecede(w, nextSequence)'
<1> DEFINE new == PacketOf(v, command)
<1>1. /\ nextSequence' = nextSequence + 1
      /\ nextSequence' \in 1 .. SeqMod - 1
      /\ commands' = commands \cup {new}
      /\ new \in Packet /\ new.vehicle = v /\ new.sequence = nextSequence
      /\ new.mode = command.mode
  BY SendIs DEF IInv
<1> HIDE DEF new
<1>2. /\ commands \subseteq Packet
      /\ asked \in [Configured -> Sequence]
      /\ \A p \in commands : p.sequence \in Int /\ p.sequence < nextSequence
  BY DEF IInv, TypeOK, Numbered, Packet, Sequence
<1>3. nextSequence \in Int
  BY DEF IInv, Numbered
<1>4. nextSequence' \in Sequence /\ commands' \subseteq Packet
  BY <1>1, <1>2, CacheAssumption DEF Sequence
<1>5. Numbered'
  BY <1>1, <1>2, <1>3 DEF Numbered
<1>6. InFlight'
  <2> SUFFICES ASSUME NEW p \in commands', p.mode = "ENTER",
                      NEW e \in commands', e.vehicle = p.vehicle,
                      e.mode = "EXIT", e.sequence < p.sequence
               PROVE  e.sequence < asked[p.vehicle]
    <3>1. \A p \in commands' : p.mode = "ENTER" => asked[p.vehicle] # 0
      BY <1>1 DEF IInv, InFlight
    <3> QED
      BY <3>1 DEF InFlight, ExitsPrecede
  <2>1. e \in commands
    BY <1>1, <1>2, <1>3
  <2>2. CASE p = new
    BY <1>1, <2>1, <2>2 DEF ExitsPrecede
  <2>3. CASE p \in commands
    BY <2>1, <2>3 DEF IInv, InFlight, ExitsPrecede
  <2> QED
    BY <1>1, <2>2, <2>3
<1>7. ASSUME NEW w \in Configured, ExitsPrecede(w, nextSequence),
             w # v \/ command.mode # "EXIT"
      PROVE  ExitsPrecede(w, nextSequence)'
  BY <1>1, <1>2, <1>7 DEF ExitsPrecede
<1> QED
  BY <1>4, <1>5, <1>6, <1>7

LEMMA ReleaseInv ==
  ASSUME IInv, Release, UNCHANGED <<manner, now>>
  PROVE  IInv'
<1>1. /\ nextSequence' \in Sequence /\ commands' \subseteq Packet
      /\ Numbered' /\ InFlight'
  <2>1. CASE SendTo(selected, ExitCommand)
    <3>1. selected \in Configured /\ asked' = asked
      BY DEF Release, IInv, TypeOK
    <3> QED
      BY <2>1, <3>1, ExitIs, SentInv
  <2>2. CASE UNCHANGED <<nextSequence, commands>>
    BY <2>2 DEF Release, IInv, TypeOK, Numbered, InFlight, ExitsPrecede
  <2> QED
    BY <2>1, <2>2 DEF Release
<1>2. selected' = NoVehicle /\ generator' = NewGenerator
  BY DEF Release
<1>3. TypeOK'
  BY <1>1, <1>2, NewGeneratorType
     DEF Release, IInv, TypeOK, RemoteModeRequest, SwitchCommand
<1>4. EntersOnRequest'
  BY DEF Release, IInv, EntersOnRequest, Owner
<1> QED
  BY <1>1, <1>2, <1>3, <1>4, NewDial DEF IInv, AtRest, Pending

LEMMA AskEnterInv ==
  ASSUME IInv, AskEnter, UNCHANGED <<manner, now>>
  PROVE  IInv'
<1>1. /\ selected \in Configured /\ selected' = selected
      /\ asked' = [asked EXCEPT ![selected] = nextSequence]
      /\ UNCHANGED <<records, nextSequence, commands, reports, truck, wanted,
                     unsure, presses>>
      /\ generator' = Dialled("encoder_clockwise") /\ request' = "ENTER"
  BY DEF AskEnter, Ask, IInv, TypeOK
<1>2. generator' \in Generator /\ generator'.cw = 0
  BY <1>1, DialledIs DEF IInv, TypeOK, Button
<1>3. /\ asked \in [Configured -> Sequence] /\ nextSequence \in Sequence
      /\ nextSequence # 0
      /\ \A p \in commands : p.sequence < nextSequence
  BY DEF IInv, TypeOK, Numbered
<1>4. /\ asked' \in [Configured -> Sequence] /\ asked'[selected] = nextSequence
      /\ \A v \in Configured \ {selected} : asked'[v] = asked[v]
  BY <1>1, <1>3
<1>5. TypeOK'
  BY <1>1, <1>2, <1>4 DEF IInv, TypeOK, RemoteModeRequest
<1>6. \A v \in Configured, n \in Int :
        ExitsPrecede(v, n) \/ v = selected => ExitsPrecede(v, n)'
  BY <1>1, <1>3, <1>4 DEF ExitsPrecede
<1>7. InFlight'
  <2>1. \A p \in commands : p.vehicle \in Configured /\ p.sequence \in Int
    BY DEF IInv, TypeOK, Packet, Sequence
  <2>2. \A v \in Configured : asked[v] # 0 => asked'[v] # 0
    BY <1>3, <1>4
  <2>3. \A p \in commands : p.mode = "ENTER" =>
          ExitsPrecede(p.vehicle, p.sequence)'
    BY <1>1, <1>6, <2>1 DEF IInv, InFlight
  <2>4. \A p \in commands : p.mode = "ENTER" => asked'[p.vehicle] # 0
    BY <2>1, <2>2 DEF IInv, InFlight
  <2> QED
    BY <1>1, <2>3, <2>4 DEF InFlight, ExitsPrecede
<1>8. Pending'
  BY <1>1, <1>3, <1>4 DEF Pending, ExitsPrecede
<1>9. EntersOnRequest'
  BY <1>1, <1>3, <1>4 DEF IInv, EntersOnRequest, Owner
<1> QED
  BY <1>1, <1>2, <1>5, <1>7, <1>8, <1>9 DEF IInv, Numbered, AtRest

\* A change of the generator that makes no request to enter.
LEMMA QuietInv ==
  ASSUME IInv, TypeOK',
         UNCHANGED <<selected, nextSequence, commands, asked>>,
         \A v \in Configured : Owner(v)' = "self" => Owner(v) = "self",
         generator'.cw = 0,
         generator'.command.mode = "ENTER" => generator.command.mode = "ENTER"
  PROVE  IInv'
<1>1. Numbered' /\ InFlight' /\ AtRest'
  BY DEF IInv, Numbered, InFlight, ExitsPrecede, AtRest
<1>2. Pending'
  BY DEF IInv, Pending, ExitsPrecede
<1>3. EntersOnRequest'
  BY DEF IInv, EntersOnRequest
<1> QED
  BY <1>1, <1>2, <1>3 DEF IInv

LEMMA AskExitInv ==
  ASSUME IInv, AskExit, UNCHANGED <<manner, now>>
  PROVE  IInv'
<1>1. /\ UNCHANGED <<selected, records, nextSequence, commands, reports, truck,
                     wanted, unsure, presses, asked>>
      /\ generator' = Dialled("encoder_counter_clockwise")
      /\ request' = "EXIT"
  BY DEF AskExit, Ask
<1>2. /\ generator' \in Generator /\ generator'.cw = 0
      /\ generator'.command.mode = "ENTER" => generator.command.mode = "ENTER"
  BY <1>1, DialledIs DEF IInv, TypeOK, Button, AtRest, Clockwise
<1>3. TypeOK'
  BY <1>1, <1>2 DEF IInv, TypeOK, RemoteModeRequest
<1> QED
  BY <1>1, <1>2, <1>3, QuietInv DEF Owner

LEMMA PressSwitchInv ==
  ASSUME IInv, PressSwitch, UNCHANGED <<manner, now>>
  PROVE  IInv'
<1>1. /\ UNCHANGED <<selected, records, nextSequence, commands, reports, truck,
                     asked, request, unsure>>
      /\ generator' = Pressed(generator, "square")
      /\ wanted' = Opposite /\ presses' = presses + 1
  BY DEF PressSwitch
<1>2. /\ generator' \in Generator /\ generator'.cw = 0
      /\ generator'.command.mode = "ENTER" => generator.command.mode = "ENTER"
  BY <1>1, PressedDial DEF IInv, TypeOK, Button, AtRest, Clockwise
<1>3. TypeOK'
  BY <1>1, <1>2 DEF IInv, TypeOK, Opposite, SwitchCommand
<1> QED
  BY <1>1, <1>2, <1>3, QuietInv DEF Owner

LEMMA SendControlInv ==
  ASSUME IInv, SendControl, UNCHANGED <<manner, now>>
  PROVE  IInv'
<1>1. /\ selected \in Configured
      /\ UNCHANGED <<selected, records, reports, truck, asked, request, wanted,
                     unsure, presses>>
      /\ generator' = GenerateCommand(generator, 0)
      /\ SendTo(selected, generator'.command)
  BY DEF SendControl, history, IInv, TypeOK
<1>2. /\ generator' \in Generator /\ generator'.cw = 0
      /\ generator'.command.mode = generator.command.mode
      /\ generator'.command \in ControlCommand
  BY <1>1, GenerateDial DEF IInv, TypeOK, AtRest, Generator
<1>3. selected # NoVehicle
  BY DEF SendControl
<1>4. generator.command.mode = "ENTER" =>
        asked[selected] # 0 /\ ExitsPrecede(selected, nextSequence)
  BY <1>3 DEF IInv, Pending
<1>5. /\ nextSequence' \in Sequence /\ commands' \subseteq Packet
      /\ Numbered' /\ InFlight'
      /\ generator.command.mode = "ENTER" =>
           ExitsPrecede(selected, nextSequence)'
  BY <1>1, <1>2, <1>4, SentInv
<1>6. TypeOK'
  BY <1>1, <1>2, <1>5 DEF IInv, TypeOK
<1>7. Pending'
  BY <1>1, <1>2, <1>4, <1>5 DEF Pending, ExitsPrecede
<1>8. EntersOnRequest'
  BY <1>1 DEF IInv, EntersOnRequest, Owner
<1> QED
  BY <1>2, <1>5, <1>6, <1>7, <1>8 DEF IInv, AtRest

LEMMA ReceiveReportInv ==
  ASSUME IInv, NEW report \in reports, ReceiveReport(report),
         UNCHANGED <<manner, now>>
  PROVE  IInv'
<1>1. /\ UNCHANGED <<selected, nextSequence, commands, reports, truck, asked,
                     request, wanted, presses>>
      /\ records' = Update(records, report, now)
      /\ generator' \in {generator, SyncVehicleState(generator, report.state)}
      /\ unsure' \in {unsure, unsure \cup {report.vehicle}}
  BY DEF ReceiveReport
<1>2. report.state \in VehicleState /\ report.vehicle \in Configured
  BY DEF IInv, TypeOK
<1>3. /\ generator' \in Generator /\ generator'.cw = 0
      /\ generator'.command.mode \in {generator.command.mode, "NONE"}
  BY <1>1, <1>2, SyncDial DEF IInv, TypeOK, AtRest
<1>4. IsRecords(records', VehicleState)
  BY <1>1, UpdateType DEF IInv
<1>5. TypeOK'
  BY <1>1, <1>3, <1>4 DEF IInv, TypeOK, IsRecords
<1> QED
  BY <1>1, <1>3, <1>5, QuietInv DEF Owner

\* The step that matters: an EXIT that is executed voids the requests made
\* before it, and no packet of such a request is left.
LEMMA ExecuteInv ==
  ASSUME IInv, NEW packet \in commands, Execute(packet),
         UNCHANGED <<manner, now>>
  PROVE  IInv'
<1> DEFINE v == packet.vehicle
           void == packet.mode = "EXIT" /\ packet.sequence >= asked[v]
<1>1. /\ packet \in Packet /\ v \in Configured /\ packet.sequence \in Sequence
      /\ truck[v].state \in VehicleState
  BY DEF IInv, TypeOK, Packet
<1>2. /\ UNCHANGED <<selected, generator, records, nextSequence, reports,
                     request, wanted, unsure, presses>>
      /\ truck' = [truck EXCEPT ![v].state = Obeyed(@, packet)]
      /\ commands' = {p \in commands :
                        p.vehicle # v \/ p.sequence > packet.sequence}
      /\ asked' = IF void THEN [asked EXCEPT ![v] = 0] ELSE asked
  BY DEF Execute, cockpit
<1>3. /\ asked \in [Configured -> Sequence]
      /\ truck \in [Configured -> [state: VehicleState, reported: Sequence]]
      /\ 0 \in Sequence
      /\ \A p \in commands : p \in Packet /\ p.sequence \in Int
  BY CacheAssumption DEF IInv, TypeOK, Packet, Sequence
<1>4. /\ Obeyed(truck[v].state, packet) \in VehicleState
      /\ Obeyed(truck[v].state, packet).cockpit_id = "self" =>
           \/ packet.mode = "ENTER"
           \/ packet.mode # "EXIT" /\ truck[v].state.cockpit_id = "self"
  BY <1>1, ObeyedIs
<1> DEFINE new == Obeyed(truck[v].state, packet)
<1>5. /\ truck'[v].state = new
      /\ \A w \in Configured \ {v} : truck'[w] = truck[w]
      /\ truck' \in [Configured -> [state: VehicleState, reported: Sequence]]
  <2> HIDE DEF new
  <2>1. truck' = [truck EXCEPT ![v] = [@ EXCEPT !.state = new]]
    BY <1>2 DEF new
  <2>2. [truck[v] EXCEPT !.state = new]
          \in [state: VehicleState, reported: Sequence]
    BY <1>1, <1>3, <1>4 DEF new
  <2> QED
    BY <1>1, <1>3, <2>1, <2>2
<1> HIDE DEF new
<1>6. /\ asked' \in [Configured -> Sequence]
      /\ \A w \in Configured : asked'[w] = IF w = v /\ void THEN 0 ELSE asked[w]
  BY <1>1, <1>2, <1>3
<1> HIDE DEF void
<1>7. TypeOK'
  BY <1>2, <1>3, <1>5, <1>6 DEF IInv, TypeOK
<1>8. Numbered' /\ AtRest'
  BY <1>2 DEF IInv, Numbered, AtRest
<1>9. InFlight'
  <2> SUFFICES ASSUME NEW p \in commands', p.mode = "ENTER"
               PROVE  /\ asked'[p.vehicle] # 0
                      /\ ExitsPrecede(p.vehicle, p.sequence)'
    BY DEF InFlight
  <2>1. /\ p \in commands /\ p.vehicle \in Configured
        /\ p.vehicle # v \/ p.sequence > packet.sequence
    BY <1>2, <1>3 DEF Packet
  <2>2. asked[p.vehicle] # 0 /\ ExitsPrecede(p.vehicle, p.sequence)
    BY <2>1 DEF IInv, InFlight
  <2>3. ~(p.vehicle = v /\ void)
    BY <1>1, <1>3, <2>1, <2>2 DEF ExitsPrecede, void, Sequence
  <2>4. asked'[p.vehicle] = asked[p.vehicle]
    BY <1>6, <2>1, <2>3
  <2> QED
    BY <1>2, <2>2, <2>4 DEF ExitsPrecede
<1>10. Pending'
  <2> SUFFICES ASSUME selected # NoVehicle, generator.command.mode = "ENTER"
               PROVE  /\ asked'[selected] # 0
                      /\ ExitsPrecede(selected, nextSequence)'
    BY <1>2 DEF Pending
  <2>1. selected \in Configured
    BY DEF IInv, TypeOK
  <2>2. asked[selected] # 0 /\ ExitsPrecede(selected, nextSequence)
    BY DEF IInv, Pending
  <2>3. packet.sequence < nextSequence
    BY DEF IInv, Numbered
  <2>4. ~(selected = v /\ void)
    BY <1>1, <1>3, <2>1, <2>2, <2>3 DEF ExitsPrecede, void, Sequence
  <2>5. asked'[selected] = asked[selected]
    BY <1>6, <2>1, <2>4
  <2> QED
    BY <1>2, <2>2, <2>5 DEF ExitsPrecede
<1>11. EntersOnRequest'
  <2> SUFFICES ASSUME NEW w \in Configured, truck'[w].state.cockpit_id = "self"
               PROVE  asked'[w] # 0
    BY DEF EntersOnRequest, Owner
  <2>1. CASE w # v
    <3>1. asked[w] # 0
      BY <1>5, <2>1 DEF IInv, EntersOnRequest, Owner
    <3> QED
      BY <1>6, <2>1, <3>1
  <2>2. CASE w = v
    <3>1. \/ packet.mode = "ENTER"
          \/ packet.mode # "EXIT" /\ truck[v].state.cockpit_id = "self"
      BY <1>4, <1>5, <2>2 DEF new
    <3>2. asked[v] # 0
      BY <1>1, <3>1 DEF IInv, InFlight, EntersOnRequest, Owner
    <3> QED
      BY <1>6, <2>2, <3>1, <3>2 DEF void
  <2> QED
    BY <2>1, <2>2
<1> QED
  BY <1>7, <1>8, <1>9, <1>10, <1>11 DEF IInv

LEMMA ReportStateInv ==
  ASSUME IInv, NEW v \in Configured, ReportState(v), UNCHANGED <<manner, now>>
  PROVE  IInv'
<1> DEFINE n == truck[v].reported
           report == [vehicle |-> v, source |-> VehicleAddress[v],
                      sequence |-> truck'[v].reported, state |-> truck[v].state]
<1>1. /\ UNCHANGED <<selected, generator, records, nextSequence, commands,
                     asked, request, wanted, unsure, presses>>
      /\ truck' = [truck EXCEPT ![v].reported = NextSequence(@)]
      /\ reports' = reports \cup {report}
      /\ n < manner.reports
  BY DEF ReportState, cockpit, history
<1>2. truck \in [Configured -> [state: VehicleState, reported: Sequence]]
  BY DEF IInv, TypeOK
<1>3. n \in 0 .. SeqMod - 2
  BY <1>1, <1>2, MannerIs, CacheAssumption DEF IInv, Sequence
<1>4. NextSequence(n) \in Sequence
  BY <1>3, NextSequenceIs
<1>5. /\ truck' \in [Configured -> [state: VehicleState, reported: Sequence]]
      /\ \A w \in Configured : truck'[w].state = truck[w].state
  <2> DEFINE next == NextSequence(n)
  <2>1. truck' = [truck EXCEPT ![v] = [@ EXCEPT !.reported = next]]
    BY <1>1
  <2> HIDE DEF next
  <2>2. /\ [truck[v] EXCEPT !.reported = next]
             \in [state: VehicleState, reported: Sequence]
        /\ [truck[v] EXCEPT !.reported = next].state = truck[v].state
    BY <1>2, <1>4 DEF next
  <2> QED
    BY <1>2, <2>1, <2>2
<1>6. /\ report.sequence \in Sequence /\ report.state \in VehicleState
      /\ report.vehicle \in Configured /\ Trusted(report)
  BY <1>2, <1>5 DEF Trusted
<1> HIDE DEF report
<1>7. TypeOK'
  BY <1>1, <1>5, <1>6 DEF IInv, TypeOK
<1> QED
  BY <1>1, <1>5, <1>7, QuietInv DEF IInv, AtRest, Owner

LEMMA LinkTimeoutInv ==
  ASSUME IInv, NEW v \in Configured, LinkTimeout(v), UNCHANGED <<manner, now>>
  PROVE  IInv'
<1> DEFINE new == Left(truck[v].state)
<1>1. /\ UNCHANGED <<selected, generator, records, nextSequence, commands,
                     reports, asked, request, wanted, unsure, presses>>
      /\ truck' = [truck EXCEPT ![v].state = Left(@)]
  BY DEF LinkTimeout, cockpit, history
<1>2. truck \in [Configured -> [state: VehicleState, reported: Sequence]]
  BY DEF IInv, TypeOK
<1>3. new \in VehicleState /\ new.cockpit_id # "self"
  BY <1>2, NobodyIs DEF Left, VehicleState, DriveMode
<1> HIDE DEF new
<1>4. truck' = [truck EXCEPT ![v] = [@ EXCEPT !.state = new]]
  BY <1>1 DEF new
<1>5. /\ truck' \in [Configured -> [state: VehicleState, reported: Sequence]]
      /\ truck'[v].state = new
      /\ \A w \in Configured \ {v} : truck'[w] = truck[w]
  BY <1>2, <1>3, <1>4
<1>6. TypeOK'
  BY <1>1, <1>5 DEF IInv, TypeOK
<1> QED
  BY <1>1, <1>3, <1>5, <1>6, QuietInv DEF IInv, AtRest, Owner

LEMMA LoseCommandInv ==
  ASSUME IInv, NEW packet \in commands, LoseCommand(packet),
         UNCHANGED <<manner, now>>
  PROVE  IInv'
<1>1. /\ UNCHANGED <<selected, generator, records, nextSequence, reports, truck,
                     asked, request, wanted, unsure, presses>>
      /\ commands' \subseteq commands
  BY DEF LoseCommand, cockpit, history
<1>2. TypeOK'
  BY <1>1 DEF IInv, TypeOK
<1>3. Numbered' /\ AtRest' /\ EntersOnRequest'
  BY <1>1 DEF IInv, Numbered, AtRest, EntersOnRequest, Owner
<1>4. InFlight' /\ Pending'
  BY <1>1 DEF IInv, InFlight, Pending, ExitsPrecede
<1> QED
  BY <1>2, <1>3, <1>4 DEF IInv

LEMMA TickInv ==
  ASSUME IInv, Tick, UNCHANGED manner
  PROVE  IInv'
<1>1. TypeOK'
  BY DEF IInv, TypeOK, Tick, cockpit, history
<1> QED
  BY <1>1, QuietInv DEF Tick, cockpit, history, IInv, AtRest, Owner

LEMMA StutterInv ==
  ASSUME IInv, UNCHANGED vars
  PROVE  IInv'
<1>1. TypeOK'
  BY DEF IInv, TypeOK, vars, cockpit, history
<1> QED
  BY <1>1, QuietInv DEF vars, cockpit, history, IInv, AtRest, Owner

LEMMA NextInv == IInv /\ [Next]_vars => IInv'
<1> SUFFICES ASSUME IInv, UNCHANGED <<manner, now>>, Step PROVE IInv'
  BY StutterInv, TickInv DEF Next
<1>1. manner.vehicles \subseteq Configured
  BY MannerIs DEF IInv
<1>2. CASE \E v \in manner.vehicles :
             Select(v) \/ ReportState(v) \/ LinkTimeout(v)
  BY <1>1, <1>2, SelectInv, ReportStateInv, LinkTimeoutInv DEF Step
<1>3. CASE Release \/ AskEnter \/ AskExit \/ PressSwitch \/ SendControl
  BY <1>3, ReleaseInv, AskEnterInv, AskExitInv, PressSwitchInv, SendControlInv
     DEF Step
<1>4. CASE \E report \in reports : ReceiveReport(report)
  BY <1>4, ReceiveReportInv DEF Step
<1>5. CASE \E packet \in commands : Execute(packet) \/ LoseCommand(packet)
  BY <1>5, ExecuteInv, LoseCommandInv DEF Step
<1> QED
  BY <1>2, <1>3, <1>4, <1>5 DEF Step

(***************************************************************************)
(* The theorems.                                                           *)
(***************************************************************************)
\* The inductive invariant of the handover.
THEOREM HandoverInvariant == Spec => []IInv
BY InitInv, NextInv, PTL DEF Spec

\* The cockpit, the packets and the vehicles keep their types, and the control
\* sequence stays short of its wrap-around.
THEOREM TypeCorrect == Spec => []TypeOK
<1>1. IInv => TypeOK
  BY DEF IInv
<1> QED
  BY <1>1, HandoverInvariant, PTL

\* A vehicle is in remote mode for this cockpit only when the operator asked for
\* it, for this vehicle, after the latest EXIT it executed: for any number of
\* vehicles, any order of selections, and every loss, repetition and reordering.
THEOREM Entry == Spec => []EntersOnRequest
<1>1. IInv => EntersOnRequest
  BY DEF IInv
<1> QED
  BY <1>1, HandoverInvariant, PTL

(***************************************************************************)
(* The operator who waits: the invariant.                                  *)
(***************************************************************************)
\* A vehicle belongs to this cockpit or to nobody, and is in remote mode exactly
\* when it belongs to this cockpit.
OwnersAgree(state) ==
  /\ state.cockpit_id \in {Nobody, "self"}
  /\ state.drive_mode = "REMOTE" <=> state.cockpit_id = "self"

Owners ==
  /\ \A v \in Configured : OwnersAgree(truck[v].state)
  /\ \A r \in reports : OwnersAgree(r.state)
  /\ \A v \in DOMAIN records : OwnersAgree(records[v].state)

\* The reports of a vehicle are numbered in the order they were sent, and the
\* record of a vehicle agrees with its report of that number.
Reported == \A r \in reports : r.sequence <= truck[r.vehicle].reported

Distinct ==
  \A r, s \in reports :
    r.vehicle = s.vehicle /\ r.sequence = s.sequence => r.state = s.state

Recorded ==
  \A v \in DOMAIN records :
    /\ records[v].sequence <= truck[v].reported
    /\ \A r \in reports :
         r.vehicle = v /\ r.sequence = records[v].sequence
           => r.state = records[v].state

\* What a request asks for, of the mode or of the switch, and whether a state
\* fulfils it.
Goal == {"ENTER", "EXIT", "ON", "OFF"}

Met(goal, state) ==
  \/ goal = "ENTER" /\ state.cockpit_id = "self"
  \/ goal = "EXIT" /\ state.cockpit_id # "self"
  \/ goal = "ON" /\ state.on[Switch]
  \/ goal = "OFF" /\ ~state.on[Switch]

Against(goal) ==
  CASE goal = "ENTER" -> "EXIT" [] goal = "EXIT" -> "ENTER"
    [] goal = "ON" -> "OFF" [] goal = "OFF" -> "ON"

AsksFor(packet, goal) == packet.mode = goal \/ packet.fog = goal

\* From the state known, over the reports on their way, to the vehicle itself,
\* the goal is met from some point on.
NewsToward(v, goal) ==
  \A r, s \in News(v) :
    r.sequence < s.sequence /\ Met(goal, r.state) => Met(goal, s.state)

KnownToward(v, goal) ==
  Met(goal, Known(v)) => /\ \A r \in News(v) : Met(goal, r.state)
                         /\ Met(goal, truck[v].state)

TruckToward(v, goal) ==
  \A r \in News(v) : Met(goal, r.state) => Met(goal, truck[v].state)

\* No packet that is executed later takes it back.
LaterPacketsToward(v, goal) ==
  \A p, q \in commands :
    /\ p.vehicle = v /\ AsksFor(p, goal)
    /\ q.vehicle = v /\ AsksFor(q, Against(goal))
    => q.sequence < p.sequence

PacketsToward(v, goal) ==
  Met(goal, truck[v].state) =>
    \A q \in commands : q.vehicle = v => ~AsksFor(q, Against(goal))

Toward(v, goal) ==
  /\ NewsToward(v, goal) /\ KnownToward(v, goal) /\ TruckToward(v, goal)
  /\ LaterPacketsToward(v, goal) /\ PacketsToward(v, goal)

Settled(v, goal) == Toward(v, goal) /\ Met(goal, Known(v))

(***************************************************************************)
(* The way of a request: lemmas.                                           *)
(***************************************************************************)
LEMMA AgainstIs ==
  ASSUME NEW goal \in Goal
  PROVE  /\ Against(goal) \in Goal /\ Against(Against(goal)) = goal
         /\ \A state \in VehicleState :
              Met(Against(goal), state) <=> ~Met(goal, state)
BY DEF Goal, Against, Met

\* Once a goal is met throughout, the opposite may be asked for.
LEMMA Turned ==
  ASSUME TypeOK, NEW v \in Configured, NEW goal \in Goal, Settled(v, goal)
  PROVE  Toward(v, Against(goal))
<1>1. /\ \A r \in News(v) : r.state \in VehicleState /\ Met(goal, r.state)
      /\ truck[v].state \in VehicleState /\ Met(goal, truck[v].state)
      /\ \A q \in commands : q.vehicle = v => ~AsksFor(q, Against(goal))
  BY DEF TypeOK, News, Settled, Toward, KnownToward, PacketsToward
<1>2. Known(v) \in VehicleState
  BY EmptyStateType DEF TypeOK, Known, HasRecord, IsRecords, Record
<1> QED
  BY <1>1, <1>2, AgainstIs
     DEF Settled, Toward, NewsToward, KnownToward, TruckToward,
         LaterPacketsToward, PacketsToward

\* Taking a report that is not older than the record leaves the newer ones of its
\* vehicle.
LEMMA NewsTaken ==
  ASSUME TypeOK, Recorded, NEW report \in reports, UNCHANGED reports,
         records' = Update(records, report, now),
         NEW v \in Configured, StepsBack(report) => report.vehicle # v
  PROVE  /\ News(v)' \subseteq News(v)
         /\ \/ Known(v)' = Known(v)
            \/ /\ report \in News(v) /\ Known(v)' = report.state
               /\ \A r \in News(v)' : report.sequence < r.sequence
         /\ Known(v)' = IF Accepts(records, report, now) /\ report.vehicle = v
                        THEN report.state ELSE Known(v)
<1>1. CASE ~Accepts(records, report, now)
  BY <1>1 DEF Update, News, Known
<1>2. /\ \A r \in reports : r.sequence \in Int
      /\ HasRecord(records, v) => records[v].sequence \in Int
  BY DEF TypeOK, IsRecords, Record, HasRecord, Sequence
<1>3. CASE Accepts(records, report, now) /\ report.vehicle # v
  <2>1. records' = Stored(records, report, now)
    BY <1>3 DEF Update
  <2>2. /\ HasRecord(records', v) <=> HasRecord(records, v)
        /\ HasRecord(records, v) => records'[v] = records[v]
    BY <1>3, <2>1 DEF Stored, HasRecord
  <2> QED
    BY <1>3, <2>2 DEF News, Known
<1>4. CASE Accepts(records, report, now) /\ report.vehicle = v
  <2>1. records' = Stored(records, report, now)
    BY <1>4 DEF Update
  <2>2. /\ HasRecord(records', v)
        /\ records'[v].state = report.state
        /\ records'[v].sequence = report.sequence
    BY <1>4, <2>1 DEF Stored, HasRecord
  <2>3. Known(v)' = report.state
    BY <2>2 DEF Known
  <2>4. HasRecord(records, v) => report.sequence >= records[v].sequence
    BY <1>2, <1>4 DEF StepsBack
  <2>5. CASE HasRecord(records, v) /\ report.sequence = records[v].sequence
    <3>1. report.state = Known(v)
      BY <1>4, <2>5 DEF Recorded, HasRecord, Known
    <3>2. News(v)' = News(v)
      BY <2>2, <2>5 DEF News
    <3> QED
      BY <1>4, <2>3, <3>1, <3>2
  <2>6. CASE HasRecord(records, v) => report.sequence > records[v].sequence
    <3>1. report \in News(v)
      BY <1>4, <2>6 DEF News
    <3>2. \A r \in News(v)' : report.sequence < r.sequence
      BY <1>2, <2>2 DEF News
    <3>3. News(v)' \subseteq News(v)
      BY <1>2, <2>2, <2>6 DEF News
    <3> QED
      BY <1>4, <2>3, <3>1, <3>2, <3>3
  <2> QED
    BY <1>2, <2>4, <2>5, <2>6
<1> QED
  BY <1>1, <1>3, <1>4

LEMMA TakenToward ==
  ASSUME TypeOK, Recorded, NEW report \in reports,
         UNCHANGED <<reports, truck, commands>>,
         records' = Update(records, report, now),
         NEW v \in Configured, StepsBack(report) => report.vehicle # v,
         NEW goal, Toward(v, goal)
  PROVE  /\ Toward(v, goal)'
         /\ Met(goal, Known(v)) => Met(goal, Known(v)')
<1>1. /\ News(v)' \subseteq News(v)
      /\ \/ Known(v)' = Known(v)
         \/ /\ report \in News(v) /\ Known(v)' = report.state
            /\ \A r \in News(v)' : report.sequence < r.sequence
  BY NewsTaken
<1>2. NewsToward(v, goal)' /\ TruckToward(v, goal)'
  BY <1>1 DEF Toward, NewsToward, TruckToward
<1>3. KnownToward(v, goal)'
  BY <1>1 DEF Toward, NewsToward, TruckToward, KnownToward
<1>4. LaterPacketsToward(v, goal)' /\ PacketsToward(v, goal)'
  BY DEF Toward, LaterPacketsToward, PacketsToward
<1>5. Met(goal, Known(v)) => Met(goal, Known(v)')
  BY <1>1 DEF Toward, KnownToward
<1> QED
  BY <1>2, <1>3, <1>4, <1>5 DEF Toward

\* A vehicle at peace goes towards everything: nothing moves.
LEMMA PeaceToward ==
  ASSUME TypeOK, NEW v \in Configured, AtPeace(v), NEW goal
  PROVE  Toward(v, goal) /\ CockpitOf(records, v) # "self"
BY DEF AtPeace, NothingOnItsWay, Toward, NewsToward, KnownToward, TruckToward,
       LaterPacketsToward, PacketsToward

\* A report shows what the vehicle is, and is newer than its earlier ones.
LEMMA ReportedToward ==
  ASSUME TypeOK, Reported, NEW w \in Configured, NEW report,
         report.vehicle = w, report.state = truck[w].state,
         report.sequence > truck[w].reported, report.sequence \in Sequence,
         reports' = reports \cup {report},
         \A u \in Configured : truck'[u].state = truck[u].state,
         UNCHANGED <<records, commands>>,
         NEW v \in Configured, NEW goal, Toward(v, goal)
  PROVE  Toward(v, goal)'
<1>1. /\ Known(v)' = Known(v)
      /\ News(v)' \subseteq News(v) \cup {report}
      /\ report \in News(v)' => v = w
  BY DEF Known, News
<1>2. \A r \in News(v) : v = w => r.sequence < report.sequence
  <2>1. \A r \in News(v) : r.sequence <= truck[v].reported /\ r.sequence \in Int
    BY DEF News, Reported, TypeOK, Sequence
  <2>2. truck[v].reported \in Int /\ report.sequence \in Int
    BY DEF TypeOK, Sequence
  <2> QED
    BY <2>1, <2>2
<1>3. \A r \in News(v) : r.sequence \in Int
  BY DEF News, TypeOK, Sequence
<1>4. NewsToward(v, goal)'
  <2> SUFFICES ASSUME NEW r \in News(v)', NEW s \in News(v)',
                      r.sequence < s.sequence, Met(goal, r.state)
               PROVE  Met(goal, s.state)
    BY DEF NewsToward
  <2>1. r # report
    BY <1>1, <1>2, <1>3 DEF Sequence
  <2>2. r \in News(v)
    BY <1>1, <2>1
  <2>3. CASE s \in News(v)
    BY <2>2, <2>3 DEF Toward, NewsToward
  <2>4. CASE s = report
    BY <1>1, <2>2, <2>4 DEF Toward, TruckToward
  <2> QED
    BY <1>1, <2>3, <2>4
<1>5. KnownToward(v, goal)' /\ TruckToward(v, goal)'
  BY <1>1 DEF Toward, KnownToward, TruckToward
<1>6. LaterPacketsToward(v, goal)' /\ PacketsToward(v, goal)'
  BY DEF Toward, LaterPacketsToward, PacketsToward
<1> QED
  BY <1>4, <1>5, <1>6 DEF Toward

\* Packets that are lost take nothing back.
LEMMA LostToward ==
  ASSUME UNCHANGED <<records, reports, truck>>, commands' \subseteq commands,
         NEW v, NEW goal, Toward(v, goal)
  PROVE  Toward(v, goal)'
<1>1. Known(v)' = Known(v) /\ News(v)' = News(v)
  BY DEF Known, News
<1> QED
  BY <1>1 DEF Toward, NewsToward, KnownToward, TruckToward, LaterPacketsToward,
              PacketsToward

\* Nor does one that is sent, unless it asks for the opposite.
LEMMA SentToward ==
  ASSUME UNCHANGED <<records, reports, truck>>, NEW packet,
         commands' = commands \cup {packet},
         \A p \in commands : p.sequence < packet.sequence,
         NEW v, NEW goal \in Goal,
         packet.vehicle = v => ~AsksFor(packet, Against(goal)),
         Toward(v, goal)
  PROVE  Toward(v, goal)'
<1>1. Known(v)' = Known(v) /\ News(v)' = News(v)
  BY DEF Known, News
<1>2. NewsToward(v, goal)' /\ KnownToward(v, goal)' /\ TruckToward(v, goal)'
  BY <1>1 DEF Toward, NewsToward, KnownToward, TruckToward
<1>3. LaterPacketsToward(v, goal)' /\ PacketsToward(v, goal)'
  BY DEF Toward, LaterPacketsToward, PacketsToward
<1> QED
  BY <1>2, <1>3 DEF Toward

\* What a packet does to a vehicle: what it asks for, and nothing else.
LEMMA ObeyedMeets ==
  ASSUME NEW state \in VehicleState, OwnersAgree(state), NEW packet \in Packet,
         NEW goal \in Goal
  PROVE  LET new == Obeyed(state, packet)
         IN  /\ OwnersAgree(new)
             /\ AsksFor(packet, goal) => Met(goal, new)
             /\ ~AsksFor(packet, Against(goal)) /\ Met(goal, state)
                  => Met(goal, new)
             /\ ~AsksFor(packet, goal) /\ Met(goal, new) => Met(goal, state)
<1> DEFINE s == Moded(state, packet.mode)
<1>1. /\ s \in VehicleState /\ OwnersAgree(s) /\ s.on = state.on
      /\ s.cockpit_id = "self" <=>
           \/ packet.mode = "ENTER"
           \/ packet.mode # "EXIT" /\ state.cockpit_id = "self"
  BY NobodyIs, SelfIs
     DEF Moded, Entered, Left, OwnersAgree, VehicleState, DriveMode
<1> HIDE DEF s
<1> DEFINE new == Obeyed(state, packet)
<1>2. /\ new.cockpit_id = s.cockpit_id /\ new.drive_mode = s.drive_mode
      /\ new.on[Switch] <=>
           (packet.fog = "ON" \/ (packet.fog = "NO_CONTROL" /\ s.on[Switch]))
  BY <1>1 DEF Obeyed, VehicleState, s, Switch, LatchedSwitch
<1>3. /\ packet.mode \in {"NONE", "ENTER", "EXIT"}
      /\ packet.fog \in {"NO_CONTROL", "ON", "OFF"}
  BY DEF Packet, RemoteModeRequest, SwitchCommand
<1> HIDE DEF new
<1> QED
  BY <1>1, <1>2, <1>3 DEF OwnersAgree, AsksFor, Met, Against, Goal, new

LEMMA ChangedToward ==
  ASSUME UNCHANGED <<records, reports>>, commands' \subseteq commands,
         NEW v, NEW goal \in Goal, Toward(v, goal),
         Met(goal, truck[v].state) => Met(goal, truck'[v].state),
         Met(goal, truck'[v].state) =>
           \A q \in commands' : q.vehicle = v => ~AsksFor(q, Against(goal))
  PROVE  Toward(v, goal)'
<1>1. Known(v)' = Known(v) /\ News(v)' = News(v)
  BY DEF Known, News
<1> QED
  BY <1>1 DEF Toward, NewsToward, KnownToward, TruckToward, LaterPacketsToward,
              PacketsToward

LEMMA ExecutedToward ==
  ASSUME TypeOK, Owners, NEW packet \in commands, Execute(packet),
         NEW v \in Configured, NEW goal \in Goal, Toward(v, goal)
  PROVE  Toward(v, goal)'
<1>1. /\ UNCHANGED <<records, reports>>
      /\ truck' = [truck EXCEPT ![packet.vehicle].state = Obeyed(@, packet)]
      /\ commands' = {p \in commands : \/ p.vehicle # packet.vehicle
                                       \/ p.sequence > packet.sequence}
  BY DEF Execute, cockpit
<1>2. /\ truck \in [Configured -> [state: VehicleState, reported: Sequence]]
      /\ packet \in Packet
      /\ \A p \in commands : p.sequence \in Int
  BY DEF TypeOK, Packet, Sequence
<1>3. CASE v # packet.vehicle
  <2>1. truck'[v] = truck[v]
    BY <1>1, <1>2, <1>3
  <2> QED
    BY <1>1, <2>1, ChangedToward DEF Toward, PacketsToward
<1>4. CASE v = packet.vehicle
  <2> DEFINE new == Obeyed(truck[v].state, packet)
  <2>1. truck'[v].state = new
    <3>1. truck' = [truck EXCEPT ![v] = [@ EXCEPT !.state = new]]
      BY <1>1, <1>4
    <3> HIDE DEF new
    <3> QED
      BY <1>2, <3>1
  <2>2. truck[v].state \in VehicleState /\ OwnersAgree(truck[v].state)
    BY <1>2 DEF Owners
  <2>3. /\ ~AsksFor(packet, Against(goal)) /\ Met(goal, truck[v].state)
             => Met(goal, new)
        /\ ~AsksFor(packet, goal) /\ Met(goal, new)
             => Met(goal, truck[v].state)
    BY <1>2, <2>2, ObeyedMeets
  <2> HIDE DEF new
  <2>4. Met(goal, truck[v].state) => Met(goal, new)
    BY <1>4, <2>3 DEF Toward, PacketsToward
  <2>5. ASSUME Met(goal, new), NEW q \in commands', q.vehicle = v,
               AsksFor(q, Against(goal))
        PROVE  FALSE
    <3>1. q \in commands /\ q.sequence > packet.sequence
      BY <1>1, <1>4, <2>5
    <3>2. CASE AsksFor(packet, goal)
      BY <1>2, <1>4, <2>5, <3>1, <3>2 DEF Toward, LaterPacketsToward
    <3>3. CASE ~AsksFor(packet, goal)
      BY <2>3, <2>5, <3>1, <3>3 DEF Toward, PacketsToward
    <3> QED
      BY <3>2, <3>3
  <2> QED
    BY <1>1, <2>1, <2>4, <2>5, ChangedToward
<1> QED
  BY <1>3, <1>4

\* A vehicle that hears nothing more is left, and its switches stay.
LEMMA TimedOutToward ==
  ASSUME TypeOK, NEW w \in Configured, LinkTimeout(w),
         NEW v \in Configured, NEW goal \in Goal, goal = "ENTER" => v # w,
         Toward(v, goal)
  PROVE  Toward(v, goal)'
<1> DEFINE new == Left(truck[w].state)
<1>1. /\ UNCHANGED <<records, reports, commands>>
      /\ truck' = [truck EXCEPT ![w].state = Left(@)]
      /\ NothingOnItsWay(w)
  BY DEF LinkTimeout, cockpit
<1>2. truck \in [Configured -> [state: VehicleState, reported: Sequence]]
  BY DEF TypeOK
<1>3. new.cockpit_id # "self" /\ new.on = truck[w].state.on
  BY <1>2, NobodyIs DEF Left, VehicleState
<1>4. truck' = [truck EXCEPT ![w] = [@ EXCEPT !.state = new]]
  BY <1>1
<1> HIDE DEF new
<1>5. /\ v # w => truck'[v] = truck[v]
      /\ v = w => truck'[v].state = new
  BY <1>2, <1>4
<1>6. CASE v # w
  BY <1>1, <1>5, <1>6, ChangedToward DEF Toward, PacketsToward
<1>7. CASE v = w
  <2>1. Met(goal, truck[v].state) => Met(goal, truck'[v].state)
    BY <1>3, <1>5, <1>7 DEF Met, Goal
  <2>2. \A q \in commands' : q.vehicle # v
    BY <1>1, <1>7 DEF NothingOnItsWay
  <2> QED
    BY <1>1, <2>1, <2>2, ChangedToward
<1> QED
  BY <1>6, <1>7

(***************************************************************************)
(* The generator: what a click, a confirmation and a press ask for.        *)
(***************************************************************************)
CounterClockwise == "encoder_counter_clockwise"
Dial == {Clockwise, CounterClockwise, Confirming}

\* The clock stands still, and no click is forgotten.
LEMMA NothingExpires ==
  ASSUME NEW g \in Generator
  PROVE  ExpireRotation(g, 0) = g
BY GeneratorAssumption DEF ExpireRotation, Generator, Time, NoTime

LEMMA RequestIs ==
  ASSUME NEW g \in Generator
  PROVE  LET h == UpdateRemoteModeRequest(g, 0)
             rose == {b \in Dial : Rose(g, b)}
         IN  /\ rose = {} =>
                  /\ h.cw = g.cw /\ h.ccw = g.ccw
                  /\ h.command = g.command
             /\ rose = {Clockwise} =>
                  /\ h.cw = g.cw + 1 /\ h.ccw = 0
                  /\ h.command = g.command
             /\ rose = {CounterClockwise} =>
                  /\ h.cw = 0 /\ h.ccw = g.ccw + 1
                  /\ h.command = g.command
             /\ rose = {Confirming} =>
                  h.command.mode = IF g.cw > 0 THEN "ENTER"
                                   ELSE IF g.ccw > 0 THEN "EXIT"
                                   ELSE g.command.mode
<1> DEFINE k == CountRotation(g, 0)
           h == UpdateRemoteModeRequest(g, 0)
           rose == {b \in Dial : Rose(g, b)}
<1>1. h = IF Confirming \in rose THEN ResetRemoteRotation(SubmitRequest(k))
                                 ELSE k
  BY NothingExpires DEF UpdateRemoteModeRequest, Confirming, Dial
<1>2. k \in Generator
  BY NothingExpires, CountRotationType
<1>3. /\ rose \subseteq {Confirming} => k = g
      /\ rose = {Clockwise} =>
           k.cw = g.cw + 1 /\ k.ccw = 0 /\ k.command = g.command
      /\ rose = {CounterClockwise} =>
           k.cw = 0 /\ k.ccw = g.ccw + 1 /\ k.command = g.command
  <2>1. /\ Clockwise \in rose <=> Rose(g, "encoder_clockwise")
        /\ CounterClockwise \in rose <=> Rose(g, "encoder_counter_clockwise")
        /\ Clockwise # CounterClockwise /\ Clockwise # Confirming
        /\ CounterClockwise # Confirming
    BY DEF Dial, Clockwise, CounterClockwise, Confirming
  <2> HIDE DEF rose
  <2>2. CASE rose \subseteq {Confirming}
    BY <2>1, <2>2 DEF CountRotation
  <2>3. CASE rose = {Clockwise}
    BY <2>1, <2>3 DEF CountRotation, Generator
  <2>4. CASE rose = {CounterClockwise}
    BY <2>1, <2>4 DEF CountRotation, Generator
  <2> QED
    BY <2>1, <2>2, <2>3, <2>4
<1>4. /\ Clockwise # Confirming /\ CounterClockwise # Confirming
  BY DEF Clockwise, CounterClockwise, Confirming
<1> HIDE DEF k, h, rose
<1>5. rose = {Confirming} =>
        h.command.mode = IF g.cw > 0 THEN "ENTER"
                         ELSE IF g.ccw > 0 THEN "EXIT" ELSE g.command.mode
  <2> SUFFICES ASSUME rose = {Confirming}
               PROVE  h.command.mode = IF g.cw > 0 THEN "ENTER"
                                       ELSE IF g.ccw > 0 THEN "EXIT"
                                       ELSE g.command.mode
    OBVIOUS
  <2> DEFINE r == SubmitRequest(g)
  <2>1. /\ r \in Generator
        /\ r.command.mode = IF g.cw > 0 THEN "ENTER"
                            ELSE IF g.ccw > 0 THEN "EXIT" ELSE g.command.mode
    <3>1. RotationThreshold = 1 /\ g.cw \in Nat /\ g.ccw \in Nat
      BY HandoverAssumption DEF Generator
    <3>2. r \in Generator
      BY ResetForEntryType, RequestType DEF SubmitRequest, RemoteModeRequest
    <3>3. ResetCommandForRemoteEntry(g) \in Generator
      BY ResetForEntryType
    <3> QED
      BY <3>1, <3>2, <3>3 DEF SubmitRequest, Generator, ControlCommand
  <2> HIDE DEF r
  <2>2. h = ResetRemoteRotation(r)
    BY <1>1, <1>3 DEF r
  <2>3. h.command = r.command
    BY <2>1, <2>2 DEF ResetRemoteRotation, Generator
  <2> QED
    BY <2>1, <2>3
<1> QED
  BY <1>1, <1>3, <1>4, <1>5 DEF h, rose

LEMMA LatchedFog ==
  ASSUME NEW g \in Generator, NEW frame \in Frame
  PROVE  LET c == g.command.switch[Switch]
         IN  Latched(g, frame).command.switch[Switch] =
               IF "square" \in frame.pressed \ g.current.pressed
               THEN ToggleSwitch(c, g.vehicle.on[Switch]) ELSE c
<1> DEFINE t == TakeFrame(g, frame)
           u == UpdateGear(t)
           switch == Toggled(u, ToggledByInput(u))
<1>1. /\ t \in Generator /\ t.current = frame /\ t.previous = g.current
      /\ t.command = g.command /\ t.vehicle = g.vehicle
  BY TakeFrameType, TakeFrameKeeps
<1>2. Switch \in LatchedSwitch /\ Switch # "light_reverse"
  BY DEF Switch, LatchedSwitch
<1> HIDE DEF t
<1>3. /\ u \in Generator /\ u.current = frame /\ u.previous = g.current
      /\ u.vehicle = g.vehicle
      /\ u.command.switch[Switch] = g.command.switch[Switch]
  BY <1>1, <1>2, UpdateGearType, UpdateGearKeeps
<1> HIDE DEF u
<1>4. Switch \in ToggledByInput(u) <=>
        "square" \in frame.pressed \ g.current.pressed
  BY <1>2, <1>3 DEF ToggledByInput, Rose, Switch
<1>5. switch[Switch] =
        IF "square" \in frame.pressed \ g.current.pressed
        THEN ToggleSwitch(g.command.switch[Switch], g.vehicle.on[Switch])
        ELSE g.command.switch[Switch]
  BY <1>2, <1>3, <1>4 DEF Toggled
<1>6. LinkLightGroup(u, switch)[Switch] = switch[Switch]
  BY <1>2 DEF LinkLightGroup, LightGroup, Switch
<1> HIDE DEF switch
<1>7. UpdateToggleControls(u).command.switch
        \in {switch, LinkLightGroup(u, switch)}
  BY <1>3 DEF UpdateToggleControls, Generator, ControlCommand, switch
<1> QED
  BY <1>5, <1>6, <1>7 DEF Latched, t, u

\* One frame: the dial, and the switch.
LEMMA FrameIs ==
  ASSUME NEW g \in Generator, NEW frame \in Frame
  PROVE  LET h == ProcessInputState(g, frame, 0)
             down == frame.pressed \ g.current.pressed
             rose == Dial \cap down
             c == g.command.switch[Switch]
         IN  /\ h \in Generator /\ h.current = frame /\ h.vehicle = g.vehicle
             /\ rose = {} =>
                  /\ h.cw = g.cw /\ h.ccw = g.ccw
                  /\ h.command.mode = g.command.mode
                  /\ h.command.switch[Switch] =
                       IF "square" \in down
                       THEN ToggleSwitch(c, g.vehicle.on[Switch]) ELSE c
             /\ rose = {Clockwise} => h.cw = g.cw + 1 /\ h.ccw = 0
             /\ rose = {CounterClockwise} => h.cw = 0 /\ h.ccw = g.ccw + 1
             /\ rose = {Confirming} =>
                  h.command.mode = IF g.cw > 0 THEN "ENTER"
                                   ELSE IF g.ccw > 0 THEN "EXIT"
                                   ELSE g.command.mode
             /\ "square" \notin down =>
                  h.command.switch[Switch] \in {c, "NO_CONTROL"}
<1> DEFINE l == Latched(g, frame)
           r == UpdateRemoteModeRequest(l, 0)
           h == ProcessInputState(g, frame, 0)
           down == frame.pressed \ g.current.pressed
           rose == Dial \cap down
           c == g.command.switch[Switch]
<1>1. /\ l \in Generator /\ l.current = frame /\ l.previous = g.current
      /\ l.vehicle = g.vehicle /\ l.cw = g.cw /\ l.ccw = g.ccw
      /\ l.command.mode = g.command.mode
      /\ l.command.switch[Switch] =
           IF "square" \in down
           THEN ToggleSwitch(c, g.vehicle.on[Switch]) ELSE c
  BY LatchedKeeps, LatchedDial, LatchedFog
<1>2. h = UpdateHolds(UpdateBucket(UpdateContinuousControls(r)), 0)
  BY DEF ProcessInputState, Latched
<1>3. /\ h \in Generator /\ h.current = frame /\ h.vehicle = g.vehicle
      /\ h.command.switch = r.command.switch
  BY ProcessInputStateType, ProcessInputStateFields DEF Requested
<1>4. rose = {b \in Dial : Rose(l, b)}
  BY <1>1 DEF Rose
<1> HIDE DEF l, h
<1>5. r \in Generator
  BY <1>1, UpdateRemoteModeRequestType
<1>6. h.cw = r.cw /\ h.ccw = r.ccw /\ h.command.mode = r.command.mode
  BY <1>2, <1>5, RestDial
<1>7. /\ rose = {} => r.cw = l.cw /\ r.ccw = l.ccw /\ r.command = l.command
      /\ rose = {Clockwise} => r.cw = l.cw + 1 /\ r.ccw = 0
      /\ rose = {CounterClockwise} => r.cw = 0 /\ r.ccw = l.ccw + 1
      /\ rose = {Confirming} =>
           r.command.mode = IF l.cw > 0 THEN "ENTER"
                            ELSE IF l.ccw > 0 THEN "EXIT"
                            ELSE l.command.mode
  BY <1>1, <1>4, RequestIs
<1>8. r.command.switch[Switch] \in {l.command.switch[Switch], "NO_CONTROL"}
  <2>1. EmptyCommand.switch[Switch] = "NO_CONTROL"
    BY DEF EmptyCommand, Switch, LatchedSwitch
  <2> QED
    BY <1>1, <2>1, RequestKeepsOrClears
<1> HIDE DEF r, rose, down
<1> QED
  BY <1>1, <1>3, <1>6, <1>7, <1>8 DEF h, rose, down

\* A button that is pressed and let go.
LEMMA PressedIs ==
  ASSUME NEW g \in Generator, g.current = Released, NEW button \in Button
  PROVE  LET h == Pressed(g, button)
             c == g.command.switch[Switch]
         IN  /\ h \in Generator /\ h.current = Released /\ h.vehicle = g.vehicle
             /\ button \notin Dial =>
                  /\ h.cw = g.cw /\ h.ccw = g.ccw
                  /\ h.command.mode = g.command.mode
             /\ button = Clockwise => h.cw = g.cw + 1 /\ h.ccw = 0
             /\ button = CounterClockwise => h.cw = 0 /\ h.ccw = g.ccw + 1
             /\ button = Confirming =>
                  h.command.mode = IF g.cw > 0 THEN "ENTER"
                                   ELSE IF g.ccw > 0 THEN "EXIT"
                                   ELSE g.command.mode
             /\ button = "square" =>
                  h.command.switch[Switch] =
                    ToggleSwitch(c, g.vehicle.on[Switch])
             /\ button # "square" =>
                  h.command.switch[Switch] \in {c, "NO_CONTROL"}
<1> DEFINE frame == [Released EXCEPT !.pressed = {button}]
           d == ProcessInputState(g, frame, 0)
           h == ProcessInputState(d, Released, 0)
           c == g.command.switch[Switch]
<1>1. frame \in Frame /\ frame.pressed \ g.current.pressed = {button}
  BY ButtonFrame, ReleasedFrame
<1>2. Pressed(g, button) = h
  BY DEF Pressed
<1> HIDE DEF frame
<1>3. "square" \notin Dial
  BY DEF Dial, Clockwise, CounterClockwise, Confirming
<1>4. Dial \cap {button} = IF button \in Dial THEN {button} ELSE {}
  OBVIOUS
<1>5. /\ d \in Generator /\ d.vehicle = g.vehicle
      /\ button \notin Dial =>
           /\ d.cw = g.cw /\ d.ccw = g.ccw
           /\ d.command.mode = g.command.mode
      /\ button = Clockwise => d.cw = g.cw + 1 /\ d.ccw = 0
      /\ button = CounterClockwise => d.cw = 0 /\ d.ccw = g.ccw + 1
      /\ button = Confirming =>
           d.command.mode = IF g.cw > 0 THEN "ENTER"
                            ELSE IF g.ccw > 0 THEN "EXIT"
                            ELSE g.command.mode
      /\ button = "square" =>
           d.command.switch[Switch] = ToggleSwitch(c, g.vehicle.on[Switch])
      /\ button # "square" => d.command.switch[Switch] \in {c, "NO_CONTROL"}
  BY <1>1, <1>3, <1>4, FrameIs DEF Dial
<1> HIDE DEF d
<1>6. Released \in Frame /\ Released.pressed \ d.current.pressed = {}
  BY ReleasedFrame
<1>7. /\ h \in Generator /\ h.current = Released /\ h.vehicle = d.vehicle
      /\ h.cw = d.cw /\ h.ccw = d.ccw /\ h.command.mode = d.command.mode
      /\ h.command.switch[Switch] = d.command.switch[Switch]
  BY <1>5, <1>6, FrameIs
<1> HIDE DEF h, c
<1> QED
  BY <1>2, <1>5, <1>7 DEF c

\* A click and its confirmation request what the click is for.
LEMMA DialledAsks ==
  ASSUME generator \in Generator, generator.current = Released,
         NEW button \in {Clockwise, CounterClockwise}
  PROVE  LET h == Dialled(button)
         IN  /\ h \in Generator /\ h.current = Released
             /\ h.vehicle = generator.vehicle
             /\ h.command.mode =
                  IF button = Clockwise THEN "ENTER" ELSE "EXIT"
             /\ h.command.switch[Switch]
                  \in {generator.command.switch[Switch], "NO_CONTROL"}
<1> DEFINE d == Pressed(generator, button)
           h == Pressed(d, Confirming)
<1>1. Dialled(button) = h
  BY DEF Dialled, Confirming
<1>2. /\ Confirming \in Button /\ Confirming # "square"
      /\ button \in Button /\ button # "square"
      /\ CounterClockwise # Clockwise
  BY DEF Confirming, Clockwise, CounterClockwise, Button
<1>3. /\ d \in Generator /\ d.current = Released
      /\ d.vehicle = generator.vehicle
      /\ button = Clockwise => d.cw = generator.cw + 1
      /\ button = CounterClockwise => d.cw = 0 /\ d.ccw = generator.ccw + 1
      /\ d.command.switch[Switch]
           \in {generator.command.switch[Switch], "NO_CONTROL"}
  BY <1>2, PressedIs
<1>4. generator.cw \in Nat /\ generator.ccw \in Nat
  BY DEF Generator
<1> HIDE DEF d
<1>5. /\ h \in Generator /\ h.current = Released /\ h.vehicle = d.vehicle
      /\ h.command.mode = IF d.cw > 0 THEN "ENTER"
                          ELSE IF d.ccw > 0 THEN "EXIT" ELSE d.command.mode
      /\ h.command.switch[Switch] \in {d.command.switch[Switch], "NO_CONTROL"}
  BY <1>2, <1>3, PressedIs
<1> HIDE DEF h
<1> QED
  BY <1>1, <1>2, <1>3, <1>4, <1>5

\* A report that is taken clears the requests it meets.
LEMMA SyncIs ==
  ASSUME NEW g \in Generator, NEW state \in VehicleState, OwnersAgree(state)
  PROVE  LET h == SyncVehicleState(g, state)
             c == g.command.switch[Switch]
         IN  /\ h.current = g.current /\ h.vehicle = state
             /\ h.command.mode =
                  IF Met(g.command.mode, state) THEN "NONE" ELSE g.command.mode
             /\ h.command.switch[Switch] =
                  IF Met(c, state) THEN "NO_CONTROL" ELSE c
<1> DEFINE h == SyncVehicleState(g, state)
           m == g.command.mode
           c == g.command.switch[Switch]
<1>1. /\ g.command \in ControlCommand /\ Switch \in LatchedSwitch
      /\ m \in {"NONE", "ENTER", "EXIT"} /\ c \in {"NO_CONTROL", "ON", "OFF"}
  BY DEF Generator, ControlCommand, Switch, LatchedSwitch, RemoteModeRequest,
         SwitchCommand
<1>2. Met(m, state) <=> ModeConfirmed(m, state.drive_mode)
  BY <1>1 DEF Met, ModeConfirmed, OwnersAgree
<1>3. ClearConfirmedSwitch(c, state.on[Switch]) =
        IF Met(c, state) THEN "NO_CONTROL" ELSE c
  BY <1>1 DEF ClearConfirmedSwitch, SwitchTo, Met
<1>4. /\ h.vehicle = state /\ h.current = g.current
      /\ h.command.mode = IF ModeConfirmed(m, state.drive_mode)
                          THEN "NONE" ELSE m
      /\ h.command.switch[Switch] = ClearConfirmedSwitch(c, state.on[Switch])
  BY <1>1 DEF SyncVehicleState, Generator, ControlCommand
<1> QED
  BY <1>2, <1>3, <1>4

LEMMA GenerateIs ==
  ASSUME NEW g \in Generator
  PROVE  LET h == GenerateCommand(g, 0)
         IN  /\ h.current = g.current /\ h.vehicle = g.vehicle
             /\ h.command.mode = g.command.mode
             /\ h.command.switch[Switch] = g.command.switch[Switch]
<1> DEFINE h == GenerateCommand(g, 0)
<1>1. Switch \in LatchedSwitch \ Combo
  BY DEF Switch, LatchedSwitch, Combo
<1>2. /\ h.current = g.current /\ h.vehicle = g.vehicle
      /\ ChangesCombosOnly(g.command, h.command)
  BY GenerateKeeps
<1>3. \A s \in LatchedSwitch \ Combo :
        h.command.switch[s] = g.command.switch[s]
  BY <1>2, Zenon DEF ChangesCombosOnly
<1> QED
  BY <1>1, <1>2, <1>3, GenerateDial

\* The mode: the request made last is on its way to the vehicle or fulfilled, and
\* no longer pending only when it is fulfilled.  Without a request the vehicle is
\* free.
Sought == IF request = "NONE" THEN "EXIT" ELSE request

ModeKept ==
  selected \in Configured \ unsure =>
    /\ Toward(selected, Sought)
    /\ generator.command.mode \in {"NONE", request}
    /\ NothingPending => Met(Sought, Known(selected))

\* The switch, likewise: what was asked for last is on its way or fulfilled.
FogCommand == generator.command.switch[Switch]

SwitchGoes(v) == Toward(v, "ON") \/ Toward(v, "OFF")

SwitchKept ==
  selected \in Configured \ unsure =>
    /\ generator.vehicle.on[Switch] = Known(selected).on[Switch]
    /\ wanted = "NO_CONTROL" =>
         FogCommand = "NO_CONTROL" /\ SwitchGoes(selected)
    /\ wanted # "NO_CONTROL" =>
         /\ Toward(selected, wanted)
         /\ FogCommand = IF Met(wanted, Known(selected)) THEN "NO_CONTROL"
                                                         ELSE wanted

\* A vehicle that is not selected, and that the cockpit is not mistaken about, is
\* free or becomes so, unless its EXIT is lost.
Others == Configured \ (unsure \cup {selected})

LeftAlone == \A v \in Others : Toward(v, "EXIT") /\ SwitchGoes(v)

\* The EXIT is the last packet sent to it.
ExitIsLast(v) ==
  \E e \in commands :
    /\ e.vehicle = v /\ e.mode = "EXIT"
    /\ \A p \in commands : p.vehicle = v /\ p # e => p.sequence < e.sequence

Told == ~manner.lossy => \A v \in Others : Owner(v) = "self" => ExitIsLast(v)

Patience == ModeKept /\ SwitchKept /\ LeftAlone /\ Told

Unselected == selected = NoVehicle => request = "NONE" /\ wanted = "NO_CONTROL"

Rested == generator.current = Released

Orderly ==
  Owners /\ Reported /\ Distinct /\ Recorded /\ Unselected /\ Rested

WInv == IInv /\ Orderly /\ (manner.patient => Patience)

(***************************************************************************)
(* The steps, for the conjuncts that hold of every operator.               *)
(***************************************************************************)
LEMMA EmptyAgrees == OwnersAgree(EmptyVehicleState)
BY EmptyOwner, NobodyIs DEF OwnersAgree, EmptyVehicleState

LEMMA KnownAgrees ==
  ASSUME Owners, NEW v
  PROVE  OwnersAgree(Known(v))
BY EmptyAgrees DEF Owners, Known, HasRecord

LEMMA KnownType ==
  ASSUME TypeOK, NEW v
  PROVE  Known(v) \in VehicleState
BY EmptyStateType DEF TypeOK, Known, HasRecord, IsRecords, Record

LEMMA NewIs ==
  /\ NewGenerator \in Generator /\ NewGenerator.current = Released
  /\ NewGenerator.command.mode = "NONE"
  /\ NewGenerator.command.switch[Switch] = "NO_CONTROL"
BY NewGeneratorType DEF NewGenerator, EmptyCommand, Switch, LatchedSwitch

LEMMA SelectedRests ==
  ASSUME TypeOK, Owners, NEW v
  PROVE  /\ Selected(v).current = Released
         /\ Selected(v).command.switch[Switch] = "NO_CONTROL"
         /\ Selected(v).vehicle.on[Switch] = Known(v).on[Switch]
<1>1. CASE ~HasRecord(records, v)
  <2>1. NewGenerator.vehicle.on[Switch] = EmptyVehicleState.on[Switch]
    BY DEF NewGenerator, EmptyVehicleState, Switch, LatchedSwitch
  <2> QED
    BY <1>1, <2>1, NewIs DEF Selected, Known
<1>2. CASE HasRecord(records, v)
  <2>1. Selected(v) = SyncVehicleState(NewGenerator, Known(v))
    BY <1>2 DEF Selected, Known
  <2> QED
    BY <2>1, NewIs, SyncIs, KnownType, KnownAgrees
<1> QED
  BY <1>1, <1>2

LEMMA InitOrderly == Init => Orderly
<1> SUFFICES ASSUME Init PROVE Orderly
  OBVIOUS
<1>1. Owners /\ Recorded
  BY EmptyAgrees DEF Init, Owners, NoRecords, Recorded
<1> QED
  BY <1>1, NewIs DEF Init, Orderly, Reported, Distinct, Unselected, Rested

LEMMA CockpitOrderly ==
  ASSUME IInv, Orderly,
         \/ \E v \in Configured : Select(v)
         \/ Release \/ AskEnter \/ AskExit \/ PressSwitch \/ SendControl
  PROVE  Orderly'
<1>1. UNCHANGED <<records, reports, truck>>
  BY DEF Select, Release, AskEnter, AskExit, Ask, PressSwitch, SendControl
<1>2. Owners' /\ Reported' /\ Distinct' /\ Recorded'
  BY <1>1 DEF Orderly, Owners, Reported, Distinct, Recorded
<1>3. Unselected'
  <2>1. NoVehicle \notin Configured
    BY HandoverAssumption
  <2> QED
    BY <2>1 DEF Orderly, Unselected, Select, Release, AskEnter, AskExit, Ask,
                PressSwitch, SendControl, history
<1>4. generator \in Generator /\ generator.current = Released
  BY DEF IInv, TypeOK, Orderly, Rested
<1>5. Rested'
  <2>1. CASE \E v \in Configured : Select(v)
    BY <2>1, SelectedRests DEF Select, IInv, Orderly, Rested
  <2>2. CASE Release
    BY <2>2, NewIs DEF Release, Rested
  <2>3. CASE AskEnter
    BY <2>3, <1>4, DialledAsks DEF AskEnter, Rested, Clockwise
  <2>4. CASE AskExit
    BY <2>4, <1>4, DialledAsks DEF AskExit, Rested, CounterClockwise
  <2>5. CASE PressSwitch
    BY <2>5, <1>4, PressedIs DEF PressSwitch, Rested, Button
  <2>6. CASE SendControl
    BY <2>6, <1>4, GenerateIs DEF SendControl, Rested
  <2> QED
    BY <2>1, <2>2, <2>3, <2>4, <2>5, <2>6
<1> QED
  BY <1>2, <1>3, <1>5 DEF Orderly

LEMMA ReceiveOrderly ==
  ASSUME IInv, Orderly, NEW report \in reports, ReceiveReport(report)
  PROVE  Orderly'
<1>1. /\ UNCHANGED <<selected, reports, truck, request, wanted>>
      /\ records' = Update(records, report, now)
      /\ generator' \in {generator, SyncVehicleState(generator, report.state)}
  BY DEF ReceiveReport, history
<1>2. report.state \in VehicleState /\ OwnersAgree(report.state)
  BY DEF IInv, TypeOK, Orderly, Owners
<1>3. \A v \in DOMAIN records' : OwnersAgree(records'[v].state)
  BY <1>1, <1>2 DEF Update, Stored, Orderly, Owners
<1>4. Owners' /\ Reported' /\ Distinct' /\ Unselected'
  BY <1>1, <1>3 DEF Orderly, Owners, Reported, Distinct, Unselected
<1>5. Rested'
  BY <1>1, <1>2, SyncIs DEF IInv, TypeOK, Orderly, Rested
<1>6. Recorded'
  <2>1. CASE ~Accepts(records, report, now)
    BY <1>1, <2>1 DEF Update, Orderly, Recorded
  <2>2. CASE Accepts(records, report, now)
    <3>1. records' = Stored(records, report, now)
      BY <1>1, <2>2 DEF Update
    <3>2. \A v \in DOMAIN records' :
            \/ /\ v = report.vehicle
               /\ records'[v].state = report.state
               /\ records'[v].sequence = report.sequence
            \/ v \in DOMAIN records /\ records'[v] = records[v]
      BY <3>1 DEF Stored
    <3> QED
      BY <1>1, <3>2 DEF Orderly, Recorded, Reported, Distinct
  <2> QED
    BY <2>1, <2>2
<1> QED
  BY <1>4, <1>5, <1>6 DEF Orderly

\* What a packet, or its absence, does to the vehicles.
LEMMA TruckOrderly ==
  ASSUME Orderly, UNCHANGED <<selected, generator, records, reports, request,
                              wanted>>,
         \A v \in Configured : OwnersAgree(truck'[v].state),
         \A v \in Configured : truck'[v].reported = truck[v].reported,
         \A r \in reports : r.vehicle \in Configured,
         DOMAIN records \subseteq Configured
  PROVE  Orderly'
<1>1. Owners' /\ Reported' /\ Distinct' /\ Recorded'
  BY DEF Orderly, Owners, Reported, Distinct, Recorded
<1> QED
  BY <1>1 DEF Orderly, Unselected, Rested

LEMMA ExecuteOrderly ==
  ASSUME IInv, Orderly, NEW packet \in commands, Execute(packet)
  PROVE  Orderly'
<1> DEFINE v == packet.vehicle
           new == Obeyed(truck[v].state, packet)
<1>1. packet \in Packet /\ v \in Configured
  BY DEF IInv, TypeOK, Packet
<1>2. /\ truck \in [Configured -> [state: VehicleState, reported: Sequence]]
      /\ \A r \in reports : r.vehicle \in Configured
      /\ DOMAIN records \subseteq Configured
  BY DEF IInv, TypeOK, IsRecords
<1>3. truck' = [truck EXCEPT ![v] = [@ EXCEPT !.state = new]]
  BY DEF Execute
<1>4. OwnersAgree(new)
  BY <1>1, <1>2, ObeyedMeets DEF Orderly, Owners, Goal
<1> HIDE DEF new, v
<1>5. \A u \in Configured : /\ truck'[u].reported = truck[u].reported
                            /\ OwnersAgree(truck'[u].state)
  BY <1>1, <1>2, <1>3, <1>4 DEF Orderly, Owners
<1> QED
  BY <1>2, <1>5, TruckOrderly DEF Execute, cockpit

LEMMA LinkTimeoutOrderly ==
  ASSUME IInv, Orderly, NEW v \in Configured, LinkTimeout(v)
  PROVE  Orderly'
<1> DEFINE new == Left(truck[v].state)
<1>1. /\ truck \in [Configured -> [state: VehicleState, reported: Sequence]]
      /\ \A r \in reports : r.vehicle \in Configured
      /\ DOMAIN records \subseteq Configured
  BY DEF IInv, TypeOK, IsRecords
<1>2. truck' = [truck EXCEPT ![v] = [@ EXCEPT !.state = new]]
  BY DEF LinkTimeout
<1>3. OwnersAgree(new)
  BY <1>1, NobodyIs DEF Left, OwnersAgree, VehicleState
<1> HIDE DEF new
<1>4. \A u \in Configured : /\ truck'[u].reported = truck[u].reported
                            /\ OwnersAgree(truck'[u].state)
  BY <1>1, <1>2, <1>3 DEF Orderly, Owners
<1> QED
  BY <1>1, <1>4, TruckOrderly DEF LinkTimeout, cockpit, history

\* The report a vehicle sends.
LEMMA SentReport ==
  ASSUME IInv, NEW v \in Configured, ReportState(v)
  PROVE  /\ UNCHANGED <<selected, generator, records, commands, request, wanted,
                        unsure>>
         /\ truck'[v].reported = truck[v].reported + 1
         /\ \A u \in Configured :
              /\ truck'[u].state = truck[u].state
              /\ truck[u].reported \in Int /\ truck'[u].reported \in Int
              /\ truck[u].reported <= truck'[u].reported
         /\ \E report :
              /\ reports' = reports \cup {report}
              /\ report.vehicle = v /\ report.state = truck[v].state
              /\ report.sequence = truck'[v].reported
              /\ report.sequence \in Sequence
<1> DEFINE n == truck[v].reported
           next == NextSequence(n)
           report == [vehicle |-> v, source |-> VehicleAddress[v],
                      sequence |-> truck'[v].reported, state |-> truck[v].state]
<1>1. truck \in [Configured -> [state: VehicleState, reported: Sequence]]
  BY DEF IInv, TypeOK
<1>2. n \in 0 .. SeqMod - 2
  BY <1>1, MannerIs, CacheAssumption DEF ReportState, IInv, Sequence
<1>3. next = n + 1 /\ next \in Sequence /\ n \in Int
  BY <1>2, NextSequenceIs
<1>4. /\ truck' = [truck EXCEPT ![v] = [@ EXCEPT !.reported = next]]
      /\ reports' = reports \cup {report}
      /\ UNCHANGED <<selected, generator, records, commands, request, wanted,
                     unsure>>
  BY DEF ReportState, cockpit, history
<1> HIDE DEF next
<1>5. /\ truck'[v].reported = next
      /\ \A u \in Configured :
           /\ truck'[u].state = truck[u].state
           /\ u # v => truck'[u].reported = truck[u].reported
  BY <1>1, <1>4
<1>6. \A u \in Configured : truck[u].reported \in Int
  BY <1>1 DEF Sequence
<1>7. /\ report.vehicle = v /\ report.state = truck[v].state
      /\ report.sequence = truck'[v].reported
  OBVIOUS
<1> HIDE DEF report
<1> QED
  BY <1>3, <1>4, <1>5, <1>6, <1>7

LEMMA ReportStateOrderly ==
  ASSUME IInv, Orderly, NEW v \in Configured, ReportState(v)
  PROVE  Orderly'
<1>1. /\ UNCHANGED <<selected, generator, records, request, wanted>>
      /\ \A u \in Configured :
           /\ truck'[u].state = truck[u].state
           /\ truck[u].reported \in Int /\ truck'[u].reported \in Int
           /\ truck[u].reported <= truck'[u].reported
  BY SentReport
<1>2. PICK report : /\ reports' = reports \cup {report}
                    /\ report.vehicle = v /\ report.state = truck[v].state
                    /\ report.sequence = truck'[v].reported
                    /\ report.sequence > truck[v].reported
  BY SentReport
<1>3. /\ \A r \in reports : r.vehicle \in Configured /\ r.sequence \in Int
      /\ DOMAIN records \subseteq Configured
      /\ \A u \in DOMAIN records : records[u].sequence \in Int
  BY DEF IInv, TypeOK, Sequence, IsRecords, Record
<1>4. Reported'
  BY <1>1, <1>2, <1>3 DEF Orderly, Reported
<1>5. Owners'
  BY <1>1, <1>2 DEF Orderly, Owners
<1>6. Distinct'
  BY <1>1, <1>2, <1>3 DEF Orderly, Reported, Distinct
<1>7. Recorded'
  BY <1>1, <1>2, <1>3 DEF Orderly, Recorded
<1> QED
  BY <1>1, <1>4, <1>5, <1>6, <1>7 DEF Orderly, Unselected, Rested

(***************************************************************************)
(* The steps, for the operator who waits.                                  *)
(***************************************************************************)
LEMMA Goals ==
  ASSUME TypeOK
  PROVE  /\ Sought \in {"ENTER", "EXIT"} /\ Sought \in Goal
         /\ wanted # "NO_CONTROL" => wanted \in {"ON", "OFF"}
         /\ \A goal \in {"ON", "OFF"} : goal \in Goal
         /\ "EXIT" \in Goal
BY DEF TypeOK, RemoteModeRequest, SwitchCommand, Sought, Goal

\* What the vehicles and the network do.
LEMMA SteadyKept ==
  ASSUME TypeOK, ModeKept, SwitchKept, LeftAlone,
         UNCHANGED <<selected, generator, records, request, wanted, unsure>>,
         \A v \in Configured, goal \in Goal :
           Toward(v, goal) /\ (goal = "ENTER" => v = selected)
             => Toward(v, goal)'
  PROVE  ModeKept' /\ SwitchKept' /\ LeftAlone'
<1>1. \A v : Known(v)' = Known(v)
  BY DEF Known
<1>2. \A v \in Configured : SwitchGoes(v) => SwitchGoes(v)'
  BY Goals DEF SwitchGoes
<1>3. ModeKept'
  BY <1>1, Goals DEF ModeKept, Sought, NothingPending
<1>4. SwitchKept'
  BY <1>1, <1>2, Goals DEF SwitchKept, FogCommand
<1>5. LeftAlone'
  BY <1>2, Goals DEF LeftAlone, Others
<1> QED
  BY <1>3, <1>4, <1>5

LEMMA ReportStatePatience ==
  ASSUME IInv, Orderly, Patience, UNCHANGED <<manner, now>>,
         NEW v \in Configured, ReportState(v)
  PROVE  Patience'
<1>1. /\ UNCHANGED <<selected, generator, records, commands, request, wanted,
                     unsure>>
      /\ \A u \in Configured : truck'[u].state = truck[u].state
      /\ truck'[v].reported = truck[v].reported + 1
      /\ truck[v].reported \in Int
  BY SentReport
<1>2. PICK report : /\ reports' = reports \cup {report}
                    /\ report.vehicle = v /\ report.state = truck[v].state
                    /\ report.sequence = truck'[v].reported
                    /\ report.sequence \in Sequence
  BY SentReport
<1>3. report.sequence > truck[v].reported
  BY <1>1, <1>2
<1>4. \A u \in Configured, goal \in Goal : Toward(u, goal) => Toward(u, goal)'
  BY <1>1, <1>2, <1>3, ReportedToward DEF IInv, Orderly
<1>5. Told'
  BY <1>1 DEF Patience, Told, Others, ExitIsLast, Owner
<1> QED
  BY <1>1, <1>4, <1>5, SteadyKept DEF Patience, IInv

LEMMA LoseCommandPatience ==
  ASSUME IInv, Orderly, Patience, UNCHANGED <<manner, now>>,
         NEW packet \in commands, LoseCommand(packet)
  PROVE  Patience'
<1>1. /\ UNCHANGED <<selected, generator, records, reports, truck, request,
                     wanted, unsure>>
      /\ commands' \subseteq commands /\ manner.lossy
  BY DEF LoseCommand, cockpit, history
<1>2. Told'
  BY <1>1 DEF Told
<1> QED
  BY <1>1, <1>2, SteadyKept, LostToward DEF Patience, IInv

LEMMA LinkTimeoutPatience ==
  ASSUME IInv, Orderly, Patience, UNCHANGED <<manner, now>>,
         NEW v \in Configured, LinkTimeout(v)
  PROVE  Patience'
<1>1. /\ UNCHANGED <<selected, generator, records, commands, request, wanted,
                     unsure>>
      /\ selected # v
  BY DEF LinkTimeout, cockpit, history
<1>2. \A u \in Configured, goal \in Goal :
        Toward(u, goal) /\ (goal = "ENTER" => u = selected)
          => Toward(u, goal)'
  BY <1>1, TimedOutToward DEF IInv
<1>3. Told'
  <2> DEFINE new == Left(truck[v].state)
  <2>1. truck \in [Configured -> [state: VehicleState, reported: Sequence]]
    BY DEF IInv, TypeOK
  <2>2. new.cockpit_id # "self"
    BY <2>1, NobodyIs DEF Left, VehicleState
  <2>3. truck' = [truck EXCEPT ![v] = [@ EXCEPT !.state = new]]
    BY DEF LinkTimeout
  <2> HIDE DEF new
  <2>4. \A u \in Configured : Owner(u)' = "self" => Owner(u) = "self"
    BY <2>1, <2>2, <2>3 DEF Owner
  <2> QED
    BY <1>1, <2>4 DEF Patience, Told, Others, ExitIsLast
<1> QED
  BY <1>1, <1>2, <1>3, SteadyKept DEF Patience, IInv

LEMMA ExecutePatience ==
  ASSUME IInv, Orderly, Patience, UNCHANGED <<manner, now>>,
         NEW packet \in commands, Execute(packet)
  PROVE  Patience'
<1>1. UNCHANGED <<selected, generator, records, request, wanted, unsure>>
  BY DEF Execute, cockpit
<1>2. \A u \in Configured, goal \in Goal : Toward(u, goal) => Toward(u, goal)'
  BY ExecutedToward DEF IInv, Orderly
<1>3. Told'
  <2> SUFFICES ASSUME ~manner.lossy, NEW v \in Others, Owner(v)' = "self"
               PROVE  ExitIsLast(v)'
    BY <1>1 DEF Told, Others
  <2> v \in Configured
    BY DEF Others
  <2>1. Toward(v, "EXIT") /\ Toward(v, "EXIT")'
    BY <1>2, Goals DEF Patience, LeftAlone, IInv
  <2>2. /\ truck \in [Configured -> [state: VehicleState, reported: Sequence]]
        /\ packet \in Packet /\ \A p \in commands : p.sequence \in Int
    BY DEF IInv, TypeOK, Packet, Sequence
  <2>3. /\ truck' = [truck EXCEPT
                       ![packet.vehicle].state = Obeyed(@, packet)]
        /\ commands' = {p \in commands : \/ p.vehicle # packet.vehicle
                                         \/ p.sequence > packet.sequence}
    BY DEF Execute
  <2>4. CASE v # packet.vehicle
    <3>1. Owner(v) = "self"
      BY <2>2, <2>3, <2>4 DEF Owner
    <3> QED
      BY <2>3, <2>4, <3>1 DEF Patience, Told, ExitIsLast
  <2>5. CASE v = packet.vehicle
    <3> DEFINE new == Obeyed(truck[v].state, packet)
    <3>1. new.cockpit_id = "self"
      <4>1. truck' = [truck EXCEPT ![v] = [@ EXCEPT !.state = new]]
        BY <2>3, <2>5
      <4> HIDE DEF new
      <4> QED
        BY <2>2, <4>1 DEF Owner
    <3>2. /\ "EXIT" \in Goal
          /\ truck[v].state \in VehicleState /\ OwnersAgree(truck[v].state)
      BY <2>2 DEF Goal, Orderly, Owners
    <3>3. /\ AsksFor(packet, "EXIT") => Met("EXIT", new)
          /\ ~AsksFor(packet, Against("EXIT")) /\ Met("EXIT", truck[v].state)
               => Met("EXIT", new)
      BY <2>2, <3>2, ObeyedMeets
    <3> HIDE DEF new
    <3>4. ~Met("EXIT", new)
      BY <3>1 DEF Met
    <3>5. packet.mode # "EXIT"
      BY <3>3, <3>4 DEF AsksFor
    <3>6. Owner(v) = "self"
      BY <2>1, <2>5, <3>3, <3>4 DEF Toward, PacketsToward, Met, Owner
    <3>7. PICK e \in commands :
            /\ e.vehicle = v /\ e.mode = "EXIT"
            /\ \A p \in commands :
                 p.vehicle = v /\ p # e => p.sequence < e.sequence
      BY <3>6 DEF Patience, Told, ExitIsLast
    <3>8. packet.sequence < e.sequence
      BY <2>5, <3>5, <3>7
    <3>9. e \in commands'
      BY <2>2, <2>3, <3>8
    <3> QED
      BY <2>3, <3>7, <3>9 DEF ExitIsLast
  <2> QED
    BY <2>4, <2>5
<1> QED
  BY <1>1, <1>2, <1>3, SteadyKept DEF Patience, IInv

LEMMA ReceiveReportPatience ==
  ASSUME IInv, Orderly, Patience, UNCHANGED <<manner, now>>,
         NEW report \in reports, ReceiveReport(report)
  PROVE  Patience'
<1> DEFINE taken == Accepts(records, report, now) /\ report.vehicle = selected
           state == report.state
<1>1. /\ UNCHANGED <<selected, commands, reports, truck, request, wanted>>
      /\ records' = Update(records, report, now)
      /\ generator' = IF taken THEN SyncVehicleState(generator, state)
                               ELSE generator
      /\ unsure \subseteq unsure'
      /\ StepsBack(report) => report.vehicle \in unsure'
  BY DEF ReceiveReport
<1>2. \A v \in Configured \ unsure' : \A goal :
        Toward(v, goal) => /\ Toward(v, goal)'
                           /\ Met(goal, Known(v)) => Met(goal, Known(v)')
  BY <1>1, TakenToward DEF IInv, Orderly
<1>3. \A v \in Configured \ unsure' : SwitchGoes(v) => SwitchGoes(v)'
  BY <1>2 DEF SwitchGoes
<1>4. LeftAlone' /\ Told'
  BY <1>1, <1>2, <1>3
     DEF Patience, LeftAlone, Told, Others, ExitIsLast, Owner
<1> SUFFICES ASSUME selected \in Configured \ unsure'
             PROVE  ModeKept' /\ SwitchKept'
  BY <1>1, <1>4 DEF Patience, ModeKept, SwitchKept
<1>5. selected \in Configured \ unsure
  BY <1>1
<1>6. Known(selected)' = IF taken THEN state ELSE Known(selected)
  BY <1>1, <1>5, NewsTaken DEF IInv, Orderly
<1>7. state \in VehicleState /\ OwnersAgree(state) /\ generator \in Generator
  BY DEF IInv, TypeOK, Orderly, Owners
<1> DEFINE m == generator.command.mode
<1>8. /\ Toward(selected, Sought) /\ m \in {"NONE", request}
      /\ m = "NONE" => Met(Sought, Known(selected))
  BY <1>5 DEF Patience, ModeKept, NothingPending
<1>9. /\ wanted = "NO_CONTROL" =>
           FogCommand = "NO_CONTROL" /\ SwitchGoes(selected)
      /\ wanted # "NO_CONTROL" =>
           /\ Toward(selected, wanted)
           /\ FogCommand = IF Met(wanted, Known(selected)) THEN "NO_CONTROL"
                                                           ELSE wanted
      /\ generator.vehicle.on[Switch] = Known(selected).on[Switch]
  BY <1>5 DEF Patience, SwitchKept
<1>10. CASE ~taken
  BY <1>1, <1>2, <1>3, <1>5, <1>6, <1>8, <1>9, <1>10
     DEF ModeKept, SwitchKept, Sought, NothingPending, FogCommand
<1>11. CASE taken
  <2> HIDE DEF taken
  <2>1. /\ generator'.vehicle = state
        /\ generator'.command.mode = IF Met(m, state) THEN "NONE" ELSE m
        /\ FogCommand' = IF Met(FogCommand, state) THEN "NO_CONTROL"
                                                   ELSE FogCommand
    BY <1>1, <1>7, <1>11, SyncIs DEF FogCommand
  <2>2. Known(selected)' = state
    BY <1>6, <1>11
  <2> HIDE DEF state
  <2>3. \A s : ~Met("NONE", s) /\ ~Met("NO_CONTROL", s)
    BY DEF Met
  <2>4. ModeKept'
    <3>1. Toward(selected, Sought)'
      BY <1>1, <1>2, <1>8 DEF Sought
    <3>2. generator'.command.mode = "NONE" => Met(Sought, state)
      <4>1. CASE m = "NONE"
        BY <1>1, <1>2, <1>8, <2>2, <4>1
      <4>2. CASE m # "NONE"
        <5>1. Sought = m
          BY <1>8, <4>2 DEF Sought
        <5> QED
          BY <2>1, <4>2, <5>1
      <4> QED
        BY <4>1, <4>2
    <3> QED
      BY <1>1, <1>8, <2>1, <2>2, <3>1, <3>2
         DEF ModeKept, Sought, NothingPending
  <2>5. SwitchKept'
    BY <1>1, <1>2, <1>3, <1>9, <2>1, <2>2, <2>3 DEF SwitchKept
  <2> QED
    BY <2>4, <2>5
<1> QED
  BY <1>10, <1>11

LEMMA ExitAsks ==
  ASSUME NEW v
  PROVE  LET packet == PacketOf(v, ExitCommand)
         IN  /\ packet.mode = "EXIT" /\ packet.vehicle = v
             /\ packet.sequence = nextSequence
             /\ ~AsksFor(packet, "ENTER")
             /\ \A goal \in {"ON", "OFF"} : ~AsksFor(packet, goal)
BY DEF PacketOf, ExitCommand, EmptyCommand, AsksFor, Switch, LatchedSwitch

LEMMA CockpitIs ==
  ASSUME NEW v
  PROVE  CockpitOf(records, v) = "self" <=> Met("ENTER", Known(v))
BY EmptyOwner, NobodyIs DEF CockpitOf, Known, Met, Nobody

\* Nothing of the latest requests is left undone when the operator is answered.
LEMMA AnsweredIs ==
  ASSUME TypeOK, ModeKept, SwitchKept, selected \in Configured \ unsure,
         Answered
  PROVE  /\ Settled(selected, Sought)
         /\ FogCommand = "NO_CONTROL"
         /\ SwitchGoes(selected)
         /\ wanted # "NO_CONTROL" => Settled(selected, wanted)
<1>1. NothingPending
  BY DEF Answered
<1>2. Settled(selected, Sought)
  BY <1>1 DEF ModeKept, Settled
<1>3. CASE wanted = "NO_CONTROL"
  BY <1>2, <1>3 DEF SwitchKept
<1>4. CASE wanted # "NO_CONTROL"
  <2>1. wanted \in {"ON", "OFF"}
    BY <1>4, Goals
  <2>2. generator.vehicle.on[Switch] <=> wanted = "ON"
    <3>1. generator.vehicle.on[Switch] \in BOOLEAN
      BY DEF TypeOK, Generator, VehicleState, Switch, LatchedSwitch
    <3> QED
      BY <1>4, <3>1 DEF Answered
  <2>3. Met(wanted, Known(selected))
    BY <2>1, <2>2 DEF SwitchKept, Met
  <2> QED
    BY <1>2, <1>4, <2>1, <2>3 DEF SwitchKept, SwitchGoes, Settled
<1> QED
  BY <1>3, <1>4

\* A vehicle whose mode was not asked for, or was asked to be left, and that is
\* not shown as driven is left.
LEMMA FreeWhenLeft ==
  ASSUME IInv, Orderly, Patience, selected \in Configured \ unsure,
         CockpitOf(records, selected) # "self", request # "ENTER"
  PROVE  /\ Sought = "EXIT" /\ Settled(selected, "EXIT")
         /\ Owner(selected) # "self"
<1>1. Sought = "EXIT"
  BY DEF Sought, IInv, TypeOK, RemoteModeRequest
<1>2. Toward(selected, "EXIT")
  BY <1>1 DEF Patience, ModeKept
<1>3. Met("EXIT", Known(selected))
  BY CockpitIs DEF Met
<1> QED
  BY <1>1, <1>2, <1>3 DEF Settled, Toward, KnownToward, Met, Owner

LEMMA SwitchGoesOn ==
  ASSUME IInv, Patience, selected \in Configured \ unsure
  PROVE  SwitchGoes(selected)
BY Goals DEF IInv, Patience, SwitchKept, SwitchGoes

LEMMA SelectPatience ==
  ASSUME IInv, Orderly, Patience, UNCHANGED <<manner, now>>,
         NEW v \in Configured, Select(v)
  PROVE  Patience'
<1>1. /\ UNCHANGED <<records, commands, reports, truck>>
      /\ selected' = v /\ generator' = Selected(v)
      /\ request' = "NONE" /\ wanted' = "NO_CONTROL"
  BY DEF Select
<1>2. /\ \A u, goal : Toward(u, goal) => Toward(u, goal)'
      /\ \A u : Known(u)' = Known(u)
  BY <1>1, LostToward DEF Known
<1>3. \A u : SwitchGoes(u) => SwitchGoes(u)'
  BY <1>2 DEF SwitchGoes
<1>4. \A u \in Configured \ unsure' :
        \/ u = v /\ AtPeace(u)
        \/ /\ u \notin unsure
           /\ u = selected => request # "ENTER"
           /\ u \in {selected, v} => CockpitOf(records, u) # "self"
  BY DEF Select
<1>5. \A u \in Configured \ unsure' :
        u = selected /\ ~AtPeace(u) =>
          /\ Toward(u, "EXIT") /\ SwitchGoes(u) /\ Owner(u) # "self"
  BY <1>4, FreeWhenLeft, SwitchGoesOn DEF Settled
<1>6. \A u \in Configured \ unsure' : Toward(u, "EXIT") /\ SwitchGoes(u)
  <2> SUFFICES ASSUME NEW u \in Configured \ unsure'
               PROVE  Toward(u, "EXIT") /\ SwitchGoes(u)
    OBVIOUS
  <2>1. CASE AtPeace(u)
    BY <2>1, PeaceToward DEF SwitchGoes, IInv
  <2>2. CASE ~AtPeace(u) /\ u # selected
    BY <1>4, <2>2 DEF Patience, LeftAlone, Others
  <2>3. CASE ~AtPeace(u) /\ u = selected
    BY <1>5, <2>3
  <2> QED
    BY <2>1, <2>2, <2>3
<1>7. v \notin unsure' => Met("EXIT", Known(v))
  <2>1. v \notin unsure' => CockpitOf(records, v) # "self"
    BY <1>4 DEF AtPeace
  <2> QED
    BY <2>1, CockpitIs DEF Met
<1>8. /\ generator'.command.mode = "NONE"
      /\ generator'.command.switch[Switch] = "NO_CONTROL"
      /\ generator'.vehicle.on[Switch] = Known(v).on[Switch]
  BY <1>1, SelectedIs, SelectedRests DEF IInv, Orderly
<1>9. ModeKept'
  BY <1>1, <1>2, <1>6, <1>7, <1>8 DEF ModeKept, Sought, NothingPending
<1>10. SwitchKept'
  BY <1>1, <1>2, <1>3, <1>6, <1>8 DEF SwitchKept, FogCommand
<1>11. LeftAlone'
  BY <1>1, <1>2, <1>3, <1>6 DEF LeftAlone, Others
<1>12. Told'
  <2> SUFFICES ASSUME ~manner.lossy, NEW u \in Configured \ unsure', u # v,
                      Owner(u) = "self"
               PROVE  ExitIsLast(u)
    BY <1>1 DEF Told, Others, ExitIsLast, Owner
  <2>1. u # selected
    BY <1>4, FreeWhenLeft
  <2> QED
    BY <1>4, <2>1 DEF Patience, Told, Others
<1> QED
  BY <1>9, <1>10, <1>11, <1>12 DEF Patience

\* A release at any time: the vehicle is told, or was not to be driven, or the
\* cockpit may be mistaken about it.
LEMMA ReleasePatience ==
  ASSUME IInv, Orderly, Patience, UNCHANGED <<manner, now>>, Release
  PROVE  Patience'
<1> DEFINE v == selected
           told == CockpitOf(records, v) = "self"
           exit == PacketOf(v, ExitCommand)
<1>1. /\ UNCHANGED <<records, reports, truck>>
      /\ v # NoVehicle /\ selected' = NoVehicle
      /\ request' = "NONE" /\ wanted' = "NO_CONTROL"
      /\ IF told THEN SendTo(v, ExitCommand)
                 ELSE UNCHANGED <<nextSequence, commands>>
      /\ unsure \subseteq unsure'
      /\ v \notin unsure' => v \notin unsure /\ (request # "ENTER" \/ told)
  BY DEF Release, Exits
<1>2. v \in Configured /\ NoVehicle \notin Configured
  BY <1>1, HandoverAssumption DEF IInv, TypeOK
<1>3. commands' = commands \cup IF told THEN {exit} ELSE {}
  BY <1>1, <1>2, ExitIs, SendIs DEF IInv
<1>4. /\ exit.mode = "EXIT" /\ exit.vehicle = v
      /\ exit.sequence = nextSequence
      /\ ~AsksFor(exit, "ENTER")
      /\ \A goal \in {"ON", "OFF"} : ~AsksFor(exit, goal)
  BY ExitAsks
<1>5. /\ \A p \in commands : p.sequence < nextSequence
      /\ nextSequence \in Int
      /\ \A p \in commands : p.sequence \in Int
  BY DEF IInv, TypeOK, Numbered, Packet, Sequence
<1> HIDE DEF exit
<1>6. \A u \in Configured, goal \in {"EXIT", "ON", "OFF"} :
        Toward(u, goal) => Toward(u, goal)'
  <2> SUFFICES ASSUME NEW u \in Configured, NEW goal \in {"EXIT", "ON", "OFF"},
                      Toward(u, goal)
               PROVE  Toward(u, goal)'
    OBVIOUS
  <2>1. goal \in Goal /\ ~AsksFor(exit, Against(goal))
    BY <1>4 DEF Goal, Against
  <2>2. CASE told
    BY <1>1, <1>3, <1>4, <1>5, <2>1, <2>2, SentToward
  <2>3. CASE ~told
    BY <1>1, <1>3, <2>3, LostToward
  <2> QED
    BY <2>2, <2>3
<1>7. v \notin unsure' =>
        /\ Toward(v, "EXIT") /\ SwitchGoes(v)
        /\ ~told => Owner(v) # "self"
  <2> SUFFICES ASSUME v \notin unsure'
               PROVE  /\ Toward(v, "EXIT") /\ SwitchGoes(v)
                      /\ ~told => Owner(v) # "self"
    OBVIOUS
  <2>1. v \in Configured \ unsure /\ SwitchGoes(v)
    BY <1>1, <1>2, SwitchGoesOn
  <2>2. CASE request = "ENTER"
    <3>1. Sought = "ENTER" /\ told
      BY <1>1, <2>2 DEF Sought
    <3>2. Settled(v, "ENTER")
      BY <2>1, <3>1, CockpitIs DEF Patience, ModeKept, Settled
    <3>3. Against("ENTER") = "EXIT" /\ "ENTER" \in Goal
      BY DEF Against, Goal
    <3> QED
      BY <2>1, <3>1, <3>2, <3>3, Turned DEF IInv
  <2>3. CASE request # "ENTER"
    <3>1. Sought = "EXIT"
      BY <2>3 DEF Sought, IInv, TypeOK, RemoteModeRequest
    <3> QED
      BY <2>1, <2>3, <3>1, FreeWhenLeft DEF Patience, ModeKept
  <2> QED
    BY <2>2, <2>3
<1>8. \A u \in Configured : SwitchGoes(u) => SwitchGoes(u)'
  BY <1>6 DEF SwitchGoes
<1>9. LeftAlone'
  BY <1>1, <1>2, <1>6, <1>7, <1>8 DEF Patience, LeftAlone, Others
<1>10. Told'
  <2> SUFFICES ASSUME ~manner.lossy, NEW u \in Configured \ unsure',
                      Owner(u) = "self"
               PROVE  ExitIsLast(u)'
    BY <1>1 DEF Told, Others, Owner
  <2>1. CASE u # v
    <3>1. PICK e \in commands :
            /\ e.vehicle = u /\ e.mode = "EXIT"
            /\ \A p \in commands :
                 p.vehicle = u /\ p # e => p.sequence < e.sequence
      BY <1>1, <2>1 DEF Patience, Told, Others, ExitIsLast
    <3> QED
      BY <1>3, <1>4, <2>1, <3>1 DEF ExitIsLast
  <2>2. CASE u = v
    <3>1. told
      BY <1>7, <2>2
    <3> QED
      BY <1>3, <1>4, <1>5, <2>2, <3>1 DEF ExitIsLast
  <2> QED
    BY <2>1, <2>2
<1> QED
  BY <1>1, <1>2, <1>9, <1>10 DEF Patience, ModeKept, SwitchKept

LEMMA AskPatience ==
  ASSUME IInv, Orderly, Patience, UNCHANGED <<manner, now>>, manner.patient,
         AskEnter \/ AskExit
  PROVE  Patience'
<1>1. /\ Answered
      /\ UNCHANGED <<selected, records, commands, reports, truck, wanted,
                     unsure>>
  BY DEF AskEnter, AskExit, Ask
<1>2. generator \in Generator /\ generator.current = Released
  BY DEF IInv, TypeOK, Orderly, Rested
<1>3. /\ request' \in {"ENTER", "EXIT"}
      /\ generator'.command.mode = request'
      /\ generator'.vehicle = generator.vehicle
      /\ FogCommand' \in {FogCommand, "NO_CONTROL"}
  BY <1>2, DialledAsks
     DEF AskEnter, AskExit, Clockwise, CounterClockwise, FogCommand
<1>4. /\ \A u, goal : Toward(u, goal) => Toward(u, goal)'
      /\ \A u : Known(u)' = Known(u)
  BY <1>1, LostToward DEF Known
<1>5. \A u : SwitchGoes(u) => SwitchGoes(u)'
  BY <1>4 DEF SwitchGoes
<1>6. LeftAlone' /\ Told'
  BY <1>1, <1>4, <1>5 DEF Patience, LeftAlone, Told, Others, ExitIsLast, Owner
<1> SUFFICES ASSUME selected \in Configured \ unsure
             PROVE  ModeKept' /\ SwitchKept'
  BY <1>1, <1>6 DEF Patience, ModeKept, SwitchKept
<1>7. /\ Settled(selected, Sought) /\ SwitchGoes(selected)
      /\ FogCommand = "NO_CONTROL"
      /\ wanted # "NO_CONTROL" => Settled(selected, wanted)
  BY <1>1, AnsweredIs DEF Patience, IInv
<1>8. Toward(selected, request')
  <2>1. CASE request' = Sought
    BY <1>7, <2>1 DEF Settled
  <2>2. CASE request' # Sought
    <3>1. request' = Against(Sought) /\ Sought \in Goal
      BY <1>3, <2>2, Goals DEF Against, IInv
    <3> QED
      BY <1>7, <3>1, Turned DEF IInv
  <2> QED
    BY <2>1, <2>2
<1>9. ModeKept'
  BY <1>1, <1>3, <1>4, <1>8 DEF ModeKept, Sought, NothingPending
<1>10. SwitchKept'
  BY <1>1, <1>3, <1>4, <1>5, <1>7 DEF Patience, SwitchKept, Settled
<1> QED
  BY <1>9, <1>10

LEMMA PressSwitchPatience ==
  ASSUME IInv, Orderly, Patience, UNCHANGED <<manner, now>>, manner.patient,
         PressSwitch
  PROVE  Patience'
<1> DEFINE on == Known(selected).on[Switch]
<1>1. /\ Answered
      /\ UNCHANGED <<selected, records, commands, reports, truck, request,
                     unsure>>
      /\ generator' = Pressed(generator, "square") /\ wanted' = Opposite
  BY DEF PressSwitch
<1>2. generator \in Generator /\ generator.current = Released
  BY DEF IInv, TypeOK, Orderly, Rested
<1>3. /\ generator'.command.mode = generator.command.mode
      /\ generator'.vehicle = generator.vehicle
      /\ FogCommand' = ToggleSwitch(FogCommand, generator.vehicle.on[Switch])
  <2>1. "square" \in Button /\ "square" \notin Dial
    BY DEF Button, Dial, Clockwise, CounterClockwise, Confirming
  <2> QED
    BY <1>1, <1>2, <2>1, PressedIs DEF FogCommand
<1>4. /\ \A u, goal : Toward(u, goal) => Toward(u, goal)'
      /\ \A u : Known(u)' = Known(u)
  BY <1>1, LostToward DEF Known
<1>5. LeftAlone' /\ Told'
  BY <1>1, <1>4
     DEF Patience, LeftAlone, Told, Others, SwitchGoes, ExitIsLast, Owner
<1> SUFFICES ASSUME selected \in Configured \ unsure
             PROVE  ModeKept' /\ SwitchKept'
  BY <1>1, <1>5 DEF Patience, ModeKept, SwitchKept
<1>6. /\ FogCommand = "NO_CONTROL" /\ SwitchGoes(selected)
      /\ wanted # "NO_CONTROL" => Settled(selected, wanted)
      /\ generator.vehicle.on[Switch] = on
  BY <1>1, AnsweredIs DEF Patience, SwitchKept, IInv
<1>7. on \in BOOLEAN
  BY KnownType DEF VehicleState, Switch, LatchedSwitch, IInv
<1>8. /\ FogCommand' = IF on THEN "OFF" ELSE "ON"
      /\ wanted' = IF on THEN "OFF" ELSE "ON"
  <2>1. FogCommand' = IF on THEN "OFF" ELSE "ON"
    BY <1>3, <1>6, <1>7 DEF ToggleSwitch, RequestedState, SwitchTo
  <2>2. /\ wanted = "ON" => on
        /\ wanted # "NO_CONTROL" /\ wanted # "ON" => ~on
    BY <1>6, Goals DEF Settled, Met, IInv
  <2>3. wanted' = IF on THEN "OFF" ELSE "ON"
    BY <1>1, <1>6, <2>2 DEF Opposite
  <2> QED
    BY <2>1, <2>3
<1>9. Toward(selected, wanted') /\ ~Met(wanted', Known(selected))
  <2> DEFINE goal == IF on THEN "ON" ELSE "OFF"
  <2>1. Met(goal, Known(selected))
    BY DEF Met
  <2>2. wanted' = Against(goal) /\ goal \in Goal
    BY <1>8 DEF Against, Goal
  <2>3. SwitchGoes(selected) =>
          Toward(selected, goal) \/ Toward(selected, wanted')
    BY <1>8 DEF SwitchGoes
  <2> HIDE DEF goal
  <2>4. Toward(selected, wanted')
    BY <1>6, <2>1, <2>2, <2>3, Turned DEF IInv, Settled
  <2>5. ~Met(wanted', Known(selected))
    BY <1>8 DEF Met
  <2> QED
    BY <2>4, <2>5
<1>10. ModeKept'
  BY <1>1, <1>3, <1>4 DEF Patience, ModeKept, Sought, NothingPending
<1>11. SwitchKept'
  BY <1>1, <1>3, <1>4, <1>6, <1>8, <1>9 DEF SwitchKept
<1> QED
  BY <1>10, <1>11

LEMMA SendControlPatience ==
  ASSUME IInv, Orderly, Patience, UNCHANGED <<manner, now>>, SendControl
  PROVE  Patience'
<1> DEFINE packet == PacketOf(selected, generator'.command)
           m == generator.command.mode
<1>1. /\ selected \in Configured
      /\ UNCHANGED <<selected, records, reports, truck, request, wanted,
                     unsure>>
      /\ generator' = GenerateCommand(generator, 0)
      /\ SendTo(selected, generator'.command)
  BY DEF SendControl, history, IInv, TypeOK
<1>2. /\ generator' \in Generator
      /\ generator'.vehicle = generator.vehicle
      /\ generator'.command.mode = m
      /\ FogCommand' = FogCommand
  BY <1>1, GenerateIs, GenerateDial DEF FogCommand, IInv, TypeOK
<1>3. /\ commands' = commands \cup {packet}
      /\ packet.vehicle = selected /\ packet.sequence = nextSequence
      /\ packet.mode = m
  BY <1>1, <1>2, SendIs DEF IInv, Generator
<1>4. packet.fog = FogCommand
  BY <1>2 DEF PacketOf, FogCommand
<1>5. \A p \in commands : p.sequence < packet.sequence
  BY <1>3 DEF IInv, Numbered
<1> HIDE DEF packet
<1>6. \A u \in Configured, goal \in Goal :
        Toward(u, goal) /\ (u = selected => ~AsksFor(packet, Against(goal)))
          => Toward(u, goal)'
  BY <1>1, <1>3, <1>5, SentToward
<1>7. \A u : Known(u)' = Known(u)
  BY <1>1 DEF Known
<1>8. LeftAlone'
  BY <1>1, <1>6 DEF Patience, LeftAlone, Others, SwitchGoes, Goal
<1>9. Told'
  BY <1>1, <1>3 DEF Patience, Told, Others, ExitIsLast, Owner
<1> SUFFICES ASSUME selected \in Configured \ unsure
             PROVE  ModeKept' /\ SwitchKept'
  BY <1>1, <1>8, <1>9 DEF Patience, ModeKept, SwitchKept
<1>10. /\ Toward(selected, Sought) /\ m \in {"NONE", request}
       /\ m = "NONE" => Met(Sought, Known(selected))
  BY DEF Patience, ModeKept, NothingPending
<1>11. /\ wanted = "NO_CONTROL" =>
            FogCommand = "NO_CONTROL" /\ SwitchGoes(selected)
       /\ wanted # "NO_CONTROL" =>
            /\ Toward(selected, wanted)
            /\ FogCommand \in {"NO_CONTROL", wanted}
  BY DEF Patience, SwitchKept
<1>12. /\ m \in RemoteModeRequest /\ FogCommand \in SwitchCommand
       /\ request \in RemoteModeRequest
  BY DEF IInv, TypeOK, Generator, ControlCommand, FogCommand, Switch,
         LatchedSwitch
<1>13. Sought \in Goal /\ ~AsksFor(packet, Against(Sought))
  BY <1>3, <1>4, <1>10, <1>12
     DEF AsksFor, Against, Sought, Goal, RemoteModeRequest, SwitchCommand
<1>14. ModeKept'
  BY <1>1, <1>2, <1>6, <1>7, <1>10, <1>13 DEF ModeKept, Sought, NothingPending
<1>15. \A goal \in {"ON", "OFF"} :
         FogCommand \in {"NO_CONTROL", goal} =>
           goal \in Goal /\ ~AsksFor(packet, Against(goal))
  BY <1>3, <1>4, <1>12 DEF AsksFor, Against, Goal, RemoteModeRequest
<1>16. SwitchKept'
  <2>1. CASE wanted = "NO_CONTROL"
    <3>1. SwitchGoes(selected)'
      BY <1>1, <1>6, <1>11, <1>15, <2>1 DEF SwitchGoes
    <3> QED
      BY <1>1, <1>2, <1>7, <1>11, <2>1, <3>1 DEF Patience, SwitchKept
  <2>2. CASE wanted # "NO_CONTROL"
    <3>1. wanted \in {"ON", "OFF"}
      BY <2>2, Goals DEF IInv
    <3>2. Toward(selected, wanted)'
      BY <1>1, <1>6, <1>11, <1>15, <2>2, <3>1
    <3> QED
      BY <1>1, <1>2, <1>7, <2>2, <3>2 DEF Patience, SwitchKept
  <2> QED
    BY <2>1, <2>2
<1> QED
  BY <1>14, <1>16

LEMMA InitPatience == Init => Patience
<1> SUFFICES ASSUME Init PROVE Patience
  OBVIOUS
<1>1. /\ selected = NoVehicle /\ commands = {} /\ reports = {}
      /\ \A v : Known(v) = EmptyVehicleState
      /\ \A v \in Configured : truck[v].state = EmptyVehicleState
  BY DEF Init, Known, HasRecord, NoRecords
<1>2. \A v \in Configured : \A goal : Toward(v, goal)
  <2>1. \A v : News(v) = {}
    BY <1>1 DEF News
  <2> QED
    BY <1>1, <2>1 DEF Toward, NewsToward, KnownToward, TruckToward,
                      LaterPacketsToward, PacketsToward
<1>3. LeftAlone
  BY <1>2 DEF LeftAlone, Others, SwitchGoes
<1>4. Told
  BY <1>1, EmptyOwner, NobodyIs DEF Told, Others, Owner
<1>5. selected \notin Configured
  BY <1>1, HandoverAssumption
<1> QED
  BY <1>3, <1>4, <1>5 DEF Patience, ModeKept, SwitchKept

LEMMA TickWInv ==
  ASSUME WInv, UNCHANGED <<manner, cockpit, commands, reports, truck, history>>
  PROVE  Orderly' /\ (manner'.patient => Patience')
<1>1. UNCHANGED <<manner, selected, generator, records, commands, reports,
                  truck, request, wanted, unsure>>
  BY DEF cockpit, history
<1>2. Orderly'
  BY <1>1 DEF WInv, Orderly, Owners, Reported, Distinct, Recorded, Unselected,
              Rested
<1>3. \A v, goal : Toward(v, goal) => Toward(v, goal)'
  BY <1>1, LostToward
<1>4. Patience => Patience'
  BY <1>1, <1>3, SteadyKept
     DEF WInv, IInv, Patience, Told, Others, ExitIsLast, Owner
<1> QED
  BY <1>1, <1>2, <1>4 DEF WInv

LEMMA NextWInv == WInv /\ [Next]_vars => WInv'
<1> SUFFICES ASSUME WInv, UNCHANGED <<manner, now>>, Step
             PROVE  Orderly' /\ (manner'.patient => Patience')
  BY TickWInv, NextInv DEF WInv, Next, Tick, vars
<1> USE DEF WInv
<1>1. manner.vehicles \subseteq Configured
  BY MannerIs DEF IInv
<1>2. CASE \E v \in manner.vehicles : Select(v)
  BY <1>1, <1>2, CockpitOrderly, SelectPatience
<1>3. CASE \E v \in manner.vehicles : ReportState(v)
  BY <1>1, <1>3, ReportStateOrderly, ReportStatePatience
<1>4. CASE \E v \in manner.vehicles : LinkTimeout(v)
  BY <1>1, <1>4, LinkTimeoutOrderly, LinkTimeoutPatience
<1>5. CASE Release \/ AskEnter \/ AskExit \/ PressSwitch \/ SendControl
  BY <1>5, CockpitOrderly, ReleasePatience, AskPatience, PressSwitchPatience,
     SendControlPatience
<1>6. CASE \E report \in reports : ReceiveReport(report)
  BY <1>6, ReceiveOrderly, ReceiveReportPatience
<1>7. CASE \E packet \in commands : Execute(packet)
  BY <1>7, ExecuteOrderly, ExecutePatience
<1>8. CASE \E packet \in commands : LoseCommand(packet)
  <2>1. Orderly'
    BY <1>8 DEF LoseCommand, cockpit, history, Orderly, Owners, Reported,
                Distinct, Recorded, Unselected, Rested
  <2> QED
    BY <1>8, <2>1, LoseCommandPatience
<1> QED
  BY <1>2, <1>3, <1>4, <1>5, <1>6, <1>7, <1>8 DEF Step

(***************************************************************************)
(* The theorems about an operator who waits.                               *)
(***************************************************************************)
\* The inductive invariant: while the operator waits, the request made last is
\* on its way or fulfilled, and a vehicle that was left, at any time and for any
\* reason, goes towards being free.  It says nothing of the vehicles in unsure.
THEOREM WaitingInvariant == Spec => []WInv
<1>1. Init => WInv
  BY InitInv, InitOrderly, InitPatience DEF WInv
<1> QED
  BY <1>1, NextWInv, PTL DEF Spec

\* If the operator waits for answers and the network loses no command, a vehicle
\* that was released, at any time and for any reason, and has obeyed what was on
\* its way is not driven by this cockpit any more: for any number of vehicles,
\* however the network repeats, delays and reorders.  The exceptions (unsure) are
\* the vehicles released before the cockpit knew that they had entered, those
\* another one was selected over, and those whose older report was taken.
THEOREM ReleaseTold == Spec => []ReleaseIsTold
<1>1. WInv => ReleaseIsTold
  BY DEF WInv, Patience, Told, Others, ExitIsLast, NothingOnItsWay,
         ReleaseIsTold
<1> QED
  BY <1>1, WaitingInvariant, PTL

\* If the operator waits for answers, a request to enter that the cockpit takes
\* for confirmed is fulfilled, or its packet is on its way, also when packets are
\* lost and after releases at any time; unless the vehicle is in unsure since an
\* earlier selection or an older report.
THEOREM EntryConfirmed == Spec => []EntryIsConfirmed
<1>1. WInv => EntryIsConfirmed
  <2> SUFFICES ASSUME WInv, manner.patient, request = "ENTER", NothingPending,
                      selected \notin unsure
               PROVE  Owner(selected) = "self"
    BY DEF EntryIsConfirmed
  <2>1. selected \in Configured
    BY DEF WInv, IInv, TypeOK, Orderly, Unselected
  <2>2. Settled(selected, "ENTER")
    BY <2>1 DEF WInv, Patience, ModeKept, Sought, Settled
  <2> QED
    BY <2>2 DEF Settled, Toward, KnownToward, Met, Owner
<1> QED
  BY <1>1, WaitingInvariant, PTL

\* A request for the switch that the cockpit takes for confirmed, with nothing on
\* its way, is the vehicle's state, for every operator who waits, also when
\* packets are lost; unless an older report was taken after a silence or the
\* vehicle is in unsure since an earlier selection.
THEOREM RequestHonoured == Spec => [](manner.patient => RequestIsHonoured)
<1>1. WInv => (manner.patient => RequestIsHonoured)
  <2> SUFFICES ASSUME WInv, manner.patient, wanted # "NO_CONTROL",
                      FogCommand = "NO_CONTROL", selected \notin unsure
               PROVE  truck[selected].state.on[Switch] = (wanted = "ON")
    BY DEF RequestIsHonoured, FogCommand
  <2>1. selected \in Configured
    BY DEF WInv, IInv, TypeOK, Orderly, Unselected
  <2>2. wanted \in {"ON", "OFF"}
    BY Goals DEF WInv, IInv
  <2>3. Settled(selected, wanted)
    BY <2>1, <2>2 DEF WInv, Patience, SwitchKept, Settled
  <2>4. Met(wanted, truck[selected].state)
    BY <2>3 DEF Settled, Toward, KnownToward
  <2>5. truck[selected].state.on[Switch] <=> wanted = "ON"
    BY <2>2, <2>4 DEF Met
  <2>6. truck[selected].state.on[Switch] \in BOOLEAN
    BY <2>1 DEF WInv, IInv, TypeOK, VehicleState, Switch, LatchedSwitch
  <2> QED
    BY <2>5, <2>6
<1> QED
  BY <1>1, WaitingInvariant, PTL
=============================================================================
