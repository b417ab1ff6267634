---------------------------- MODULE RemoteHandover ----------------------------
(***************************************************************************)
(* The cockpit and its vehicles, with the network between them: the        *)
(* operator selects a vehicle on the page, asks for remote mode with the   *)
(* dial, toggles a switch of the vehicle and leaves it again.  Control     *)
(* packets carry the requests to the vehicle and its reports come back     *)
(* through the cache to the generator, which takes them for confirmations; *)
(* a release sends EXIT to the vehicle the cockpit believes to own.        *)
(* Packets are lost, repeated, delayed and reordered in both directions.   *)
(*                                                                         *)
(* The vehicles are other programs.  They are taken at their best: they    *)
(* execute control packets only in increasing sequence, enter remote mode  *)
(* when they are free, leave it for their owner's EXIT, and fall back to   *)
(* standby when no packet reaches them any more.                           *)
(*                                                                         *)
(* A release may come at any time: the operator leaves the vehicle, the    *)
(* page or the input device is lost, the vehicle is taken for offline.  So *)
(* may the selection of another vehicle, or of the same one again.  The    *)
(* clock is the cache's.  The generator's stands still, because no timer   *)
(* runs in it between the gestures of this operator: clicks are confirmed  *)
(* at once and no combination is held.                                     *)
(***************************************************************************)
EXTENDS GeneratorOps, CacheOps

CONSTANTS
  NoVehicle,  \* no vehicle is selected
  Manners     \* how a behaviour may go: see Manner

\* The operator makes a request only when the one before was answered, or at any
\* time; the network loses commands or only delays and reorders them; the vehicles
\* there are; whether remote mode is asked for; and the bounds of the presses of
\* the switch, of the clock, of the control packets (short of a wrap-around) and
\* of the reports of one vehicle.
Manner == [patient: BOOLEAN, lossy: BOOLEAN, vehicles: SUBSET Configured,
           asks: BOOLEAN, presses: Nat, time: Nat, commands: 0 .. SeqMod - 2,
           reports: 0 .. SeqMod - 2]

ASSUME HandoverAssumption ==
  /\ NoVehicle \notin Configured
  /\ RotationThreshold = 1
  /\ Manners \subseteq Manner

VARIABLES
  manner,        \* chosen at the start, and kept
  now,           \* the steady clock
  selected,      \* selected_vehicle_id_
  generator,     \* command_generator_
  records,       \* state_cache_
  nextSequence,  \* next_control_sequence_
  commands,      \* control packets in flight
  reports,       \* the reports sent: one that is never received is a lost one
  truck,         \* the vehicles: their states and their reports' sequence
  asked,         \* history: the first sequence that can carry the operator's
                 \* latest request to enter remote mode, per vehicle; 0 when
                 \* there was none or an EXIT of a later sequence was executed
  request,       \* history: the latest mode asked for in this selection
  wanted,        \* history: what the operator last wanted the switch to be
  unsure,        \* history: the vehicles the cockpit may be mistaken about
  presses        \* the number of presses, for manner.presses

cockpit == <<selected, generator, records, nextSequence>>
history == <<asked, request, wanted, unsure, presses>>
vars == <<manner, now, cockpit, commands, reports, truck, history>>

Switch == "light_fog"

\* Of a command, only the requests for remote mode and for the switch.
Packet == [vehicle: Configured, sequence: Sequence, mode: RemoteModeRequest,
           fog: SwitchCommand]

TypeOK ==
  /\ manner \in Manners
  /\ now \in Nat
  /\ selected \in Configured \cup {NoVehicle}
  /\ generator \in Generator
  /\ IsRecords(records, VehicleState)
  /\ nextSequence \in Sequence
  /\ commands \subseteq Packet
  /\ \A report \in reports :
       /\ report.sequence \in Sequence /\ report.state \in VehicleState
       /\ report.vehicle \in Configured /\ Trusted(report)
  /\ truck \in [Configured -> [state: VehicleState, reported: Sequence]]
  /\ asked \in [Configured -> Sequence]
  /\ request \in RemoteModeRequest
  /\ wanted \in SwitchCommand
  /\ unsure \subseteq Configured
  /\ presses \in Nat

Init ==
  /\ manner \in Manners
  /\ now = 0
  /\ selected = NoVehicle
  /\ generator = NewGenerator
  /\ records = NoRecords
  /\ nextSequence = 1
  /\ commands = {} /\ reports = {}
  /\ truck = [v \in Configured |->
                [state |-> EmptyVehicleState, reported |-> 0]]
  /\ asked = [v \in Configured |-> 0]
  /\ request = "NONE"
  /\ wanted = "NO_CONTROL"
  /\ unsure = {}
  /\ presses = 0

(***************************************************************************)
(* The cockpit.                                                            *)
(***************************************************************************)
\* Mutant for TypeOK: the two requests of a packet are exchanged.
PacketOfExchanged(v, command) ==
  [vehicle |-> v, sequence |-> nextSequence, mode |-> command.switch[Switch],
   fog |-> command.mode]

PacketOf(v, command) ==
  [vehicle |-> v, sequence |-> nextSequence, mode |-> command.mode,
   fog |-> command.switch[Switch]]

\* sendControlCommand.  A send that fails is a packet that is lost.
SendTo(v, command) ==
  /\ nextSequence \in 1 .. manner.commands
  /\ nextSequence' = NextSequence(nextSequence)
  /\ commands' = commands \cup {PacketOf(v, command)}

NothingPending == generator.command.mode = "NONE"

\* The latest requests have been answered, and what the operator asked for last
\* is what the page shows.
Answered ==
  /\ NothingPending
  /\ wanted = "NO_CONTROL" \/ generator.vehicle.on[Switch] = (wanted = "ON")

(***************************************************************************)
(* What the cockpit knows.                                                 *)
(***************************************************************************)
Known(v) ==
  IF HasRecord(records, v) THEN records[v].state ELSE EmptyVehicleState

\* The reports the vehicle sent after the one recorded.
News(v) ==
  {r \in reports : /\ r.vehicle = v
                   /\ HasRecord(records, v)
                        => r.sequence > records[v].sequence}

NothingOnItsWay(v) == \A packet \in commands : packet.vehicle # v

\* The vehicle is shown as left, and nothing is on its way to it or from it that
\* would change what is shown.
AtPeace(v) ==
  /\ CockpitOf(records, v) # "self"
  /\ NothingOnItsWay(v)
  /\ truck[v].state = Known(v)
  /\ \A r \in News(v) : r.state = Known(v)

\* Mutant for ReleaseIsTold: the vehicle is told only while a request for remote
\* mode is pending.
ExitsIfPending(v) == ~NothingPending /\ CockpitOf(records, v) = "self"

\* Whether deselectVehicle sends an EXIT.
Exits(v) == CockpitOf(records, v) = "self"

\* Mutant for EntersOnRequest: selecting does not reset the generator.
SelectedKeepingCommand(v) ==
  IF HasRecord(records, v) THEN SyncVehicleState(generator, records[v].state)
                           ELSE generator

\* selectVehicle: reset, then synchronise.
Selected(v) ==
  IF HasRecord(records, v) THEN SyncVehicleState(NewGenerator, records[v].state)
                           ELSE NewGenerator

\* The vehicle selected before is left without EXIT.  The cockpit may be mistaken
\* about a vehicle left in that way while it drove it or was to drive it, and about
\* one that is selected while it is still shown as driven: until the vehicle is
\* selected again after it has come to rest.
Select(v) ==
  /\ selected' = v
  /\ generator' = Selected(v)
  /\ request' = "NONE" /\ wanted' = "NO_CONTROL"
  /\ LET entering == {u \in Configured : u = selected /\ request = "ENTER"}
         driven == {u \in {selected, v} : CockpitOf(records, u) = "self"}
         rested == {u \in {v} : AtPeace(u)}
     IN  unsure' = (unsure \cup entering \cup driven) \ rested
  /\ UNCHANGED <<records, nextSequence, commands, reports, truck, asked,
                 presses>>

\* deselectVehicle, for any of its reasons and at any time.  The cockpit may be
\* mistaken about a vehicle that it was asked to enter and that is not shown as
\* driven yet: no EXIT is sent.
Release ==
  /\ selected # NoVehicle
  /\ IF Exits(selected)
     THEN SendTo(selected, ExitCommand)
     ELSE UNCHANGED <<nextSequence, commands>>
  /\ selected' = NoVehicle
  /\ generator' = NewGenerator
  /\ request' = "NONE" /\ wanted' = "NO_CONTROL"
  /\ unsure' = IF request = "ENTER" /\ CockpitOf(records, selected) # "self"
               THEN unsure \cup {selected} ELSE unsure
  /\ UNCHANGED <<records, reports, truck, asked, presses>>

\* A frame with a button down, followed by one with the button up.
Pressed(g, button) ==
  LET down == [Released EXCEPT !.pressed = {button}]
  IN  ProcessInputState(ProcessInputState(g, down, 0), Released, 0)

\* One click of the dial and its confirmation.
Dialled(button) == Pressed(Pressed(generator, button), "encoder_confirm")

Ask ==
  /\ selected # NoVehicle /\ manner.asks
  /\ manner.patient => Answered
  /\ UNCHANGED <<selected, records, nextSequence, commands, reports, truck,
                 wanted, unsure, presses>>

AskEnter ==
  /\ Ask
  /\ generator' = Dialled("encoder_clockwise")
  /\ asked' = [asked EXCEPT ![selected] = nextSequence]
  /\ request' = "ENTER"

AskExit ==
  /\ Ask
  /\ generator' = Dialled("encoder_counter_clockwise")
  /\ request' = "EXIT"
  /\ UNCHANGED asked

Opposite ==
  IF wanted = "ON" \/ (wanted = "NO_CONTROL" /\ generator.vehicle.on[Switch])
  THEN "OFF" ELSE "ON"

PressSwitch ==
  /\ selected # NoVehicle /\ presses < manner.presses
  /\ manner.patient => Answered
  /\ generator' = Pressed(generator, "square")
  /\ wanted' = Opposite
  /\ presses' = presses + 1
  /\ UNCHANGED <<selected, records, nextSequence, commands, reports, truck,
                 asked, request, unsure>>

SendControl ==
  /\ selected # NoVehicle /\ IsOnline(records, selected, now)
  /\ generator' = GenerateCommand(generator, 0)
  /\ SendTo(selected, generator'.command)
  /\ UNCHANGED <<selected, records, reports, truck, history>>

\* After OnlineTimeout without a report any sequence is taken.
StepsBack(report) ==
  /\ Accepts(records, report, now)
  /\ HasRecord(records, report.vehicle)
  /\ report.sequence < records[report.vehicle].sequence

ReceiveReport(report) ==
  /\ records' = Update(records, report, now)
  /\ generator' = IF Accepts(records, report, now) /\ selected = report.vehicle
                  THEN SyncVehicleState(generator, report.state)
                  ELSE generator
  /\ unsure' = IF StepsBack(report) THEN unsure \cup {report.vehicle}
                                     ELSE unsure
  /\ UNCHANGED <<selected, nextSequence, commands, reports, truck, asked,
                 request, wanted, presses>>

(***************************************************************************)
(* The vehicles and the network.                                           *)
(***************************************************************************)
Owner(v) == truck[v].state.cockpit_id

Nobody == ""

Entered(state) ==
  [state EXCEPT !.drive_mode = "REMOTE", !.cockpit_id = "self"]

Left(state) == [state EXCEPT !.drive_mode = "STANDBY", !.cockpit_id = Nobody]

Moded(state, mode) ==
  IF mode = "ENTER" /\ state.cockpit_id = Nobody THEN Entered(state)
  ELSE IF mode = "EXIT" /\ state.cockpit_id = "self" THEN Left(state)
  ELSE state

Obeyed(state, packet) ==
  [Moded(state, packet.mode) EXCEPT
     !.on[Switch] = IF packet.fog = "NO_CONTROL" THEN @ ELSE packet.fog = "ON"]

\* A packet repeated, or overtaken by this one, is refused when it arrives.
Execute(packet) ==
  LET v == packet.vehicle
  IN  /\ truck' = [truck EXCEPT ![v].state = Obeyed(@, packet)]
      /\ commands' = {p \in commands :
                        p.vehicle # v \/ p.sequence > packet.sequence}
      /\ asked' = IF packet.mode = "EXIT" /\ packet.sequence >= asked[v]
                  THEN [asked EXCEPT ![v] = 0] ELSE asked
      /\ UNCHANGED <<cockpit, reports, request, wanted, unsure, presses>>

ReportState(v) ==
  /\ truck[v].reported < manner.reports
  /\ truck' = [truck EXCEPT ![v].reported = NextSequence(@)]
  /\ reports' = reports \cup
       {[vehicle |-> v, source |-> VehicleAddress[v],
         sequence |-> truck'[v].reported, state |-> truck[v].state]}
  /\ UNCHANGED <<cockpit, commands, history>>

\* The vehicle has not heard its cockpit for too long.
LinkTimeout(v) ==
  /\ Owner(v) = "self" /\ selected # v
  /\ NothingOnItsWay(v)
  /\ truck' = [truck EXCEPT ![v].state = Left(@)]
  /\ UNCHANGED <<cockpit, commands, reports, history>>

LoseCommand(packet) ==
  /\ manner.lossy
  /\ commands' = commands \ {packet}
  /\ UNCHANGED <<cockpit, reports, truck, history>>

Tick ==
  /\ now < manner.time
  /\ now' = now + 1
  /\ UNCHANGED <<cockpit, commands, reports, truck, history>>

Step ==
  \/ \E v \in manner.vehicles :
       Select(v) \/ ReportState(v) \/ LinkTimeout(v)
  \/ Release \/ AskEnter \/ AskExit \/ PressSwitch \/ SendControl
  \/ \E report \in reports : ReceiveReport(report)
  \/ \E packet \in commands : Execute(packet) \/ LoseCommand(packet)

Next ==
  /\ UNCHANGED manner
  /\ Tick \/ (Step /\ UNCHANGED now)

Spec == Init /\ [][Next]_vars

(***************************************************************************)
(* Properties.                                                             *)
(***************************************************************************)
\* A vehicle is in remote mode for this cockpit only when the operator asked for
\* it, for this vehicle, after the latest EXIT it executed: neither a request
\* made for another vehicle nor a delayed packet from before an EXIT takes a
\* vehicle over, whatever the network does and however the page selects.
EntersOnRequest == \A v \in Configured : Owner(v) = "self" => asked[v] # 0

\* "Leave the current vehicle": once a released vehicle has obeyed all that is on
\* its way, it is not in remote mode for this cockpit, whenever and for whatever
\* reason it was released, if the operator waits for answers and the network loses
\* no command.  The exceptions are the vehicles in unsure: no EXIT is sent when the
\* vehicle is released before the cockpit knows that it has entered, nor when
\* another one is selected over it, and an owner read from a report older than the
\* one recorded, taken after a silence, may be wrong.
ReleaseIsTold ==
  manner.patient /\ ~manner.lossy =>
    \A v \in Configured \ (unsure \cup {selected}) :
      NothingOnItsWay(v) => Owner(v) # "self"

\* "Once the state confirms it the switch of mode is not repeated any more": when
\* a request to enter has been confirmed and no packet that could still enter is
\* on its way, the vehicle is in remote mode for this cockpit, whatever the
\* network loses and however earlier selections ended, if the operator waits for
\* answers.  The exceptions are the vehicles in unsure: a report of the remote mode
\* of an earlier selection, still on its way when the vehicle is selected again or
\* taken after a silence, confirms a request of this one.
EntryIsConfirmed ==
  /\ manner.patient /\ request = "ENTER" /\ NothingPending
  /\ selected \notin unsure
  => \/ Owner(selected) = "self"
     \/ \E packet \in commands :
          packet.vehicle = selected /\ packet.mode = "ENTER"

\* When a request for the switch has been confirmed and nothing is left on its
\* way, the vehicle's switch is as the operator asked last.  With an operator who
\* waits for the vehicle's answer it holds, also when packets and reports are lost.
\* The exceptions are the vehicles in unsure: a report older than the one recorded,
\* taken after a silence, confirms a request that came after it.  With an operator
\* who presses again at once it fails: a report sent before ON was executed confirms
\* the OFF that was asked for after it, and ON is executed with nothing left to take
\* it back.
RequestIsHonoured ==
  /\ wanted # "NO_CONTROL"
  /\ selected \notin unsure
  /\ generator.command.switch[Switch] = "NO_CONTROL"
  /\ NothingOnItsWay(selected)
  => truck[selected].state.on[Switch] = (wanted = "ON")
=============================================================================
