---------------------------- MODULE CockpitProofs ----------------------------
(***************************************************************************)
(* The cockpit's invariants, and what it promises about the packets it     *)
(* sends, proved for any set of vehicles, devices, reports and constants.  *)
(***************************************************************************)
EXTENDS Cockpit, GeneratorOpsProofs

(***************************************************************************)
(* Types.                                                                  *)
(***************************************************************************)

LEMMA NextSequenceType ==
  ASSUME NEW sequence \in Sequence
  PROVE  NextSequence(sequence) \in Sequence
BY CacheAssumption DEF Sequence, NextSequence

LEMMA UpdateType ==
  ASSUME NEW r, IsRecords(r, VehicleState), NEW report \in Reports,
         NEW time \in Nat
  PROVE  IsRecords(Update(r, report, time), VehicleState)
<1>1. report.sequence \in Sequence /\ report.state \in VehicleState
  BY CockpitAssumption
<1>2. CASE Accepts(r, report, time)
  <2>1. report.vehicle \in Configured
    BY <1>2 DEF Accepts, Trusted
  <2>2. IsRecords(Stored(r, report, time), VehicleState)
    BY <1>1, <2>1 DEF IsRecords, Stored, Record
  <2> QED
    BY <1>2, <2>2 DEF Update
<1>3. CASE ~Accepts(r, report, time)
  BY <1>3 DEF Update
<1> QED
  BY <1>2, <1>3

LEMMA SendType ==
  ASSUME NEW v, NEW command \in ControlCommand, nextSequence \in Sequence,
         SendControlCommand(v, command)
  PROVE  /\ nextSequence' \in Sequence
         /\ output' \subseteq ToVehicle \cup ToPage
<1>1. CASE v \in Configured
  <2>1. ControlPacket(v, nextSequence, command) \in ToVehicle
    BY <1>1 DEF ControlPacket, ToVehicle
  <2> QED
    BY <1>1, <2>1, NextSequenceType DEF SendControlCommand
<1>2. CASE v \notin Configured
  BY <1>2 DEF SendControlCommand
<1> QED
  BY <1>1, <1>2

LEMMA ExitCommandType == ExitCommand \in ControlCommand
BY EmptyCommandType DEF ExitCommand, ControlCommand, RemoteModeRequest

LEMMA DeselectType ==
  ASSUME TypeOK, Deselect
  PROVE  /\ selected' \in Ids \cup {NoVehicle}
         /\ generator' \in Generator
         /\ nextSequence' \in Sequence
         /\ lastControlSend' \in Nat
         /\ owner' \in Nat
         /\ output' \subseteq ToVehicle \cup ToPage
<1>1. CASE selected = NoVehicle
  BY <1>1 DEF Deselect, TypeOK, control, sending
<1>2. CASE selected # NoVehicle
  <2>1. /\ nextSequence' \in Sequence
        /\ output' \subseteq ToVehicle \cup ToPage
    BY <1>2, SendType, ExitCommandType DEF Deselect, TypeOK
  <2> QED
    BY <1>2, <2>1, NewGeneratorType DEF Deselect
<1> QED
  BY <1>1, <1>2

LEMMA SelectedGeneratorType ==
  ASSUME TypeOK, NEW v
  PROVE  SelectedGenerator(v) \in Generator
BY NewGeneratorType, SyncVehicleStateType
   DEF SelectedGenerator, HasRecord, TypeOK, IsRecords, Record

\* A report, a frame, a message of the page and a command to send.
LEMMA HandlersType ==
  ASSUME TypeOK
  PROVE  /\ \A report \in Reports : ReceiveReport(report) => TypeOK'
         /\ \A frame \in Frames : ReceiveFrame(frame) => TypeOK'
         /\ ProcessWebMessage => TypeOK'
         /\ SendControl => TypeOK'
<1>1. ASSUME NEW report \in Reports, ReceiveReport(report)
      PROVE  TypeOK'
  <2>1. report.state \in VehicleState
    BY CockpitAssumption
  <2>2. IsRecords(records', VehicleState)
    BY <1>1, UpdateType DEF ReceiveReport, TypeOK
  <2>3. generator' \in Generator
    BY <1>1, <2>1, SyncVehicleStateType DEF ReceiveReport, TypeOK
  <2>4. output' \subseteq ToVehicle \cup ToPage
    <3>1. Accepts(records, report, now) => report.vehicle \in Configured
      BY DEF Accepts, Trusted
    <3> QED
      BY <1>1, <3>1 DEF ReceiveReport, SentToPage, ToPage
  <2> QED
    BY <1>1, <2>2, <2>3, <2>4 DEF ReceiveReport, TypeOK, sending, web
<1>2. ASSUME NEW frame \in Frames, ReceiveFrame(frame)
      PROVE  TypeOK'
  <2>1. frame \in Frame
    BY CockpitAssumption
  <2>2. generator' \in Generator
    BY <1>2, <2>1, ProcessInputStateType DEF ReceiveFrame, TypeOK
  <2> QED
    BY <1>2, <2>2 DEF ReceiveFrame, TypeOK, sending, web
<1>3. ASSUME ProcessWebMessage
      PROVE  TypeOK'
  <2>1. received' \in Seq(Message) /\ Head(received) \in Message
    BY <1>3 DEF ProcessWebMessage, WebServer!Take, TypeOK
  <2>2. /\ selected' \in Ids \cup {NoVehicle}
        /\ generator' \in Generator
        /\ nextSequence' \in Sequence
        /\ lastControlSend' \in Nat
        /\ owner' \in Nat
        /\ output' \subseteq ToVehicle \cup ToPage
    <3>1. CASE /\ Head(received).type = "SELECT_VEHICLE"
               /\ Select(Head(received).vehicle)
      <4>1. Head(received).vehicle \in Ids
        BY <2>1, <3>1 DEF Message
      <4> QED
        BY <3>1, <4>1, SelectedGeneratorType DEF Select, TypeOK
    <3>2. CASE Deselect
      BY <3>2, DeselectType
    <3>3. CASE output' = {} /\ UNCHANGED <<control, sending>>
      BY <3>3 DEF TypeOK, control, sending
    <3> QED
      BY <1>3, <3>1, <3>2, <3>3 DEF ProcessWebMessage
  <2> QED
    BY <1>3, <2>1, <2>2 DEF ProcessWebMessage, WebServer!Take, TypeOK
<1>4. ASSUME SendControl
      PROVE  TypeOK'
  <2>1. CASE Due
    <3>1. generator' \in Generator
      BY <1>4, <2>1, GenerateCommandType DEF SendControl, TypeOK
    <3>2. /\ nextSequence' \in Sequence
          /\ output' \subseteq ToVehicle \cup ToPage
      BY <1>4, <2>1, <3>1, SendType DEF SendControl, TypeOK, Generator
    <3>3. lastControlSend' \in Nat
      BY <1>4, <2>1 DEF SendControl, TypeOK
    <3> QED
      BY <1>4, <3>1, <3>2, <3>3 DEF SendControl, GoTo, Phase, TypeOK, web
  <2>2. CASE ~Due
    BY <1>4, <2>2 DEF SendControl, GoTo, Phase, TypeOK, sending, web
  <2> QED
    BY <2>1, <2>2
<1> QED
  BY <1>1, <1>2, <1>3, <1>4

\* The three checks that may give the selection up.
LEMMA ChecksType ==
  ASSUME TypeOK, DeviceFails \/ CheckConnection \/ CheckOnline
  PROVE  TypeOK'
<1>1. \/ Deselect
      \/ output' = {} /\ UNCHANGED <<control, sending>>
  BY DEF DeviceFails, CheckConnection, CheckOnline
<1>2. /\ selected' \in Ids \cup {NoVehicle}
      /\ generator' \in Generator
      /\ nextSequence' \in Sequence
      /\ lastControlSend' \in Nat
      /\ owner' \in Nat
      /\ output' \subseteq ToVehicle \cup ToPage
  BY <1>1, DeselectType DEF TypeOK, control, sending
<1>3. /\ phase' \in Phase /\ deviceOpen' \in BOOLEAN
      /\ UNCHANGED <<now, loopNow, records, lastListSend, web>>
  BY DEF DeviceFails, CheckConnection, CheckOnline, GoTo, Phase, TypeOK
<1> QED
  BY <1>2, <1>3 DEF TypeOK, web

\* The steps that touch neither the selection, the records nor the generator.
LEMMA QuietType ==
  ASSUME TypeOK,
         \/ PollReturns \/ PollFails \/ ReportsDrained \/ InputDrained
         \/ PollDone \/ MessagesDone \/ ReadClock \/ PublishList
         \/ Page \/ Tick
  PROVE  /\ TypeOK'
         /\ UNCHANGED <<control, records, sending, deviceOpen>>
         /\ \A packet \in output' : packet.kind # "control"
<1>1. CASE \/ PollReturns \/ PollFails \/ ReportsDrained \/ InputDrained
           \/ PollDone \/ MessagesDone \/ ReadClock \/ Tick
  <2>1. /\ output' = {} /\ phase' \in Phase
        /\ UNCHANGED <<control, records, sending, lastListSend, deviceOpen,
                       session, link, received>>
    BY <1>1 DEF PollReturns, PollFails, ReportsDrained, InputDrained, PollDone,
                MessagesDone, ReadClock, Tick, GoTo, Phase, TypeOK, web
  <2>2. now' \in Nat /\ loopNow' \in Nat
    BY <1>1 DEF PollReturns, PollFails, ReportsDrained, InputDrained, PollDone,
                MessagesDone, ReadClock, Tick, TypeOK
  <2>3. reads' \subseteq Nat
    BY <1>1 DEF PollReturns, PollFails, ReportsDrained, InputDrained, PollDone,
                MessagesDone, ReadClock, Tick, TypeOK, web
  <2> QED
    BY <2>1, <2>2, <2>3 DEF TypeOK, control, sending
<1>2. CASE PublishList
  <2>1. VehicleStatusList(records, now) \in [Configured -> BOOLEAN]
    BY DEF VehicleStatusList, IsOnline, HasRecord
  <2>2. /\ output' \subseteq ToPage
        /\ \A packet \in output' : packet.kind # "control"
    BY <1>2, <2>1 DEF PublishList, SentToPage, ToPage
  <2>3. lastListSend' \in Nat
    BY <1>2 DEF PublishList, TypeOK
  <2> QED
    BY <1>2, <2>2, <2>3
       DEF PublishList, GoTo, Phase, TypeOK, control, sending, web
<1>3. CASE Page
  <2>1. InPoll
    BY <1>3 DEF Page, PageAccepted, PageHandshake, PageFails, PageMessage,
                PageEnds
  <2>2. /\ session' \in Nat /\ reads' \subseteq Nat
        /\ link' \in {"none", "handshake", "up", "closed"}
        /\ received' \in Seq(Message)
    <3>1. CASE PageAccepted
      BY <3>1 DEF PageAccepted, WebServer!Accept, TypeOK
    <3>2. CASE PageHandshake
      BY <3>2 DEF PageHandshake, WebServer!Handshake, TypeOK
    <3>3. CASE PageFails
      BY <3>3 DEF PageFails, WebServer!Fail, TypeOK
    <3>4. ASSUME NEW s \in reads, PageEnds(s)
          PROVE  /\ UNCHANGED <<session, link, received>>
                 /\ reads' \subseteq reads
      BY <3>4 DEF PageEnds, WebServer!EndReading
    <3>5. ASSUME NEW s \in reads, NEW message \in Message,
                 PageMessage(s, message)
          PROVE  /\ UNCHANGED <<session, link, reads>>
                 /\ received' \in Seq(Message)
      BY <3>5 DEF PageMessage, WebServer!Deliver, TypeOK
    <3> QED
      BY <1>3, <3>1, <3>2, <3>3, <3>4, <3>5 DEF Page, TypeOK
  <2> QED
    BY <2>1, <2>2 DEF InPoll, TypeOK, control, sending
<1> QED
  BY <1>1, <1>2, <1>3

LEMMA StutterType ==
  ASSUME TypeOK, UNCHANGED vars
  PROVE  TypeOK'
BY DEF vars, control, sending, web, TypeOK

LEMMA InitialType == Init => TypeOK
BY NewGeneratorType, CacheAssumption, CockpitAssumption
   DEF Init, TypeOK, Phase, NoRecords, IsRecords, Record, Sequence

\* Every variable of the loop keeps its type: the sequence stays within 32 bits,
\* only configured vehicles have records or are sent packets, and the generator
\* never leaves the protocol's values.
THEOREM TypeCorrect == Spec => []TypeOK
<1>1. TypeOK /\ [Next]_vars => TypeOK'
  BY HandlersType, ChecksType, QuietType, StutterType DEF Next, Loop
<1> QED
  BY <1>1, InitialType, PTL DEF Spec

(***************************************************************************)
(* The invariants.  What the loop has checked holds from the check to the  *)
(* end of the turn, because nothing between them changes the session or    *)
(* the records, and because the turn's reading of the clock is not later   *)
(* than the one the offline check makes.                                   *)
(***************************************************************************)
ControlInv ==
  /\ GeneratorFollowsCache
  /\ IdleIsClean
  /\ ~deviceOpen => Neutral(generator)

Fresh(v) ==
  /\ HasRecord(records, v)
  /\ loopNow - records[v].lastUpdate < OnlineTimeout

Checked ==
  /\ loopNow <= now
  /\ phase \in {"clock", "online", "send"} /\ selected # NoVehicle => Connected
  /\ phase = "send" /\ selected # NoVehicle => Fresh(selected)

IInv == TypeOK /\ ControlInv /\ Checked

\* Whether or not a vehicle is selected, a release ends with none and with a
\* new generator.
LEMMA DeselectClears ==
  ASSUME ControlInv, Deselect
  PROVE  /\ selected' = NoVehicle
         /\ generator' = NewGenerator
         /\ lastControlSend' = 0
         /\ \A packet \in output' :
               packet.kind = "control" => packet.command = ExitCommand
<1>1. CASE selected = NoVehicle
  BY <1>1 DEF Deselect, ControlInv, IdleIsClean, control, sending
<1>2. CASE selected # NoVehicle
  BY <1>2 DEF Deselect, SendControlCommand, ControlPacket
<1> QED
  BY <1>1, <1>2

LEMMA IdleControl ==
  ASSUME TypeOK', selected' = NoVehicle, generator' = NewGenerator,
         lastControlSend' = 0
  PROVE  ControlInv'
<1>1. NoVehicle \notin DOMAIN records'
  BY CockpitAssumption DEF TypeOK, IsRecords
<1> QED
  BY <1>1, NewIsNeutral DEF ControlInv, GeneratorFollowsCache, IdleIsClean

LEMMA SameControl ==
  ASSUME ControlInv, UNCHANGED <<control, records, sending, deviceOpen>>
  PROVE  ControlInv'
BY DEF ControlInv, GeneratorFollowsCache, IdleIsClean, control, sending

LEMMA ReportControl ==
  ASSUME IInv, NEW report \in Reports, ReceiveReport(report)
  PROVE  ControlInv'
<1> DEFINE v == report.vehicle
           accepted == Accepts(records, report, now)
<1>1. v # NoVehicle /\ report.state \in VehicleState
  BY CockpitAssumption
<1>2. /\ UNCHANGED <<selected, deviceOpen, lastControlSend>>
      /\ records' = IF accepted THEN Stored(records, report, now) ELSE records
      /\ generator' = IF accepted /\ selected = v
                      THEN SyncVehicleState(generator, report.state)
                      ELSE generator
  BY DEF ReceiveReport, Update, sending
<1>3. generator \in Generator
  BY DEF IInv, TypeOK
<1>4. CASE accepted /\ selected = v
  <2>1. generator'.vehicle = report.state
    BY <1>2, <1>3, <1>4 DEF SyncVehicleState, Generator
  <2>2. records'[v].state = report.state
    BY <1>2, <1>4 DEF Stored
  <2>3. ~deviceOpen => Neutral(generator')
    BY <1>1, <1>2, <1>3, <1>4, NeutralStays DEF IInv, ControlInv
  <2> QED
    BY <1>1, <1>2, <1>4, <2>1, <2>2, <2>3
       DEF ControlInv, GeneratorFollowsCache, IdleIsClean
<1>5. CASE accepted /\ selected # v
  <2>1. /\ selected \in DOMAIN records' => selected \in DOMAIN records
        /\ selected \in DOMAIN records =>
             records'[selected] = records[selected]
    BY <1>2, <1>5 DEF Stored
  <2> QED
    BY <1>2, <1>5, <2>1
       DEF IInv, ControlInv, GeneratorFollowsCache, IdleIsClean
<1>6. CASE ~accepted
  BY <1>2, <1>6 DEF IInv, ControlInv, GeneratorFollowsCache, IdleIsClean
<1> QED
  BY <1>4, <1>5, <1>6

LEMMA FrameControl ==
  ASSUME IInv, NEW frame \in Frames, ReceiveFrame(frame)
  PROVE  ControlInv'
<1>1. frame \in Frame /\ generator \in Generator /\ now \in Nat
  BY CockpitAssumption DEF IInv, TypeOK
<1>2. generator'.vehicle = generator.vehicle
  BY <1>1, ProcessInputStateFields DEF ReceiveFrame
<1> QED
  BY <1>2
     DEF ReceiveFrame, IInv, ControlInv, GeneratorFollowsCache, IdleIsClean,
         sending

LEMMA SelectControl ==
  ASSUME IInv, NEW v \in Ids, Select(v), UNCHANGED <<records, deviceOpen>>
  PROVE  ControlInv'
<1>1. v # NoVehicle
  BY CockpitAssumption
<1>2. CASE HasRecord(records, v)
  <2>1. /\ generator' = SyncVehicleState(NewGenerator, records[v].state)
        /\ records[v].state \in VehicleState
    BY <1>2 DEF Select, SelectedGenerator, HasRecord, IInv, TypeOK, IsRecords,
                Record
  <2>2. generator'.vehicle = records[v].state
    BY <2>1, NewGeneratorType DEF SyncVehicleState, Generator
  <2>3. Neutral(generator')
    BY <2>1, NewGeneratorType, NewIsNeutral, NeutralStays
  <2> QED
    BY <1>1, <2>2, <2>3
       DEF Select, ControlInv, GeneratorFollowsCache, IdleIsClean
<1>3. CASE ~HasRecord(records, v)
  BY <1>1, <1>3, NewIsNeutral
     DEF Select, SelectedGenerator, HasRecord, ControlInv,
         GeneratorFollowsCache, IdleIsClean
<1> QED
  BY <1>2, <1>3

LEMMA SendControlControl ==
  ASSUME IInv, SendControl
  PROVE  ControlInv'
<1>1. generator \in Generator /\ loopNow \in Nat
  BY DEF IInv, TypeOK
<1>2. CASE Due
  <2>1. /\ generator' = GenerateCommand(generator, loopNow)
        /\ selected # NoVehicle
        /\ UNCHANGED <<selected, records, deviceOpen>>
    BY <1>2 DEF SendControl, Due
  <2>2. generator'.vehicle = generator.vehicle
    BY <1>1, <2>1, GenerateKeeps
  <2>3. ~deviceOpen => Neutral(generator')
    BY <1>1, <2>1, NeutralStays DEF IInv, ControlInv
  <2> QED
    BY <2>1, <2>2, <2>3
       DEF IInv, ControlInv, GeneratorFollowsCache, IdleIsClean
<1>3. CASE ~Due
  BY <1>3 DEF SendControl, sending, IInv, ControlInv, GeneratorFollowsCache,
              IdleIsClean
<1> QED
  BY <1>2, <1>3

LEMMA ControlStep ==
  ASSUME IInv, [Next]_vars, TypeOK'
  PROVE  ControlInv'
<1>1. ASSUME NEW report \in Reports, ReceiveReport(report)
      PROVE  ControlInv'
  BY <1>1, ReportControl
<1>2. ASSUME NEW frame \in Frames, ReceiveFrame(frame)
      PROVE  ControlInv'
  BY <1>2, FrameControl
<1>3. CASE SendControl
  BY <1>3, SendControlControl
<1>4. CASE DeviceFails \/ CheckConnection \/ CheckOnline
  <2>1. CASE Deselect
    BY <2>1, DeselectClears, IdleControl DEF IInv
  <2>2. CASE ~Deselect
    <3>1. UNCHANGED <<control, records, sending, deviceOpen>>
      BY <1>4, <2>2 DEF DeviceFails, CheckConnection, CheckOnline, control,
                        sending
    <3> QED
      BY <3>1, SameControl DEF IInv
  <2> QED
    BY <2>1, <2>2
<1>5. CASE ProcessWebMessage
  <2>1. UNCHANGED <<records, deviceOpen>>
    BY <1>5 DEF ProcessWebMessage
  <2>2. CASE /\ Head(received).type = "SELECT_VEHICLE"
             /\ Select(Head(received).vehicle)
    <3>1. Head(received) \in Message
      BY <1>5 DEF ProcessWebMessage, WebServer!Take, IInv, TypeOK
    <3>2. Head(received).vehicle \in Ids
      BY <2>2, <3>1 DEF Message
    <3> QED
      BY <2>1, <2>2, <3>2, SelectControl
  <2>3. CASE Deselect
    BY <2>3, DeselectClears, IdleControl DEF IInv
  <2>4. CASE UNCHANGED <<control, sending>>
    <3>1. UNCHANGED <<control, records, sending, deviceOpen>>
      BY <2>1, <2>4
    <3> QED
      BY <3>1, SameControl DEF IInv
  <2> QED
    BY <1>5, <2>2, <2>3, <2>4 DEF ProcessWebMessage
<1>6. CASE \/ PollReturns \/ PollFails \/ ReportsDrained \/ InputDrained
           \/ PollDone \/ MessagesDone \/ ReadClock \/ PublishList
           \/ Page \/ Tick
  BY <1>6, QuietType, SameControl DEF IInv
<1>7. CASE UNCHANGED vars
  BY <1>7, SameControl DEF IInv, vars
<1> QED
  BY <1>1, <1>2, <1>3, <1>4, <1>5, <1>6, <1>7 DEF Next, Loop

LEMMA CheckedStep ==
  ASSUME IInv, [Next]_vars
  PROVE  Checked'
<1> USE DEF IInv, Checked, TypeOK
<1>1. ASSUME \/ PollReturns \/ PollFails \/ ReportsDrained \/ InputDrained
             \/ PollDone \/ MessagesDone
      PROVE  Checked'
  BY <1>1 DEF PollReturns, PollFails, ReportsDrained, InputDrained, PollDone,
              MessagesDone, GoTo
<1>2. ASSUME NEW report \in Reports, ReceiveReport(report)
      PROVE  Checked'
  BY <1>2 DEF ReceiveReport
<1>3. ASSUME NEW frame \in Frames, ReceiveFrame(frame)
      PROVE  Checked'
  BY <1>3 DEF ReceiveFrame
<1>4. CASE DeviceFails
  BY <1>4 DEF DeviceFails, GoTo
<1>5. CASE Page
  <2>1. InPoll
    BY <1>5 DEF Page, PageAccepted, PageHandshake, PageFails, PageMessage,
                PageEnds
  <2> QED
    BY <2>1 DEF InPoll
<1>6. CASE ProcessWebMessage
  BY <1>6 DEF ProcessWebMessage
<1>7. CASE CheckConnection
  <2>1. Connected \/ selected' = NoVehicle
    BY <1>7, DeselectClears DEF CheckConnection
  <2>2. Connected => UNCHANGED selected
    BY <1>7 DEF CheckConnection, control
  <2> QED
    BY <1>7, <2>1, <2>2 DEF CheckConnection, GoTo, Connected, web
<1>8. CASE ReadClock
  BY <1>8 DEF ReadClock, GoTo, Connected, web, control
<1>9. CASE CheckOnline
  <2>1. \/ selected' = NoVehicle
        \/ /\ selected' = selected
           /\ selected # NoVehicle => IsOnline(records, selected, now)
    BY <1>9, DeselectClears DEF CheckOnline, control
  <2>2. selected # NoVehicle /\ IsOnline(records, selected, now)
          => Fresh(selected)
    BY CacheAssumption DEF IsOnline, HasRecord, Fresh, IsRecords, Record
  <2> QED
    BY <1>9, <2>1, <2>2
       DEF CheckOnline, GoTo, Connected, Fresh, web
<1>10. CASE SendControl
  BY <1>10 DEF SendControl, GoTo
<1>11. CASE PublishList
  BY <1>11 DEF PublishList, GoTo
<1>12. CASE Tick
  BY <1>12 DEF Tick, Connected, Fresh, web, control
<1>13. CASE UNCHANGED vars
  BY <1>13 DEF vars, Connected, Fresh, web, control
<1> QED
  BY <1>1, <1>2, <1>3, <1>4, <1>5, <1>6, <1>7, <1>8, <1>9, <1>10, <1>11,
     <1>12, <1>13 DEF Next, Loop

\* The cockpit's invariants hold in every reachable state.
THEOREM CockpitInvariant == Spec => []IInv
<1>1. Init => IInv
  <2>1. ASSUME Init PROVE ControlInv /\ Checked
    <3>1. DOMAIN records = {}
      BY <2>1 DEF Init, NoRecords
    <3>2. ControlInv
      BY <2>1, <3>1
         DEF Init, ControlInv, GeneratorFollowsCache, IdleIsClean
    <3>3. Checked
      BY <2>1, CockpitAssumption DEF Init, Checked
    <3> QED
      BY <3>2, <3>3
  <2> QED
    BY <2>1, InitialType DEF IInv
<1>2. IInv /\ [Next]_vars => IInv'
  <2> SUFFICES ASSUME IInv, [Next]_vars PROVE IInv'
    OBVIOUS
  <2>1. TypeOK'
    BY HandlersType, ChecksType, QuietType, StutterType DEF IInv, Next, Loop
  <2> QED
    BY <2>1, ControlStep, CheckedStep DEF IInv
<1> QED
  BY <1>1, <1>2, PTL DEF Spec

\* The generator decides on the state the cache holds for the selected vehicle.
THEOREM GeneratorInStep == Spec => []GeneratorFollowsCache
<1>1. IInv => GeneratorFollowsCache
  BY DEF IInv, ControlInv
<1> QED
  BY <1>1, CockpitInvariant, PTL

\* No vehicle inherits anything from the one that was driven before it.
THEOREM CleanBetweenVehicles == Spec => []IdleIsClean
<1>1. IInv => IdleIsClean
  BY DEF IInv, ControlInv
<1> QED
  BY <1>1, CockpitInvariant, PTL

\* A device that was lost stays without any effect.
THEOREM LostDevice == Spec => []LostDeviceIsNeutral
<1>1. IInv => LostDeviceIsNeutral
  BY DEF IInv, ControlInv, LostDeviceIsNeutral, Neutral
<1> QED
  BY <1>1, CockpitInvariant, PTL

\* The only step that sends a control packet other than an EXIT is SendControl,
\* and it sends to the selected vehicle.
LEMMA SenderStep ==
  ASSUME IInv, [Next]_vars, NEW packet \in output',
         packet.kind = "control", packet.command # ExitCommand,
         ~UNCHANGED vars
  PROVE  phase = "send" /\ selected # NoVehicle /\ packet.vehicle = selected
<1>1. ~Deselect
  BY DeselectClears DEF IInv
<1>2. output' # {}
  OBVIOUS
<1>3. CASE SendControl
  BY <1>2, <1>3
     DEF SendControl, Due, SendControlCommand, ControlPacket
<1>4. CASE DeviceFails \/ CheckConnection \/ CheckOnline
  BY <1>1, <1>2, <1>4 DEF DeviceFails, CheckConnection, CheckOnline
<1>5. CASE ProcessWebMessage
  BY <1>1, <1>2, <1>5 DEF ProcessWebMessage, Select
<1>6. ASSUME NEW report \in Reports, ReceiveReport(report) PROVE FALSE
  BY <1>2, <1>6 DEF ReceiveReport, SentToPage
<1>7. ASSUME NEW frame \in Frames, ReceiveFrame(frame) PROVE FALSE
  BY <1>2, <1>7 DEF ReceiveFrame
<1>8. CASE \/ PollReturns \/ PollFails \/ ReportsDrained \/ InputDrained
           \/ PollDone \/ MessagesDone \/ ReadClock \/ PublishList
           \/ Page \/ Tick
  BY <1>8, QuietType DEF IInv
<1> QED
  BY <1>3, <1>4, <1>5, <1>6, <1>7, <1>8 DEF Next, Loop

\* Every control packet that is not the EXIT of a release goes to the selected
\* vehicle, with a page connected and the vehicle heard recently enough.
THEOREM OnlineVehiclesOnly == Spec => CommandsReachOnlineVehicles
<1>1. IInv /\ [Next]_vars =>
        [\A packet \in output' :
           packet.kind = "control" /\ packet.command # ExitCommand =>
             /\ packet.vehicle = selected
             /\ Connected
             /\ HasRecord(records, selected)
             /\ loopNow - records[selected].lastUpdate < OnlineTimeout]_vars
  BY SenderStep DEF IInv, Checked, Fresh
<1> QED
  BY <1>1, CockpitInvariant, PTL DEF Spec, CommandsReachOnlineVehicles
=============================================================================
