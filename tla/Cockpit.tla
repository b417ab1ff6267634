------------------------------- MODULE Cockpit -------------------------------
(***************************************************************************)
(* The cockpit process: Cockpit::run(), an endless loop on one thread that *)
(* in each turn waits for events, drains the vehicles' reports, the input  *)
(* device and the page's messages, and does its periodic work.  phase says *)
(* where in the turn the loop is; each action is one handler, or one       *)
(* iteration of a handler's own loop, and the clock advances between any   *)
(* two of them.                                                            *)
(*                                                                         *)
(* The environment is open: any report may arrive, in any order, any frame *)
(* may be read, pages connect, replace each other, send messages and       *)
(* vanish.  Of the WebSocket server the loop sees the state of the current *)
(* session and the queue of received messages; the handlers that           *)
(* io_context::poll runs within one turn are the Page actions, those of    *)
(* PageLink, which WebSocketServer implements.                             *)
(***************************************************************************)
EXTENDS GeneratorOps, CacheOps, Sequences

CONSTANTS
  Ids,              \* the vehicle identifiers a page may name
  NoVehicle,        \* no vehicle is selected
  Frames,           \* the frames the input device may produce
  Reports,          \* the reports that may arrive
  ControlInterval,  \* kControlInterval, 20 ms
  ListInterval,     \* kVehicleListInterval, 100 ms
  Start,            \* the steady clock when the process starts
  MaxTime,          \* bound of the clock
  MaxClicks,        \* bound of the rotation counters
  MaxMessages,      \* bound of the queue of page messages
  MaxSession        \* bound of the page connections

ASSUME CockpitAssumption ==
  /\ NoVehicle \notin Ids \cup Configured
  /\ Frames \subseteq Frame
  /\ Reports \subseteq [vehicle: Ids, source: STRING, sequence: Sequence,
                        state: VehicleState]
  /\ ControlInterval \in Nat /\ ListInterval \in Nat
  /\ Start \in Nat /\ Start >= ControlInterval /\ Start >= ListInterval
  /\ MaxTime \in Nat /\ MaxClicks \in Nat
  /\ MaxMessages \in Nat /\ MaxSession \in Nat

VARIABLES
  phase,            \* where in its turn the loop is
  now,              \* the steady clock
  loopNow,          \* run()'s local now, read once per turn
  selected,         \* selected_vehicle_id_
  generator,        \* command_generator_
  records,          \* state_cache_
  nextSequence,     \* next_control_sequence_
  lastControlSend,  \* last_control_send_time_; 0 is the clock's epoch
  lastListSend,     \* last_vehicle_list_send_time_
  deviceOpen,       \* input_device_reader_ holds an open device
  session,          \* the number of the current page session, 0 before any
  link,             \* the current session: no page, handshaking, up or closed
  reads,            \* the sessions that may still deliver a message
  received,         \* received_messages_
  owner,            \* history: the session in which the vehicle was selected
  output            \* what the last step sent: to a vehicle or to the page

web == <<session, link, reads, received>>
sending == <<nextSequence, lastControlSend>>
control == <<selected, generator, owner>>
vars == <<phase, now, loopNow, control, records, sending, lastListSend,
          deviceOpen, web, output>>

Phase == {"poll", "udp", "input", "web", "messages", "connection",
          "clock", "online", "send", "list", "exited"}

Message ==
  [type: {"SELECT_VEHICLE"}, vehicle: Ids] \cup
  [type: {"DESELECT_VEHICLE", "INVALID"}, vehicle: {NoVehicle}]

WebServer == INSTANCE PageLink

ControlPacket(v, sequence, command) ==
  [kind |-> "control", vehicle |-> v, sequence |-> sequence,
   command |-> command]

ToVehicle == [kind: {"control"}, vehicle: Configured, sequence: Sequence,
              command: ControlCommand]

ToPage == [kind: {"state"}, vehicle: Configured] \cup
          [kind: {"vehicles"}, online: [Configured -> BOOLEAN]]

TypeOK ==
  /\ phase \in Phase
  /\ now \in Nat /\ loopNow \in Nat
  /\ selected \in Ids \cup {NoVehicle}
  /\ generator \in Generator
  /\ IsRecords(records, VehicleState)
  /\ nextSequence \in Sequence
  /\ lastControlSend \in Nat /\ lastListSend \in Nat
  /\ deviceOpen \in BOOLEAN
  /\ session \in Nat
  /\ link \in {"none", "handshake", "up", "closed"}
  /\ reads \subseteq Nat
  /\ received \in Seq(Message)
  /\ owner \in Nat
  /\ output \subseteq ToVehicle \cup ToPage

\* After initialize() succeeded.
Init ==
  /\ phase = "poll"
  /\ now = Start /\ loopNow = Start
  /\ selected = NoVehicle
  /\ generator = NewGenerator
  /\ records = NoRecords
  /\ nextSequence = 1 % SeqMod
  /\ lastControlSend = 0 /\ lastListSend = 0
  /\ deviceOpen = TRUE
  /\ session = 0 /\ link = "none" /\ reads = {} /\ received = <<>>
  /\ owner = 0
  /\ output = {}

(***************************************************************************)
(* What the handlers call.                                                 *)
(***************************************************************************)
\* Mutant for DisconnectReleases: a session that has closed still counts.
ConnectedOnceAccepted == link # "none"

Connected == link = "up"

\* web_server_.sendMessage: dropped without a page.
SentToPage(message) == IF Connected THEN {message} ELSE {}

\* sendControlCommand succeeds, fails in the socket after it has taken a
\* sequence, or knows no address for the vehicle and does nothing.
SendControlCommand(v, command) ==
  IF v \in Configured
  THEN /\ nextSequence' = NextSequence(nextSequence)
       /\ output' \in {{}, {ControlPacket(v, nextSequence, command)}}
  ELSE /\ output' = {}
       /\ UNCHANGED nextSequence

\* Mutant for IdleIsClean: the generator keeps the vehicle's last command.
DeselectKeepingCommand ==
  IF selected = NoVehicle
  THEN output' = {} /\ UNCHANGED <<control, sending>>
  ELSE /\ IF CockpitOf(records, selected) = "self"
          THEN SendControlCommand(selected, ExitCommand)
          ELSE output' = {} /\ UNCHANGED nextSequence
       /\ selected' = NoVehicle
       /\ lastControlSend' = 0
       /\ owner' = 0
       /\ UNCHANGED generator

Deselect ==
  IF selected = NoVehicle
  THEN output' = {} /\ UNCHANGED <<control, sending>>
  ELSE /\ IF CockpitOf(records, selected) = "self"
          THEN SendControlCommand(selected, ExitCommand)
          ELSE output' = {} /\ UNCHANGED nextSequence
       /\ selected' = NoVehicle
       /\ generator' = NewGenerator
       /\ lastControlSend' = 0
       /\ owner' = 0

SelectedGenerator(v) ==
  IF HasRecord(records, v)
  THEN SyncVehicleState(NewGenerator, records[v].state)
  ELSE NewGenerator

Select(v) ==
  /\ selected' = v
  /\ generator' = SelectedGenerator(v)
  /\ lastControlSend' = 0
  /\ owner' = session
  /\ output' = {}
  /\ UNCHANGED nextSequence

GoTo(next) == phase' = next

(***************************************************************************)
(* One turn of the loop.                                                   *)
(***************************************************************************)
PollReturns ==
  /\ phase = "poll"
  /\ GoTo("udp")
  /\ output' = {}
  /\ UNCHANGED <<now, loopNow, control, records, sending, lastListSend,
                 deviceOpen, web>>

\* poll() fails, for instance interrupted by a signal: run() returns 1.
PollFails ==
  /\ phase = "poll"
  /\ GoTo("exited")
  /\ output' = {}
  /\ UNCHANGED <<now, loopNow, control, records, sending, lastListSend,
                 deviceOpen, web>>

\* Mutant for GeneratorFollowsCache: a report the cache turned away still
\* reaches the generator.
ReceiveReportUnchecked(report) ==
  LET v == report.vehicle
      accepted == Accepts(records, report, now)
  IN  /\ phase = "udp"
      /\ records' = Update(records, report, now)
      /\ output' = IF accepted THEN SentToPage([kind |-> "state", vehicle |-> v])
                               ELSE {}
      /\ generator' = IF selected = v
                      THEN SyncVehicleState(generator, report.state)
                      ELSE generator
      /\ UNCHANGED <<phase, now, loopNow, selected, owner, sending,
                     lastListSend, deviceOpen, web>>

\* One iteration of receiveVehicleStates.
ReceiveReport(report) ==
  LET v == report.vehicle
      accepted == Accepts(records, report, now)
  IN  /\ phase = "udp"
      /\ records' = Update(records, report, now)
      /\ output' = IF accepted THEN SentToPage([kind |-> "state", vehicle |-> v])
                               ELSE {}
      /\ generator' = IF accepted /\ selected = v
                      THEN SyncVehicleState(generator, report.state)
                      ELSE generator
      /\ UNCHANGED <<phase, now, loopNow, selected, owner, sending,
                     lastListSend, deviceOpen, web>>

\* Nothing is left to read, or an empty or failed read ends the loop.
ReportsDrained ==
  /\ phase = "udp"
  /\ GoTo("input")
  /\ output' = {}
  /\ UNCHANGED <<now, loopNow, control, records, sending, lastListSend,
                 deviceOpen, web>>

\* One iteration of receiveInputDevice: without a selection the frame is lost.
ReceiveFrame(frame) ==
  /\ phase = "input"
  /\ deviceOpen
  /\ generator.cw < MaxClicks /\ generator.ccw < MaxClicks
  /\ generator' = IF selected = NoVehicle THEN generator
                  ELSE ProcessInputState(generator, frame, now)
  /\ output' = {}
  /\ UNCHANGED <<phase, now, loopNow, selected, owner, records, sending,
                 lastListSend, deviceOpen, web>>

InputDrained ==
  /\ phase = "input"
  /\ GoTo("web")
  /\ output' = {}
  /\ UNCHANGED <<now, loopNow, control, records, sending, lastListSend,
                 deviceOpen, web>>

\* Mutant for LostDeviceIsNeutral: the device is closed, the vehicle kept.
DeviceFailsKeepingVehicle ==
  /\ phase = "input"
  /\ deviceOpen
  /\ GoTo("web")
  /\ output' = {}
  /\ deviceOpen' = FALSE
  /\ UNCHANGED <<now, loopNow, control, records, sending, lastListSend, web>>

\* POLLHUP, POLLERR or POLLNVAL on the device, after what it could still read.
DeviceFails ==
  /\ phase = "input"
  /\ deviceOpen
  /\ GoTo("web")
  /\ Deselect
  /\ deviceOpen' = FALSE
  /\ UNCHANGED <<now, loopNow, records, lastListSend, web>>

(***************************************************************************)
(* The handlers web_server_.poll() runs.                                   *)
(***************************************************************************)
InPoll ==
  /\ phase = "web"
  /\ output' = {}
  /\ UNCHANGED <<phase, now, loopNow, control, records, sending, lastListSend,
                 deviceOpen>>

PageAccepted == InPoll /\ session < MaxSession /\ WebServer!Accept

PageHandshake == InPoll /\ WebServer!Handshake

\* A handshake, a read or a write fails.
PageFails == InPoll /\ WebServer!Fail

PageMessage(s, message) ==
  InPoll /\ Len(received) < MaxMessages /\ WebServer!Deliver(s, message)

\* The last handler of a session that was replaced or has closed.
PageEnds(s) == InPoll /\ WebServer!EndReading(s)

\* No handler is ready any more.
PollDone ==
  /\ phase = "web"
  /\ WebServer!Stale = {}
  /\ GoTo("messages")
  /\ output' = {}
  /\ UNCHANGED <<now, loopNow, control, records, sending, lastListSend,
                 deviceOpen, web>>

(***************************************************************************)
(* The rest of the turn.                                                   *)
(***************************************************************************)
\* takeMessage and processWebMessage.
ProcessWebMessage ==
  /\ phase = "messages"
  /\ WebServer!Take
  /\ LET message == Head(received)
     IN  \/ message.type = "SELECT_VEHICLE"
              /\ Select(message.vehicle)
         \/ message.type = "DESELECT_VEHICLE" /\ Deselect
         \/ message.type = "INVALID"
              /\ output' = {} /\ UNCHANGED <<control, sending>>
  /\ UNCHANGED <<phase, now, loopNow, records, lastListSend, deviceOpen>>

MessagesDone ==
  /\ phase = "messages"
  /\ received = <<>>
  /\ GoTo("connection")
  /\ output' = {}
  /\ UNCHANGED <<now, loopNow, control, records, sending, lastListSend,
                 deviceOpen, web>>

CheckConnection ==
  /\ phase = "connection"
  /\ GoTo("clock")
  /\ IF Connected THEN output' = {} /\ UNCHANGED <<control, sending>>
                  ELSE Deselect
  /\ UNCHANGED <<now, loopNow, records, lastListSend, deviceOpen, web>>

ReadClock ==
  /\ phase = "clock"
  /\ GoTo("online")
  /\ loopNow' = now
  /\ output' = {}
  /\ UNCHANGED <<now, control, records, sending, lastListSend, deviceOpen, web>>

\* Mutant for CommandsReachOnlineVehicles and SilenceReleases: a vehicle without
\* any record is not taken for offline.
CheckOnlineIfHeard ==
  /\ phase = "online"
  /\ GoTo("send")
  /\ IF HasRecord(records, selected) /\ ~IsOnline(records, selected, now)
     THEN Deselect
     ELSE output' = {} /\ UNCHANGED <<control, sending>>
  /\ UNCHANGED <<now, loopNow, records, lastListSend, deviceOpen, web>>

\* The offline check reads the clock again: it may see a vehicle go offline
\* that still was online at loopNow, never the other way round.
CheckOnline ==
  /\ phase = "online"
  /\ GoTo("send")
  /\ IF selected # NoVehicle /\ ~IsOnline(records, selected, now)
     THEN Deselect
     ELSE output' = {} /\ UNCHANGED <<control, sending>>
  /\ UNCHANGED <<now, loopNow, records, lastListSend, deviceOpen, web>>

Due == selected # NoVehicle /\ loopNow - lastControlSend >= ControlInterval

SendControl ==
  /\ phase = "send"
  /\ GoTo("list")
  /\ IF Due
     THEN /\ generator' = GenerateCommand(generator, loopNow)
          /\ SendControlCommand(selected, generator'.command)
          /\ lastControlSend' = IF output' = {} THEN lastControlSend
                                                ELSE loopNow
     ELSE output' = {} /\ UNCHANGED <<generator, sending>>
  /\ UNCHANGED <<now, loopNow, selected, owner, records, lastListSend,
                 deviceOpen, web>>

\* publishVehicleList, when it is due.
PublishList ==
  /\ phase = "list"
  /\ GoTo("poll")
  /\ IF loopNow - lastListSend >= ListInterval
     THEN /\ output' = SentToPage([kind |-> "vehicles",
                         online |-> VehicleStatusList(records, now)])
          /\ lastListSend' = loopNow
     ELSE output' = {} /\ UNCHANGED lastListSend
  /\ UNCHANGED <<now, loopNow, control, records, sending, deviceOpen, web>>

Tick ==
  /\ phase # "exited"
  /\ now < MaxTime
  /\ now' = now + 1
  /\ output' = {}
  /\ UNCHANGED <<phase, loopNow, control, records, sending, lastListSend,
                 deviceOpen, web>>

Loop ==
  \/ PollReturns \/ ReportsDrained \/ InputDrained \/ PollDone
  \/ ProcessWebMessage \/ MessagesDone \/ CheckConnection \/ ReadClock
  \/ CheckOnline \/ SendControl \/ PublishList

Page ==
  \/ PageAccepted \/ PageHandshake \/ PageFails
  \/ \E s \in reads :
       PageEnds(s) \/ \E message \in Message : PageMessage(s, message)

Next ==
  \/ Loop
  \/ PollFails
  \/ \E report \in Reports : ReceiveReport(report)
  \/ \E frame \in Frames : ReceiveFrame(frame)
  \/ DeviceFails
  \/ Page
  \/ Tick

Spec == Init /\ [][Next]_vars

\* The loop never stops between two handlers: poll(2) returns after at most
\* kPollTimeoutMs, and vehicles, device and pages produce events more slowly
\* than the loop consumes them, so that every drain ends.  The handlers of a
\* session whose socket is closed are ready at once and run within the same poll.
FairSpec ==
  Spec /\ WF_vars(Loop) /\ WF_vars(\E s \in reads : PageEnds(s))

(***************************************************************************)
(* Properties.                                                             *)
(***************************************************************************)

\* What the generator decides on, whether a gear change is allowed, which way
\* a switch toggles, what has been confirmed, is what the cache holds for the
\* selected vehicle: a report moves both or neither, in whatever order it
\* arrives relative to the selection.
GeneratorFollowsCache ==
  selected \in DOMAIN records => generator.vehicle = records[selected].state

\* Between two selections nothing survives of the first one: no latched
\* command, no running hold, no click of the dial, no input.
IdleIsClean ==
  selected = NoVehicle => generator = NewGenerator /\ lastControlSend = 0

\* Once the input device is lost, whichever vehicle is selected afterwards gets
\* no pedal, no wheel and no request to enter remote mode.
LostDeviceIsNeutral ==
  ~deviceOpen =>
    /\ generator.current = Released
    /\ generator.command = EmptyCommand

\* A control packet other than the EXIT of a release goes only to the selected
\* vehicle, while a page is connected and the vehicle was heard less than
\* OnlineTimeout before the turn's clock reading, however the checks that
\* establish this interleave with the clock.
CommandsReachOnlineVehicles ==
  [][\A packet \in output' :
       packet.kind = "control" /\ packet.command # ExitCommand =>
         /\ packet.vehicle = selected
         /\ Connected
         /\ HasRecord(records, selected)
         /\ loopNow - records[selected].lastUpdate < OnlineTimeout
    ]_vars

\* A selection outlives neither the page's connection nor the vehicle's
\* reports: it is given up, or what was lost comes back, or the process ends.
DisconnectReleases ==
  selected # NoVehicle /\ link = "closed"
    ~> selected = NoVehicle \/ link # "closed" \/ phase = "exited"

SilenceReleases ==
  \A v \in Ids :
    selected = v /\ ~IsOnline(records, v, now)
      ~> selected # v \/ IsOnline(records, v, now) \/ phase = "exited"

\* "When the page disconnects, leave the current vehicle": when the turn comes to
\* send a command, the selected vehicle was selected while the page that is
\* connected now was.  It fails: a new connection can be accepted and complete its
\* handshake within one io_context::poll, and the check then sees a connected
\* page, the next one, and keeps the selection made on the page that is gone.
PageOwnsSelection ==
  phase = "send" /\ selected # NoVehicle => owner = session
=============================================================================
