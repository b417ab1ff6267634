# Verification of the remote drive cockpit

The cockpit lets an operator at a desk (steering wheel, pedals, buttons, a
rotary dial) drive one of several configured vehicles over UDP; a web page shows
the vehicles and selects one. These modules model the process `cockpit`
(`src/src`, `src/apps`, `src/include`, `src/proto`) and what surrounds it, check
the models with TLC on small instances, and prove the safety properties with
TLAPS for every value of the constants.

## The system

One thread runs `Cockpit::run()`: an endless loop that waits in `poll(2)`, at
most 20 ms, for the UDP socket and the input device, drains both, runs the
handlers of the web server that are ready, checks the connection to the page,
checks that the selected vehicle is still heard, and sends it a control command
when 20 ms have passed since the last one. Nothing is persisted and there are no
locks; what is hard is the *order* of events inside and across turns of the
loop, the clock that moves between them, and what the other side of each socket
knows meanwhile.

| Component | State | Operations | Talks to |
|---|---|---|---|
| `Cockpit` (`cockpit.cpp`) | selected vehicle, next control sequence, last send times | `run`, `receiveVehicleStates`, `receiveInputDevice`, `processWebMessage`, `selectVehicle`, `deselectVehicle`, `sendControlCommand`, `publishVehicleList` | everything below, by direct calls |
| `ControlCommandGenerator` | last two input frames, the command being sent, its copy of the vehicle's state, two hold timers, two click counters | `processInputState`, `generateCommand`, `generateExitCommand`, `syncVehicleState`, `reset` | called by `Cockpit` |
| `VehicleStateCache` | per vehicle: last accepted state, its sequence, when it came | `update`, `record`, `isOnline`, `cockpitId`, `vehicleAddress`, `vehicleStatusList` | called by `Cockpit` |
| `WebSocketServer` | current session, received messages; per session its socket, read, write queue | `startListening`, `poll`, `takeMessage`, `sendMessage`, `connected`; handlers of accept, handshake, read, write | the page; its handlers run inside `poll` |
| `UdpChannel` | a socket | `bindPort`, `receive`, `send` | the vehicles; packets are lost, repeated, reordered |
| `InputDeviceReader` | the device, axis ranges, the state being accumulated | `openDevice`, `readStates`, `closeDevice` | Linux evdev and its buffer |
| Protocol codec, web protocol | none | encode, decode, parse, serialise | pure functions |
| Control page (`App.vue`) | its view of the selection, a reconnect timer | select, deselect, reconnect | `WebSocketServer` |
| Command line, configuration | none after start-up | parse, validate | `main` |

What makes each component correct:

- **Generator.** A request for remote mode follows from a deliberate gesture and
  from nothing else. Parking and emergency stop toggle once per completed hold.
  The pedals of the command are the operator's, always. Controls that belong
  together (gear and reversing light, headlights and their group) are never
  asked for contradictory states although the vehicle confirms them one by one.
- **Cache.** A vehicle counts as online only on its own word, its state does not
  go backwards, and a restarted vehicle is not ignored for long.
- **Cockpit.** Commands go to the selected, online vehicle while a page is
  connected; nothing of one selection reaches the next; losing the page, the
  vehicle or the device ends in a release.
- **WebSocket server.** One write at a time, no message lost or repeated, nothing
  left of a session once it was replaced, and the interface the loop relies on.
- **UDP channel and codec.** What else arrives on the port delays neither the
  commands nor the reports for long.
- **Input device.** Frames show the device as it is, once all was read.
- **Page.** The cockpit drives no vehicle its page does not show, and no vehicle
  that nobody looks at.
- **Start-up.** The process runs with what its command line asks for, and every
  source address names one vehicle.

Every place where the code could get one of these wrong in a way a unit test
would hardly reach is listed under `hazards` in `PROJECT.json`, with the
properties that cover it.

## Modules

```
RemoteDriveProtocol          messages
InputDeviceState             a frame of the input device
  GeneratorOps               methods of ControlCommandGenerator, as operators
    ControlCommandGenerator  the generator and any caller
                                                   MCControlCommandGenerator
    GeneratorOpsProofs       lemmas about the methods
      GeneratorProofs        (with ControlCommandGenerator)    theorems
  InputDevice                device, kernel buffer, reader     MCInputDevice
    InputProofs                                                theorems
CacheOps                     methods of VehicleStateCache, as operators
  VehicleStateCache          cache, vehicles, network          MCVehicleStateCache
    CacheProofs              (with ReportChannel)              theorems
RemoteHandover               GeneratorOps, CacheOps, vehicles and the network
                             composed                          MCRemoteHandover
  HandoverProofs             (with GeneratorOpsProofs)         theorems
PageLink                     what the loop relies on of the web server
  WebSocketServer            implements PageLink               MCWebSocketServer
    WebSocketProofs          (with ControlPage)                theorems
Cockpit                      the event loop; GeneratorOps, CacheOps and PageLink
                             composed                          MCCockpit
  CockpitProofs              (with GeneratorOpsProofs)         theorems
ControlPage                  pages, their sockets, the cockpit MCControlPage
ReportChannel                UDP socket, codec and turns, in time
                                                               MCReportChannel
Startup                      main() and initialize()           MCStartup
  StartupProofs                                                theorems
```

A class whose object is used by another component is an `...Ops` module: a
method that changes the object is an operator from the old object to the new
one, composed of the private steps in the order the code calls them. The same
operators serve the component's own state machine and the event loop, so the
loop is checked, and proved, with the complete generator and the complete cache
in it. Definitions marked *Mutant* are plausible bugs kept beside the definition
they spoil; nothing uses them, and putting one in place of that definition makes
the property it names fail.

Several questions about one module are often asked in one run: the MC module
then has a variable of its own (`scenario`, `pages`, `tabs`, and `manner` of
`RemoteHandover`) that is chosen in the initial state and never changes, and
restricts what may happen. Each choice is a model of its own, small enough to be
explored completely; a property is checked in all of them.

### RemoteDriveProtocol

The messages of `remote_drive.proto`. A command keeps all its fields, sixteen of
them as one function from `LatchedSwitch` to `SwitchCommand`. Of a vehicle's
state it keeps what the cockpit decides on: owner, mode, gear, whether the speed
allows shifting (`stopped`) and each switch. Angles are in hundredths of a
degree and pedals in percent, so that every number is an integer.

### GeneratorOps, ControlCommandGenerator

`Generator` is the object. `ProcessInputState` is the whole of
`processInputState`: take the frame, gear, toggles, dial, continuous controls,
bucket, holds, in that order (the order matters: the dial may clear the command
before the pedals are written into it). `GenerateCommand` fires the holds that
have elapsed; `SyncVehicleState` clears what the vehicle confirms. In
`ControlCommandGenerator` a caller makes these calls in any order while the
clock advances. Two history variables, `dial` (the last events of the dial) and
`held` (since when each combination is held, whether that hold is spent), record
what the operator *did*; they never look at the generator's counters and timers,
so the properties compare the two.

### CacheOps, VehicleStateCache

`Accepts` is the guard of `update`: configured vehicle, right source address,
and a sequence that increases as long as the vehicle is online. In
`VehicleStateCache` reporters (the vehicles, and programs that use a vehicle's
name from another address) number their reports, restart from 0, and wrap
around; `network` keeps every report ever sent and delivers any of them at any
time, any number of times. An *epoch* is a stretch of one reporter's reports
whose numbers increase; each report carries its true place in the sending order,
which the cache cannot see.

### Cockpit

`phase` walks through one turn of `run()`; each phase has the actions of the
handler that runs there, one action per iteration of a handler's own loop, and
`Tick` may advance the clock between any two. That matters because the turn
reads the clock several times: the cache stamps reports with its own reading,
`loopNow` is read once, and the offline check reads again.

- `ReceiveReport`, `ReceiveFrame`, `ProcessWebMessage` are whole handlers,
  including the message forwarded to the page, `syncVehicleState` and the
  release with its EXIT packet.
- `SendControlCommand` may fail after it has consumed a sequence, and then
  `lastControlSend` stays as it is; so the command is repeated next turn.
- `PageAccepted`, `PageHandshake`, `PageFails`, `PageMessage`, `PageEnds` are the
  actions of `PageLink`: what the handlers that one `io_context::poll` runs, in
  any number and order, mean to the loop. A read that had completed on a replaced
  session may still deliver its message (`reads`); `poll` does not return before
  every such read has ended (`PollDone`).
- `DeviceFails` may follow frames read in the same turn, as in the code.
- `PollFails` ends the process (`run` returns 1), where it may stop.

`owner` is a history variable: the session in which the vehicle was selected.
`output` is what the last step sent.

### PageLink, WebSocketServer

`PageLink` is the abstract server: a current session that is in its handshake,
up or closed; a queue of received messages; the sessions that may still deliver.
`WebSocketServer` has what implements it. An asynchronous operation is three
steps: it is started by a method, it completes in the kernel or in Beast
(`ReadCompletes`, `WriteCompletes`, with success or an error), and its handler
runs in a later `poll` (`Handshake`, `ReadNext`, `ReadFails`, `WriteNext`,
`WriteFails`). Between completion and handler another handler may close the
socket or replace the session. `Close` keeps, of the page's messages, the one
that has already been read and any prefix of what Beast may have buffered. A
session that was replaced stays in the model until its last handler has run, as
the `shared_ptr` in each handler keeps it. `PollReturns` waits until nothing is
ready, and an operation on a closed socket always becomes ready.

The refinement maps `link` to the current session's state and `reads` to the
sessions whose read, or completed handshake, may still deliver. `Cockpit`
instantiates `PageLink` for its own variables, so what is checked and proved of
the loop holds for this server.

### InputDeviceState, InputDevice

The kernel's evdev buffer and the reader. `Move` changes what the device *is*
(`raw`) and queues a packet of changes, `MoveOverflowing` is the kernel's
overflow (all queued events dropped, `SYN_DROPPED`, and what is left of the
packet). The reader's steps are one read of at most `Batch` events (64 in the
code) and one `consume` at a time, and the device moves in between. `SetAxis`,
`SetButton` and `HatToDirection` are the normalisation, in whole percent rounded
down, where the code uses doubles. `shown` is the last frame the caller got;
`unseen` the controls whose last change was dropped or which have not moved
since the device was opened; `clicks` counts the presses of a key against the
rising edges in the frames returned.

### RemoteHandover

The way of the operator's requests through all of it, with the generator, the
cache, several vehicles and the network: the press or the dial, the generator's
request, control packets, the vehicle's reports through the cache, and the
confirmation that ends the repetition of the request. `Select` and `Release`
are possible at any time, whatever is on its way: an operator may leave a vehicle,
and a lost page, a device fault or a silent vehicle ends a selection without
asking (`src/src/cockpit.cpp:64-68`, `:77-78`, `:84-87`). `Select`, `Release`,
`AskEnter`, `AskExit` and `PressSwitch` (the frames of a
click and its confirmation, or of a press of the fog light, run through
`ProcessInputState`), `SendControl` and `ReceiveReport` are the cockpit's steps.

The vehicles are not in this repository and are taken at their best: one executes
control packets only in increasing sequence, reports truthfully, enters remote
mode when it is free, leaves it for its owner's EXIT, and falls back to standby
when nothing can reach it any more (`LinkTimeout`). `Execute` drops the packets
that the executed one has overtaken: they would be refused on arrival, so that
keeping them only adds states that differ in nothing. The network loses
(`LoseCommand`, or a report that is never received), repeats and reorders.

`manner` says how a behaviour may go: whether the operator makes a request only
when the one before was answered (`patient`, a guard of `AskEnter`, `AskExit` and
`PressSwitch` and of nothing else), whether commands are lost, which vehicles there
are, what is asked for and how often. The clock is the cache's: after
`OnlineTimeout` without a report any sequence is taken (`StepsBack`), also for a
vehicle that is not selected. The generator's clock stands still; no timer runs in
it between these gestures.

History variables record what the operator did: `asked`, which sequence the latest
request to enter can first have, per vehicle; `request`, the latest mode asked for;
`wanted`, the latest wish for the switch. `unsure` holds the vehicles the cockpit
may be mistaken about, for one of these reasons, each of which the code allows:

- it was left while it was to enter remote mode and not yet shown as driven, so that
  no EXIT was sent;
- another vehicle, or the same one again, was selected over it while it was to be
  driven or was driven: `selectVehicle` sends no EXIT;
- it was selected while it was still shown as driven;
- a report older than the recorded one was taken after a silence.

A vehicle is no longer in `unsure` once it is selected when all of it has come to
rest (`AtPeace`). `ReleaseIsTold`, `EntryIsConfirmed` and `RequestIsHonoured` say
that nothing else goes wrong. None of the exceptions can be dropped: with any one
of the vehicles left while to be entered, of those driven at a selection, of the
older reports or of the condition `AtPeace` taken out of `unsure`, TLC finds one
of the three properties violated.

### ControlPage

Any number of tabs with `App.vue`, each with its view, chosen vehicle, list,
known states, and a socket in one of the states the page can tell or not tell
apart (*cut* is a socket whose close event the page has not seen). The cockpit
is what `Cockpit` says of it, a turn at a time. `Overlap` allows, or excludes,
that two sessions' handlers run within one poll: with it, what `cockpit_pages`
finds would be found again, so the run excludes it and asks what holds
otherwise. `givenUp` is a history variable: the cockpit has released the
selected vehicle on its own, for silence or a device fault. A vehicle that is
already offline when the page's choice of it is processed is released in the same
turn. A reconnection follows a second after the close event,
and the loop turns every 20 ms: `Connect` waits until the cockpit has seen the
page gone.

### ReportChannel

The UDP socket between network and loop, in units of the time that one datagram,
or the rest of a turn, takes at most. The kernel's queue is limited and drops;
`Receive` is one iteration of `receiveVehicleStates` with everything
`decodePacket` checks (`Decodes`); an empty datagram ends the drain, as in
`UdpChannel::receive`. Each wait of `poll` starts its timeout anew, ends as soon
as the socket is readable and may end earlier, for the input device. The rates
of the network are assumptions: other datagrams form a bucket of `Burst` that
refills every `Spacing`, and the vehicle reports every `Hurry` to `Period`.
`ChannelAssumption` says that the loop is faster than the network: `Backlog` is
the work that can wait at once, `Load` in `Turnover` the rate at which work keeps
coming, and `Busy` a stretch in which the loop handles both. It is linear in
`Busy`, so that the condition for one stretch decides for every part of it.
`BufferAssumption` computes the size of the longest valid report and compares it
with the receive buffer.

### Startup

`parseArguments` one argument at a time, `loadConfig` one vehicle at a time, the
three steps of `initialize`, for several processes on one host that hold ports.
Texts are texts; the constants say which of them a parser takes for a port, an
address, a valid identifier or an option.

## What the runs show

| Run | Instance | Shows |
|---|---|---|
| `generator` | three scenarios. *dial*: 2 clicks to submit, pause limit 1, clock to 4, one frame per combination of turn and confirmation. *holds*: hold of 2, clock to 4, frames at and beside each threshold, switching between the combinations, with the dial. *latches*: ten frames, five vehicle states that confirm gear, lights and group in different orders | `DialDecides`: ENTER and EXIT are asked for exactly by a confirmation after enough consecutive clicks one way; `HoldFiresOnce`, `FreshRemoteSession`, `HoldsTrackCombo`; `ContinuousFollowsInput`, `CommandEncodable`, `ReverseLightAgrees`, `LightGroupAgrees` |
| `cache` | a vehicle, a namesake, a stranger; 3 reports, sequence modulo 2, one restart or wrap-around | `OnlineIsHeard`, `NoStepBackWhileOnline`, `BlackoutBounded` |
| `cache_latest` | one vehicle that never restarts | **violated** `KeepsLatest`, see below |
| `handover` | one vehicle and an operator who waits, with up to 4 control packets and 3 reports: remote mode on a network that loses commands, three presses of a switch, both together; with silences in between, remote mode on a network that loses nothing (where `ReleaseIsTold` applies) and the switch. Two vehicles, selected one over the other, with an operator who waits (2 packets, 2 reports of each) and with one who does not (2 packets, a report of each). Selections and releases at any time throughout | `EntersOnRequest`: no vehicle enters without a request made for it after its last EXIT, however the page selects; for the operator who waits and except for the vehicles in `unsure`, `ReleaseIsTold`, `EntryIsConfirmed` and `RequestIsHonoured` (which the operator who does not wait never makes arise: that manner has no presses, see `handover_hasty`) |
| `handover_hasty` | one vehicle, three presses, an operator who does not wait | **violated** `RequestIsHonoured`, see below |
| `cockpit` | one vehicle and one unknown identifier; one page with four reports (free, ours, forged, for an unconfigured vehicle), or two pages with our reports; two frames; with fairness | `GeneratorFollowsCache`, `IdleIsClean`, `LostDeviceIsNeutral`, `CommandsReachOnlineVehicles`, `DisconnectReleases`, `SilenceReleases` |
| `cockpit_pages` | two pages | **violated** `PageOwnsSelection`, see below |
| `ws` | two sessions, 2 page messages held at a time, 2 messages sent to each, with fairness | `WritesAreSerial`, `NothingLostOrRepeated`, `SettledBetweenPolls`, the refinement `ImplementsPageLink`, and `MessagesReachThePage`, `ReplacedSessionsEnd` |
| `device` | a brake and a hat that move together, a dial, two initial positions; a buffer of 6, batches of 2 | `SeenChangesAreShown`, `ClicksAreShown`, `AxesFollowTheirRange` |
| `page` | two tabs with one vehicle or one tab with two; everything may fail; with fairness | `SelectedIsShown`, `ChosenIsDriven`, `AbandonedIsReleased` |
| `startup` | one process with every command line of up to 5 of 5 words, edge cases, and files with one fault each; or two processes that compete for their ports | `ArgumentsAreRead` (against a declarative reading of the line), `TrustIsUnambiguous` |
| `channel` | five kinds of datagrams that are no report, bursts of 2, one every 8 units; a report every 4 to 16; a queue of 6 | `SendsOnTime`, `StaysOnline` |

Types are checked by the runs `handover`, `page` and `channel` and are theorems
in all modules; where only the theorem says it, the run leaves it out.

### Where words and code disagree

**A delayed report can replace a newer one** (`cache_latest`). The cache is
documented to keep the latest state and to store states whose sequence
increases (`src/include/vehicle_state_cache.h:29` and `:37`). Sequences are
compared only while the vehicle is online. After 500 ms without a report the
first datagram to arrive is stored whatever its number, and the vehicle is
online again on the strength of it. This is what lets a restarted vehicle be
heard, so it is a trade-off; the runs and theorems bound both sides of it:
`NoStepBackWhileOnline` (never while online) and `BlackoutBounded` (a newer
report is refused only within `OnlineTimeout` of hearing an earlier epoch).

**A page can inherit another page's vehicle** (`cockpit_pages`).
`src/src/cockpit.cpp:76` says that the vehicle is left when the page
disconnects. The loop looks at `connected()` once per turn, after
`io_context::poll` has run any number of handlers. If a second page is accepted
(which closes the first session) and completes its handshake within that one
`poll`, `connected()` is true again: the selection made by the page that was cut
off survives, together with what its operator had latched, while the new page
believes nothing is selected.

**A report older than the request can confirm it** (`handover_hasty`). A pending
switch command is cleared when the actual state confirms it
(`src/src/control_command_generator.cpp:61`). Any accepted report with the right
value counts, also one sent before the vehicle executed the *previous* request:
ON is in flight, the operator presses again, the report says OFF, the pending OFF
is cleared, ON arrives. Nothing is pending any more and the switch is ON. It
takes a second press within one round trip; `handover` shows that an operator who
waits for the page to show the first wish fulfilled is served, unless an older
report is taken after a silence.

Further consequences of the same designs came up while modelling. They are
recorded here because each passing property above has to leave them room, in the
condition its comment names; no run is kept for them.

- *A replaced page can still be heard, within one poll.* `closeClient` drops what
  the old page had sent (`src/src/websocket_server.cpp:199`), but a read that had
  completed before runs its handler afterwards and queues its message for the new
  page. `SettledBetweenPolls` bounds it: within the same `poll` or not at all.
- *A frame is not always the complete state*, as
  `src/include/input_device_reader.h:20` says. The reader ignores `SYN_DROPPED`,
  and it asks for the ranges of the axes but not for their present positions.
  `SeenChangesAreShown` says what holds instead: everything is right except
  controls whose last change was dropped or that have not moved since the device
  was opened, and those are right as soon as they move.
- *A release may tell the vehicle nothing.* EXIT is sent only when the cached
  report already names this cockpit as owner (`src/src/cockpit.cpp:193`), and
  selecting another vehicle sends none. With ENTER on its way, a page that is lost
  or a device that is unplugged leaves a vehicle that enters remote mode
  afterwards, and its own timeout has to end it; an EXIT that is lost is not
  repeated. `ReleaseIsTold` holds for an operator who waits, a network that loses
  no command and every vehicle outside `unsure`.
- *An old report confirms a new entry*: a delayed report of an earlier selection
  confirms a request for remote mode that no vehicle has seen
  (`src/src/control_command_generator.cpp:163`). `EntryIsConfirmed` holds for an
  operator who waits, also when packets are lost, for a vehicle outside `unsure`:
  one that is selected again before it has come to rest, or whose older report is
  taken after a silence, is such a case.
- *The page is not told of a release.* The snapshots do not say what is selected:
  after a release by the cockpit (silence, device fault) the page stays on the
  detail. `ChosenIsDriven` says that this is the only way in which they differ
  once all messages are processed.
- *Two cockpits on one host.* `src/web/src/App.vue:5-6` offers two, by their
  WebSocket ports; the UDP port 7005 is the same for both
  (`src/src/cockpit.cpp:24`), and the second process gives up.
- *The 20 ms of a command* (`src/src/cockpit.cpp:89`). Each turn may wait 20 ms in
  `poll` anew, so a turn that ended just before the command was due makes the
  interval nearly twice as long. `SendsOnTime` is the bound that holds.

## Bounds

- *Clock* (`MaxTime`) and *clicks* (`MaxClicks`): guards of `Tick` and `Input`.
  In each run the clock reaches and passes the timeouts that run is about: the
  pause limit of the dial in the scenario *dial* (1 of 4), the hold in *holds* (2
  of 4, so a hold can elapse twice), `OnlineTimeout` in `cache` (2 of 4) and in
  `cockpit` (2 units from the start: heard, then exactly offline). *latches* is
  not about time and its clock stands still; the pause limit plays no part where
  one click suffices (`cockpit`, `handover`: `RotationThreshold` 1).
- *Thresholds.* `HoldDuration`, `RotationTimeout`, `RotationThreshold`,
  `OnlineTimeout`, `ControlInterval`, `ListInterval` are constants scaled down
  from 500 ms, 5 s, 12, 500 ms, 20 ms and 100 ms. The thresholds of pedals keep
  the code's value 20, and frames lie on both sides of it.
- *Sequences* are taken modulo `SeqMod` instead of 2^32; `cache` uses 2 so that
  three reports wrap around, which is an epoch like that of a restart.
- `commands`, `reports`, `presses`, `time` of a manner in `handover`: a session
  takes an ENTER and an EXIT, so 4 packets cover two sessions and 3 packets one
  session with a delayed packet of it behind a second selection; 3 reports are an
  old one, the owner's and the one after it. Three wishes leave room for a packet
  of the first to be executed after the second was made. 2 packets and 2 reports
  of each vehicle take two vehicles through a change of the selection with an
  ENTER still in flight; they differ in nothing, so that run uses symmetry.
  `OnlineTimeout` is 1 there and so is `time` in the manners with silences: one
  silence is what it takes for an older report to be accepted. The control
  sequence stays short of its wrap-around (at 50 packets a second it takes more
  than two years).
- `MaxReports`, `MaxEpoch` in `cache`: 3 reports and one restart or wrap-around per
  reporter are what it takes to have an old, a current and a late report.
- `MaxMessages` = 1 queued page message: the loop empties the queue every turn
  and messages are independent of each other; select followed by deselect
  happens over two turns.
- `MaxSession` = 2: one page replacing another. A session interacts only with
  the one it replaces and the one that replaces it; the theorems cover any number.
- `MaxFrames`, `MaxSends` in `ws`: two messages each way are needed for a
  queue with something behind its front, and a message behind the one being read.
- `BufferSize`, `Batch` in `device`: a batch smaller than a packet splits
  packets over reads, a buffer of two small packets overflows in every position.
- `MaxSent`, `MaxPushed` in `page`: messages on their way each way; there is room
  for a select with the deselect behind it.
- The time constants of `channel` keep the order of the code's: a command
  interval as long as the poll timeout, an offline limit one unit longer than a
  report's period and the longest busy stretch together. `SocketSize` is the
  backlog, 6; with this load at most 3 datagrams ever wait, so that no datagram
  is dropped, and with a queue of 1 or 2, where reports are, `StaysOnline` fails.
- One configured vehicle in `cockpit`: each vehicle has its own record, and the
  loop touches the selected one only; the theorems cover any number.

The theorems have none of these bounds except as arbitrary constants.

## Fairness

`cockpit` assumes weak fairness of `Loop`, the loop's own steps from one phase to
the next, and of the end of each read that may still deliver (`PageEnds`), which
the server provides because an operation on a closed socket completes. The code
justifies it: `poll(2)` returns after at most 20 ms, no handler blocks (sockets
and device are non-blocking), and each step is straight-line code. It contains the
assumption that every drain *ends*: vehicles, device and page produce events more
slowly than the loop reads them. There is no fairness for anything outside the
process: no report, frame, page or message ever has to come. The clock (`Tick`)
needs none either: `SilenceReleases` speaks of a vehicle that is already past the
timeout.

`ws` assumes the same of the loop as far as the server sees it
(`PollStarts`, and each session's handlers), that a write ends (the page reads,
or the connection fails at the latest when Beast's idle time limit, which
`start` sets, is over), and that an operation on a closed socket completes.
Nothing makes a page send, connect or finish its handshake.

`page` assumes that the loop processes messages that have arrived and
notices that a connection is gone: one turn of the loop. No fairness is assumed
of a page or its operator. A scenario variable of an MC module never changes, so
fairness of an action there reads `Action /\ UNCHANGED pages`.

## What is proved

All of it for arbitrary constants, under the named assumptions that the modules
state about them (`GeneratorAssumption`, `InputAssumption`, `CacheAssumption`,
`ReporterAssumption`, `CockpitAssumption`, `ServerAssumption`,
`HandoverAssumption`, `StartupAssumption`, `PageAssumption`, `ChannelAssumption`,
`BufferAssumption`; TLC evaluates each one in some run).

**Generator** (`GeneratorOpsProofs`, `GeneratorProofs`). The lemmas about the
methods come first: each step returns a well-typed object, and touches only what
it should. The invariant `IInv` adds to `TypeOK` the four properties proved from
it; each is inductive given `TypeOK`. The interesting one is the linked lights:
`LatchedGearAgrees` and `LatchedGroupAgrees` show that the latched stage keeps
the linked controls together, the dial either keeps or clears them all, and
`SyncKeeps` says that a report can only clear. `ContinuousControls` needs that
the last stage rewrites every continuous field, whatever the dial cleared.

The action properties compare the object with what the operator did, so their
invariant `GestureInv` relates the two memories. The code counts turns forwards
in two counters and forgets; the history keeps the last `RotationThreshold`
events and the properties look back through it. `DialInv` says that for each
way the counter, as far as no pause has made it void (`Live`), is the length of
the longest run of turns that may still count (`Fresh`, capped by the threshold).
`TickGestures` is where both forget: the pause that makes the counter void is
the pause that ends the run. `HeldInv` says that a timer runs for exactly the
holds that are not spent, and since they began. `Dial` (`DialDecides`),
`FreshSession` and `HoldFires` follow from the effect of each step on one frame
(`FrameGestures`, `GenerateFields`, `SyncFields`).

**Cache** (`CacheProofs`). None of the three properties is inductive: the cache
compares numbers, the properties speak of the sending order. `Numbered` (a
reporter's next report comes after all it has sent) and `Ordered` (within one
reporter, epoch and sequence follow the sending order) connect the two;
`RecordsHeard` says that a record is one of the vehicle's own reports and that
its time is not later than when that epoch was last heard.

**UDP channel** (end of `CacheProofs`: the channel feeds the cache). That a drain
without a limit ends is an argument about rates, not about steps. The invariant
`ChannelInv` is a potential: `Owes` weighs the work that waits in the socket
(`Weighs`, a unit for a report and two for anything else, which may be an empty
datagram and cost the rest of a turn) and the rest of the turn against what the
network may still send at once (`crowd`, and `Credit` for the vehicle's next
report), and never exceeds its value after a burst. Each arrival pays from the
bucket, each unit of time earns more than it lets come in. `Prompt` charges to the
same account what a drain has delayed the next command, so that a drain of any
length ends within `Busy` (`SendsInTime`). `InTime` follows one report through the
queue: the work before it is done before the vehicle counts as silent
(`StaysHeard`). That theorem needs `Backlog <= SocketSize`: a report dropped by a
full queue is not late but lost. The code leaves the receive buffer at the
system's default, hundreds of times a report of at most 256 bytes.

**Cockpit** (`CockpitProofs`). `ControlInv` strengthens `LostDeviceIsNeutral`: a
generator without device has no running hold either, or a later
`generateCommand` could toggle something. `Checked` says what the turn has
established at each phase: after the connection check a selection implies a
connected page, after the offline check it implies a fresh record; and
`loopNow <= now`, which is why the offline check, made with a later reading of
the clock, implies freshness at `loopNow`. `OnlineVehiclesOnly` is an action
property: the only step that sends a packet other than an EXIT is `SendControl`.

**WebSocket server** (`WebSocketProofs`). `IInv` says how the parts of a session
hang together: a session beyond the current one is untouched, what is written is
the front of the queue, an open session is the current one, a read or a completed
handshake outlives its session only on a closed socket. `DeliveredInOrder`
rests on a strengthening: delivered and queued messages are together `1 .. sent`.
`Settled` follows from the condition under which `poll` returns. `Refinement`
maps every step of the server to a step of `PageLink` or to a stutter; the
interesting cases are `AcceptNext`, where a completed handshake of the old
session stays in `reads`, and `ReadFails` of a session that is not current.

**Control page** (end of `WebSocketProofs`: the page is the server's other side).
What a page shows and what the cockpit drives are joined by the messages on their
way. `Told` says of each page: without a socket it shows nothing; with a new one
it has said nothing yet; with an open one the last message on its way names the
vehicle it shows, or, when none is on its way, page and cockpit agree.
`SelectedShown` and `ChosenDriven` read it when the queue is empty. Both, like the
run, assume `~Overlap`: with handlers of two sessions in one poll the properties
are false, which is the finding of `cockpit_pages`. `PageTypeCorrect` needs no
such assumption.

**Input device** (`InputProofs`). `SeenChanges` needs to follow each change
through the pipe: `FollowedInv` says that the last change of every control that
was not dropped is the last event for it in the kernel's buffer, or failing that
in the array being consumed, or failing that in the state; `PacketInv` that every
change is followed by its report, so that nothing stays behind when buffer and
array are empty; `LatestInv` that the state at that moment is the last frame.
The axis, hat and key cases of `consume` share one lemma about what an event
leaves alone.

`Clicks` needs more than the last change of a key: every press counts. `Counted`
balances the presses made against those shown, those in frames not yet returned,
the one the next frame will show, and those still in the pipe. That none of these
is merged with another is `Spaced` (a frame ends between two changes of the dial)
and `Alternating` (presses and releases take turns), and `Guarded` keeps the
next change behind the end of the frame that shows the one before. `AxisScales`
needs from the reader only that it takes no empty range (`LoadedInv`); the rest is
integer division.

**Handover** (`HandoverProofs`). `EntersOnRequest` speaks of vehicles, requests
and packets that overtake each other; what connects them is the order of the
control sequences. `InFlight` says that every ENTER on its way was sent for a
request (`asked`) newer than each EXIT on its way before it, `Pending` the same of
the packets the generator will still send. An EXIT that is executed therefore
voids a request only when no ENTER of that request is left: those before it have
been overtaken, and those behind it belong to a newer one. `AtRest` (no clicks
towards remote mode are left over) and the lemmas on single frames (`FrameDial`,
`PressedDial`) show that only `AskEnter` makes the generator ask to enter,
whatever was pending before. The network may lose, repeat and reorder without
limit, the page may select and release at any time.

For an operator who waits, `WInv` adds how a request travels. It holds for every
vehicle outside `unsure`, however often and whenever the page selects and
releases. A goal (a mode or a position of the switch) is on its way when it is met
*from some point on*: from the state the cockpit knows, over the reports it may
still accept in the order of their numbers, to the vehicle, and with no packet
behind that would take it back (`Toward`). It is `Settled` once the cockpit knows
it to be met, and then it is met throughout, which is why the opposite may be
asked for next (`Turned`): an old report can no longer confirm it. Waiting is
exactly this condition on the operator, and `handover_hasty` shows what happens
without it. "The order of their numbers" is what `Recorded` and `Distinct` secure:
the record of a vehicle agrees with its report of that number, no two of which
differ, and a report that steps back puts its vehicle into `unsure`. A vehicle
comes out of it only at peace, where every goal that is met is met throughout
(`PeaceToward`). `ModeKept` and `SwitchKept` say it of the selected vehicle and
join it to what the generator still sends; `LeftAlone` says of every other vehicle
that it goes towards being free, and that its switch goes towards some position,
so that a later selection finds it in order (`SwitchGoesOn`); `Told` that a
vehicle still owned has its EXIT on the way, if no command is lost. `ReleaseTold`,
`EntryConfirmed` and `RequestHonoured` read these with nothing on its way.
`RequestIsHonoured` has the operator's patience in its comment and in the run's
manners rather than in its formula, so the theorem states it.

**Start-up** (`StartupProofs`). `TrustIsUnambiguous` from `Loaded`: at each step
of `loadConfig` the map holds exactly the vehicles taken so far, with as many
addresses. No argument is read beyond the end of a line (`WordType`).
`CommandLine` compares the loop of `parseArguments` with a reading of the whole
line that knows no order: a line asks for something when it *can be split* into
options with their values and paths (`Splits`). `ReadInv` says that the words read
so far are split in one way only (`Meets`: every way to split the line begins a
word where the loop does), and that a refused line has none.

The properties of `ControlPage` and `ReportChannel` are proved in the module of
the component at the other end of each connection, which extends both. That is
why the specifications of these two have names with a prefix (`PageInit`,
`ChannelSpec`).

**Only model-checked.** Liveness (`DisconnectReleases`, `SilenceReleases`,
`MessagesReachThePage`, `ReplacedSessionsEnd`, `AbandonedIsReleased`) is beyond
the prover. Every safety invariant and action property that a passing run checks
is a theorem. Some hold under a condition that the theorem adds, and their runs
meet it: `StaysOnline` (room for the backlog), `RequestIsHonoured` (an operator
who waits), `SelectedIsShown` and `ChosenIsDriven` (no overlap of sessions).

## What is not modelled

- Fields of a vehicle's state that are only displayed, JSON and display names,
  protobuf serialisation, logging; the page's texts, sorting and template.
- `poll(2)` failing on a signal ends the process without an EXIT (`PollFails`);
  the vehicle's own timeout, outside this repository, is the backstop.
- Accepts that fail (`acceptNext` starts the next one at once), the request for
  the autocenter force, whose result is ignored, and files.
- Doubles: axes are whole percent, angles hundredths of a degree.
- The tests are read as statements of intent.

## Plan

Done, in this order: protocol and generator; cache; event loop; the web server
with its abstract specification; the input device; the handover of remote mode
and of a switch over the network; the page; start-up; the UDP channel in time.
Proofs of all their safety invariants and action properties, and of the server's
refinement.

Next, by importance: a *control session* (idle, driving, releasing) as an
abstract specification of `Cockpit`; the generator's invariants for the generator
inside the event loop.
