---------------------------- MODULE ReportChannel ----------------------------
(***************************************************************************)
(* The UDP socket between the network and the event loop, in time.  The    *)
(* kernel keeps datagrams until the loop drains them; the drain has no     *)
(* limit of its own and everything else of a turn waits for it, so what    *)
(* else arrives on the port decides when the next control command leaves   *)
(* and whether a vehicle is heard in time.  A vehicle is selected, it      *)
(* reports regularly, and its commands can be sent; other datagrams come   *)
(* at a limited rate and may be anything.                                  *)
(*                                                                         *)
(* A unit of time is the most that the handling of one datagram, or the    *)
(* rest of a turn, takes.                                                  *)
(***************************************************************************)
EXTENDS Integers, Sequences

CONSTANTS
  Noise,            \* the other datagrams
  Burst, Spacing,   \* at most Burst of them at once, and one every Spacing
  Hurry, Period,    \* the vehicle reports every Hurry to Period units
  SocketSize,       \* datagrams the kernel keeps
  ControlInterval,  \* kControlInterval
  PollTimeout,      \* kPollTimeoutMs
  VehicleOnlineTimeout,  \* kVehicleOnlineTimeout
  Busy              \* the longest stretch in which the socket is never empty

\* The work that can wait at once, in units of time: a burst, of which an empty
\* datagram costs the rest of a turn as well, a report and the rest of a turn.
Backlog == 2 * Burst + 2

\* The work that keeps coming within Turnover units: two for every other datagram
\* and one for every report.
Turnover == Spacing * Hurry
Load == 2 * Hurry + Spacing

\* The loop is faster than the network: within Busy it handles a backlog and what
\* comes meanwhile.  A report that waits for all of it is still in time.
ASSUME ChannelAssumption ==
  /\ {Burst, SocketSize, PollTimeout, ControlInterval} \subseteq Nat \ {0}
  /\ {Spacing, Hurry, Busy} \subseteq Nat \ {0}
  /\ Period \in Nat /\ Hurry <= Period
  /\ Turnover * Backlog + Load * Busy <= Turnover * Busy
  /\ VehicleOnlineTimeout \in Nat /\ VehicleOnlineTimeout > Period + Busy

(***************************************************************************)
(* Datagrams.  A payload is what of it fits the receive buffer.            *)
(***************************************************************************)
MaxIdLength == 19        \* kMaxIdLength
ReceiveBufferSize == 256 \* kReceiveBufferSize

Id == [length: 0 .. MaxIdLength + 1, quoted: BOOLEAN]

ValidId(id, required) ==
  /\ required => id.length # 0
  /\ id.length <= MaxIdLength
  /\ ~id.quoted

VehicleState ==
  [vehicle_id: Id, cockpit_id: Id, finite: BOOLEAN, known: BOOLEAN]

ValidVehicleState(state) ==
  /\ ValidId(state.vehicle_id, TRUE)
  /\ ValidId(state.cockpit_id, FALSE)
  /\ state.finite   \* steering angle and speed
  /\ state.known    \* drive mode, gear and bucket

\* A body is a vehicle's state, a control command, of which only its validity
\* counts here, or missing.
Body ==
  [kind: {"state"}, state: VehicleState]
    \cup [kind: {"control"}, valid: BOOLEAN] \cup [kind: {"none"}]

Datagram == [empty: BOOLEAN, parses: BOOLEAN, magic: BOOLEAN, body: Body]

ValidBody(body) ==
  \/ body.kind = "control" /\ body.valid
  \/ body.kind = "state" /\ ValidVehicleState(body.state)

\* decodePacket returns a packet.
Decodes(datagram) ==
  /\ ~datagram.empty
  /\ datagram.parses
  /\ datagram.magic
  /\ ValidBody(datagram.body)

IsReport(datagram) == Decodes(datagram) /\ datagram.body.kind = "state"

\* What the vehicle sends.
VehicleReport ==
  [empty |-> FALSE, parses |-> TRUE, magic |-> TRUE,
   body |-> [kind |-> "state",
             state |-> [vehicle_id |-> [length |-> MaxIdLength, quoted |-> FALSE],
                        cockpit_id |-> [length |-> 0, quoted |-> FALSE],
                        finite |-> TRUE, known |-> TRUE]]]

\* The size of an encoded VehicleState with the longest identifiers: a tag of
\* one byte up to field 15 and of two bytes after it, before each value.
VehicleStateSize ==
  LET tags == 15 + 2 * 11
      ids == 2 * (1 + MaxIdLength)
      numbers == 2 * 8
      names == 3 * 1
      switches == 19 * 1
  IN  tags + ids + numbers + names + switches

\* Magic and sequence are varints of at most five bytes; the body has a tag and
\* a length of two bytes.
PacketSize == 2 * (1 + 5) + (1 + 2) + VehicleStateSize

ASSUME BufferAssumption ==
  /\ PacketSize <= ReceiveBufferSize
  /\ IsReport(VehicleReport)
  /\ Noise \subseteq Datagram /\ \A d \in Noise : ~IsReport(d)

VARIABLES
  socket,       \* what the kernel has received for the port
  phase,        \* poll, drain, or rest: the remainder of the turn
  waited,       \* how long poll has been waiting
  sinceSend,    \* the time since the last control command
  sinceHeard,   \* the time since a report was handled
  sinceReport,  \* the time since the vehicle sent one
  crowd         \* grows with every other datagram, shrinks with time

timers == <<sinceSend, sinceHeard, sinceReport, crowd>>
channelVars == <<socket, phase, waited, timers>>

ChannelTypeOK ==
  /\ socket \in Seq(Noise \cup {VehicleReport})
  /\ Len(socket) <= SocketSize
  /\ phase \in {"poll", "drain", "rest"}
  /\ waited \in 0 .. PollTimeout
  /\ {sinceSend, sinceHeard} \subseteq Nat
  /\ sinceReport \in 0 .. Period
  /\ crowd \in 0 .. Burst * Spacing

\* A command has just been sent and a report just been handled.
ChannelInit ==
  /\ socket = <<>>
  /\ phase = "poll"
  /\ waited = 0
  /\ sinceSend = 0
  /\ sinceHeard = 0
  /\ sinceReport = 0
  /\ crowd = 0

(***************************************************************************)
(* The network and the clock.                                              *)
(***************************************************************************)
\* A full socket drops the datagram.
Arrive(datagram) ==
  socket' = IF Len(socket) < SocketSize THEN Append(socket, datagram) ELSE socket

VehicleReports ==
  /\ sinceReport >= Hurry
  /\ Arrive(VehicleReport)
  /\ sinceReport' = 0
  /\ UNCHANGED <<phase, waited, sinceSend, sinceHeard, crowd>>

OtherDatagram(datagram) ==
  /\ crowd <= (Burst - 1) * Spacing
  /\ Arrive(datagram)
  /\ crowd' = crowd + Spacing
  /\ UNCHANGED <<phase, waited, sinceSend, sinceHeard, sinceReport>>

Less(a, b) == IF a > b THEN a - b ELSE 0

\* t units pass, before the next report at the latest.
NetworkTime(t) ==
  /\ sinceReport + t <= Period
  /\ sinceReport' = sinceReport + t
  /\ crowd' = Less(crowd, t)

(***************************************************************************)
(* The loop.                                                               *)
(***************************************************************************)
\* Mutant: poll would tell only of what comes while it is waiting.
WaitingForNews == phase = "poll" /\ waited < PollTimeout

\* Mutant: poll would wait without a limit.
WaitingEndlessly == phase = "poll" /\ socket = <<>>

\* Mutant: an off-by-one in the limit.
WaitingOnce == phase = "poll" /\ socket = <<>> /\ waited <= PollTimeout

\* poll has nothing to report yet, and may wait.
Waiting == phase = "poll" /\ socket = <<>> /\ waited < PollTimeout

Wait ==
  /\ Waiting
  /\ waited' = waited + 1
  /\ NetworkTime(1)
  /\ sinceSend' = sinceSend + 1
  /\ sinceHeard' = sinceHeard + 1
  /\ UNCHANGED <<socket, phase>>

\* For the socket, the input device, or because it has waited long enough.
PollReturns ==
  /\ phase = "poll"
  /\ phase' = IF socket # <<>> THEN "drain" ELSE "rest"
  /\ waited' = 0
  /\ UNCHANGED <<socket, timers>>

\* One turn of receiveVehicleStates.  receive returns nothing on an empty
\* datagram, which ends the drain like an empty socket; what is no report is
\* skipped; a report makes the vehicle count as heard.
Receive(t) ==
  /\ phase = "drain"
  /\ socket # <<>>
  /\ socket' = Tail(socket)
  /\ phase' = IF Head(socket).empty THEN "rest" ELSE "drain"
  /\ NetworkTime(t)
  /\ sinceSend' = sinceSend + t
  /\ sinceHeard' = IF IsReport(Head(socket)) THEN 0 ELSE sinceHeard + t
  /\ UNCHANGED waited

Drained ==
  /\ phase = "drain"
  /\ socket = <<>>
  /\ phase' = "rest"
  /\ UNCHANGED <<socket, waited, timers>>

\* The device, the page and the checks; then the command, when it is due.
RestOfTurn(t) ==
  /\ phase = "rest"
  /\ phase' = "poll"
  /\ NetworkTime(t)
  /\ sinceSend' =
       IF sinceSend + t >= ControlInterval THEN 0 ELSE sinceSend + t
  /\ sinceHeard' = sinceHeard + t
  /\ UNCHANGED <<socket, waited>>

ChannelNext ==
  \/ VehicleReports
  \/ \E datagram \in Noise : OtherDatagram(datagram)
  \/ Wait \/ PollReturns \/ Drained
  \/ \E t \in 0 .. 1 : Receive(t) \/ RestOfTurn(t)

ChannelSpec == ChannelInit /\ [][ChannelNext]_channelVars

(***************************************************************************)
(* Properties.                                                             *)
(***************************************************************************)
\* The next command follows within the interval, one wait of poll and one busy
\* stretch of the socket, whatever arrives on the port meanwhile: turns without
\* end, or a wait without limit, would break it.  The interval of 20 ms alone, as
\* cockpit.cpp:89 puts it, is not kept: what wakes poll just before a command is
\* due lets the next turn wait its full timeout.
SendsOnTime == sinceSend <= ControlInterval + PollTimeout + Busy

\* A vehicle that reports in time stays online: neither what arrives between
\* its reports, nor a drain that ends before it has reached them, makes the
\* cache miss it for VehicleOnlineTimeout.
StaysOnline == sinceHeard < VehicleOnlineTimeout
=============================================================================
