----------------------------- MODULE InputDevice -----------------------------
(***************************************************************************)
(* InputDeviceReader and its InputEventProcessor on an evdev device.  The  *)
(* operator moves controls; the kernel queues the changes, a packet at a   *)
(* time, in a buffer of limited size for the process that has the device   *)
(* open; the reader, called once per turn of the event loop, takes them in *)
(* batches, applies one after the other to the state it keeps, and at the  *)
(* end of each packet adds the state to the frames it returns.  The device *)
(* goes on moving between any two of these steps.                          *)
(*                                                                         *)
(* When its buffer is full the kernel drops all that is in it, puts        *)
(* SYN_DROPPED there instead and goes on; the reader ignores that event.   *)
(* raw is what the device would answer if it was asked for its present     *)
(* state.  The reader only asks for the ranges of the axes.                *)
(***************************************************************************)
EXTENDS InputDeviceState, FiniteSets, Sequences

CONSTANTS
  Packets,      \* what may change at a time: sequences of events
  Starts,       \* the states the device may be in when it is opened
  DeviceRange,  \* the ranges the device gives for its axes
  BufferSize,   \* slots of the kernel's buffer, one of which stays free
  Batch,        \* events read at once, 64
  Dial,         \* the key whose clicks are counted
  MaxClicks,    \* bound of the clicks
  MaxFrames     \* bound of the frames of one call while the device moves on

AxisRange == [min: Int, max: Int]
Axis == {"ABS_X", "ABS_Y", "ABS_Z", "ABS_RZ"}
Hat == {"ABS_HAT0X", "ABS_HAT0Y"}

\* The keys the reader knows.  Any other key has no meaning to it.
ButtonOf ==
  [BTN_TRIGGER |-> "cross", BTN_THUMB |-> "square", BTN_THUMB2 |-> "circle",
   BTN_TOP |-> "triangle", BTN_TOP2 |-> "r1", BTN_PINKIE |-> "l1",
   BTN_BASE |-> "r2", BTN_BASE2 |-> "l2", BTN_BASE3 |-> "select",
   BTN_BASE4 |-> "start", BTN_BASE5 |-> "r3", BTN_BASE6 |-> "l3",
   BTN_NORTH |-> "plus", BTN_WEST |-> "minus",
   BTN_Z |-> "encoder_clockwise", BTN_TL |-> "encoder_counter_clockwise",
   BTN_TR |-> "encoder_confirm"]

KnownKey == DOMAIN ButtonOf
Key == KnownKey \cup {"BTN_GEAR_UP"}
Code == Axis \cup Hat \cup Key

Change == [type: {"EV_ABS"}, code: Axis \cup Hat, value: Int] \cup
          [type: {"EV_KEY"}, code: Key, value: {0, 1}]
Report == [type |-> "EV_SYN", code |-> "SYN_REPORT", value |-> 0]
Dropped == [type |-> "EV_SYN", code |-> "SYN_DROPPED", value |-> 0]
Event == Change \cup {Report, Dropped}

ASSUME InputAssumption ==
  /\ BufferSize \in Nat \ {0} /\ Batch \in Nat \ {0}
  /\ Packets \subseteq Seq(Change)
  /\ \A packet \in Packets :
       /\ packet # <<>> /\ Len(packet) + 2 < BufferSize
       /\ \A i, j \in DOMAIN packet : packet[i].code = packet[j].code => i = j
  /\ Starts \subseteq [Code -> Int]
  /\ DeviceRange \in [Axis -> AxisRange]
  /\ Dial \in KnownKey /\ MaxClicks \in Nat /\ MaxFrames \in Nat

VARIABLES
  phase,    \* where the reader is
  ranges,   \* steering_range_, throttle_range_, brake_range_, clutch_range_
  loaded,   \* how many of them loadAxisRanges has queried
  state,    \* state_
  hat,      \* hat_x_ and hat_y_
  events,   \* readStates' local array, what is left of it
  short,    \* the last read filled less than the array
  states,   \* readStates' local vector
  plugged,  \* the device is there
  raw,      \* what each control of the device is at
  buffer,   \* the kernel's buffer
  shown,    \* history: the last frame the caller got
  unseen,   \* history: the codes whose last change, if any, was not queued
  clicks    \* history: the presses of Dial that were made and shown, while
            \* nothing was dropped

reader == <<phase, ranges, loaded, state, hat, events, short, states>>
device == <<plugged, raw, buffer>>
vars == <<reader, device, shown, unseen, clicks>>

Opened == phase \in {"loading", "idle", "reading"}

TypeOK ==
  /\ phase \in {"new", "loading", "idle", "reading", "closed"}
  /\ ranges \in [Axis -> AxisRange]
  /\ loaded \in 0 .. 4
  /\ state \in Frame
  /\ hat \in [Hat -> Int]
  /\ events \in Seq(Event)
  /\ short \in BOOLEAN
  /\ states \in Seq(Frame)
  /\ plugged \in BOOLEAN
  /\ raw \in [Code -> Int]
  /\ buffer \in Seq(Event)
  /\ shown \in Frame
  /\ unseen \subseteq Code
  /\ clicks \in [made: Nat, shown: Nat, exact: BOOLEAN]

Init ==
  /\ phase = "new"
  /\ ranges = [c \in Axis |-> [min |-> 0, max |-> 0]]
  /\ loaded = 0
  /\ state = Released
  /\ hat = [c \in Hat |-> 0]
  /\ events = <<>> /\ short = FALSE /\ states = <<>>
  /\ plugged = TRUE
  /\ raw \in Starts
  /\ buffer = <<>>
  /\ shown = Released
  /\ unseen = Code
  /\ clicks = [made |-> 0, shown |-> 0, exact |-> TRUE]

(***************************************************************************)
(* InputEventProcessor.                                                    *)
(***************************************************************************)
Clamp(value, low, high) ==
  IF value < low THEN low ELSE IF value > high THEN high ELSE value

NormalizeSteering(value, r) ==
  IF r.min >= r.max THEN 0
  ELSE Clamp((100 * (2 * value - (r.min + r.max))) \div (r.max - r.min),
             -100, 100)

NormalizePedal(value, r) ==
  IF r.min >= r.max THEN 0
  ELSE Clamp((100 * (value - r.min)) \div (r.max - r.min), 0, 100)

\* Mutant for SeenChangesAreShown: down is taken for up.
HatToDirectionUpsideDown(x, y) ==
  CASE x = 0 /\ y = 0 -> "CENTER"
    [] x = 0 /\ y < 0 -> "DOWN"
    [] x = 0 /\ y > 0 -> "UP"
    [] x > 0 /\ y < 0 -> "DOWN_RIGHT"
    [] x > 0 /\ y = 0 -> "RIGHT"
    [] x > 0 /\ y > 0 -> "UP_RIGHT"
    [] x < 0 /\ y < 0 -> "DOWN_LEFT"
    [] x < 0 /\ y = 0 -> "LEFT"
    [] x < 0 /\ y > 0 -> "UP_LEFT"

HatToDirection(x, y) ==
  CASE x = 0 /\ y = 0 -> "CENTER"
    [] x = 0 /\ y < 0 -> "UP"
    [] x = 0 /\ y > 0 -> "DOWN"
    [] x > 0 /\ y < 0 -> "UP_RIGHT"
    [] x > 0 /\ y = 0 -> "RIGHT"
    [] x > 0 /\ y > 0 -> "DOWN_RIGHT"
    [] x < 0 /\ y < 0 -> "UP_LEFT"
    [] x < 0 /\ y = 0 -> "LEFT"
    [] x < 0 /\ y > 0 -> "DOWN_LEFT"

SetButton(frame, code, pressed) ==
  IF code \notin KnownKey THEN frame
  ELSE [frame EXCEPT !.pressed = IF pressed THEN @ \cup {ButtonOf[code]}
                                 ELSE @ \ {ButtonOf[code]}]

\* The part of consume that sets an axis of state_.
SetAxis(frame, code, value) ==
  CASE code = "ABS_X" ->
         [frame EXCEPT !.wheel = NormalizeSteering(value, ranges[code])]
    [] code = "ABS_Y" ->
         [frame EXCEPT !.accelerator = NormalizePedal(value, ranges[code])]
    [] code = "ABS_Z" ->
         [frame EXCEPT !.brake = NormalizePedal(value, ranges[code])]
    [] code = "ABS_RZ" ->
         [frame EXCEPT !.clutch = NormalizePedal(value, ranges[code])]

(***************************************************************************)
(* Opening and closing.                                                    *)
(***************************************************************************)
AxisOrder == <<"ABS_X", "ABS_Y", "ABS_Z", "ABS_RZ">>

\* Once the device is open the kernel queues events for the reader.
OpenDevice ==
  /\ phase = "new"
  /\ phase' = IF plugged THEN "loading" ELSE "closed"
  /\ UNCHANGED <<ranges, loaded, state, hat, events, short, states, device,
                 shown, unseen, clicks>>

\* Mutant for AxesFollowTheirRange: setAxisRange stores the clutch's range for
\* the brake too.
LoadAxisRangeMixed ==
  /\ phase = "loading" /\ plugged /\ loaded < 4
  /\ LET code == AxisOrder[loaded + 1]
         r == DeviceRange[code]
     IN  IF r.min < r.max
         THEN /\ ranges' = [c \in Axis |->
                              IF c = code \/ (code = "ABS_RZ" /\ c = "ABS_Z")
                              THEN r ELSE ranges[c]]
              /\ loaded' = loaded + 1
              /\ phase' = IF loaded' = 4 THEN "idle" ELSE "loading"
              /\ UNCHANGED buffer
         ELSE /\ phase' = "closed" /\ buffer' = <<>>
              /\ UNCHANGED <<ranges, loaded>>
  /\ UNCHANGED <<state, hat, events, short, states, plugged, raw, shown, unseen,
                 clicks>>

\* One iteration of loadAxisRanges; openDevice fails on an empty range.
LoadAxisRange ==
  /\ phase = "loading" /\ plugged /\ loaded < 4
  /\ LET code == AxisOrder[loaded + 1]
         r == DeviceRange[code]
     IN  IF r.min < r.max
         THEN /\ ranges' = [ranges EXCEPT ![code] = r]
              /\ loaded' = loaded + 1
              /\ phase' = IF loaded' = 4 THEN "idle" ELSE "loading"
              /\ UNCHANGED buffer
         ELSE /\ phase' = "closed" /\ buffer' = <<>>
              /\ UNCHANGED <<ranges, loaded>>
  /\ UNCHANGED <<state, hat, events, short, states, plugged, raw, shown, unseen,
                 clicks>>

\* The query of a range fails because the device is gone, or the loop closes a
\* device that poll reports as gone.
CloseDevice ==
  /\ phase \in {"loading", "idle"} /\ ~plugged
  /\ phase' = "closed"
  /\ buffer' = <<>>
  /\ UNCHANGED <<ranges, loaded, state, hat, events, short, states, plugged, raw,
                 shown, unseen, clicks>>

(***************************************************************************)
(* readStates.                                                             *)
(***************************************************************************)
StartReading ==
  /\ phase = "idle"
  /\ buffer # <<>>
  /\ phase' = "reading"
  /\ short' = FALSE
  /\ UNCHANGED <<ranges, loaded, state, hat, events, states, device, shown,
                 unseen, clicks>>

\* One read that finds events.
ReadBatch ==
  LET count == IF Len(buffer) < Batch THEN Len(buffer) ELSE Batch
  IN  /\ phase = "reading" /\ plugged
      /\ events = <<>> /\ ~short /\ buffer # <<>>
      /\ events' = SubSeq(buffer, 1, count)
      /\ buffer' = SubSeq(buffer, count + 1, Len(buffer))
      /\ short' = (count < Batch)
      /\ UNCHANGED <<phase, ranges, loaded, state, hat, states, plugged, raw,
                     shown, unseen, clicks>>

\* consume, on the next event of the array.
Consume ==
  /\ phase = "reading"
  /\ events # <<>>
  /\ events' = Tail(events)
  /\ LET event == Head(events)
     IN  \/ /\ event.type = "EV_ABS" /\ event.code \in Axis
            /\ state' = SetAxis(state, event.code, event.value)
            /\ UNCHANGED <<hat, states>>
         \/ /\ event.type = "EV_ABS" /\ event.code \in Hat
            /\ hat' = [hat EXCEPT ![event.code] = event.value]
            /\ state' = [state EXCEPT !.pov =
                           HatToDirection(hat'["ABS_HAT0X"], hat'["ABS_HAT0Y"])]
            /\ UNCHANGED states
         \/ /\ event.type = "EV_KEY"
            /\ state' = SetButton(state, event.code, event.value # 0)
            /\ UNCHANGED <<hat, states>>
         \/ /\ event = Report
            /\ states' = Append(states, state)
            /\ UNCHANGED <<state, hat>>
         \/ /\ event = Dropped
            /\ UNCHANGED <<state, hat, states>>
  /\ UNCHANGED <<phase, ranges, loaded, short, device, shown, unseen, clicks>>

\* How often Dial rises in the frames, as the command generator sees it.
Rises(frames) ==
  LET before(i) == IF i = 1 THEN shown ELSE frames[i - 1]
  IN  Cardinality({i \in DOMAIN frames :
                     ButtonOf[Dial] \in frames[i].pressed \ before(i).pressed})

\* Mutant for ClicksAreShown: only the latest frame is returned.
ReturnLatest ==
  /\ phase = "reading" /\ events = <<>>
  /\ short \/ buffer = <<>> \/ ~plugged
  /\ phase' = "idle"
  /\ states' = <<>>
  /\ shown' = IF states = <<>> THEN shown ELSE states[Len(states)]
  /\ clicks' = IF ~clicks.exact \/ states = <<>> THEN clicks
               ELSE [clicks EXCEPT !.shown = @ + Rises(<<states[Len(states)]>>)]
  /\ UNCHANGED <<ranges, loaded, state, hat, events, short, device, unseen>>

\* readStates returns: after a short read, an empty one or one that failed
\* because the device is gone.
Return ==
  /\ phase = "reading" /\ events = <<>>
  /\ short \/ buffer = <<>> \/ ~plugged
  /\ phase' = "idle"
  /\ states' = <<>>
  /\ shown' = IF states = <<>> THEN shown ELSE states[Len(states)]
  /\ clicks' = IF clicks.exact
               THEN [clicks EXCEPT !.shown = @ + Rises(states)] ELSE clicks
  /\ UNCHANGED <<ranges, loaded, state, hat, events, short, device, unseen>>

(***************************************************************************)
(* The device and the kernel.                                              *)
(***************************************************************************)
Codes(sequence) == {sequence[i].code : i \in DOMAIN sequence}

Moved(packet) ==
  [c \in Code |-> IF \E i \in DOMAIN packet : packet[i].code = c
                  THEN LET i == CHOOSE i \in DOMAIN packet : packet[i].code = c
                       IN  packet[i].value
                  ELSE raw[c]]

Presses(packet) ==
  IF \E i \in DOMAIN packet : packet[i].code = Dial /\ packet[i].value = 1
  THEN 1 ELSE 0

\* The kernel only reports controls that did change.
Move(packet) ==
  /\ plugged /\ Opened /\ Len(states) < MaxFrames
  /\ \A i \in DOMAIN packet : packet[i].value # raw[packet[i].code]
  /\ raw' = Moved(packet)
  /\ UNCHANGED <<phase, ranges, loaded, state, hat, events, short, states,
                 plugged, shown>>

MoveQueued(packet) ==
  /\ Move(packet)
  /\ clicks.made + Presses(packet) <= MaxClicks
  /\ Len(buffer) + Len(packet) + 1 < BufferSize
  /\ buffer' = buffer \o Append(packet, Report)
  /\ unseen' = unseen \ Codes(packet)
  /\ clicks' = IF clicks.exact
               THEN [clicks EXCEPT !.made = @ + Presses(packet)] ELSE clicks

\* The buffer overflows: what it held and the events of the packet that still
\* had room are gone, the rest of the packet is kept.
MoveOverflowing(packet) ==
  LET whole == Append(packet, Report)
      first == BufferSize - Len(buffer)
      kept == SubSeq(whole, first, Len(whole))
  IN  /\ Move(packet)
      /\ Len(buffer) + Len(whole) >= BufferSize
      /\ buffer' = <<Dropped>> \o kept
      /\ unseen' = ((unseen \cup Codes(buffer) \cup Codes(packet)) \ Codes(kept))
                     \cap Code
      /\ clicks' = [made |-> 0, shown |-> 0, exact |-> FALSE]

Unplug ==
  /\ plugged
  /\ plugged' = FALSE
  /\ UNCHANGED <<reader, raw, buffer, shown, unseen, clicks>>

Next ==
  \/ OpenDevice \/ LoadAxisRange \/ CloseDevice
  \/ StartReading \/ ReadBatch \/ Consume \/ Return
  \/ \E packet \in Packets : MoveQueued(packet) \/ MoveOverflowing(packet)
  \/ Unplug

Spec == Init /\ [][Next]_vars

(***************************************************************************)
(* Properties.                                                             *)
(***************************************************************************)
\* What a frame says about a control agrees with where the control is.  A hat is
\* read as the command generator reads it: up, left or right.
PovDown == {"DOWN", "DOWN_LEFT", "DOWN_RIGHT"}

Shows(frame, c) ==
  /\ c = "ABS_X" => frame.wheel = NormalizeSteering(raw[c], DeviceRange[c])
  /\ c = "ABS_Y" => frame.accelerator = NormalizePedal(raw[c], DeviceRange[c])
  /\ c = "ABS_Z" => frame.brake = NormalizePedal(raw[c], DeviceRange[c])
  /\ c = "ABS_RZ" => frame.clutch = NormalizePedal(raw[c], DeviceRange[c])
  /\ c = "ABS_HAT0X" =>
       /\ frame.pov \in PovLeft <=> raw[c] < 0
       /\ frame.pov \in PovRight <=> raw[c] > 0
  /\ c = "ABS_HAT0Y" =>
       /\ frame.pov \in PovUp <=> raw[c] < 0
       /\ frame.pov \in PovDown <=> raw[c] > 0
  /\ c \in KnownKey => (ButtonOf[c] \in frame.pressed <=> raw[c] # 0)

\* The caller has taken all there was.
Drained == phase = "idle" /\ buffer = <<>>

\* Once all is read, the last frame shows every control as it is, except those
\* whose last change was dropped by the kernel and those that have not moved
\* since the device was opened; however packets, batches and overflows fall.  A
\* control that was missed is right again as soon as it moves.  The exceptions are
\* real: "the complete state" is promised at SYN_REPORT, but SYN_DROPPED is
\* ignored and the positions at the start are not asked for.
SeenChangesAreShown ==
  Drained => \A c \in Code \ unseen : Shows(shown, c)

\* As long as nothing was dropped, every press of the dial, however short, is a
\* rise the command generator sees, also when it was pressed and let go between
\* two calls of readStates.
ClicksAreShown ==
  Drained /\ clicks.exact => clicks.shown = clicks.made

\* Each axis is scaled by the range the device gave for it: its ends are the ends
\* of the frame's scale, values beyond them are clamped, and between them the
\* result is exact to the percent.
AxesFollowTheirRange ==
  phase \in {"idle", "reading"} =>
    \A c \in Axis :
      LET r == DeviceRange[c]
          low == IF c = "ABS_X" THEN -100 ELSE 0
          Scaled(v) == IF c = "ABS_X" THEN NormalizeSteering(v, ranges[c])
                       ELSE NormalizePedal(v, ranges[c])
      IN  /\ Scaled(r.min - 1) = low /\ Scaled(r.max + 1) = 100
          /\ \A v \in r.min .. r.max :
               (v - r.min) * (100 - low) - (Scaled(v) - low) * (r.max - r.min)
                 \in 0 .. r.max - r.min - 1
=============================================================================
