----------------------------- MODULE InputProofs -----------------------------
(***************************************************************************)
(* What the frames of the input device show, for every device, buffer and  *)
(* batch size.  The argument follows a change from the kernel's buffer     *)
(* through the array of the reader into the state it keeps: the last       *)
(* change of a control that was queued is in exactly one of the three.  A  *)
(* press of the dial is followed further, into the frame that shows it: no *)
(* frame has two changes of the dial (Spaced), so that none hides another. *)
(***************************************************************************)
EXTENDS InputDevice, FiniteSetTheorems, SequenceTheorems, TLAPS

(***************************************************************************)
(* The inductive invariant.                                                *)
(***************************************************************************)
\* Only readStates holds events and frames of its own.
LocalsInv == phase # "reading" => events = <<>> /\ states = <<>>

\* The ranges that have been queried are the device's.
RangesInv ==
  /\ phase = "loading" =>
       \A i \in 1 .. 4 : i <= loaded =>
         ranges[AxisOrder[i]] = DeviceRange[AxisOrder[i]]
  /\ phase \in {"idle", "reading"} =>
       \A c \in Axis : ranges[c] = DeviceRange[c]

BufferInv == Len(buffer) < BufferSize

PovInv == state.pov = HatToDirection(hat["ABS_HAT0X"], hat["ABS_HAT0Y"])

\* A packet is complete once its last event is there.
Complete(sequence) == sequence # <<>> => sequence[Len(sequence)] = Report

PacketInv == Complete(buffer) /\ (buffer = <<>> => Complete(events))

\* With nothing left to consume, the last frame is the state.
LatestInv ==
  phase # "closed" /\ events = <<>> /\ buffer = <<>> =>
    state = IF states = <<>> THEN shown ELSE states[Len(states)]

\* The last change of c in the sequence is to v.
Ends(sequence, c, v) ==
  \E i \in 1 .. Len(sequence) :
    /\ sequence[i].code = c /\ sequence[i].value = v
    /\ \A j \in i + 1 .. Len(sequence) : sequence[j].code # c

Without(sequence, c) == \A i \in 1 .. Len(sequence) : sequence[i].code # c

\* The reader's state agrees with where the control is.
Kept(c) ==
  /\ c = "ABS_X" => state.wheel = NormalizeSteering(raw[c], DeviceRange[c])
  /\ c = "ABS_Y" => state.accelerator = NormalizePedal(raw[c], DeviceRange[c])
  /\ c = "ABS_Z" => state.brake = NormalizePedal(raw[c], DeviceRange[c])
  /\ c = "ABS_RZ" => state.clutch = NormalizePedal(raw[c], DeviceRange[c])
  /\ c \in Hat => hat[c] = raw[c]
  /\ c \in KnownKey => (ButtonOf[c] \in state.pressed <=> raw[c] # 0)

\* Where the last change of c is.
Followed(c) ==
  \/ Ends(buffer, c, raw[c])
  \/ Without(buffer, c) /\ Ends(events, c, raw[c])
  \/ Without(buffer, c) /\ Without(events, c) /\ Kept(c)

FollowedInv == Opened => \A c \in Code \ unseen : Followed(c)

NewInv == phase = "new" => loaded = 0 /\ unseen = Code /\ buffer = <<>>

IInv ==
  /\ TypeOK /\ LocalsInv /\ RangesInv /\ BufferInv /\ PovInv /\ PacketInv
  /\ LatestInv /\ FollowedInv /\ NewInv

(***************************************************************************)
(* Buttons and axes.                                                       *)
(***************************************************************************)
LEMMA Keys ==
  /\ KnownKey \subseteq Key
  /\ ButtonOf \in [KnownKey -> Button]
  /\ \A c, d \in KnownKey : ButtonOf[c] = ButtonOf[d] => c = d
BY DEF KnownKey, Key, ButtonOf, Button

LEMMA CodesApart ==
  /\ Axis \cap Hat = {} /\ Axis \cap Key = {} /\ Hat \cap Key = {}
  /\ "SYN_REPORT" \notin Code /\ "SYN_DROPPED" \notin Code
BY DEF Axis, Hat, Key, Code, KnownKey, ButtonOf

LEMMA Quotient ==
  ASSUME NEW a \in Int, NEW b \in Int, b > 0
  PROVE  a \div b \in Int
OBVIOUS

LEMMA Normalized ==
  ASSUME NEW value \in Int, NEW r \in AxisRange
  PROVE  /\ NormalizeSteering(value, r) \in -100 .. 100
         /\ NormalizePedal(value, r) \in 0 .. 100
<1>1. r.min \in Int /\ r.max \in Int
  BY DEF AxisRange
<1>2. CASE r.min >= r.max
  BY <1>1, <1>2 DEF NormalizeSteering, NormalizePedal
<1>3. CASE ~ (r.min >= r.max)
  <2> DEFINE a == 100 * (2 * value - (r.min + r.max))
             b == 100 * (value - r.min)
             n == r.max - r.min
  <2>1. a \in Int /\ b \in Int /\ n \in Int /\ n > 0
    BY <1>1, <1>3
  <2> DEFINE steering == a \div n
             pedal == b \div n
  <2>2. steering \in Int /\ pedal \in Int
    <3> HIDE DEF a, b, n
    <3> QED BY <2>1, Quotient
  <2>3. /\ NormalizeSteering(value, r) = Clamp(steering, -100, 100)
        /\ NormalizePedal(value, r) = Clamp(pedal, 0, 100)
    BY <1>3 DEF NormalizeSteering, NormalizePedal
  <2> HIDE DEF steering, pedal
  <2> QED BY <2>2, <2>3 DEF Clamp
<1> QED BY <1>2, <1>3

LEMMA Directions ==
  ASSUME NEW x \in Int, NEW y \in Int
  PROVE  LET d == HatToDirection(x, y)
         IN  /\ d \in PovDirection
             /\ d \in PovLeft <=> x < 0
             /\ d \in PovRight <=> x > 0
             /\ d \in PovUp <=> y < 0
             /\ d \in PovDown <=> y > 0
<1> USE DEF PovDirection, PovLeft, PovRight, PovUp, PovDown
<1>1. CASE x = 0 /\ y = 0
  <2>1. HatToDirection(x, y) = "CENTER" BY <1>1 DEF HatToDirection
  <2> QED BY <1>1, <2>1
<1>2. CASE x = 0 /\ y < 0
  <2>1. HatToDirection(x, y) = "UP" BY <1>2 DEF HatToDirection
  <2> QED BY <1>2, <2>1
<1>3. CASE x = 0 /\ y > 0
  <2>1. HatToDirection(x, y) = "DOWN" BY <1>3 DEF HatToDirection
  <2> QED BY <1>3, <2>1
<1>4. CASE x > 0 /\ y < 0
  <2>1. HatToDirection(x, y) = "UP_RIGHT" BY <1>4 DEF HatToDirection
  <2> QED BY <1>4, <2>1
<1>5. CASE x > 0 /\ y = 0
  <2>1. HatToDirection(x, y) = "RIGHT" BY <1>5 DEF HatToDirection
  <2> QED BY <1>5, <2>1
<1>6. CASE x > 0 /\ y > 0
  <2>1. HatToDirection(x, y) = "DOWN_RIGHT" BY <1>6 DEF HatToDirection
  <2> QED BY <1>6, <2>1
<1>7. CASE x < 0 /\ y < 0
  <2>1. HatToDirection(x, y) = "UP_LEFT" BY <1>7 DEF HatToDirection
  <2> QED BY <1>7, <2>1
<1>8. CASE x < 0 /\ y = 0
  <2>1. HatToDirection(x, y) = "LEFT" BY <1>8 DEF HatToDirection
  <2> QED BY <1>8, <2>1
<1>9. CASE x < 0 /\ y > 0
  <2>1. HatToDirection(x, y) = "DOWN_LEFT" BY <1>9 DEF HatToDirection
  <2> QED BY <1>9, <2>1
<1> QED BY <1>1, <1>2, <1>3, <1>4, <1>5, <1>6, <1>7, <1>8, <1>9

(***************************************************************************)
(* Sequences of events.                                                    *)
(***************************************************************************)
LEMMA TailEnds ==
  ASSUME NEW S, NEW s \in Seq(S), s # <<>>, NEW c, NEW v
  PROVE  /\ Without(s, c) => Head(s).code # c /\ Without(Tail(s), c)
         /\ Ends(s, c, v) =>
              \/ Ends(Tail(s), c, v)
              \/ /\ Head(s).code = c /\ Head(s).value = v
                 /\ Without(Tail(s), c)
<1>1. /\ Tail(s) \in Seq(S) /\ Len(Tail(s)) = Len(s) - 1 /\ Len(s) \in Nat
      /\ \A i \in 1 .. Len(s) - 1 : Tail(s)[i] = s[i + 1]
      /\ Head(s) = s[1] /\ Len(s) > 0
  OBVIOUS
<1>2. ASSUME Without(s, c)
      PROVE  Head(s).code # c /\ Without(Tail(s), c)
  BY <1>1, <1>2 DEF Without
<1>3. ASSUME Ends(s, c, v)
      PROVE  \/ Ends(Tail(s), c, v)
             \/ /\ Head(s).code = c /\ Head(s).value = v
                /\ Without(Tail(s), c)
  <2>1. PICK i \in 1 .. Len(s) :
          /\ s[i].code = c /\ s[i].value = v
          /\ \A j \in i + 1 .. Len(s) : s[j].code # c
    BY <1>3 DEF Ends
  <2>2. CASE i = 1
    BY <1>1, <2>1, <2>2 DEF Without
  <2>3. CASE i # 1
    <3>1. /\ i - 1 \in 1 .. Len(Tail(s))
          /\ Tail(s)[i - 1] = s[i]
      BY <1>1, <2>3
    <3>2. \A j \in (i - 1) + 1 .. Len(Tail(s)) : Tail(s)[j].code # c
      BY <1>1, <2>1
    <3> QED BY <2>1, <3>1, <3>2 DEF Ends
  <2> QED BY <2>2, <2>3
<1> QED BY <1>2, <1>3

LEMMA SplitEnds ==
  ASSUME NEW S, NEW s \in Seq(S), NEW n \in 0 .. Len(s), NEW c, NEW v
  PROVE  LET pre == SubSeq(s, 1, n)
             post == SubSeq(s, n + 1, Len(s))
         IN  /\ pre \in Seq(S) /\ post \in Seq(S)
             /\ Len(pre) = n /\ Len(post) = Len(s) - n
             /\ Without(s, c) => Without(pre, c) /\ Without(post, c)
             /\ Ends(s, c, v) =>
                  Ends(post, c, v) \/ (Ends(pre, c, v) /\ Without(post, c))
<1> DEFINE pre == SubSeq(s, 1, n)
           post == SubSeq(s, n + 1, Len(s))
<1>1. /\ pre \in Seq(S) /\ Len(pre) = n
      /\ \A i \in 1 .. n : pre[i] = s[i]
  OBVIOUS
<1>2. /\ post \in Seq(S) /\ Len(post) = Len(s) - n
      /\ \A i \in 1 .. Len(s) - n : post[i] = s[n + i]
  OBVIOUS
<1>3. Without(s, c) => Without(pre, c) /\ Without(post, c)
  BY <1>1, <1>2 DEF Without
<1>4. ASSUME Ends(s, c, v)
      PROVE  Ends(post, c, v) \/ (Ends(pre, c, v) /\ Without(post, c))
  <2>1. PICK i \in 1 .. Len(s) :
          /\ s[i].code = c /\ s[i].value = v
          /\ \A j \in i + 1 .. Len(s) : s[j].code # c
    BY <1>4 DEF Ends
  <2>2. CASE i <= n
    <3>1. Ends(pre, c, v)
      BY <1>1, <2>1, <2>2 DEF Ends
    <3>2. Without(post, c)
      <4> SUFFICES ASSUME NEW j \in 1 .. Len(post)
                   PROVE  post[j].code # c
        BY DEF Without
      <4>1. post[j] = s[n + j] /\ n + j \in i + 1 .. Len(s)
        BY <1>2, <2>2
      <4> QED BY <2>1, <4>1
    <3> QED BY <3>1, <3>2
  <2>3. CASE i > n
    <3>1. /\ i - n \in 1 .. Len(post) /\ post[i - n] = s[i]
          /\ \A j \in (i - n) + 1 .. Len(post) : post[j].code # c
      BY <1>2, <2>1, <2>3
    <3> QED BY <2>1, <3>1 DEF Ends
  <2> QED BY <2>2, <2>3
<1> QED BY <1>1, <1>2, <1>3, <1>4

\* After a packet the kernel has queued, or part of one that it kept.
LEMMA JoinEnds ==
  ASSUME NEW S, NEW s \in Seq(S), NEW t \in Seq(S), NEW c, NEW v
  PROVE  /\ s \o t \in Seq(S) /\ Len(s \o t) = Len(s) + Len(t)
         /\ Ends(t, c, v) => Ends(s \o t, c, v)
         /\ Without(t, c) /\ Ends(s, c, v) => Ends(s \o t, c, v)
         /\ Without(t, c) /\ Without(s, c) => Without(s \o t, c)
<1> DEFINE u == s \o t
<1>1. /\ u \in Seq(S) /\ Len(u) = Len(s) + Len(t)
      /\ Len(s) \in Nat /\ Len(t) \in Nat
      /\ \A i \in 1 .. Len(s) : u[i] = s[i]
      /\ \A i \in 1 .. Len(t) : u[Len(s) + i] = t[i]
  OBVIOUS
<1>2. ASSUME NEW i \in 1 .. Len(u), i > Len(s)
      PROVE  i - Len(s) \in 1 .. Len(t) /\ u[i] = t[i - Len(s)]
  <2>1. i - Len(s) \in 1 .. Len(t)
    BY <1>1, <1>2
  <2>2. u[Len(s) + (i - Len(s))] = t[i - Len(s)]
    BY <1>1, <2>1
  <2> QED BY <1>1, <2>1, <2>2
<1> HIDE DEF u
<1>3. ASSUME Ends(t, c, v)
      PROVE  Ends(u, c, v)
  <2>1. PICK i \in 1 .. Len(t) :
          /\ t[i].code = c /\ t[i].value = v
          /\ \A j \in i + 1 .. Len(t) : t[j].code # c
    BY <1>3 DEF Ends
  <2>2. Len(s) + i \in 1 .. Len(u) /\ u[Len(s) + i] = t[i]
    BY <1>1
  <2>3. ASSUME NEW j \in (Len(s) + i) + 1 .. Len(u)
        PROVE  u[j].code # c
    <3>1. j \in 1 .. Len(u) /\ j > Len(s) /\ j - Len(s) \in i + 1 .. Len(t)
      BY <1>1
    <3> QED BY <1>2, <2>1, <3>1
  <2> QED BY <2>1, <2>2, <2>3 DEF Ends
<1>4. ASSUME Without(t, c), Ends(s, c, v)
      PROVE  Ends(u, c, v)
  <2>1. PICK i \in 1 .. Len(s) :
          /\ s[i].code = c /\ s[i].value = v
          /\ \A j \in i + 1 .. Len(s) : s[j].code # c
    BY <1>4 DEF Ends
  <2>2. i \in 1 .. Len(u) /\ u[i] = s[i]
    BY <1>1
  <2>3. ASSUME NEW j \in i + 1 .. Len(u)
        PROVE  u[j].code # c
    <3>1. CASE j <= Len(s)
      BY <1>1, <2>1, <3>1
    <3>2. CASE j > Len(s)
      <4>1. j \in 1 .. Len(u)
        BY <1>1, <2>2
      <4>2. j - Len(s) \in 1 .. Len(t) /\ u[j] = t[j - Len(s)]
        BY <1>2, <3>2, <4>1
      <4> QED BY <1>4, <4>2 DEF Without
    <3> QED BY <1>1, <3>1, <3>2
  <2> QED BY <2>1, <2>2, <2>3 DEF Ends
<1>5. ASSUME Without(t, c), Without(s, c)
      PROVE  Without(u, c)
  <2> SUFFICES ASSUME NEW j \in 1 .. Len(u)
               PROVE  u[j].code # c
    BY DEF Without
  <2>1. CASE j <= Len(s)
    BY <1>1, <1>5, <2>1 DEF Without
  <2>2. CASE j > Len(s)
    BY <1>1, <1>2, <1>5, <2>2 DEF Without
  <2> QED BY <1>1, <2>1, <2>2
<1> QED BY <1>1, <1>3, <1>4, <1>5 DEF u

LEMMA CodesOf ==
  ASSUME NEW S, NEW s \in Seq(S), NEW c, c \notin Codes(s)
  PROVE  Without(s, c)
BY DEF Codes, Without

(***************************************************************************)
(* Packets.                                                                *)
(***************************************************************************)
\* The end of a packet, from some event on, as the kernel queues it.
LEMMA PacketEnds ==
  ASSUME NEW packet \in Packets, NEW first \in 1 .. Len(packet) + 1,
         TypeOK, NEW c \in Code
  PROVE  LET whole == Append(packet, Report)
             kept == SubSeq(whole, first, Len(whole))
         IN  /\ whole \in Seq(Event) /\ Len(whole) = Len(packet) + 1
             /\ kept \in Seq(Event) /\ Len(kept) = Len(packet) + 2 - first
             /\ kept[Len(kept)] = Report
             /\ c \in Codes(kept) => Ends(kept, c, Moved(packet)[c])
             /\ c \notin Codes(packet) => Moved(packet)[c] = raw[c]
<1> DEFINE whole == Append(packet, Report)
           kept == SubSeq(whole, first, Len(whole))
           d == first - 1
<1>1. /\ packet \in Seq(Change) /\ Len(packet) \in Nat
      /\ \A i, j \in 1 .. Len(packet) :
           packet[i].code = packet[j].code => i = j
  BY InputAssumption
<1>2. packet \in Seq(Event) /\ Report \in Event
  BY <1>1 DEF Event
<1>3. /\ whole \in Seq(Event) /\ Len(whole) = Len(packet) + 1
      /\ \A i \in 1 .. Len(packet) : whole[i] = packet[i]
      /\ whole[Len(packet) + 1] = Report
  BY <1>1, <1>2
<1> HIDE DEF whole
<1>4. /\ kept \in Seq(Event) /\ Len(kept) = Len(packet) + 1 - d
      /\ \A i \in 1 .. Len(packet) + 1 - d : kept[i] = whole[i + d]
  <2>1. /\ kept \in Seq(Event) /\ Len(kept) = Len(whole) - first + 1
        /\ \A i \in 1 .. Len(whole) - first + 1 : kept[i] = whole[first + i - 1]
    BY <1>1, <1>3
  <2> QED BY <1>1, <1>3, <2>1
<1>8. /\ d \in Nat /\ Len(packet) \in Nat /\ Len(kept) \in Nat
      /\ d <= Len(packet) /\ Len(kept) = Len(packet) + 1 - d
  BY <1>1, <1>4
<1> HIDE DEF kept, d
<1>5. kept[Len(kept)] = Report
  BY <1>8, <1>3, <1>4
<1>6. ASSUME c \notin Codes(packet)
      PROVE  Moved(packet)[c] = raw[c]
  BY <1>6 DEF Codes, Moved
<1>7. ASSUME c \in Codes(kept)
      PROVE  Ends(kept, c, Moved(packet)[c])
  <2>1. PICK i \in 1 .. Len(kept) : kept[i].code = c
    BY <1>4, <1>7 DEF Codes
  <2>2. i # Len(kept)
    BY <1>5, <2>1, CodesApart DEF Report
  <2>3. i + d \in 1 .. Len(packet) /\ kept[i] = packet[i + d]
    <3>1. i \in 1 .. Len(packet) + 1 - d /\ i + d \in 1 .. Len(packet)
      BY <1>8, <2>2
    <3>2. kept[i] = whole[i + d] /\ whole[i + d] = packet[i + d]
      BY <1>3, <1>4, <3>1
    <3> QED BY <3>1, <3>2
  <2>4. Moved(packet)[c] = packet[i + d].value
    <3>1. \A k \in DOMAIN packet : packet[k].code = c => k = i + d
      BY <1>1, <2>1, <2>3
    <3>2. (CHOOSE k \in DOMAIN packet : packet[k].code = c) = i + d
      BY <1>1, <2>1, <2>3, <3>1
    <3>3. i + d \in DOMAIN packet /\ packet[i + d].code = c
      BY <1>1, <2>1, <2>3
    <3> QED BY <3>2, <3>3 DEF Moved
  <2>5. ASSUME NEW j \in i + 1 .. Len(kept)
        PROVE  kept[j].code # c
    <3>1. CASE j = Len(kept)
      BY <1>5, <3>1, CodesApart DEF Report
    <3>2. CASE j # Len(kept)
      <4>1. j \in 1 .. Len(packet) + 1 - d /\ j + d \in 1 .. Len(packet)
        BY <1>8, <2>1, <3>2
      <4>2. kept[j] = whole[j + d] /\ whole[j + d] = packet[j + d]
        BY <1>3, <1>4, <4>1
      <4> QED BY <1>1, <1>8, <2>1, <2>3, <4>1, <4>2
    <3> QED BY <3>1, <3>2
  <2> QED BY <2>1, <2>3, <2>4, <2>5 DEF Ends
<1> QED BY <1>3, <1>4, <1>5, <1>6, <1>7, <1>1 DEF whole, kept, d

(***************************************************************************)
(* The initial state.                                                      *)
(***************************************************************************)
LEMMA InitHolds == Init => IInv
<1> SUFFICES ASSUME Init PROVE IInv
  OBVIOUS
<1>1. Released \in Frame
  BY DEF Released, Frame, PovDirection
<1>2. raw \in [Code -> Int]
  BY InputAssumption DEF Init
<1>3. TypeOK
  <2>1. ranges \in [Axis -> AxisRange] /\ hat \in [Hat -> Int]
    BY DEF Init, AxisRange
  <2>2. clicks \in [made: Nat, shown: Nat, exact: BOOLEAN]
    BY DEF Init
  <2>3. events \in Seq(Event) /\ states \in Seq(Frame) /\ buffer \in Seq(Event)
    BY DEF Init
  <2>4. /\ phase = "new" /\ loaded = 0 /\ state = Released
        /\ shown = Released /\ unseen = Code
    BY DEF Init
  <2>5. short \in BOOLEAN /\ plugged \in BOOLEAN
    BY DEF Init
  <2> QED BY <1>1, <1>2, <2>1, <2>2, <2>3, <2>4, <2>5 DEF TypeOK
<1>4. PovInv
  BY DEF Init, PovInv, Released, HatToDirection, Hat
<1>5. BufferInv
  BY InputAssumption DEF Init, BufferInv
<1>6. LocalsInv /\ RangesInv /\ PacketInv /\ LatestInv /\ FollowedInv /\ NewInv
  BY DEF Init, LocalsInv, RangesInv, PacketInv, Complete, LatestInv,
         FollowedInv, Opened, NewInv
<1> QED BY <1>3, <1>4, <1>5, <1>6 DEF IInv

(***************************************************************************)
(* Opening and closing.                                                    *)
(***************************************************************************)
\* Steps that leave alone what a change passes through.
LEMMA FollowedKept ==
  ASSUME FollowedInv, Opened,
         UNCHANGED <<state, hat, events, buffer, raw, unseen>>
  PROVE  FollowedInv'
BY DEF FollowedInv, Followed, Kept

LEMMA OpenKeeps == IInv /\ OpenDevice => IInv'
<1> SUFFICES ASSUME IInv, OpenDevice PROVE IInv'
  OBVIOUS
<1> USE DEF OpenDevice, device
<1>1. TypeOK'
  BY DEF IInv, TypeOK
<1>2. FollowedInv'
  BY DEF IInv, NewInv, FollowedInv
<1>3. RangesInv'
  BY DEF IInv, TypeOK, RangesInv, NewInv
<1>4. /\ LocalsInv' /\ BufferInv' /\ PovInv' /\ PacketInv' /\ LatestInv'
      /\ NewInv'
  BY DEF IInv, LocalsInv, BufferInv, PovInv, PacketInv, Complete, LatestInv,
         NewInv
<1> QED BY <1>1, <1>2, <1>3, <1>4 DEF IInv

LEMMA LoadKeeps == IInv /\ LoadAxisRange => IInv'
<1> SUFFICES ASSUME IInv, LoadAxisRange PROVE IInv'
  OBVIOUS
<1> DEFINE code == AxisOrder[loaded + 1]
<1>1. /\ phase = "loading" /\ loaded \in 0 .. 3
      /\ code \in Axis /\ DeviceRange[code] \in AxisRange
      /\ UNCHANGED <<state, hat, events, short, states, plugged, raw, shown,
                     unseen, clicks>>
  BY InputAssumption DEF IInv, TypeOK, LoadAxisRange, AxisOrder, Axis
<1>2. CASE DeviceRange[code].min < DeviceRange[code].max
  <2>1. /\ ranges' = [ranges EXCEPT ![code] = DeviceRange[code]]
        /\ loaded' = loaded + 1
        /\ phase' = IF loaded' = 4 THEN "idle" ELSE "loading"
        /\ UNCHANGED buffer
    BY <1>2 DEF LoadAxisRange
  <2>2. TypeOK'
    BY <1>1, <2>1 DEF IInv, TypeOK
  <2>3. \A i \in 1 .. 4 : i <= loaded' =>
          ranges'[AxisOrder[i]] = DeviceRange[AxisOrder[i]]
    <3> SUFFICES ASSUME NEW i \in 1 .. 4, i <= loaded + 1
                 PROVE  ranges'[AxisOrder[i]] = DeviceRange[AxisOrder[i]]
      BY <2>1
    <3>1. AxisOrder[i] \in Axis
      BY DEF AxisOrder, Axis
    <3>2. CASE AxisOrder[i] = code
      BY <1>1, <2>1, <3>2 DEF IInv, TypeOK
    <3>3. CASE AxisOrder[i] # code
      <4>1. i <= loaded
        BY <1>1, <3>3
      <4>2. ranges[AxisOrder[i]] = DeviceRange[AxisOrder[i]]
        BY <1>1, <4>1 DEF IInv, RangesInv
      <4> QED BY <1>1, <2>1, <3>1, <3>3, <4>2 DEF IInv, TypeOK
    <3> QED BY <3>2, <3>3
  <2>4. \A c \in Axis : \E i \in 1 .. 4 : c = AxisOrder[i]
    BY DEF AxisOrder, Axis
  <2>5. RangesInv'
    BY <1>1, <2>1, <2>3, <2>4 DEF RangesInv
  <2>6. FollowedInv'
    BY <1>1, <2>1, FollowedKept DEF IInv, Opened
  <2>7. /\ LocalsInv' /\ BufferInv' /\ PovInv' /\ PacketInv' /\ LatestInv'
        /\ NewInv'
    BY <1>1, <2>1 DEF IInv, LocalsInv, BufferInv, PovInv, PacketInv, Complete,
         LatestInv, NewInv
  <2> QED BY <2>2, <2>5, <2>6, <2>7 DEF IInv
<1>3. CASE ~ (DeviceRange[code].min < DeviceRange[code].max)
  <2>1. phase' = "closed" /\ buffer' = <<>> /\ UNCHANGED <<ranges, loaded>>
    BY <1>3 DEF LoadAxisRange
  <2>2. TypeOK'
    BY <1>1, <2>1 DEF IInv, TypeOK
  <2>3. events = <<>> /\ states = <<>>
    BY <1>1 DEF IInv, LocalsInv
  <2>4. BufferInv'
    BY <2>1, InputAssumption DEF BufferInv
  <2> QED
    BY <1>1, <2>1, <2>2, <2>3, <2>4
    DEF IInv, LocalsInv, RangesInv, PovInv, PacketInv, Complete, LatestInv,
        FollowedInv, Opened, NewInv
<1> QED BY <1>2, <1>3

LEMMA CloseKeeps == IInv /\ CloseDevice => IInv'
<1> SUFFICES ASSUME IInv, CloseDevice PROVE IInv'
  OBVIOUS
<1> USE DEF CloseDevice
<1>1. TypeOK'
  BY DEF IInv, TypeOK
<1>2. events = <<>> /\ states = <<>>
  BY DEF IInv, LocalsInv
<1>3. BufferInv'
  BY InputAssumption DEF BufferInv
<1> QED
  BY <1>1, <1>2, <1>3
  DEF IInv, LocalsInv, RangesInv, PovInv, PacketInv, Complete, LatestInv,
      FollowedInv, Opened, NewInv

(***************************************************************************)
(* readStates.                                                             *)
(***************************************************************************)
LEMMA StartKeeps == IInv /\ StartReading => IInv'
<1> SUFFICES ASSUME IInv, StartReading PROVE IInv'
  OBVIOUS
<1>1. /\ phase = "idle" /\ phase' = "reading" /\ short' = FALSE
      /\ UNCHANGED <<ranges, loaded, state, hat, events, states, plugged, raw,
                     buffer, shown, unseen, clicks>>
  BY DEF StartReading, device
<1>2. TypeOK'
  BY <1>1 DEF IInv, TypeOK
<1>3. FollowedInv'
  BY <1>1, FollowedKept DEF IInv, Opened
<1> QED
  BY <1>1, <1>2, <1>3
  DEF IInv, LocalsInv, RangesInv, BufferInv, PovInv, PacketInv, Complete,
      LatestInv, NewInv

LEMMA ReadKeeps == IInv /\ ReadBatch => IInv'
<1> SUFFICES ASSUME IInv, ReadBatch PROVE IInv'
  OBVIOUS
<1> DEFINE count == IF Len(buffer) < Batch THEN Len(buffer) ELSE Batch
<1>1. /\ phase = "reading" /\ events = <<>> /\ buffer # <<>>
      /\ events' = SubSeq(buffer, 1, count)
      /\ buffer' = SubSeq(buffer, count + 1, Len(buffer))
      /\ short' = (count < Batch)
      /\ UNCHANGED <<phase, ranges, loaded, state, hat, states, plugged, raw,
                     shown, unseen, clicks>>
  BY DEF ReadBatch
<1>2. buffer \in Seq(Event) /\ count \in 0 .. Len(buffer) /\ count > 0
  BY <1>1, InputAssumption DEF IInv, TypeOK
<1> HIDE DEF count
<1>3. /\ events' \in Seq(Event) /\ buffer' \in Seq(Event)
      /\ Len(events') = count /\ Len(buffer') = Len(buffer) - count
      /\ \A i \in 1 .. count : events'[i] = buffer[i]
      /\ \A i \in 1 .. Len(buffer) - count : buffer'[i] = buffer[count + i]
  BY <1>1, <1>2
<1>4. short' \in BOOLEAN
  BY <1>1
<1>5. TypeOK'
  BY <1>1, <1>3, <1>4 DEF IInv, TypeOK
<1>6. buffer[Len(buffer)] = Report
  BY <1>1 DEF IInv, PacketInv, Complete
<1>7. PacketInv'
  <2>1. CASE count = Len(buffer)
    BY <1>2, <1>3, <1>6, <2>1 DEF PacketInv, Complete
  <2>2. CASE count < Len(buffer)
    BY <1>2, <1>3, <1>6, <2>2 DEF PacketInv, Complete
  <2> QED BY <1>2, <2>1, <2>2
<1>8. FollowedInv'
  <2> SUFFICES ASSUME NEW c \in Code \ unseen
               PROVE  Followed(c)'
    BY <1>1 DEF FollowedInv
  <2>1. Followed(c)
    BY <1>1 DEF IInv, FollowedInv, Opened
  <2>2. Kept(c)' <=> Kept(c)
    BY <1>1 DEF Kept
  <2>3. Without(events, c) /\ ~ Ends(events, c, raw[c])
    BY <1>1 DEF Without, Ends
  <2>4. /\ Without(buffer, c) => Without(events', c) /\ Without(buffer', c)
        /\ Ends(buffer, c, raw[c]) =>
             \/ Ends(buffer', c, raw[c])
             \/ Ends(events', c, raw[c]) /\ Without(buffer', c)
    BY <1>1, <1>2, SplitEnds
  <2> QED BY <1>1, <2>1, <2>2, <2>3, <2>4 DEF Followed
<1>9. BufferInv'
  BY <1>2, <1>3, InputAssumption DEF IInv, BufferInv
<1>10. LatestInv'
  BY <1>2, <1>3 DEF LatestInv
<1> QED
  BY <1>1, <1>5, <1>7, <1>8, <1>9, <1>10
  DEF IInv, LocalsInv, RangesInv, PovInv, NewInv

\* The rises of the frames can be counted.
LEMMA RisesFinite ==
  ASSUME TypeOK
  PROVE  Rises(states) \in Nat
<1> DEFINE before(i) == IF i = 1 THEN shown ELSE states[i - 1]
           rising == {i \in DOMAIN states :
                        ButtonOf[Dial] \in states[i].pressed \ before(i).pressed}
<1>1. DOMAIN states = 1 .. Len(states) /\ Len(states) \in Nat
  BY DEF TypeOK
<1>2. rising \subseteq 1 .. Len(states)
  BY <1>1
<1>3. IsFiniteSet(1 .. Len(states))
  BY <1>1, FS_Interval
<1>4. IsFiniteSet(rising)
  BY <1>2, <1>3, FS_Subset
<1> QED BY <1>4, FS_CardinalityType DEF Rises

LEMMA ReturnKeeps == IInv /\ Return => IInv'
<1> SUFFICES ASSUME IInv, Return PROVE IInv'
  OBVIOUS
<1>1. /\ phase = "reading" /\ phase' = "idle" /\ events = <<>>
      /\ states' = <<>>
      /\ shown' = IF states = <<>> THEN shown ELSE states[Len(states)]
      /\ UNCHANGED <<ranges, loaded, state, hat, events, short, plugged, raw,
                     buffer, unseen>>
  BY DEF Return, device
<1>2. shown' \in Frame
  BY <1>1 DEF IInv, TypeOK
<1>3. clicks' \in [made: Nat, shown: Nat, exact: BOOLEAN]
  <2>1. Rises(states) \in Nat
    BY RisesFinite DEF IInv
  <2>2. CASE clicks.exact
    BY <2>1, <2>2 DEF IInv, TypeOK, Return
  <2>3. CASE ~ clicks.exact
    BY <2>3 DEF IInv, TypeOK, Return
  <2> QED BY <2>2, <2>3
<1>4. TypeOK'
  BY <1>1, <1>2, <1>3 DEF IInv, TypeOK
<1>5. FollowedInv'
  BY <1>1, FollowedKept DEF IInv, Opened
<1>6. LatestInv'
  BY <1>1 DEF IInv, LatestInv
<1> QED
  BY <1>1, <1>4, <1>5, <1>6
  DEF IInv, LocalsInv, RangesInv, BufferInv, PovInv, PacketInv, Complete,
      NewInv

\* The events of an axis and of a hat are EV_ABS, those of a key EV_KEY.
LEMMA EventTypes ==
  ASSUME NEW event \in Event
  PROVE  /\ event.type = "EV_ABS" => event.code \in Axis \cup Hat
                                     /\ event.value \in Int
         /\ event.type = "EV_KEY" => event.code \in Key /\ event.value \in {0, 1}
         /\ event.code \in Code => event # Report /\ event # Dropped
BY CodesApart DEF Event, Change, Report, Dropped

\* consume on the event of an axis.
LEMMA AxisKept ==
  ASSUME TypeOK, RangesInv, PovInv, phase = "reading",
         NEW event \in Event, event.type = "EV_ABS", event.code \in Axis,
         state' = SetAxis(state, event.code, event.value),
         UNCHANGED <<hat, raw>>
  PROVE  /\ state' \in Frame /\ PovInv'
         /\ \A c \in Code :
              IF c = event.code THEN event.value = raw[c] => Kept(c)'
              ELSE Kept(c) => Kept(c)'
<1>1. /\ event.value \in Int /\ state \in Frame
      /\ ranges[event.code] = DeviceRange[event.code]
      /\ ranges[event.code] \in AxisRange
  BY EventTypes DEF TypeOK, RangesInv
<1>2. /\ NormalizeSteering(event.value, ranges[event.code]) \in -100 .. 100
      /\ NormalizePedal(event.value, ranges[event.code]) \in 0 .. 100
  BY <1>1, Normalized
<1>7. event.code \notin Hat /\ event.code \notin KnownKey
  BY CodesApart, Keys
<1>3. CASE event.code = "ABS_X"
  <2>1. state' = [state EXCEPT !.wheel =
                    NormalizeSteering(event.value, ranges[event.code])]
    BY <1>3 DEF SetAxis
  <2>2. /\ state' \in Frame
        /\ state'.wheel = NormalizeSteering(event.value, ranges[event.code])
        /\ state'.accelerator = state.accelerator
        /\ state'.brake = state.brake
        /\ state'.clutch = state.clutch
        /\ state'.pressed = state.pressed
        /\ state'.pov = state.pov
    BY <1>1, <1>2, <2>1 DEF Frame
  <2> QED BY <1>1, <1>7, <1>3, <2>2 DEF PovInv, Kept
<1>4. CASE event.code = "ABS_Y"
  <2>1. state' = [state EXCEPT !.accelerator =
                    NormalizePedal(event.value, ranges[event.code])]
    BY <1>4 DEF SetAxis
  <2>2. /\ state' \in Frame
        /\ state'.accelerator = NormalizePedal(event.value, ranges[event.code])
        /\ state'.wheel = state.wheel
        /\ state'.brake = state.brake
        /\ state'.clutch = state.clutch
        /\ state'.pressed = state.pressed
        /\ state'.pov = state.pov
    BY <1>1, <1>2, <2>1 DEF Frame
  <2> QED BY <1>1, <1>7, <1>4, <2>2 DEF PovInv, Kept
<1>5. CASE event.code = "ABS_Z"
  <2>1. state' = [state EXCEPT !.brake =
                    NormalizePedal(event.value, ranges[event.code])]
    BY <1>5 DEF SetAxis
  <2>2. /\ state' \in Frame
        /\ state'.brake = NormalizePedal(event.value, ranges[event.code])
        /\ state'.wheel = state.wheel
        /\ state'.accelerator = state.accelerator
        /\ state'.clutch = state.clutch
        /\ state'.pressed = state.pressed
        /\ state'.pov = state.pov
    BY <1>1, <1>2, <2>1 DEF Frame
  <2> QED BY <1>1, <1>7, <1>5, <2>2 DEF PovInv, Kept
<1>6. CASE event.code = "ABS_RZ"
  <2>1. state' = [state EXCEPT !.clutch =
                    NormalizePedal(event.value, ranges[event.code])]
    BY <1>6 DEF SetAxis
  <2>2. /\ state' \in Frame
        /\ state'.clutch = NormalizePedal(event.value, ranges[event.code])
        /\ state'.wheel = state.wheel
        /\ state'.accelerator = state.accelerator
        /\ state'.brake = state.brake
        /\ state'.pressed = state.pressed
        /\ state'.pov = state.pov
    BY <1>1, <1>2, <2>1 DEF Frame
  <2> QED BY <1>1, <1>7, <1>6, <2>2 DEF PovInv, Kept
<1> QED BY <1>3, <1>4, <1>5, <1>6 DEF Axis

\* consume on the event of a hat.
LEMMA HatKept ==
  ASSUME TypeOK,
         NEW event \in Event, event.type = "EV_ABS", event.code \in Hat,
         hat' = [hat EXCEPT ![event.code] = event.value],
         state' = [state EXCEPT !.pov =
                     HatToDirection(hat'["ABS_HAT0X"], hat'["ABS_HAT0Y"])],
         UNCHANGED raw
  PROVE  /\ state' \in Frame /\ hat' \in [Hat -> Int] /\ PovInv'
         /\ \A c \in Code :
              IF c = event.code THEN event.value = raw[c] => Kept(c)'
              ELSE Kept(c) => Kept(c)'
<1>1. event.value \in Int /\ state \in Frame /\ hat \in [Hat -> Int]
  BY EventTypes DEF TypeOK
<1>2. /\ hat' \in [Hat -> Int]
      /\ hat'["ABS_HAT0X"] \in Int /\ hat'["ABS_HAT0Y"] \in Int
      /\ hat'[event.code] = event.value
      /\ \A c \in Hat : c # event.code => hat'[c] = hat[c]
  BY <1>1 DEF Hat
<1> DEFINE d == HatToDirection(hat'["ABS_HAT0X"], hat'["ABS_HAT0Y"])
<1>3. d \in PovDirection
  BY <1>2, Directions
<1> HIDE DEF d
<1>4. state' = [state EXCEPT !.pov = d]
  BY DEF d
<1>5. /\ state' \in Frame /\ state'.pov = d
      /\ state'.wheel = state.wheel /\ state'.accelerator = state.accelerator
      /\ state'.brake = state.brake /\ state'.clutch = state.clutch
      /\ state'.pressed = state.pressed
  BY <1>1, <1>3, <1>4 DEF Frame
<1>6. PovInv'
  BY <1>5 DEF PovInv, d
<1>7. ASSUME NEW c \in Code
      PROVE  IF c = event.code THEN event.value = raw[c] => Kept(c)'
             ELSE Kept(c) => Kept(c)'
  <2>1. c = event.code => c \notin Axis /\ c \notin KnownKey
    BY CodesApart, Keys
  <2> QED BY <1>2, <1>5, <2>1 DEF Kept, Axis
<1> QED BY <1>2, <1>5, <1>6, <1>7

\* consume on the event of a key.
LEMMA KeyKept ==
  ASSUME TypeOK, PovInv,
         NEW event \in Event, event.type = "EV_KEY",
         state' = SetButton(state, event.code, event.value # 0),
         UNCHANGED <<hat, raw>>
  PROVE  /\ state' \in Frame /\ PovInv'
         /\ \A c \in Code :
              IF c = event.code THEN event.value = raw[c] => Kept(c)'
              ELSE Kept(c) => Kept(c)'
<1>1. /\ event.code \in Key /\ event.value \in {0, 1} /\ state \in Frame
      /\ state.pressed \subseteq Button
  BY EventTypes DEF TypeOK, Frame
<1>2. CASE event.code \notin KnownKey
  <2>1. state' = state
    BY <1>2 DEF SetButton
  <2>2. event.code \notin Axis /\ event.code \notin Hat
    BY <1>1, CodesApart
  <2> QED BY <1>1, <1>2, <2>1, <2>2 DEF PovInv, Kept, Axis
<1>3. CASE event.code \in KnownKey
  <2> DEFINE b == ButtonOf[event.code]
             now == IF event.value # 0 THEN state.pressed \cup {b}
                    ELSE state.pressed \ {b}
  <2>1. state' = [state EXCEPT !.pressed = now]
    BY <1>3 DEF SetButton
  <2>2. b \in Button /\ now \subseteq Button
    BY <1>1, <1>3, Keys
  <2> HIDE DEF now
  <2>3. /\ state' \in Frame /\ state'.pressed = now /\ state'.pov = state.pov
        /\ state'.wheel = state.wheel /\ state'.accelerator = state.accelerator
        /\ state'.brake = state.brake /\ state'.clutch = state.clutch
    BY <1>1, <2>1, <2>2 DEF Frame
  <2>4. \A c \in KnownKey :
          IF c = event.code THEN ButtonOf[c] \in now <=> event.value # 0
          ELSE ButtonOf[c] \in now <=> ButtonOf[c] \in state.pressed
    BY <1>3, Keys DEF now
  <2>5. event.code \notin Axis /\ event.code \notin Hat
    BY <1>1, CodesApart
  <2>6. PovInv'
    BY <2>3 DEF PovInv
  <2>7. ASSUME NEW c \in Code
        PROVE  IF c = event.code THEN event.value = raw[c] => Kept(c)'
               ELSE Kept(c) => Kept(c)'
    <3>1. CASE c = event.code
      BY <2>3, <2>4, <2>5, <3>1 DEF Kept, Axis
    <3>2. CASE c # event.code
      BY <2>3, <2>4, <3>2 DEF Kept
    <3> QED BY <3>1, <3>2
  <2> QED BY <2>3, <2>6, <2>7
<1> QED BY <1>2, <1>3

LEMMA ConsumeKeeps == IInv /\ Consume => IInv'
<1> SUFFICES ASSUME IInv, Consume PROVE IInv'
  OBVIOUS
<1> DEFINE event == Head(events)
<1>1. /\ phase = "reading" /\ events # <<>> /\ events' = Tail(events)
      /\ UNCHANGED <<phase, ranges, loaded, short, plugged, raw, buffer, shown,
                     unseen, clicks>>
  BY DEF Consume, device
<1>2. /\ TypeOK /\ RangesInv /\ PovInv /\ PacketInv /\ LatestInv /\ FollowedInv
      /\ events \in Seq(Event) /\ states \in Seq(Frame)
  BY DEF IInv, TypeOK
<1>3. /\ event \in Event /\ events' \in Seq(Event)
      /\ Len(events') = Len(events) - 1
      /\ \A i \in 1 .. Len(events) - 1 : events'[i] = events[i + 1]
      /\ event = events[1] /\ Len(events) \in Nat /\ Len(events) > 0
  BY <1>1, <1>2
\* What the four kinds of events have in common.
<1> DEFINE Change_(c) ==
      IF c = event.code THEN event.value = raw[c] => Kept(c)'
      ELSE Kept(c) => Kept(c)'
<1>4. /\ state' \in Frame /\ hat' \in [Hat -> Int] /\ PovInv'
      /\ \A c \in Code : Change_(c)
      /\ event # Report => UNCHANGED states
      /\ event = Report => UNCHANGED state /\ states' = Append(states, state)
  <2>1. CASE /\ event.type = "EV_ABS" /\ event.code \in Axis
             /\ state' = SetAxis(state, event.code, event.value)
             /\ UNCHANGED <<hat, states>>
    <3>1. event # Report
      BY <2>1 DEF Report
    <3> QED BY <1>1, <1>2, <1>3, <2>1, <3>1, AxisKept DEF TypeOK
  <2>2. CASE /\ event.type = "EV_ABS" /\ event.code \in Hat
             /\ hat' = [hat EXCEPT ![event.code] = event.value]
             /\ state' = [state EXCEPT !.pov =
                            HatToDirection(hat'["ABS_HAT0X"],
                                           hat'["ABS_HAT0Y"])]
             /\ UNCHANGED states
    <3>1. event # Report
      BY <2>2 DEF Report
    <3> QED BY <1>1, <1>2, <1>3, <2>2, <3>1, HatKept
  <2>3. CASE /\ event.type = "EV_KEY"
             /\ state' = SetButton(state, event.code, event.value # 0)
             /\ UNCHANGED <<hat, states>>
    <3>1. event # Report
      BY <2>3 DEF Report
    <3> QED BY <1>1, <1>2, <1>3, <2>3, <3>1, KeyKept DEF TypeOK
  <2>4. CASE /\ event \in {Report, Dropped} /\ UNCHANGED <<state, hat>>
             /\ event = Report => states' = Append(states, state)
             /\ event = Dropped => UNCHANGED states
    <3>1. event.code \notin Code
      BY <2>4, CodesApart DEF Report, Dropped
    <3>2. \A c \in Code : Kept(c)' <=> Kept(c)
      BY <1>1, <2>4 DEF Kept
    <3> QED BY <1>2, <2>4, <3>1, <3>2 DEF TypeOK, PovInv
  <2>5. Report # Dropped
    BY DEF Report, Dropped
  <2> QED BY <2>1, <2>2, <2>3, <2>4, <2>5 DEF Consume
<1>9. states \in Seq(Frame) /\ state \in Frame
  BY <1>2 DEF TypeOK
<1>5. TypeOK'
  <2>1. states' \in Seq(Frame)
    <3>1. Append(states, state) \in Seq(Frame)
      BY <1>9
    <3> QED BY <1>2, <1>4, <3>1
  <2> QED BY <1>1, <1>2, <1>3, <1>4, <2>1 DEF TypeOK
<1>6. PacketInv'
  BY <1>1, <1>2, <1>3 DEF PacketInv, Complete
<1>7. LatestInv'
  <2> SUFFICES ASSUME events' = <<>>, buffer = <<>>
               PROVE  state' = IF states' = <<>> THEN shown
                               ELSE states'[Len(states')]
    BY <1>1 DEF LatestInv
  <2>1. Len(events) = 1 /\ event = Report
    BY <1>1, <1>2, <1>3 DEF PacketInv, Complete
  <2>2. states' = Append(states, state) /\ state' = state
    BY <1>4, <2>1
  <2>3. /\ Append(states, state) # <<>>
        /\ Append(states, state)[Len(Append(states, state))] = state
    BY <1>9
  <2> QED BY <2>2, <2>3
<1>8. FollowedInv'
  <2> SUFFICES ASSUME NEW c \in Code \ unseen
               PROVE  Followed(c)'
    BY <1>1 DEF FollowedInv
  <2>1. Followed(c)
    BY <1>1, <1>2 DEF FollowedInv, Opened
  <2>2. Change_(c)
    BY <1>4
  <2>3. /\ Without(events, c) => event.code # c /\ Without(events', c)
        /\ Ends(events, c, raw[c]) =>
             \/ Ends(events', c, raw[c])
             \/ /\ event.code = c /\ event.value = raw[c]
                /\ Without(events', c)
    BY <1>1, <1>2, TailEnds
  <2> HIDE DEF event
  <2>4. CASE Ends(buffer, c, raw[c])
    BY <1>1, <2>4 DEF Followed
  <2>5. CASE Without(buffer, c) /\ Ends(events, c, raw[c])
    <3>1. CASE Ends(events', c, raw[c])
      BY <1>1, <2>5, <3>1 DEF Followed
    <3>2. CASE event.code = c /\ event.value = raw[c] /\ Without(events', c)
      BY <1>1, <2>2, <2>5, <3>2 DEF Followed
    <3> QED BY <2>3, <2>5, <3>1, <3>2
  <2>6. CASE Without(buffer, c) /\ Without(events, c) /\ Kept(c)
    BY <1>1, <2>2, <2>3, <2>6 DEF Followed
  <2> QED BY <2>1, <2>4, <2>5, <2>6 DEF Followed
<1> QED
  BY <1>1, <1>4, <1>5, <1>6, <1>7, <1>8
  DEF IInv, LocalsInv, RangesInv, BufferInv, NewInv

(***************************************************************************)
(* The device moves on.                                                    *)
(***************************************************************************)
LEMMA WholeSequence ==
  ASSUME NEW S, NEW s \in Seq(S)
  PROVE  SubSeq(s, 1, Len(s)) = s
OBVIOUS

LEMMA MovedType ==
  ASSUME TypeOK, NEW packet \in Packets
  PROVE  Moved(packet) \in [Code -> Int]
<1>1. packet \in Seq(Change)
  BY InputAssumption
<1>2. \A i \in DOMAIN packet : packet[i].value \in Int
  BY <1>1 DEF Change
<1>3. raw \in [Code -> Int]
  BY DEF TypeOK
<1> QED BY <1>2, <1>3 DEF Moved

\* What a move, queued whole or in part, leaves in order.
LEMMA MoveFollowed ==
  ASSUME TypeOK, Opened, FollowedInv,
         NEW packet \in Packets, Move(packet),
         NEW pre \in Seq(Event), NEW kept \in Seq(Event),
         buffer' = pre \o kept,
         \A c \in Code : c \in Codes(kept) => Ends(kept, c, Moved(packet)[c]),
         \A c \in Code : c \notin Codes(packet) => Moved(packet)[c] = raw[c],
         NEW c \in Code,
         \/ c \in Codes(kept)
         \/ /\ c \notin unseen /\ c \notin Codes(packet)
            /\ \/ pre = buffer
               \/ Without(buffer, c) /\ Without(pre, c)
  PROVE  Followed(c)'
<1>1. UNCHANGED <<events, state, hat>> /\ raw' = Moved(packet)
  BY DEF Move
<1>2. CASE c \in Codes(kept)
  <2>1. Ends(kept, c, raw'[c])
    BY <1>1, <1>2
  <2>2. Ends(pre \o kept, c, raw'[c])
    BY <2>1, JoinEnds
  <2> QED BY <2>2 DEF Followed
<1>3. CASE c \notin Codes(kept)
  <2>1. Without(kept, c)
    BY <1>3, CodesOf
  <2>2. Followed(c) /\ raw'[c] = raw[c]
    BY <1>1, <1>3 DEF FollowedInv
  <2>3. Kept(c)' <=> Kept(c)
    BY <1>1, <2>2 DEF Kept
  <2>4. /\ Ends(pre, c, raw[c]) => Ends(pre \o kept, c, raw[c])
        /\ Without(pre, c) => Without(pre \o kept, c)
    BY <2>1, JoinEnds
  <2>5. CASE pre = buffer
    BY <1>1, <2>2, <2>3, <2>4, <2>5 DEF Followed
  <2>6. CASE Without(buffer, c) /\ Without(pre, c)
    <3>1. ~ Ends(buffer, c, raw[c])
      BY <2>6 DEF Ends, Without
    <3> QED BY <1>1, <2>2, <2>3, <2>4, <2>6, <3>1 DEF Followed
  <2> QED BY <1>3, <2>5, <2>6
<1> QED BY <1>2, <1>3

\* The parts of the invariant that do not look at where changes are.
LEMMA MoveKeepsRest ==
  ASSUME IInv, NEW packet \in Packets, Move(packet),
         buffer' \in Seq(Event), Len(buffer') < BufferSize,
         buffer' # <<>>, buffer'[Len(buffer')] = Report,
         unseen' \subseteq Code,
         clicks' \in [made: Nat, shown: Nat, exact: BOOLEAN],
         FollowedInv'
  PROVE  IInv'
<1>1. /\ Opened /\ raw' = Moved(packet)
      /\ UNCHANGED <<phase, ranges, loaded, state, hat, events, short, states,
                     plugged, shown>>
  BY DEF Move
<1>2. TypeOK'
  <2>1. raw' \in [Code -> Int]
    BY <1>1, MovedType DEF IInv
  <2> QED BY <1>1, <2>1 DEF IInv, TypeOK
<1> QED
  BY <1>1, <1>2
  DEF IInv, LocalsInv, RangesInv, BufferInv, PovInv, PacketInv, Complete,
      LatestInv, NewInv, Opened

LEMMA QueuedKeeps ==
  ASSUME IInv, NEW packet \in Packets, MoveQueued(packet)
  PROVE  IInv'
<1> DEFINE whole == Append(packet, Report)
<1>1. /\ Move(packet) /\ buffer' = buffer \o whole
      /\ Len(buffer) + Len(packet) + 1 < BufferSize
      /\ unseen' = unseen \ Codes(packet)
      /\ clicks' = IF clicks.exact
                   THEN [clicks EXCEPT !.made = @ + Presses(packet)]
                   ELSE clicks
  BY DEF MoveQueued
<1>2. packet \in Seq(Change) /\ Len(packet) \in Nat
  BY InputAssumption
<1>3. /\ TypeOK /\ FollowedInv /\ Opened /\ buffer \in Seq(Event)
      /\ 1 \in 1 .. Len(packet) + 1
  BY <1>1, <1>2 DEF IInv, TypeOK, Move
<1>4. /\ whole \in Seq(Event) /\ Len(whole) = Len(packet) + 1
      /\ SubSeq(whole, 1, Len(whole)) = whole
      /\ whole[Len(whole)] = Report
      /\ \A i \in 1 .. Len(packet) : whole[i] = packet[i]
  <2>1. packet \in Seq(Event) /\ Report \in Event
    BY <1>2 DEF Event
  <2>2. whole \in Seq(Event)
    BY <2>1
  <2> QED BY <1>2, <2>1, <2>2, WholeSequence
<1>5. \A c \in Code :
        /\ c \in Codes(whole) => Ends(whole, c, Moved(packet)[c])
        /\ c \notin Codes(packet) => Moved(packet)[c] = raw[c]
  BY <1>3, <1>4, PacketEnds
<1> HIDE DEF whole
<1>6. Codes(packet) \subseteq Codes(whole)
  BY <1>2, <1>4 DEF Codes
<1>7. FollowedInv'
  <2> SUFFICES ASSUME NEW c \in Code \ unseen'
               PROVE  Followed(c)'
    BY DEF FollowedInv
  <2>1. c \in Codes(whole) \/ (c \notin unseen /\ c \notin Codes(packet))
    BY <1>1, <1>6
  <2> QED BY <1>1, <1>3, <1>4, <1>5, <2>1, MoveFollowed
<1>8. /\ buffer' \in Seq(Event) /\ Len(buffer') = Len(buffer) + Len(whole)
      /\ buffer'[Len(buffer')] = Report
  <2>1. /\ buffer \o whole \in Seq(Event)
        /\ Len(buffer \o whole) = Len(buffer) + Len(whole)
        /\ (buffer \o whole)[Len(buffer) + Len(whole)] = whole[Len(whole)]
    BY <1>2, <1>3, <1>4
  <2> QED BY <1>1, <1>4, <2>1
<1>9. clicks' \in [made: Nat, shown: Nat, exact: BOOLEAN]
  <2>1. Presses(packet) \in Nat
    BY DEF Presses
  <2>2. CASE clicks.exact
    <3>1. clicks' = [clicks EXCEPT !.made = @ + Presses(packet)]
      BY <1>1, <2>2
    <3>2. clicks \in [made: Nat, shown: Nat, exact: BOOLEAN]
      BY <1>3 DEF TypeOK
    <3>3. clicks.made + Presses(packet) \in Nat
      BY <2>1, <3>2
    <3> QED BY <3>1, <3>2, <3>3
  <2>3. CASE ~ clicks.exact
    BY <1>1, <1>3, <2>3 DEF TypeOK
  <2> QED BY <2>2, <2>3
<1>10. /\ Len(buffer') < BufferSize /\ buffer' # <<>>
       /\ unseen' \subseteq Code
  BY <1>1, <1>2, <1>3, <1>4, <1>8 DEF TypeOK
<1> QED BY <1>1, <1>7, <1>8, <1>9, <1>10, MoveKeepsRest

LEMMA OverflowKeeps ==
  ASSUME IInv, NEW packet \in Packets, MoveOverflowing(packet)
  PROVE  IInv'
<1> DEFINE whole == Append(packet, Report)
           first == BufferSize - Len(buffer)
           kept == SubSeq(whole, first, Len(whole))
<1>1. /\ Move(packet) /\ buffer' = <<Dropped>> \o kept
      /\ Len(buffer) + Len(whole) >= BufferSize
      /\ unseen' =
           ((unseen \cup Codes(buffer) \cup Codes(packet)) \ Codes(kept))
             \cap Code
      /\ clicks' = [made |-> 0, shown |-> 0, exact |-> FALSE]
  BY DEF MoveOverflowing
<1>2. /\ packet \in Seq(Change) /\ Len(packet) \in Nat
      /\ Len(packet) + 2 < BufferSize /\ BufferSize \in Nat
  BY InputAssumption
<1>3. /\ TypeOK /\ FollowedInv /\ Opened /\ buffer \in Seq(Event)
      /\ Len(buffer) < BufferSize /\ Len(buffer) \in Nat
  BY <1>1 DEF IInv, TypeOK, Move, BufferInv
<1>4. Len(whole) = Len(packet) + 1
  BY <1>2
<1>5. first \in 1 .. Len(packet) + 1
  BY <1>1, <1>2, <1>3, <1>4
<1>6. /\ kept \in Seq(Event) /\ Len(kept) = Len(packet) + 2 - first
      /\ kept[Len(kept)] = Report
      /\ \A c \in Code :
           /\ c \in Codes(kept) => Ends(kept, c, Moved(packet)[c])
           /\ c \notin Codes(packet) => Moved(packet)[c] = raw[c]
  <2>1. \E c : c \in Code
    BY DEF Code, Axis
  <2> HIDE DEF first
  <2> QED BY <1>3, <1>5, <2>1, PacketEnds
<1>7. <<Dropped>> \in Seq(Event)
  BY DEF Event
<1> HIDE DEF whole, kept
<1>8. FollowedInv'
  <2> SUFFICES ASSUME NEW c \in Code \ unseen'
               PROVE  Followed(c)'
    BY DEF FollowedInv
  <2>1. \/ c \in Codes(kept)
        \/ c \notin unseen /\ c \notin Codes(buffer) /\ c \notin Codes(packet)
    BY <1>1
  <2>2. c \notin Codes(buffer) => Without(buffer, c)
    BY <1>3, CodesOf
  <2>3. Without(<<Dropped>>, c)
    BY CodesApart DEF Without, Dropped
  <2> QED BY <1>1, <1>3, <1>6, <1>7, <2>1, <2>2, <2>3, MoveFollowed
<1>9. /\ buffer' \in Seq(Event) /\ Len(buffer') = 1 + Len(kept)
      /\ buffer'[Len(buffer')] = Report
  <2>1. Len(kept) \in Nat /\ Len(kept) > 0
    BY <1>2, <1>5, <1>6
  <2>2. /\ <<Dropped>> \o kept \in Seq(Event)
        /\ Len(<<Dropped>> \o kept) = 1 + Len(kept)
        /\ (<<Dropped>> \o kept)[1 + Len(kept)] = kept[Len(kept)]
    BY <1>6, <1>7, <2>1
  <2> QED BY <1>1, <1>6, <2>2
<1>10. /\ Len(buffer') < BufferSize /\ buffer' # <<>>
       /\ unseen' \subseteq Code
  BY <1>1, <1>2, <1>5, <1>6, <1>9
<1>11. clicks' \in [made: Nat, shown: Nat, exact: BOOLEAN]
  BY <1>1
<1> QED BY <1>1, <1>8, <1>9, <1>10, <1>11, MoveKeepsRest

LEMMA UnplugKeeps == IInv /\ Unplug => IInv'
<1> SUFFICES ASSUME IInv, Unplug PROVE IInv'
  OBVIOUS
<1>1. /\ plugged' = FALSE
      /\ UNCHANGED <<phase, ranges, loaded, state, hat, events, short, states,
                     raw, buffer, shown, unseen, clicks>>
  BY DEF Unplug, reader
<1>2. TypeOK'
  BY <1>1 DEF IInv, TypeOK
<1>3. FollowedInv'
  BY <1>1, FollowedKept DEF IInv, FollowedInv, Opened
<1> QED
  BY <1>1, <1>2, <1>3
  DEF IInv, LocalsInv, RangesInv, BufferInv, PovInv, PacketInv, Complete,
      LatestInv, NewInv

(***************************************************************************)
(* The theorems.                                                           *)
(***************************************************************************)
LEMMA StutterKeeps == IInv /\ UNCHANGED vars => IInv'
<1> SUFFICES ASSUME IInv, UNCHANGED vars PROVE IInv'
  OBVIOUS
<1>1. UNCHANGED <<phase, ranges, loaded, state, hat, events, short, states,
                  plugged, raw, buffer, shown, unseen, clicks>>
  BY DEF vars, reader, device
<1>2. TypeOK'
  BY <1>1 DEF IInv, TypeOK
<1>3. FollowedInv'
  BY <1>1, FollowedKept DEF IInv, FollowedInv, Opened
<1> QED
  BY <1>1, <1>2, <1>3
  DEF IInv, LocalsInv, RangesInv, BufferInv, PovInv, PacketInv, Complete,
      LatestInv, NewInv

LEMMA NextKeeps == IInv /\ [Next]_vars => IInv'
BY OpenKeeps, LoadKeeps, CloseKeeps, StartKeeps, ReadKeeps, ConsumeKeeps,
   ReturnKeeps, QueuedKeeps, OverflowKeeps, UnplugKeeps, StutterKeeps
   DEF Next

\* The argument behind what the frames show: the last queued change of each
\* control is in the kernel's buffer, the reader's array or the reader's state.
THEOREM Invariance == Spec => []IInv
BY InitHolds, NextKeeps, PTL DEF Spec

\* The reader keeps every field of a frame within its range, whatever values and
\* ranges the device gives.
THEOREM TypeCorrect == Spec => []TypeOK
<1>1. IInv => TypeOK
  BY DEF IInv
<1> QED BY <1>1, Invariance, PTL

\* Whenever the reader has taken all there was, its last frame shows each
\* control as it is, unless its last change was lost in an overflow of the
\* kernel's buffer or came before the device was opened.
THEOREM SeenChanges == Spec => []SeenChangesAreShown
<1>1. IInv => SeenChangesAreShown
  <2> SUFFICES ASSUME IInv, Drained, NEW c \in Code \ unseen
               PROVE  Shows(shown, c)
    BY DEF SeenChangesAreShown
  <2>1. phase = "idle" /\ buffer = <<>> /\ events = <<>> /\ states = <<>>
    BY DEF IInv, Drained, LocalsInv
  <2>2. shown = state
    BY <2>1 DEF IInv, LatestInv
  <2>3. Kept(c)
    <3>1. Followed(c)
      BY <2>1 DEF IInv, FollowedInv, Opened
    <3>2. ~ Ends(buffer, c, raw[c]) /\ ~ Ends(events, c, raw[c])
      BY <2>1 DEF Ends
    <3> QED BY <3>1, <3>2 DEF Followed
  <2>4. /\ hat["ABS_HAT0X"] \in Int /\ hat["ABS_HAT0Y"] \in Int
        /\ state.pov = HatToDirection(hat["ABS_HAT0X"], hat["ABS_HAT0Y"])
    BY DEF IInv, TypeOK, PovInv, Hat
  <2>5. /\ state.pov \in PovLeft <=> hat["ABS_HAT0X"] < 0
        /\ state.pov \in PovRight <=> hat["ABS_HAT0X"] > 0
        /\ state.pov \in PovUp <=> hat["ABS_HAT0Y"] < 0
        /\ state.pov \in PovDown <=> hat["ABS_HAT0Y"] > 0
    BY <2>4, Directions
  <2> QED BY <2>2, <2>3, <2>5 DEF Kept, Shows, Hat
<1> QED BY <1>1, Invariance, PTL

(***************************************************************************)
(* The scale of an axis.                                                   *)
(***************************************************************************)
LEMMA Rounded ==
  ASSUME NEW a \in Int, NEW n \in Nat \ {0}
  PROVE  /\ a \div n \in Int
         /\ (a \div n) * n <= a
         /\ a < (a \div n) * n + n
OBVIOUS

\* A quotient lies where the number that is divided lies.
LEMMA Between ==
  ASSUME NEW a \in Int, NEW n \in Nat \ {0}, NEW k \in Int
  PROVE  /\ k * n <= a => k <= a \div n
         /\ a < k * n => a \div n < k
<1> DEFINE q == a \div n
<1>1. q \in Int /\ q * n <= a /\ a < q * n + n
  BY Rounded
<1> HIDE DEF q
<1>2. ASSUME k * n <= a PROVE k <= q
  <2>1. ASSUME q <= k - 1 PROVE FALSE
    <3>1. q * n <= (k - 1) * n
      BY <1>1, <2>1
    <3>2. (k - 1) * n = k * n - n
      OBVIOUS
    <3> QED BY <1>1, <1>2, <3>1, <3>2
  <2> QED BY <1>1, <2>1
<1>3. ASSUME a < k * n PROVE q < k
  <2>1. ASSUME k <= q PROVE FALSE
    <3>1. k * n <= q * n
      BY <1>1, <2>1
    <3> QED BY <1>1, <1>3, <3>1
  <2> QED BY <1>1, <2>1
<1> QED BY <1>2, <1>3 DEF q

\* Ends, clamping and exactness of a scale of `size` percent from low, in which
\* v is at `size * v - shift`.
LEMMA ScaleIs ==
  ASSUME NEW r \in AxisRange, r.min < r.max,
         NEW low \in {-100, 0}, NEW v \in Int,
         NEW scaled,
         scaled = Clamp(((100 - low) * (v - r.min) + low * (r.max - r.min))
                          \div (r.max - r.min), low, 100)
  PROVE  /\ v = r.min - 1 => scaled = low
         /\ v = r.max + 1 => scaled = 100
         /\ v \in r.min .. r.max =>
              (v - r.min) * (100 - low) - (scaled - low) * (r.max - r.min)
                \in 0 .. r.max - r.min - 1
<1> DEFINE n == r.max - r.min
           d == v - r.min
           a == (100 - low) * d + low * n
           q == a \div n
<1>1. n \in Nat \ {0} /\ d \in Int /\ low \in Int /\ low <= 0
  BY DEF AxisRange
<1>2. v = r.min - 1 => d = -1
  BY DEF AxisRange
<1>3. v = r.max + 1 => d = n + 1
  BY DEF AxisRange
<1>4. v \in r.min .. r.max => 0 <= d /\ d <= n
  BY DEF AxisRange
<1>5. scaled = Clamp(q, low, 100)
  OBVIOUS
<1> HIDE DEF n, d
<1>6. a \in Int
  BY <1>1
<1>7. q \in Int /\ q * n <= a /\ a < q * n + n
  <2> HIDE DEF a
  <2> QED BY <1>1, <1>6, Rounded
<1>8. /\ low * n <= a => low <= q
      /\ a < low * n => q < low
      /\ 100 * n <= a => 100 <= q
      /\ a < 101 * n => q < 101
  <2> HIDE DEF a
  <2> QED BY <1>1, <1>6, Between
<1>9. a = (100 - low) * d + low * n
  OBVIOUS
<1> HIDE DEF a, q
<1>10. ASSUME d = -1 PROVE scaled = low
  BY <1>1, <1>5, <1>7, <1>8, <1>9, <1>10 DEF Clamp
<1>11. ASSUME d = n + 1 PROVE scaled = 100
  <2>1. CASE low = 0
    BY <1>1, <1>5, <1>7, <1>8, <1>9, <1>11, <2>1 DEF Clamp
  <2>2. CASE low = -100
    BY <1>1, <1>5, <1>7, <1>8, <1>9, <1>11, <2>2 DEF Clamp
  <2> QED BY <2>1, <2>2
<1>12. ASSUME 0 <= d, d <= n
       PROVE  d * (100 - low) - (scaled - low) * n \in 0 .. n - 1
  <2>1. scaled = q
    <3>1. CASE low = 0
      BY <1>1, <1>5, <1>7, <1>8, <1>9, <1>12, <3>1 DEF Clamp
    <3>2. CASE low = -100
      BY <1>1, <1>5, <1>7, <1>8, <1>9, <1>12, <3>2 DEF Clamp
    <3> QED BY <3>1, <3>2
  <2>2. d * (100 - low) - (q - low) * n = a - q * n
    BY <1>1, <1>7, <1>9
  <2> QED BY <1>1, <1>6, <1>7, <2>1, <2>2
<1> QED BY <1>2, <1>3, <1>4, <1>10, <1>11, <1>12 DEF n, d

LEMMA AxisScale ==
  ASSUME NEW r \in AxisRange, r.min < r.max, NEW v \in Int
  PROVE  /\ NormalizeSteering(v, r) =
              Clamp(((100 - (-100)) * (v - r.min) + (-100) * (r.max - r.min))
                      \div (r.max - r.min), -100, 100)
         /\ NormalizePedal(v, r) =
              Clamp(((100 - 0) * (v - r.min) + 0 * (r.max - r.min))
                      \div (r.max - r.min), 0, 100)
<1>1. r.min \in Int /\ r.max \in Int /\ ~(r.min >= r.max)
  BY DEF AxisRange
<1>2. 100 * (2 * v - (r.min + r.max)) =
        (100 - (-100)) * (v - r.min) + (-100) * (r.max - r.min)
  BY <1>1
<1>3. 100 * (v - r.min) = (100 - 0) * (v - r.min) + 0 * (r.max - r.min)
  BY <1>1
<1> QED BY <1>1, <1>2, <1>3, Zenon DEF NormalizeSteering, NormalizePedal

(***************************************************************************)
(* The ranges.                                                             *)
(***************************************************************************)
\* Only a range that is not empty is taken.
NonEmpty(c) == DeviceRange[c].min < DeviceRange[c].max

LoadedInv ==
  /\ phase = "loading" => \A i \in 1 .. 4 : i <= loaded => NonEmpty(AxisOrder[i])
  /\ phase \in {"idle", "reading"} => \A c \in Axis : NonEmpty(c)

LEMMA LoadedKeeps == IInv /\ LoadedInv /\ [Next]_vars => LoadedInv'
<1> SUFFICES ASSUME IInv, LoadedInv, [Next]_vars PROVE LoadedInv'
  OBVIOUS
<1>1. CASE OpenDevice
  BY <1>1 DEF OpenDevice, LoadedInv, IInv, NewInv
<1>2. CASE LoadAxisRange
  <2> DEFINE code == AxisOrder[loaded + 1]
  <2>1. phase = "loading" /\ loaded \in 0 .. 3
    BY <1>2 DEF LoadAxisRange, IInv, TypeOK
  <2>2. CASE NonEmpty(code)
    <3>1. loaded' = loaded + 1 /\ phase' = IF loaded' = 4 THEN "idle" ELSE "loading"
      BY <1>2, <2>2 DEF LoadAxisRange, NonEmpty
    <3>2. \A i \in 1 .. 4 : i <= loaded' => NonEmpty(AxisOrder[i])
      <4> SUFFICES ASSUME NEW i \in 1 .. 4, i <= loaded + 1
                   PROVE  NonEmpty(AxisOrder[i])
        BY <3>1
      <4>1. CASE i = loaded + 1
        BY <2>2, <4>1
      <4>2. CASE i # loaded + 1
        BY <2>1, <4>2 DEF LoadedInv
      <4> QED BY <4>1, <4>2
    <3>3. \A c \in Axis : \E i \in 1 .. 4 : c = AxisOrder[i]
      BY DEF AxisOrder, Axis
    <3> QED BY <2>1, <3>1, <3>2, <3>3 DEF LoadedInv
  <2>3. CASE ~NonEmpty(code)
    BY <1>2, <2>3 DEF LoadAxisRange, NonEmpty, LoadedInv
  <2> QED BY <2>2, <2>3
<1>3. CASE CloseDevice
  BY <1>3 DEF CloseDevice, LoadedInv
<1>4. CASE \/ StartReading \/ ReadBatch \/ Consume \/ Return
           \/ \E packet \in Packets : MoveQueued(packet) \/ MoveOverflowing(packet)
           \/ Unplug \/ UNCHANGED vars
  <2>1. UNCHANGED loaded /\ (phase' = phase \/ {phase, phase'} \subseteq {"idle", "reading"})
    BY <1>4 DEF StartReading, ReadBatch, Consume, Return, MoveQueued,
                MoveOverflowing, Move, Unplug, vars, reader
  <2> QED BY <2>1 DEF LoadedInv
<1> QED BY <1>1, <1>2, <1>3, <1>4 DEF Next

LEMMA RangesScale ==
  ASSUME IInv, LoadedInv
  PROVE  AxesFollowTheirRange
<1> SUFFICES ASSUME phase \in {"idle", "reading"}, NEW c \in Axis
             PROVE  LET r == DeviceRange[c]
                        low == IF c = "ABS_X" THEN -100 ELSE 0
                        Scaled(v) == IF c = "ABS_X"
                                     THEN NormalizeSteering(v, ranges[c])
                                     ELSE NormalizePedal(v, ranges[c])
                    IN  /\ Scaled(r.min - 1) = low /\ Scaled(r.max + 1) = 100
                        /\ \A v \in r.min .. r.max :
                             (v - r.min) * (100 - low)
                               - (Scaled(v) - low) * (r.max - r.min)
                               \in 0 .. r.max - r.min - 1
  BY DEF AxesFollowTheirRange
<1> DEFINE r == DeviceRange[c]
           low == IF c = "ABS_X" THEN -100 ELSE 0
           Scaled(v) == IF c = "ABS_X" THEN NormalizeSteering(v, ranges[c])
                        ELSE NormalizePedal(v, ranges[c])
<1>1. r \in AxisRange /\ r.min < r.max /\ ranges[c] = r
  BY InputAssumption DEF IInv, RangesInv, LoadedInv, NonEmpty
<1>2. low \in {-100, 0} /\ r.min \in Int /\ r.max \in Int
  BY <1>1 DEF AxisRange
<1> HIDE DEF r
<1>3. \A v \in Int :
        Scaled(v) = Clamp(((100 - low) * (v - r.min) + low * (r.max - r.min))
                            \div (r.max - r.min), low, 100)
  BY <1>1, AxisScale
<1> HIDE DEF low, Scaled
<1> DEFINE Exact(v) ==
             (v - r.min) * (100 - low) - (Scaled(v) - low) * (r.max - r.min)
               \in 0 .. r.max - r.min - 1
<1>4. ASSUME NEW v \in Int
      PROVE  /\ v = r.min - 1 => Scaled(v) = low
             /\ v = r.max + 1 => Scaled(v) = 100
             /\ v \in r.min .. r.max => Exact(v)
  BY <1>1, <1>2, <1>3, ScaleIs
<1> HIDE DEF Exact
<1>5. /\ Scaled(r.min - 1) = low /\ Scaled(r.max + 1) = 100
      /\ \A v \in r.min .. r.max : Exact(v)
  BY <1>2, <1>4
<1> QED BY <1>5 DEF r, low, Scaled, Exact

(***************************************************************************)
(* The clicks of the dial.                                                 *)
(***************************************************************************)
\* What the reader has still to consume.
Pipe == events \o buffer

On(frame) == ButtonOf[Dial] \in frame.pressed

LatestFrame == IF states = <<>> THEN shown ELSE states[Len(states)]

\* The state agrees with the latest frame about the dial, or has a press that
\* the next frame shows.
Synced == On(state) <=> On(LatestFrame)
Pending == IF On(state) /\ ~On(LatestFrame) THEN 1 ELSE 0

IsPress(event) == event.code = Dial /\ event.value = 1

\* The places of the presses in a sequence.
PressesIn(s) == {i \in 1 .. Len(s) : IsPress(s[i])}

\* Between two changes of the dial a frame ends; before the first one too.
Spaced(s) ==
  \A j \in 1 .. Len(s) : \A i \in 1 .. j - 1 :
    s[i].code = Dial /\ s[j].code = Dial =>
      \E k \in i + 1 .. j - 1 : s[k] = Report

Guarded(s) ==
  \A j \in 1 .. Len(s) :
    s[j].code = Dial => \E k \in 1 .. j - 1 : s[k] = Report

\* The dial is not pressed when a press comes, if it is on or off before all.
Alternating(s, on) ==
  \A j \in 1 .. Len(s) :
    IsPress(s[j]) =>
      \/ \E i \in 1 .. j - 1 :
           /\ s[i].code = Dial /\ s[i].value = 0
           /\ \A k \in i + 1 .. j - 1 : s[k].code # Dial
      \/ (\A k \in 1 .. j - 1 : s[k].code # Dial) /\ ~on

\* Every press made is shown, in a frame, about to be or still to be consumed.
Counted ==
  clicks.made = clicks.shown + Rises(states) + Pending
                  + Cardinality(PressesIn(Pipe))

\* A dial that has not moved is off for the reader.
DialInv ==
  /\ Dial \in unseen => Without(Pipe, Dial) /\ ~On(state)
  /\ Dial \notin unseen => raw[Dial] \in {0, 1}

ClicksInv ==
  clicks.exact /\ phase # "closed" =>
    /\ Counted
    /\ Spaced(Pipe) /\ (~Synced => Guarded(Pipe)) /\ Alternating(Pipe, On(state))
    /\ DialInv

(***************************************************************************)
(* Counting.                                                               *)
(***************************************************************************)
LEMMA PressesFinite ==
  ASSUME NEW s \in Seq(Event)
  PROVE  /\ PressesIn(s) \subseteq 1 .. Len(s)
         /\ IsFiniteSet(PressesIn(s)) /\ Cardinality(PressesIn(s)) \in Nat
<1>1. PressesIn(s) \subseteq 1 .. Len(s)
  BY DEF PressesIn
<1>2. IsFiniteSet(1 .. Len(s))
  BY FS_Interval
<1> QED BY <1>1, <1>2, FS_Subset, FS_CardinalityType

LEMMA TailOf ==
  ASSUME NEW s \in Seq(Event), s # <<>>
  PROVE  /\ Tail(s) \in Seq(Event) /\ Len(Tail(s)) = Len(s) - 1
         /\ Len(s) \in Nat \ {0} /\ Head(s) = s[1]
         /\ \A i \in 1 .. Len(s) - 1 : Tail(s)[i] = s[i + 1]
OBVIOUS

LEMMA Joined ==
  ASSUME NEW s \in Seq(Event), NEW t \in Seq(Event)
  PROVE  /\ s \o t \in Seq(Event) /\ Len(s \o t) = Len(s) + Len(t)
         /\ Len(s) \in Nat /\ Len(t) \in Nat
         /\ \A i \in 1 .. Len(s) : (s \o t)[i] = s[i]
         /\ \A i \in 1 .. Len(t) : (s \o t)[Len(s) + i] = t[i]
OBVIOUS

LEMMA TailCounts ==
  ASSUME NEW s \in Seq(Event), s # <<>>
  PROVE  Cardinality(PressesIn(s)) =
           Cardinality(PressesIn(Tail(s))) + (IF IsPress(Head(s)) THEN 1 ELSE 0)
<1> DEFINE t == Tail(s)
           A == PressesIn(t)
           B == PressesIn(s) \ {1}
           f == [i \in A |-> i + 1]
<1>1. /\ t \in Seq(Event) /\ Len(t) = Len(s) - 1
      /\ Len(s) \in Nat \ {0} /\ Head(s) = s[1]
      /\ \A i \in 1 .. Len(s) - 1 : t[i] = s[i + 1]
  BY TailOf
<1> HIDE DEF t
<1>2. \A i \in A : i \in Int /\ i + 1 \in B
  BY <1>1 DEF PressesIn
<1>3. \A j \in B : j - 1 \in A /\ j \in Int
  <2> SUFFICES ASSUME NEW j \in B PROVE j - 1 \in A /\ j \in Int
    OBVIOUS
  <2>1. j \in 2 .. Len(s) /\ IsPress(s[j])
    BY <1>1 DEF PressesIn
  <2>2. j - 1 \in 1 .. Len(s) - 1 /\ (j - 1) + 1 = j
    BY <1>1, <2>1
  <2>3. t[j - 1] = s[j]
    BY <1>1, <2>2
  <2> QED BY <1>1, <2>1, <2>2, <2>3 DEF PressesIn
<1> HIDE DEF A, B
<1>4. f \in Bijection(A, B)
  <2>1. f \in [A -> B]
    BY <1>2
  <2>2. \A i, j \in A : f[i] = f[j] => i = j
    BY <1>2
  <2>3. \A j \in B : \E i \in A : f[i] = j
    BY <1>3
  <2> HIDE DEF f
  <2>4. f \in Injection(A, B)
    BY <2>1, <2>2 DEF Injection, IsInjective
  <2>5. f \in Surjection(A, B)
    BY <2>1, <2>3 DEF Surjection
  <2> QED BY <2>4, <2>5 DEF Bijection
<1>5. IsFiniteSet(A) /\ Cardinality(B) = Cardinality(A)
  <2>1. IsFiniteSet(A)
    BY <1>1, PressesFinite DEF A
  <2> QED BY <1>4, <2>1, FS_Bijection DEF ExistsBijection
<1>6. Cardinality(B) = IF 1 \in PressesIn(s) THEN Cardinality(PressesIn(s)) - 1
                       ELSE Cardinality(PressesIn(s))
  BY PressesFinite, FS_RemoveElement DEF B
<1>7. 1 \in PressesIn(s) <=> IsPress(Head(s))
  BY <1>1 DEF PressesIn
<1>8. Cardinality(PressesIn(s)) \in Nat
  BY PressesFinite
<1> QED BY <1>5, <1>6, <1>7, <1>8 DEF A, t

\* A packet with its report has at most one press.
LEMMA PacketCounts ==
  ASSUME NEW s \in Seq(Event), NEW packet \in Packets
  PROVE  LET u == s \o Append(packet, Report)
         IN  /\ u \in Seq(Event) /\ Len(u) = Len(s) + Len(packet) + 1
             /\ Len(s) \in Nat /\ Len(packet) \in Nat
             /\ \A i \in 1 .. Len(s) : u[i] = s[i]
             /\ \A i \in 1 .. Len(packet) : u[Len(s) + i] = packet[i]
             /\ u[Len(u)] = Report
             /\ Cardinality(PressesIn(u)) =
                  Cardinality(PressesIn(s)) + Presses(packet)
<1> DEFINE u == s \o Append(packet, Report)
           n == Len(s)
<1>1. /\ packet \in Seq(Change) /\ Len(packet) \in Nat
      /\ \A i, j \in 1 .. Len(packet) :
           packet[i].code = packet[j].code => i = j
  BY InputAssumption
<1>2. packet \in Seq(Event) /\ Report \in Event
  BY <1>1 DEF Event
<1>3. /\ Append(packet, Report) \in Seq(Event)
      /\ Len(Append(packet, Report)) = Len(packet) + 1
      /\ \A i \in 1 .. Len(packet) : Append(packet, Report)[i] = packet[i]
      /\ Append(packet, Report)[Len(packet) + 1] = Report
  BY <1>1, <1>2
<1>4. /\ u \in Seq(Event) /\ Len(u) = n + Len(packet) + 1 /\ n \in Nat
      /\ \A i \in 1 .. n : u[i] = s[i]
      /\ \A i \in 1 .. Len(packet) : u[n + i] = packet[i]
      /\ u[Len(u)] = Report
  <2> HIDE DEF u
  <2> DEFINE whole == Append(packet, Report)
  <2>1. /\ whole \in Seq(Event) /\ Len(whole) = Len(packet) + 1 /\ u = s \o whole
        /\ \A i \in 1 .. Len(packet) : whole[i] = packet[i]
        /\ whole[Len(packet) + 1] = Report
    BY <1>3 DEF u
  <2> HIDE DEF whole
  <2>2. /\ s \o whole \in Seq(Event) /\ Len(s \o whole) = Len(s) + Len(whole)
        /\ Len(s) \in Nat
        /\ \A i \in 1 .. Len(s) : (s \o whole)[i] = s[i]
        /\ \A i \in 1 .. Len(whole) : (s \o whole)[Len(s) + i] = whole[i]
    BY <2>1, Joined
  <2> QED BY <1>1, <2>1, <2>2
<1> HIDE DEF u, n
<1>5. \A i \in 1 .. Len(u) : i \in 1 .. n \/ i = Len(u)
                             \/ (i - n \in 1 .. Len(packet) /\ u[i] = packet[i - n])
  <2> SUFFICES ASSUME NEW i \in 1 .. Len(u), i > n, i # Len(u)
               PROVE  i - n \in 1 .. Len(packet) /\ u[i] = packet[i - n]
    BY <1>4
  <2>1. i - n \in 1 .. Len(packet) /\ n + (i - n) = i
    BY <1>1, <1>4
  <2>2. u[n + (i - n)] = packet[i - n]
    BY <1>4, <2>1
  <2> QED BY <2>1, <2>2
<1>6. ~IsPress(Report)
  BY CodesApart, InputAssumption DEF Report, IsPress, Code, Key
<1>7. CASE \E k \in 1 .. Len(packet) : IsPress(packet[k])
  <2>1. PICK k \in 1 .. Len(packet) : IsPress(packet[k])
    BY <1>7
  <2>2. \A j \in 1 .. Len(packet) : IsPress(packet[j]) => j = k
    BY <1>1, <2>1 DEF IsPress
  <2>3. PressesIn(u) = PressesIn(s) \cup {n + k}
    <3>1. \A i \in PressesIn(u) : i \in PressesIn(s) \cup {n + k}
      <4> SUFFICES ASSUME NEW i \in 1 .. Len(u), IsPress(u[i])
                   PROVE  i \in PressesIn(s) \cup {n + k}
        BY DEF PressesIn
      <4>1. CASE i \in 1 .. n
        BY <1>4, <4>1 DEF PressesIn, n
      <4>2. CASE i - n \in 1 .. Len(packet) /\ u[i] = packet[i - n]
        <5>1. i - n = k
          BY <2>2, <4>2
        <5> QED BY <1>4, <5>1
      <4> QED BY <1>4, <1>5, <1>6, <4>1, <4>2
    <3>2. \A i \in PressesIn(s) : i \in PressesIn(u)
      BY <1>1, <1>4 DEF PressesIn, n
    <3>3. n + k \in PressesIn(u)
      BY <1>1, <1>4, <2>1 DEF PressesIn
    <3> QED BY <3>1, <3>2, <3>3
  <2>4. n + k \notin PressesIn(s)
    BY <1>4 DEF PressesIn, n
  <2>5. Presses(packet) = 1
    BY <1>1, <2>1 DEF Presses, IsPress
  <2>6. Cardinality(PressesIn(u)) = Cardinality(PressesIn(s)) + 1
    BY <2>3, <2>4, PressesFinite, FS_AddElement
  <2> QED BY <1>1, <1>4, <2>5, <2>6 DEF u, n
<1>8. CASE ~\E k \in 1 .. Len(packet) : IsPress(packet[k])
  <2>1. PressesIn(u) = PressesIn(s)
    <3>1. \A i \in PressesIn(u) : i \in PressesIn(s)
      <4> SUFFICES ASSUME NEW i \in 1 .. Len(u), IsPress(u[i])
                   PROVE  i \in PressesIn(s)
        BY DEF PressesIn
      <4>1. i \in 1 .. n
        BY <1>4, <1>5, <1>6, <1>8
      <4> QED BY <1>4, <4>1 DEF PressesIn, n
    <3>2. \A i \in PressesIn(s) : i \in PressesIn(u)
      BY <1>1, <1>4 DEF PressesIn, n
    <3> QED BY <3>1, <3>2
  <2>2. Presses(packet) = 0
    BY <1>1, <1>8 DEF Presses, IsPress
  <2>3. Cardinality(PressesIn(s)) \in Nat
    BY PressesFinite
  <2> QED BY <1>1, <1>4, <2>1, <2>2, <2>3 DEF u, n
<1> QED BY <1>7, <1>8

LEMMA AppendedIs ==
  ASSUME NEW S, NEW s \in Seq(S), NEW e \in S
  PROVE  /\ Len(s) \in Nat /\ DOMAIN s = 1 .. Len(s)
         /\ DOMAIN Append(s, e) = 1 .. Len(s) + 1
         /\ \A i \in 1 .. Len(s) : Append(s, e)[i] = s[i]
         /\ Append(s, e)[Len(s) + 1] = e
         /\ s = <<>> <=> Len(s) = 0
         /\ Append(s, e) \in Seq(S) /\ Append(s, e) # <<>>
         /\ Len(Append(s, e)) = Len(s) + 1
OBVIOUS

\* A frame more shows a rise more if the dial was not pressed in the latest.
LEMMA RisesAppended ==
  ASSUME TypeOK, states' = Append(states, state), UNCHANGED shown
  PROVE  Rises(states)' = Rises(states) + Pending
<1> DEFINE before(i) == IF i = 1 THEN shown ELSE states[i - 1]
           later(i) == IF i = 1 THEN shown ELSE states'[i - 1]
           b == ButtonOf[Dial]
           A == {i \in DOMAIN states : b \in states[i].pressed \ before(i).pressed}
           B == {i \in DOMAIN states' : b \in states'[i].pressed \ later(i).pressed}
           n == Len(states) + 1
<1>1. Rises(states) = Cardinality(A) /\ Rises(states)' = Cardinality(B)
  BY DEF Rises
<1> HIDE DEF A, B
<1>2. /\ n \in Nat \ {0} /\ n - 1 = Len(states)
      /\ DOMAIN states = 1 .. n - 1 /\ DOMAIN states' = 1 .. n
      /\ \A i \in 1 .. n - 1 : states'[i] = states[i]
      /\ states'[n] = state
      /\ states = <<>> <=> n = 1
  BY AppendedIs DEF TypeOK
<1> HIDE DEF n
<1>3. later(n) = LatestFrame
  <2>1. CASE n = 1
    BY <1>2, <2>1 DEF LatestFrame
  <2>2. CASE n # 1
    <3>1. n - 1 \in 1 .. n - 1
      BY <1>2, <2>2
    <3> QED BY <1>2, <2>2, <3>1 DEF LatestFrame
  <2> QED BY <2>1, <2>2
<1>4. \A i \in 1 .. n - 1 : later(i) = before(i)
  <2> SUFFICES ASSUME NEW i \in 1 .. n - 1, i # 1
               PROVE  states'[i - 1] = states[i - 1]
    OBVIOUS
  <2>1. i - 1 \in 1 .. n - 1
    BY <1>2
  <2> QED BY <1>2, <2>1
<1> HIDE DEF later, before
<1>5. n \in B <=> On(state) /\ ~On(LatestFrame)
  BY <1>2, <1>3 DEF On, B
<1>6. \A i \in 1 .. n - 1 : i \in B <=> i \in A
  BY <1>2, <1>4 DEF A, B
<1>7. B \subseteq 1 .. n /\ A \subseteq 1 .. n - 1
  BY <1>2 DEF A, B
<1>8. IsFiniteSet(A) /\ Cardinality(A) \in Nat
  <2>1. IsFiniteSet(1 .. n - 1)
    BY <1>2, FS_Interval
  <2> QED BY <1>7, <2>1, FS_Subset, FS_CardinalityType
<1>9. n \notin A /\ \A i \in 1 .. n : i = n \/ i \in 1 .. n - 1
  BY <1>2, <1>7
<1>10. CASE On(state) /\ ~On(LatestFrame)
  <2>1. B = A \cup {n}
    BY <1>5, <1>6, <1>7, <1>9, <1>10, Zenon
  <2>2. Cardinality(B) = Cardinality(A) + 1
    BY <1>8, <1>9, <2>1, FS_AddElement
  <2> QED BY <1>1, <1>10, <2>2 DEF Pending
<1>11. CASE ~(On(state) /\ ~On(LatestFrame))
  <2>1. B = A
    BY <1>5, <1>6, <1>7, <1>9, <1>11, Zenon
  <2> QED BY <1>1, <1>8, <1>11, <2>1 DEF Pending
<1> QED BY <1>10, <1>11

(***************************************************************************)
(* Turns of the dial in a sequence.                                        *)
(***************************************************************************)
LEMMA DialApart ==
  /\ Dial \in Code /\ Dial \in Key /\ Dial \in KnownKey
  /\ Report.code # Dial /\ Dropped.code # Dial /\ ~IsPress(Report)
  /\ \A e \in Event : e.code = Dial =>
       e.type = "EV_KEY" /\ e.value \in {0, 1} /\ e.code \notin Axis \cup Hat
BY InputAssumption, CodesApart, Keys
   DEF Code, Key, Report, Dropped, IsPress, Event, Change

\* What is left when the first event is consumed.
LEMMA TailSpaced ==
  ASSUME NEW s \in Seq(Event), s # <<>>, Spaced(s)
  PROVE  /\ Spaced(Tail(s))
         /\ Head(s).code = Dial => Guarded(Tail(s))
<1> DEFINE t == Tail(s)
<1>1. /\ Len(t) = Len(s) - 1 /\ Len(s) \in Nat \ {0} /\ Head(s) = s[1]
      /\ \A i \in 1 .. Len(s) - 1 : t[i] = s[i + 1]
  BY TailOf
<1> HIDE DEF t
<1>2. ASSUME NEW i \in 0 .. Len(t), NEW j \in i + 1 .. Len(t),
             s[i + 1].code = Dial, t[j].code = Dial
      PROVE  \E k \in i + 1 .. j - 1 : t[k] = Report
  <2>1. j + 1 \in 1 .. Len(s) /\ i + 1 \in 1 .. (j + 1) - 1 /\ t[j] = s[j + 1]
    BY <1>1
  <2>2. PICK k \in (i + 1) + 1 .. (j + 1) - 1 : s[k] = Report
    BY <1>2, <2>1 DEF Spaced
  <2>3. k - 1 \in i + 1 .. j - 1 /\ k - 1 \in 1 .. Len(s) - 1 /\ (k - 1) + 1 = k
    BY <1>1, <2>2
  <2>4. t[k - 1] = s[k]
    BY <1>1, <2>3
  <2> QED BY <2>2, <2>3, <2>4
<1>3. Spaced(t)
  <2> SUFFICES ASSUME NEW j \in 1 .. Len(t), NEW i \in 1 .. j - 1,
                      t[i].code = Dial, t[j].code = Dial
               PROVE  \E k \in i + 1 .. j - 1 : t[k] = Report
    BY DEF Spaced
  <2>1. i \in 0 .. Len(t) /\ j \in i + 1 .. Len(t) /\ t[i] = s[i + 1]
    BY <1>1
  <2> QED BY <1>2, <2>1
<1>4. ASSUME Head(s).code = Dial PROVE Guarded(t)
  <2> SUFFICES ASSUME NEW j \in 1 .. Len(t), t[j].code = Dial
               PROVE  \E k \in 1 .. j - 1 : t[k] = Report
    BY DEF Guarded
  <2>1. 0 \in 0 .. Len(t) /\ j \in 0 + 1 .. Len(t) /\ s[0 + 1].code = Dial
    BY <1>1, <1>4
  <2>2. \E k \in 0 + 1 .. j - 1 : t[k] = Report
    BY <1>2, <2>1
  <2> QED BY <2>2
<1> QED BY <1>3, <1>4 DEF t

LEMMA TailGuarded ==
  ASSUME NEW s \in Seq(Event), s # <<>>, Guarded(s)
  PROVE  /\ Head(s).code # Dial
         /\ Head(s) # Report => Guarded(Tail(s))
<1> DEFINE t == Tail(s)
<1>1. /\ Len(t) = Len(s) - 1 /\ Len(s) \in Nat \ {0} /\ Head(s) = s[1]
      /\ \A i \in 1 .. Len(s) - 1 : t[i] = s[i + 1]
  BY TailOf
<1> HIDE DEF t
<1>2. s[1].code # Dial
  BY <1>1 DEF Guarded
<1>3. ASSUME s[1] # Report PROVE Guarded(t)
  <2> SUFFICES ASSUME NEW j \in 1 .. Len(t), t[j].code = Dial
               PROVE  \E k \in 1 .. j - 1 : t[k] = Report
    BY DEF Guarded
  <2>1. j + 1 \in 1 .. Len(s) /\ s[j + 1].code = Dial
    BY <1>1
  <2>2. PICK k \in 1 .. (j + 1) - 1 : s[k] = Report
    BY <2>1 DEF Guarded
  <2>3. k - 1 \in 1 .. j - 1 /\ k - 1 \in 1 .. Len(s) - 1 /\ (k - 1) + 1 = k
    BY <1>1, <1>3, <2>2
  <2>4. t[k - 1] = s[k]
    BY <1>1, <2>3
  <2> QED BY <2>2, <2>3, <2>4
<1> QED BY <1>1, <1>2, <1>3 DEF t

LEMMA TailAlternating ==
  ASSUME NEW s \in Seq(Event), s # <<>>, NEW on \in BOOLEAN, Alternating(s, on)
  PROVE  /\ IsPress(Head(s)) => ~on
         /\ Alternating(Tail(s), IF Head(s).code = Dial THEN Head(s).value # 0
                                 ELSE on)
<1> DEFINE t == Tail(s)
           next == IF Head(s).code = Dial THEN Head(s).value # 0 ELSE on
<1>1. /\ Len(t) = Len(s) - 1 /\ Len(s) \in Nat \ {0} /\ Head(s) = s[1]
      /\ \A i \in 1 .. Len(s) - 1 : t[i] = s[i + 1]
  BY TailOf
<1> HIDE DEF t
<1>2. IsPress(s[1]) => ~on
  BY <1>1 DEF Alternating
<1>3. Alternating(t, next)
  <2> SUFFICES ASSUME NEW j \in 1 .. Len(t), IsPress(t[j])
               PROVE  \/ \E i \in 1 .. j - 1 :
                           /\ t[i].code = Dial /\ t[i].value = 0
                           /\ \A k \in i + 1 .. j - 1 : t[k].code # Dial
                      \/ (\A k \in 1 .. j - 1 : t[k].code # Dial) /\ ~next
    BY DEF Alternating
  <2>1. j + 1 \in 1 .. Len(s) /\ IsPress(s[j + 1])
    BY <1>1
  <2>2. ASSUME NEW k \in 1 .. j - 1 PROVE k + 1 \in 1 .. j /\ t[k] = s[k + 1]
    BY <1>1
  <2>3. CASE \E i \in 1 .. (j + 1) - 1 :
               /\ s[i].code = Dial /\ s[i].value = 0
               /\ \A k \in i + 1 .. (j + 1) - 1 : s[k].code # Dial
    <3>1. PICK i \in 1 .. j :
                 /\ s[i].code = Dial /\ s[i].value = 0
                 /\ \A k \in i + 1 .. j : s[k].code # Dial
      BY <2>3
    <3>2. CASE i = 1
      <4>1. next = FALSE
        BY <1>1, <3>1, <3>2
      <4>2. \A k \in 1 .. j - 1 : t[k].code # Dial
        BY <2>2, <3>1, <3>2
      <4> QED BY <4>1, <4>2
    <3>3. CASE i # 1
      <4>1. i - 1 \in 1 .. j - 1 /\ (i - 1) + 1 = i
        BY <3>1, <3>3
      <4>2. t[i - 1] = s[i]
        BY <2>2, <4>1
      <4>3. ASSUME NEW k \in (i - 1) + 1 .. j - 1 PROVE t[k].code # Dial
        <5>1. k \in 1 .. j - 1 /\ k + 1 \in i + 1 .. j
          BY <1>1, <4>1
        <5> QED BY <2>2, <3>1, <5>1
      <4> QED BY <3>1, <4>1, <4>2, <4>3
    <3> QED BY <3>2, <3>3
  <2>4. CASE (\A k \in 1 .. (j + 1) - 1 : s[k].code # Dial) /\ ~on
    <3>1. \A k \in 1 .. j - 1 : t[k].code # Dial
      BY <2>2, <2>4
    <3>2. next = on
      BY <1>1, <2>1, <2>4
    <3> QED BY <2>4, <3>1, <3>2
  <2> QED BY <2>1, <2>3, <2>4 DEF Alternating
<1> QED BY <1>1, <1>2, <1>3 DEF t

\* A packet comes after the end of a frame, and turns the dial once.
LEMMA PacketTurns ==
  ASSUME NEW s \in Seq(Event), NEW packet \in Packets, NEW on \in BOOLEAN,
         Spaced(s), Complete(s), Alternating(s, on),
         Presses(packet) = 1 => Ends(s, Dial, 0) \/ (Without(s, Dial) /\ ~on)
  PROVE  LET u == s \o Append(packet, Report)
         IN  Spaced(u) /\ Alternating(u, on) /\ (s # <<>> /\ Guarded(s) => Guarded(u))
<1> DEFINE u == s \o Append(packet, Report)
           n == Len(s)
           m == Len(packet)
<1>1. /\ n \in Nat /\ m \in Nat /\ Len(u) = n + m + 1
      /\ \A i \in 1 .. n : u[i] = s[i]
      /\ \A i \in 1 .. m : u[n + i] = packet[i]
      /\ u[Len(u)] = Report
  BY PacketCounts
<1>2. /\ packet \in Seq(Change)
      /\ \A i, j \in 1 .. m : packet[i].code = packet[j].code => i = j
  BY InputAssumption
<1>3. n # 0 => s # <<>> /\ s[n] = Report
  BY DEF Complete
<1>4. s # <<>> => n # 0
  OBVIOUS
<1> HIDE DEF u, n, m
<1>5. ASSUME NEW j \in 1 .. Len(u), j > n, u[j].code = Dial
      PROVE  j - n \in 1 .. m /\ u[j] = packet[j - n]
  <2>1. j # Len(u)
    BY <1>1, <1>5, DialApart
  <2>2. j - n \in 1 .. m /\ n + (j - n) = j
    BY <1>1, <1>5, <2>1
  <2>3. u[n + (j - n)] = packet[j - n]
    BY <1>1, <2>2
  <2> QED BY <2>2, <2>3
<1>6. ASSUME NEW j \in 1 .. Len(u), j > n, u[j].code = Dial,
             NEW i \in 1 .. Len(u), i > n, u[i].code = Dial
      PROVE  i = j
  <2>1. j - n \in 1 .. m /\ i - n \in 1 .. m /\ packet[j - n].code = packet[i - n].code
    BY <1>5, <1>6
  <2>2. j - n = i - n
    BY <1>2, <2>1
  <2> QED BY <1>1, <2>2
<1>7. Spaced(u)
  <2> SUFFICES ASSUME NEW j \in 1 .. Len(u), NEW i \in 1 .. j - 1,
                      u[i].code = Dial, u[j].code = Dial
               PROVE  \E k \in i + 1 .. j - 1 : u[k] = Report
    BY DEF Spaced
  <2>1. CASE j <= n
    <3>1. /\ j \in 1 .. n /\ u[j] = s[j] /\ u[i] = s[i]
          /\ \A k \in i + 1 .. j - 1 : u[k] = s[k]
      BY <1>1, <2>1
    <3>2. \E k \in i + 1 .. j - 1 : s[k] = Report
      BY <3>1 DEF Spaced, n
    <3> QED BY <3>1, <3>2
  <2>2. CASE j > n
    <3>1. i <= n
      BY <1>1, <1>6, <2>2
    <3>2. n # 0 /\ u[n] = Report /\ i # n
      BY <1>1, <1>3, <3>1, DialApart
    <3>3. n \in i + 1 .. j - 1
      BY <1>1, <2>2, <3>1, <3>2
    <3> QED BY <3>2, <3>3
  <2> QED BY <1>1, <2>1, <2>2
<1>8. Alternating(u, on)
  <2> SUFFICES ASSUME NEW j \in 1 .. Len(u), IsPress(u[j])
               PROVE  \/ \E i \in 1 .. j - 1 :
                           /\ u[i].code = Dial /\ u[i].value = 0
                           /\ \A k \in i + 1 .. j - 1 : u[k].code # Dial
                      \/ (\A k \in 1 .. j - 1 : u[k].code # Dial) /\ ~on
    BY DEF Alternating
  <2>1. CASE j <= n
    <3>1. /\ j \in 1 .. n /\ u[j] = s[j]
          /\ \A k \in 1 .. j - 1 : u[k] = s[k]
      BY <1>1, <2>1
    <3>2. \/ \E i \in 1 .. j - 1 :
               /\ s[i].code = Dial /\ s[i].value = 0
               /\ \A k \in i + 1 .. j - 1 : s[k].code # Dial
          \/ (\A k \in 1 .. j - 1 : s[k].code # Dial) /\ ~on
      BY <3>1 DEF Alternating, n
    <3>3. ASSUME NEW i \in 1 .. j - 1,
                 /\ s[i].code = Dial /\ s[i].value = 0
                 /\ \A k \in i + 1 .. j - 1 : s[k].code # Dial
          PROVE  /\ u[i].code = Dial /\ u[i].value = 0
                 /\ \A k \in i + 1 .. j - 1 : u[k].code # Dial
      <4>1. \A k \in i + 1 .. j - 1 : k \in 1 .. j - 1
        OBVIOUS
      <4> QED BY <3>1, <3>3, <4>1
    <3> QED BY <3>1, <3>2, <3>3
  <2>2. CASE j > n
    <3>1. u[j].code = Dial
      BY DEF IsPress
    <3>2. j - n \in 1 .. m /\ u[j] = packet[j - n]
      BY <1>5, <2>2, <3>1
    <3>3. Presses(packet) = 1
      <4>1. /\ j - n \in DOMAIN packet
            /\ packet[j - n].code = Dial /\ packet[j - n].value = 1
        BY <1>2, <3>2 DEF IsPress, m
      <4> QED BY <4>1 DEF Presses
    <3>4. \A k \in n + 1 .. j - 1 : u[k].code # Dial
      BY <1>1, <1>6, <2>2, <3>1
    <3>5. CASE Ends(s, Dial, 0)
      <4>1. PICK i \in 1 .. n :
              /\ s[i].code = Dial /\ s[i].value = 0
              /\ \A k \in i + 1 .. n : s[k].code # Dial
        BY <3>5 DEF Ends, n
      <4>2. i \in 1 .. j - 1 /\ u[i] = s[i]
        BY <1>1, <2>2
      <4>3. ASSUME NEW k \in i + 1 .. j - 1 PROVE u[k].code # Dial
        <5>1. CASE k <= n
          BY <1>1, <4>1, <5>1
        <5>2. CASE k > n
          BY <1>1, <3>4, <5>2
        <5> QED BY <1>1, <5>1, <5>2
      <4> QED BY <4>1, <4>2, <4>3
    <3>6. CASE Without(s, Dial) /\ ~on
      <4>1. ASSUME NEW k \in 1 .. j - 1 PROVE u[k].code # Dial
        <5>1. CASE k <= n
          BY <1>1, <3>6, <5>1 DEF Without, n
        <5>2. CASE k > n
          BY <1>1, <3>4, <5>2
        <5> QED BY <1>1, <5>1, <5>2
      <4> QED BY <3>6, <4>1
    <3> QED BY <3>3, <3>5, <3>6
  <2> QED BY <1>1, <2>1, <2>2
<1>9. ASSUME s # <<>>, Guarded(s) PROVE Guarded(u)
  <2> SUFFICES ASSUME NEW j \in 1 .. Len(u), u[j].code = Dial
               PROVE  \E k \in 1 .. j - 1 : u[k] = Report
    BY DEF Guarded
  <2>1. CASE j <= n
    <3>1. j \in 1 .. n /\ u[j] = s[j] /\ \A k \in 1 .. j - 1 : u[k] = s[k]
      BY <1>1, <2>1
    <3>2. \E k \in 1 .. j - 1 : s[k] = Report
      BY <1>9, <3>1 DEF Guarded, n
    <3> QED BY <3>1, <3>2
  <2>2. CASE j > n
    <3>1. n \in 1 .. j - 1 /\ u[n] = Report
      BY <1>1, <1>3, <1>4, <1>9, <2>2
    <3> QED BY <3>1
  <2> QED BY <1>1, <2>1, <2>2
<1> QED BY <1>7, <1>8, <1>9 DEF u

(***************************************************************************)
(* The steps.                                                              *)
(***************************************************************************)
\* Steps that move nothing along.
LEMMA PipeKept ==
  ASSUME ClicksInv, phase # "closed" \/ phase' = "closed",
         phase' # "closed" =>
           /\ Pipe' = Pipe
           /\ UNCHANGED <<state, states, raw, shown, unseen, clicks>>
  PROVE  ClicksInv'
<1> SUFFICES ASSUME clicks'.exact, phase' # "closed"
             PROVE  /\ Counted' /\ Spaced(Pipe)' /\ (~Synced' => Guarded(Pipe)')
                    /\ Alternating(Pipe, On(state))' /\ DialInv'
  BY DEF ClicksInv
<1>1. /\ UNCHANGED <<state, states, raw, shown, unseen, clicks>>
      /\ Pipe' = Pipe
  OBVIOUS
<1>2. /\ Counted /\ Spaced(Pipe) /\ (~Synced => Guarded(Pipe))
      /\ Alternating(Pipe, On(state)) /\ DialInv
  BY <1>1 DEF ClicksInv
<1>3. Rises(states)' = Rises(states)
  BY <1>1 DEF Rises
<1>4. LatestFrame' = LatestFrame
  BY <1>1 DEF LatestFrame
<1>5. Counted'
  BY <1>1, <1>2, <1>3, <1>4 DEF Counted, Pending, PressesIn
<1> QED
  BY <1>1, <1>2, <1>4, <1>5 DEF Spaced, Synced, Guarded, Alternating, DialInv,
                                Without

LEMMA PipeType ==
  ASSUME TypeOK
  PROVE  Pipe \in Seq(Event)
BY Joined DEF TypeOK, Pipe

LEMMA EmptyCounts ==
  ASSUME TypeOK
  PROVE  /\ states = <<>> => Rises(states) = 0
         /\ Pipe = <<>> => Cardinality(PressesIn(Pipe)) = 0
<1>1. ASSUME states = <<>> PROVE Rises(states) = 0
  <2>1. DOMAIN states = {}
    BY <1>1
  <2> QED BY <2>1, FS_EmptySet, Zenon DEF Rises
<1>2. ASSUME Pipe = <<>> PROVE Cardinality(PressesIn(Pipe)) = 0
  <2>1. 1 .. Len(Pipe) = {}
    BY <1>2
  <2>2. PressesIn(Pipe) = {}
    BY <2>1, Zenon DEF PressesIn
  <2> QED BY <2>2, FS_EmptySet
<1> QED BY <1>1, <1>2

LEMMA InitClicks == Init => ClicksInv
<1> SUFFICES ASSUME Init PROVE ClicksInv
  OBVIOUS
<1>1. /\ states = <<>> /\ Pipe = <<>> /\ state = Released /\ shown = Released
      /\ Dial \in unseen /\ clicks.made = 0 /\ clicks.shown = 0
  BY DialApart DEF Init, Pipe
<1>2. ~On(state) /\ ~On(LatestFrame)
  BY <1>1 DEF On, LatestFrame, Released
<1>3. Counted
  BY <1>1, <1>2, EmptyCounts, InitHolds DEF Counted, Pending, IInv
<1>4. Spaced(Pipe) /\ Synced /\ Alternating(Pipe, On(state)) /\ DialInv
  BY <1>1, <1>2 DEF Spaced, Synced, Alternating, DialInv, Without
<1> QED BY <1>3, <1>4 DEF ClicksInv

LEMMA ReadClicks ==
  ASSUME IInv, ClicksInv, ReadBatch
  PROVE  ClicksInv'
<1> DEFINE count == IF Len(buffer) < Batch THEN Len(buffer) ELSE Batch
<1>1. /\ events = <<>>
      /\ events' = SubSeq(buffer, 1, count)
      /\ buffer' = SubSeq(buffer, count + 1, Len(buffer))
      /\ UNCHANGED <<phase, state, states, raw, shown, unseen, clicks>>
      /\ phase = "reading"
  BY DEF ReadBatch
<1>2. buffer \in Seq(Event) /\ count \in 0 .. Len(buffer)
  BY InputAssumption DEF IInv, TypeOK
<1> HIDE DEF count
<1>3. Pipe' = Pipe
  <2>1. SubSeq(buffer, 1, count) \o SubSeq(buffer, count + 1, Len(buffer)) = buffer
    <3>1. /\ 1 \in 1 .. Len(buffer) + 1 /\ count \in 1 - 1 .. Len(buffer)
          /\ Len(buffer) \in count .. Len(buffer)
      BY <1>2
    <3>2. SubSeq(buffer, 1, count) \o SubSeq(buffer, count + 1, Len(buffer))
            = SubSeq(buffer, 1, Len(buffer))
      BY <1>2, <3>1, ConcatAdjacentSubSeq
    <3> QED BY <1>2, <3>2, SubSeqFull
  <2>2. <<>> \o buffer = buffer
    BY <1>2
  <2> QED BY <1>1, <2>1, <2>2 DEF Pipe
<1> QED BY <1>1, <1>3, PipeKept

LEMMA ReturnClicks ==
  ASSUME IInv, ClicksInv, Return
  PROVE  ClicksInv'
<1>1. /\ phase = "reading" /\ phase' = "idle" /\ states' = <<>>
      /\ shown' = LatestFrame
      /\ clicks' = IF clicks.exact
                   THEN [clicks EXCEPT !.shown = @ + Rises(states)] ELSE clicks
      /\ UNCHANGED <<state, events, buffer, raw, unseen>>
  BY DEF Return, LatestFrame, device
<1> SUFFICES ASSUME clicks.exact PROVE ClicksInv'
  BY <1>1 DEF ClicksInv
<1>2. /\ Counted /\ Spaced(Pipe) /\ (~Synced => Guarded(Pipe))
      /\ Alternating(Pipe, On(state)) /\ DialInv
  BY <1>1 DEF ClicksInv
<1>3. Pipe' = Pipe /\ LatestFrame' = LatestFrame
  BY <1>1 DEF Pipe, LatestFrame
<1>4. Rises(states)' = 0
  <2>1. DOMAIN states' = {}
    BY <1>1
  <2> QED BY <2>1, FS_EmptySet, Zenon DEF Rises
<1>5. Counted'
  <2>1. /\ clicks \in [made: Nat, shown: Nat, exact: BOOLEAN]
        /\ Rises(states) \in Nat
    BY RisesFinite DEF IInv, TypeOK
  <2>2. clicks'.made = clicks.made /\ clicks'.shown = clicks.shown + Rises(states)
    BY <1>1, <2>1
  <2>3. PressesIn(Pipe)' = PressesIn(Pipe) /\ Pending' = Pending
    BY <1>1, <1>3 DEF PressesIn, Pending
  <2>4. Cardinality(PressesIn(Pipe)) \in Nat
    BY PipeType, PressesFinite DEF IInv
  <2> QED BY <1>2, <1>4, <2>1, <2>2, <2>3, <2>4 DEF Counted, Pending
<1> QED
  BY <1>1, <1>2, <1>3, <1>5 DEF ClicksInv, Spaced, Synced, Guarded, Alternating,
                                DialInv, Without

LEMMA ConsumeClicks ==
  ASSUME IInv, ClicksInv, Consume
  PROVE  ClicksInv'
<1> DEFINE event == Head(events)
<1>1. /\ phase = "reading" /\ events # <<>> /\ events' = Tail(events)
      /\ UNCHANGED <<phase, raw, buffer, shown, unseen, clicks>>
  BY DEF Consume, device
<1> SUFFICES ASSUME clicks.exact PROVE ClicksInv'
  BY <1>1 DEF ClicksInv
<1>2. /\ Counted /\ Spaced(Pipe) /\ (~Synced => Guarded(Pipe))
      /\ Alternating(Pipe, On(state)) /\ DialInv
  BY <1>1 DEF ClicksInv
<1>3. /\ events \in Seq(Event) /\ buffer \in Seq(Event) /\ event \in Event
      /\ state \in Frame
  BY <1>1 DEF IInv, TypeOK
<1>4. Pipe \in Seq(Event) /\ Pipe # <<>> /\ Head(Pipe) = event /\ Pipe' = Tail(Pipe)
  <2>1. /\ events \o buffer # <<>> /\ Head(events \o buffer) = Head(events)
        /\ Tail(events) \o buffer = Tail(events \o buffer)
    BY <1>1, <1>3
  <2> QED BY <1>1, <2>1, PipeType DEF Pipe, IInv
<1>5. /\ On(state') <=> IF event.code = Dial THEN event.value # 0 ELSE On(state)
      /\ event # Report => UNCHANGED states
      /\ event = Report => UNCHANGED state /\ states' = Append(states, state)
  <2>1. CASE event.type = "EV_ABS" /\ event.code \in Axis
    <3>1. state' = SetAxis(state, event.code, event.value) /\ UNCHANGED states
      BY <2>1, CodesApart DEF Consume, Report, Dropped
    <3>2. event.code # Dial /\ event # Report
      BY <1>3, <2>1, DialApart DEF Report
    <3>3. state'.pressed = state.pressed
      BY <1>3, <2>1, <3>1 DEF SetAxis, Axis, Frame
    <3> QED BY <3>1, <3>2, <3>3 DEF On
  <2>2. CASE event.type = "EV_ABS" /\ event.code \in Hat
    <3>1. /\ state' = [state EXCEPT !.pov =
                         HatToDirection(hat'["ABS_HAT0X"], hat'["ABS_HAT0Y"])]
          /\ UNCHANGED states
      BY <2>2, CodesApart DEF Consume, Report, Dropped
    <3>2. event.code # Dial /\ event # Report
      BY <1>3, <2>2, DialApart DEF Report
    <3>3. state'.pressed = state.pressed
      BY <1>3, <3>1 DEF Frame
    <3> QED BY <3>1, <3>2, <3>3 DEF On
  <2>3. CASE event.type = "EV_KEY"
    <3>1. state' = SetButton(state, event.code, event.value # 0) /\ UNCHANGED states
      BY <2>3 DEF Consume, Report, Dropped
    <3>2. event # Report
      BY <2>3 DEF Report
    <3>3. CASE event.code \notin KnownKey
      BY <3>1, <3>2, <3>3, DialApart DEF SetButton, On
    <3>4. CASE event.code \in KnownKey
      <4> DEFINE now == IF event.value # 0 THEN state.pressed \cup {ButtonOf[event.code]}
                        ELSE state.pressed \ {ButtonOf[event.code]}
      <4>1. state' = [state EXCEPT !.pressed = now]
        BY <3>1, <3>4 DEF SetButton
      <4>2. state'.pressed = now
        <5> HIDE DEF now
        <5> QED BY <1>3, <4>1 DEF Frame
      <4>3. ButtonOf[Dial] = ButtonOf[event.code] <=> event.code = Dial
        BY <3>4, Keys, DialApart
      <4> QED BY <3>1, <3>2, <4>2, <4>3 DEF On
    <3> QED BY <3>3, <3>4
  <2>4. CASE event = Report
    BY <2>4, DialApart DEF Consume, Report, Dropped
  <2>5. CASE event = Dropped
    <3>1. UNCHANGED <<state, states>> /\ event # Report
      BY <2>5 DEF Consume, Report, Dropped
    <3> QED BY <2>5, <3>1, DialApart
  <2>6. \/ event.type = "EV_ABS" /\ event.code \in Axis
        \/ event.type = "EV_ABS" /\ event.code \in Hat
        \/ event.type = "EV_KEY" \/ event = Report \/ event = Dropped
    BY DEF Consume
  <2> QED BY <2>1, <2>2, <2>3, <2>4, <2>5, <2>6
<1> HIDE DEF event
<1>6. /\ event.code = Dial => event.value \in {0, 1} /\ event # Report
      /\ IsPress(event) <=> event.code = Dial /\ event.value = 1
  BY <1>3, DialApart DEF IsPress
<1>7. On(state) \in BOOLEAN
  BY DEF On
<1>8. /\ event.code = Dial => Synced
      /\ IsPress(event) => ~On(state)
      /\ Spaced(Pipe')
      /\ event.code = Dial => Guarded(Pipe')
      /\ ~Synced /\ event # Report => Guarded(Pipe')
      /\ Alternating(Pipe', On(state'))
  <2>1. Spaced(Pipe') /\ (event.code = Dial => Guarded(Pipe'))
    BY <1>2, <1>4, TailSpaced
  <2>2. ~Synced => event.code # Dial /\ (event # Report => Guarded(Pipe'))
    BY <1>2, <1>4, TailGuarded
  <2>3. /\ IsPress(event) => ~On(state)
        /\ Alternating(Pipe', IF event.code = Dial THEN event.value # 0
                              ELSE On(state))
    BY <1>2, <1>4, <1>7, TailAlternating
  <2>4. On(state') = IF event.code = Dial THEN event.value # 0 ELSE On(state)
    BY <1>5 DEF On
  <2>5. Alternating(Pipe', On(state'))
    BY <2>3, <2>4
  <2> QED BY <2>1, <2>2, <2>3, <2>5
<1>9. Cardinality(PressesIn(Pipe)) =
        Cardinality(PressesIn(Pipe')) + (IF IsPress(event) THEN 1 ELSE 0)
  BY <1>4, TailCounts
<1>10. /\ Cardinality(PressesIn(Pipe')) \in Nat
       /\ Rises(states) \in Nat
       /\ clicks.made \in Nat /\ clicks.shown \in Nat
  <2>1. Pipe' \in Seq(Event)
    BY <1>4, TailOf
  <2> QED BY <2>1, PressesFinite, RisesFinite DEF IInv, TypeOK
<1>11. Counted' /\ (~Synced' => Guarded(Pipe'))
  <2>1. CASE event = Report
    <3>1. states' = Append(states, state) /\ UNCHANGED state
      BY <1>5, <2>1
    <3>2. Rises(states)' = Rises(states) + Pending
      BY <1>1, <3>1, RisesAppended DEF IInv
    <3>3. LatestFrame' = state
      BY <1>3, <3>1, AppendedIs DEF LatestFrame, IInv, TypeOK
    <3>4. Synced' /\ Pending' = 0
      BY <3>1, <3>3 DEF Synced, Pending
    <3>5. ~IsPress(event)
      BY <2>1, DialApart
    <3>6. Counted'
      BY <1>1, <1>2, <1>9, <1>10, <3>2, <3>4, <3>5 DEF Counted, Pending
    <3> QED BY <3>4, <3>6
  <2>2. CASE event # Report
    <3>1. UNCHANGED <<states, shown>>
      BY <1>1, <1>5, <2>2
    <3>2. Rises(states)' = Rises(states) /\ LatestFrame' = LatestFrame
      BY <3>1 DEF Rises, LatestFrame
    <3>3. CASE event.code = Dial
      <4>1. Pending = IF On(state) /\ ~On(state) THEN 1 ELSE 0
        BY <1>8, <3>3 DEF Pending, Synced
      <4>2. CASE event.value = 1
        <5>1. ~On(state) /\ ~On(LatestFrame) /\ On(state')
          BY <1>5, <1>6, <1>8, <3>3, <4>2 DEF Synced
        <5>2. Pending = 0 /\ Pending' = 1 /\ IsPress(event)
          BY <1>6, <3>2, <3>3, <4>2, <5>1 DEF Pending
        <5>3. Counted'
          <6>1. Cardinality(PressesIn(Pipe)) = Cardinality(PressesIn(Pipe')) + 1
            BY <1>9, <5>2
          <6>2. clicks'.made = clicks.made /\ clicks'.shown = clicks.shown
            BY <1>1
          <6> QED BY <1>2, <1>10, <3>2, <5>2, <6>1, <6>2 DEF Counted
        <5> QED BY <1>8, <3>3, <5>3
      <4>3. CASE event.value = 0
        <5>1. ~On(state') /\ ~IsPress(event)
          BY <1>5, <1>6, <3>3, <4>3
        <5>2. Pending = 0 /\ Pending' = 0
          BY <4>1, <5>1 DEF Pending
        <5> QED BY <1>1, <1>2, <1>8, <1>9, <1>10, <3>2, <3>3, <5>1, <5>2
                DEF Counted
      <4> QED BY <1>6, <3>3, <4>2, <4>3
    <3>4. CASE event.code # Dial
      <4>1. (On(state') <=> On(state)) /\ ~IsPress(event)
        BY <1>5, <1>6, <3>4
      <4>2. Pending' = Pending /\ (Synced' <=> Synced)
        BY <3>2, <4>1 DEF Pending, Synced
      <4> QED BY <1>1, <1>2, <1>8, <1>9, <1>10, <2>2, <3>2, <4>1, <4>2 DEF Counted
    <3> QED BY <3>3, <3>4
  <2> QED BY <2>1, <2>2
<1>12. DialInv'
  <2>1. ASSUME Without(Pipe, Dial)
        PROVE  event.code # Dial /\ Without(Pipe', Dial)
    BY <1>4, <2>1, TailEnds
  <2> QED BY <1>1, <1>2, <1>5, <2>1 DEF DialInv
<1> QED BY <1>8, <1>11, <1>12 DEF ClicksInv

LEMMA QueuedClicks ==
  ASSUME IInv, ClicksInv, NEW packet \in Packets, MoveQueued(packet)
  PROVE  ClicksInv'
<1> DEFINE whole == Append(packet, Report)
<1>1. /\ Move(packet) /\ Opened /\ phase # "closed"
      /\ raw' = Moved(packet)
      /\ \A i \in DOMAIN packet : packet[i].value # raw[packet[i].code]
      /\ buffer' = buffer \o whole
      /\ unseen' = unseen \ Codes(packet)
      /\ clicks' = IF clicks.exact
                   THEN [clicks EXCEPT !.made = @ + Presses(packet)] ELSE clicks
      /\ UNCHANGED <<phase, state, hat, events, states, shown>>
  BY DEF MoveQueued, Move, Opened
<1> SUFFICES ASSUME clicks.exact PROVE ClicksInv'
  BY <1>1 DEF ClicksInv
<1>2. /\ Counted /\ Spaced(Pipe) /\ (~Synced => Guarded(Pipe))
      /\ Alternating(Pipe, On(state)) /\ DialInv
  BY <1>1 DEF ClicksInv
<1>3. /\ events \in Seq(Event) /\ buffer \in Seq(Event) /\ TypeOK
      /\ packet \in Seq(Change) /\ whole \in Seq(Event)
      /\ Pipe \in Seq(Event)
  <2>1. packet \in Seq(Change)
    BY InputAssumption
  <2>2. packet \in Seq(Event) /\ Report \in Event
    BY <2>1 DEF Event
  <2> QED BY <2>1, <2>2, PipeType DEF IInv, TypeOK
<1>4. Pipe' = Pipe \o whole
  <2>1. (events \o buffer) \o whole = events \o (buffer \o whole)
    <3> HIDE DEF whole
    <3> QED BY <1>3, ConcatAssociative
  <2> QED BY <1>1, <2>1 DEF Pipe
<1> HIDE DEF whole
<1>5. Complete(Pipe) /\ (Pipe = <<>> => Synced)
  <2>1. CASE buffer = <<>>
    <3>1. Pipe = events
      BY <1>3, <2>1, ConcatEmptySeq DEF Pipe
    <3>2. events = <<>> => state = LatestFrame
      BY <1>1, <2>1 DEF IInv, LatestInv, LatestFrame
    <3> QED BY <2>1, <3>1, <3>2 DEF IInv, PacketInv, Synced
  <2>2. CASE buffer # <<>>
    <3>1. buffer[Len(buffer)] = Report /\ Len(buffer) \in 1 .. Len(buffer)
      BY <1>3, <2>2 DEF IInv, PacketInv, Complete
    <3>2. /\ Len(Pipe) = Len(events) + Len(buffer)
          /\ Pipe[Len(events) + Len(buffer)] = Report
      BY <1>3, <3>1, Joined DEF Pipe
    <3>3. Pipe # <<>>
      BY <1>3, <2>2 DEF Pipe
    <3> QED BY <3>2, <3>3 DEF Complete
  <2> QED BY <2>1, <2>2
<1>6. Dial \notin unseen =>
        \/ Ends(Pipe, Dial, raw[Dial])
        \/ Without(Pipe, Dial) /\ (On(state) <=> raw[Dial] # 0)
  <2> SUFFICES ASSUME Dial \notin unseen
               PROVE  \/ Ends(Pipe, Dial, raw[Dial])
                      \/ Without(Pipe, Dial) /\ (On(state) <=> raw[Dial] # 0)
    OBVIOUS
  <2>1. Followed(Dial)
    BY <1>1, DialApart DEF IInv, FollowedInv
  <2>2. Kept(Dial) => (On(state) <=> raw[Dial] # 0)
    BY DialApart DEF Kept, On
  <2>3. /\ Ends(buffer, Dial, raw[Dial]) => Ends(Pipe, Dial, raw[Dial])
        /\ Without(buffer, Dial) /\ Ends(events, Dial, raw[Dial])
             => Ends(Pipe, Dial, raw[Dial])
        /\ Without(buffer, Dial) /\ Without(events, Dial) => Without(Pipe, Dial)
    BY <1>3, JoinEnds DEF Pipe
  <2> QED BY <2>1, <2>2, <2>3 DEF Followed
<1>7. Presses(packet) = 1 =>
        Ends(Pipe, Dial, 0) \/ (Without(Pipe, Dial) /\ ~On(state))
  <2> SUFFICES ASSUME Presses(packet) = 1
               PROVE  Ends(Pipe, Dial, 0) \/ (Without(Pipe, Dial) /\ ~On(state))
    OBVIOUS
  <2>1. raw[Dial] # 1
    BY <1>1 DEF Presses
  <2> QED BY <1>2, <1>6, <2>1 DEF DialInv
<1>8. On(state) \in BOOLEAN
  BY DEF On
<1>9. /\ Spaced(Pipe') /\ Alternating(Pipe', On(state))
      /\ Pipe # <<>> /\ Guarded(Pipe) => Guarded(Pipe')
  BY <1>2, <1>3, <1>4, <1>5, <1>7, <1>8, PacketTurns DEF whole
<1>10. Synced' <=> Synced
  BY <1>1 DEF Synced, LatestFrame
<1>11. Counted'
  <2>1. Cardinality(PressesIn(Pipe')) = Cardinality(PressesIn(Pipe)) + Presses(packet)
    BY <1>3, <1>4, PacketCounts DEF whole
  <2>2. /\ Cardinality(PressesIn(Pipe)) \in Nat /\ Rises(states) \in Nat
        /\ clicks \in [made: Nat, shown: Nat, exact: BOOLEAN]
        /\ Presses(packet) \in Nat
    BY <1>3, PressesFinite, RisesFinite DEF TypeOK, Presses
  <2>3. clicks'.made = clicks.made + Presses(packet) /\ clicks'.shown = clicks.shown
    BY <1>1, <2>2
  <2>4. Rises(states)' = Rises(states) /\ Pending' = Pending
    BY <1>1 DEF Rises, Pending, LatestFrame
  <2>5. Pending \in {0, 1}
    BY DEF Pending
  <2> QED BY <1>2, <2>1, <2>2, <2>3, <2>4, <2>5 DEF Counted
<1>12. DialInv'
  <2>1. CASE Dial \in Codes(packet)
    <3>1. PICK i \in DOMAIN packet : packet[i].code = Dial
      BY <2>1 DEF Codes
    <3>2. raw'[Dial] \in {0, 1}
      <4>1. \A k \in DOMAIN packet : packet[k].code = Dial =>
              packet[k].value \in {0, 1}
        <5>1. \A k \in DOMAIN packet : packet[k] \in Event
          BY <1>3 DEF Event
        <5> QED BY <5>1, DialApart
      <4>2. DEFINE k == CHOOSE k \in DOMAIN packet : packet[k].code = Dial
      <4>3. k \in DOMAIN packet /\ packet[k].code = Dial
        BY <3>1
      <4>4. Moved(packet)[Dial] = packet[k].value
        BY <3>1, DialApart DEF Moved
      <4> HIDE DEF k
      <4> QED BY <1>1, <4>1, <4>3, <4>4
    <3> QED BY <1>1, <2>1, <3>2 DEF DialInv
  <2>2. CASE Dial \notin Codes(packet)
    <3>1. raw'[Dial] = raw[Dial]
      BY <1>1, <2>2, DialApart DEF Moved, Codes
    <3>2. Without(whole, Dial)
      <4>1. /\ Len(whole) = Len(packet) + 1 /\ Len(packet) \in Nat
            /\ \A i \in 1 .. Len(packet) : whole[i] = packet[i]
            /\ whole[Len(packet) + 1] = Report
        BY <1>3 DEF whole
      <4>2. \A i \in 1 .. Len(packet) : packet[i].code # Dial
        BY <1>3, <2>2 DEF Codes
      <4> QED BY <4>1, <4>2, DialApart DEF Without
    <3>3. Without(Pipe, Dial) => Without(Pipe', Dial)
      BY <1>3, <1>4, <3>2, JoinEnds
    <3> QED BY <1>1, <1>2, <2>2, <3>1, <3>3 DEF DialInv
  <2> QED BY <2>1, <2>2
<1> QED BY <1>1, <1>2, <1>5, <1>9, <1>10, <1>11, <1>12 DEF ClicksInv

LEMMA NextClicks == IInv /\ ClicksInv /\ [Next]_vars => ClicksInv'
<1> SUFFICES ASSUME IInv, ClicksInv, [Next]_vars PROVE ClicksInv'
  OBVIOUS
<1>1. CASE OpenDevice
  BY <1>1, PipeKept DEF OpenDevice, device, Pipe
<1>2. CASE LoadAxisRange
  <2>1. phase = "loading" /\ UNCHANGED <<state, states, events, raw, shown, unseen, clicks>>
    BY <1>2 DEF LoadAxisRange
  <2>2. phase' # "closed" => UNCHANGED buffer
    BY <1>2 DEF LoadAxisRange
  <2> QED BY <2>1, <2>2, PipeKept DEF Pipe
<1>3. CASE CloseDevice
  BY <1>3, PipeKept DEF CloseDevice
<1>4. CASE StartReading
  BY <1>4, PipeKept DEF StartReading, device, Pipe
<1>5. CASE ReadBatch
  BY <1>5, ReadClicks
<1>6. CASE Consume
  BY <1>6, ConsumeClicks
<1>7. CASE Return
  BY <1>7, ReturnClicks
<1>8. CASE \E packet \in Packets : MoveQueued(packet)
  BY <1>8, QueuedClicks
<1>9. CASE \E packet \in Packets : MoveOverflowing(packet)
  BY <1>9 DEF MoveOverflowing, ClicksInv
<1>10. CASE Unplug \/ UNCHANGED vars
  BY <1>10, PipeKept DEF Unplug, vars, reader, device, Pipe
<1> QED BY <1>1, <1>2, <1>3, <1>4, <1>5, <1>6, <1>7, <1>8, <1>9, <1>10 DEF Next

(***************************************************************************)
(* The theorems about the dial and the axes.                               *)
(***************************************************************************)
\* As long as the kernel drops nothing, every press of the dial is a rise in the
\* frames, for every batch and buffer size and every timing of the calls.
THEOREM Clicks == Spec => []ClicksAreShown
<1>1. Spec => [](IInv /\ ClicksInv)
  BY InitHolds, InitClicks, NextKeeps, NextClicks, PTL DEF Spec
<1>2. IInv /\ ClicksInv => ClicksAreShown
  <2> SUFFICES ASSUME IInv, ClicksInv, Drained, clicks.exact
               PROVE  clicks.shown = clicks.made
    BY DEF ClicksAreShown
  <2>1. /\ phase = "idle" /\ buffer = <<>> /\ events = <<>> /\ states = <<>>
        /\ state = LatestFrame
    BY DEF Drained, IInv, LocalsInv, LatestInv, LatestFrame
  <2>2. Pipe = <<>>
    BY <2>1 DEF Pipe
  <2>3. /\ Rises(states) = 0 /\ Cardinality(PressesIn(Pipe)) = 0
        /\ clicks.made \in Nat /\ clicks.shown \in Nat
    BY <2>1, <2>2, EmptyCounts DEF IInv, TypeOK
  <2>4. Pending = 0 /\ Counted
    BY <2>1 DEF Pending, ClicksInv
  <2> QED BY <2>3, <2>4 DEF Counted
<1> QED BY <1>1, <1>2, PTL

\* An axis is scaled by the range the device gave for it, exact to the percent and
\* clamped outside, for all ranges and values.
THEOREM AxisScales == Spec => []AxesFollowTheirRange
<1>1. Init => LoadedInv
  BY DEF Init, LoadedInv
<1>2. Spec => [](IInv /\ LoadedInv)
  BY <1>1, InitHolds, NextKeeps, LoadedKeeps, PTL DEF Spec
<1> QED BY <1>2, RangesScale, PTL
=============================================================================
