----------------------------- MODULE CacheProofs -----------------------------
(***************************************************************************)
(* What the cache promises about vehicles that restart, wrap around and    *)
(* report over a network that loses, repeats and reorders, proved for any  *)
(* set of reporters, any timeout and any width of the sequence.            *)
(*                                                                         *)
(* The cache itself never sees the order in which reports were sent: it    *)
(* compares numbers.  The proofs rest on what the numbers of one reporter  *)
(* say about that order (Numbered, Ordered).                               *)
(*                                                                         *)
(* The socket in front of the cache (ReportChannel) follows.               *)
(***************************************************************************)
EXTENDS VehicleStateCache, ReportChannel, FiniteSetTheorems, SequenceTheorems,
        TLAPS

(***************************************************************************)
(* The invariant.                                                          *)
(***************************************************************************)

Before(a, b) ==
  \/ a.state.epoch < b.state.epoch
  \/ a.state.epoch = b.state.epoch /\ a.sequence < b.sequence

\* Reports are counted, and a reporter's next report comes after all it sent.
Numbered ==
  /\ IsFiniteSet(network)
  /\ \A a \in network :
       LET r == reporter[Sender(a)]
       IN  /\ Sender(a) \in Reporters
           /\ a.state.order <= Cardinality(network)
           /\ \/ a.state.epoch < r.epoch
              \/ a.state.epoch = r.epoch /\ a.sequence < r.next

\* Epoch and sequence follow the order in which a reporter sent.
Ordered ==
  \A a, b \in network :
    Sender(a) = Sender(b) /\ a.state.order <= b.state.order
      => a = b \/ Before(a, b)

Recorded(v) ==
  [vehicle |-> v, source |-> VehicleAddress[v],
   sequence |-> records[v].sequence, state |-> records[v].state]

\* A record is a report of the vehicle itself, as old as its time says at most.
RecordsHeard ==
  \A v \in DOMAIN records :
    /\ records[v].lastUpdate <= now
    /\ Recorded(v) \in network
    /\ heard[Vehicle(v)][records[v].state.epoch] # NoTime
    /\ records[v].lastUpdate <= heard[Vehicle(v)][records[v].state.epoch]

IInv ==
  /\ TypeOK
  /\ Numbered
  /\ Ordered
  /\ RecordsHeard

(***************************************************************************)
(* Types.                                                                  *)
(***************************************************************************)

LEMMA NextSequenceIs ==
  ASSUME NEW s \in Sequence
  PROVE  NextSequence(s) = IF s = SeqMod - 1 THEN 0 ELSE s + 1
BY CacheAssumption DEF NextSequence, Sequence

LEMMA NextSequenceType ==
  ASSUME NEW s \in Sequence
  PROVE  NextSequence(s) \in Sequence
BY CacheAssumption DEF NextSequence, Sequence

LEMMA SenderIs ==
  ASSUME NEW r \in Reporters, NEW a, a.vehicle = r.vehicle, a.source = r.source
  PROVE  Sender(a) = r
BY ReporterAssumption DEF Sender

LEMMA StoredType ==
  ASSUME TypeOK, NEW report \in network
  PROVE  IsRecords(Update(records, report, now), State)
<1>1. report.sequence \in Sequence /\ report.state \in State /\ now \in Nat
  BY ReporterAssumption DEF TypeOK, Report
<1>2. CASE Accepts(records, report, now)
  <2>1. report.vehicle \in Configured
    BY <1>2 DEF Accepts, Trusted
  <2>2. IsRecords(Stored(records, report, now), State)
    BY <1>1, <2>1 DEF TypeOK, IsRecords, Stored, Record
  <2> QED
    BY <1>2, <2>2 DEF Update
<1>3. CASE ~Accepts(records, report, now)
  BY <1>3 DEF Update, TypeOK
<1> QED
  BY <1>2, <1>3

\* The report that Send adds to the network.
NextReport(r) ==
  [vehicle |-> r.vehicle, source |-> r.source, sequence |-> reporter[r].next,
   state |-> [order |-> Cardinality(network) + 1,
              epoch |-> reporter[r].epoch]]

LEMMA SendAdds ==
  ASSUME IInv, NEW r \in Reporters, Send(r)
  PROVE  /\ network' = network \cup {NextReport(r)}
         /\ NextReport(r) \in Report
         /\ NextReport(r) \notin network
         /\ Cardinality(network) \in Nat
         /\ IsFiniteSet(network')
         /\ Cardinality(network') = Cardinality(network) + 1
<1>1. /\ IsFiniteSet(network) /\ Cardinality(network) \in Nat
      /\ Cardinality(network) < MaxReports
  BY FS_CardinalityType DEF IInv, Numbered, Send
<1>2. network' = network \cup {NextReport(r)}
  BY DEF Send, NextReport
<1>3. reporter[r] \in [epoch: Epoch, next: Sequence]
  BY DEF IInv, TypeOK
<1>4. Cardinality(network) + 1 \in 1 .. MaxReports
  BY <1>1, ReporterAssumption
<1>5. NextReport(r) \in Report
  BY <1>3, <1>4 DEF NextReport, Report, State
<1>6. NextReport(r) \notin network
  <2> SUFFICES ASSUME NextReport(r) \in network PROVE FALSE
    OBVIOUS
  <2>1. NextReport(r).state.order <= Cardinality(network)
    BY DEF IInv, Numbered
  <2> QED
    BY <1>1, <2>1 DEF NextReport
<1> QED
  BY <1>1, <1>2, <1>5, <1>6, FS_AddElement

LEMMA TypeStep ==
  ASSUME IInv, [Next]_vars
  PROVE  TypeOK'
<1> USE DEF IInv
<1>1. ASSUME NEW r \in Reporters, Send(r) PROVE TypeOK'
  <2>1. network' \subseteq Report
    BY <1>1, SendAdds DEF TypeOK
  <2>2. /\ reporter[r] \in [epoch: Epoch, next: Sequence]
        /\ NextSequence(reporter[r].next) \in Sequence
    BY NextSequenceType DEF TypeOK
  <2>3. NextSequence(reporter[r].next) = 0 => reporter[r].epoch + 1 \in Epoch
    BY <1>1, <2>2, ReporterAssumption DEF Send, Epoch
  <2>4. reporter' \in [Reporters -> [epoch: Epoch, next: Sequence]]
    BY <1>1, <2>2, <2>3 DEF Send, TypeOK
  <2> QED
    BY <1>1, <2>1, <2>4 DEF Send, TypeOK
<1>2. ASSUME NEW r \in Reporters, Restart(r) PROVE TypeOK'
  <2>1. reporter[r].epoch + 1 \in Epoch /\ 0 \in Sequence
    BY <1>2, ReporterAssumption, CacheAssumption
       DEF Restart, TypeOK, Epoch, Sequence
  <2> QED
    BY <1>2, <2>1 DEF Restart, TypeOK
<1>3. ASSUME NEW report \in network, Deliver(report) PROVE TypeOK'
  <2>1. IsRecords(records', State)
    BY <1>3, StoredType DEF Deliver
  <2>2. heard' \in [Reporters -> [Epoch -> 0 .. MaxTime \cup {NoTime}]]
    BY <1>3 DEF Deliver, TypeOK
  <2> QED
    BY <1>3, <2>1, <2>2 DEF Deliver, TypeOK
<1>4. CASE Tick
  BY <1>4, ReporterAssumption DEF Tick, TypeOK
<1>5. CASE UNCHANGED vars
  BY <1>5 DEF vars, TypeOK
<1> QED
  BY <1>1, <1>2, <1>3, <1>4, <1>5 DEF Next

(***************************************************************************)
(* Numbering.                                                              *)
(***************************************************************************)

LEMMA NumberedStep ==
  ASSUME IInv, [Next]_vars
  PROVE  Numbered'
<1> USE DEF IInv
<1>1. ASSUME NEW r \in Reporters, Send(r) PROVE Numbered'
  <2> DEFINE n == NextReport(r)
  <2>1. /\ network' = network \cup {n}
        /\ Cardinality(network) \in Nat
        /\ IsFiniteSet(network')
        /\ Cardinality(network') = Cardinality(network) + 1
    BY <1>1, SendAdds
  <2>2. /\ reporter[r] \in [epoch: Epoch, next: Sequence]
        /\ reporter[r].epoch \in Nat
        /\ reporter[r].next \in Nat
    BY ReporterAssumption, CacheAssumption DEF TypeOK, Epoch, Sequence
  <2>3. IF NextSequence(reporter[r].next) = 0
        THEN reporter'[r].epoch = reporter[r].epoch + 1
        ELSE /\ reporter'[r].epoch = reporter[r].epoch
             /\ reporter'[r].next = reporter[r].next + 1
    BY <1>1, <2>2, NextSequenceIs DEF Send, TypeOK
  <2>4. \A q \in Reporters \ {r} : reporter'[q] = reporter[q]
    BY <1>1 DEF Send, TypeOK
  <2>5. ASSUME NEW a \in network
        PROVE  /\ Sender(a) \in Reporters
               /\ a.state.order <= Cardinality(network) + 1
               /\ \/ a.state.epoch < reporter'[Sender(a)].epoch
                  \/ /\ a.state.epoch = reporter'[Sender(a)].epoch
                     /\ a.sequence < reporter'[Sender(a)].next
    <3>1. /\ a.state.epoch \in Nat /\ a.sequence \in Nat
          /\ a.state.order \in Nat
      BY ReporterAssumption, CacheAssumption
         DEF TypeOK, Report, State, Epoch, Sequence
    <3>2. CASE Sender(a) = r
      BY <2>1, <2>2, <2>3, <3>1, <3>2 DEF Numbered
    <3>3. CASE Sender(a) # r
      BY <2>1, <2>4, <3>1, <3>3 DEF Numbered
    <3> QED
      BY <3>2, <3>3
  <2>6. /\ Sender(n) = r
        /\ n.state.order = Cardinality(network) + 1
        /\ \/ n.state.epoch < reporter'[r].epoch
           \/ /\ n.state.epoch = reporter'[r].epoch
              /\ n.sequence < reporter'[r].next
    BY <2>2, <2>3, SenderIs DEF NextReport
  <2> HIDE DEF n
  <2> QED
    BY <2>1, <2>5, <2>6 DEF Numbered
<1>2. ASSUME NEW r \in Reporters, Restart(r) PROVE Numbered'
  <2>1. /\ reporter[r].epoch \in Nat
        /\ reporter'[r].epoch = reporter[r].epoch + 1
        /\ \A q \in Reporters \ {r} : reporter'[q] = reporter[q]
        /\ network' = network
    BY <1>2, ReporterAssumption DEF Restart, TypeOK, Epoch
  <2>2. ASSUME NEW a \in network
        PROVE  \/ a.state.epoch < reporter'[Sender(a)].epoch
               \/ /\ a.state.epoch = reporter'[Sender(a)].epoch
                  /\ a.sequence < reporter'[Sender(a)].next
    <3>1. a.state.epoch \in Nat
      BY ReporterAssumption DEF TypeOK, Report, State, Epoch
    <3> QED
      BY <2>1, <3>1 DEF Numbered
  <2> QED
    BY <2>1, <2>2 DEF Numbered
<1>3. CASE UNCHANGED <<network, reporter>>
  BY <1>3 DEF Numbered
<1> QED
  BY <1>1, <1>2, <1>3 DEF Next, Deliver, Tick, vars

LEMMA OrderedStep ==
  ASSUME IInv, [Next]_vars
  PROVE  Ordered'
<1> USE DEF IInv
<1>1. ASSUME NEW r \in Reporters, Send(r) PROVE Ordered'
  <2> DEFINE n == NextReport(r)
  <2>1. network' = network \cup {n} /\ Cardinality(network) \in Nat
    BY <1>1, SendAdds
  <2>2. /\ Sender(n) = r
        /\ n.state.order = Cardinality(network) + 1
        /\ n.state.epoch = reporter[r].epoch
        /\ n.sequence = reporter[r].next
    BY SenderIs DEF NextReport
  <2> HIDE DEF n
  <2>3. ASSUME NEW a \in network, Sender(a) = r
        PROVE  Before(a, n)
    BY <2>2, <2>3 DEF Numbered, Before
  <2>4. \A a \in network : a.state.order \in Nat
                           /\ a.state.order <= Cardinality(network)
    BY ReporterAssumption DEF Numbered, TypeOK, Report, State
  <2> QED
    BY <2>1, <2>2, <2>3, <2>4 DEF Ordered
<1>2. CASE UNCHANGED network
  BY <1>2 DEF Ordered
<1> QED
  BY <1>1, <1>2 DEF Next, Restart, Deliver, Tick, vars

(***************************************************************************)
(* Records.                                                                *)
(***************************************************************************)

\* A trusted report is one of the vehicle it names.
LEMMA TrustedSender ==
  ASSUME IInv, NEW report \in network, Trusted(report)
  PROVE  /\ Sender(report) = Vehicle(report.vehicle)
         /\ Vehicle(report.vehicle) \in Reporters
         /\ report.state.epoch \in Epoch
         /\ report = [vehicle |-> report.vehicle,
                      source |-> VehicleAddress[report.vehicle],
                      sequence |-> report.sequence, state |-> report.state]
<1>1. Sender(report) = Vehicle(report.vehicle)
  BY DEF Trusted, Sender, Vehicle
<1>2. report \in Report
  BY DEF IInv, TypeOK
<1>3. Sender(report) \in Reporters
  BY DEF IInv, Numbered
<1> QED
  BY <1>1, <1>2, <1>3 DEF Trusted, Report, State

LEMMA RecordsHeardStep ==
  ASSUME IInv, [Next]_vars
  PROVE  RecordsHeard'
<1> USE DEF IInv
<1>1. ASSUME NEW report \in network, Deliver(report) PROVE RecordsHeard'
  <2> SUFFICES ASSUME NEW v \in DOMAIN records'
               PROVE  /\ records'[v].lastUpdate <= now
                      /\ Recorded(v)' \in network
                      /\ heard'[Vehicle(v)][records'[v].state.epoch] # NoTime
                      /\ records'[v].lastUpdate
                           <= heard'[Vehicle(v)][records'[v].state.epoch]
    BY <1>1 DEF RecordsHeard, Deliver, Vehicle
  <2>1. /\ records' = Update(records, report, now)
        /\ heard' = [heard EXCEPT ![Sender(report)][report.state.epoch] = now]
        /\ now \in Nat
    BY <1>1, ReporterAssumption DEF Deliver, TypeOK
  <2>2. CASE Accepts(records, report, now) /\ v = report.vehicle
    <3>1. /\ Sender(report) = Vehicle(v)
          /\ Vehicle(v) \in Reporters
          /\ report.state.epoch \in Epoch
          /\ report = [vehicle |-> v, source |-> VehicleAddress[v],
                       sequence |-> report.sequence, state |-> report.state]
      BY <2>2, TrustedSender DEF Accepts
    <3>2. records'[v] = [state |-> report.state, sequence |-> report.sequence,
                         lastUpdate |-> now]
      BY <2>1, <2>2 DEF Update, Stored
    <3>3. heard'[Vehicle(v)][report.state.epoch] = now
      BY <2>1, <3>1 DEF TypeOK
    <3> QED
      BY <2>1, <3>1, <3>2, <3>3 DEF Recorded, NoTime
  <2>3. CASE ~(Accepts(records, report, now) /\ v = report.vehicle)
    <3>1. v \in DOMAIN records /\ records'[v] = records[v]
      BY <2>1, <2>3 DEF Update, Stored
    <3>2. /\ Recorded(v) \in network
          /\ heard[Vehicle(v)][records[v].state.epoch] # NoTime
          /\ records[v].lastUpdate
               <= heard[Vehicle(v)][records[v].state.epoch]
      BY <3>1 DEF RecordsHeard
    <3>3. /\ records[v].state.epoch \in Epoch
          /\ records[v].lastUpdate \in Nat
      BY <3>1 DEF TypeOK, IsRecords, Record, State
    <3>4. Vehicle(v) \in Reporters
      <4>1. Sender(Recorded(v)) \in Reporters
        BY <3>2 DEF Numbered
      <4> QED
        BY <4>1 DEF Sender, Recorded, Vehicle
    <3>5. heard'[Vehicle(v)][records[v].state.epoch]
            \in {heard[Vehicle(v)][records[v].state.epoch], now}
      BY <2>1, <3>3, <3>4 DEF TypeOK
    <3>6. records[v].lastUpdate <= now
      BY <3>1 DEF RecordsHeard
    <3> QED
      BY <2>1, <3>1, <3>2, <3>3, <3>5, <3>6 DEF Recorded, NoTime
  <2> QED
    BY <2>2, <2>3
<1>2. CASE /\ UNCHANGED <<records, heard>>
           /\ network \subseteq network'
           /\ now' \in {now, now + 1}
  <2>1. now \in Nat /\ \A v \in DOMAIN records : records[v].lastUpdate \in Nat
    BY DEF TypeOK, IsRecords, Record
  <2> QED
    BY <1>2, <2>1 DEF RecordsHeard, Recorded, Vehicle
<1> QED
  BY <1>1, <1>2 DEF Next, Send, Restart, Tick, vars

\* Records are the vehicles' own reports, numbered in the order they were sent.
THEOREM CacheInvariant == Spec => []IInv
<1>1. Init => IInv
  <2> SUFFICES ASSUME Init PROVE IInv
    OBVIOUS
  <2>1. TypeOK
    BY ReporterAssumption, CacheAssumption
       DEF Init, TypeOK, NoRecords, IsRecords, Epoch, Sequence, Record
  <2>2. Numbered /\ Ordered
    BY FS_EmptySet DEF Init, Numbered, Ordered
  <2>3. RecordsHeard
    BY DEF Init, NoRecords, RecordsHeard
  <2> QED
    BY <2>1, <2>2, <2>3 DEF IInv
<1>2. IInv /\ [Next]_vars => IInv'
  BY TypeStep, NumberedStep, OrderedStep, RecordsHeardStep DEF IInv
<1> QED
  BY <1>1, <1>2, PTL DEF Spec

\* The records, the network and the history have their types: a sequence never
\* leaves its width, and only configured vehicles have records.
THEOREM TypeCorrect == Spec => []TypeOK
<1>1. IInv => TypeOK
  BY DEF IInv
<1> QED
  BY <1>1, CacheInvariant, PTL

\* No vehicle is online on anybody else's word.
THEOREM OnlineHeard == Spec => []OnlineIsHeard
<1>1. IInv => OnlineIsHeard
  <2> SUFFICES ASSUME IInv, NEW v \in Configured, IsOnline(records, v, now)
               PROVE  /\ Vehicle(v) \in Reporters
                      /\ \E e \in Epoch : Recently(heard[Vehicle(v)][e])
                      /\ Recorded(v) \in network
    BY DEF OnlineIsHeard, Recorded
  <2> DEFINE e == records[v].state.epoch
  <2>1. /\ Recorded(v) \in network
        /\ heard[Vehicle(v)][e] # NoTime
        /\ records[v].lastUpdate <= heard[Vehicle(v)][e]
        /\ now - records[v].lastUpdate < OnlineTimeout
    BY DEF IInv, RecordsHeard, IsOnline, HasRecord
  <2>2. Vehicle(v) \in Reporters
    <3>1. Sender(Recorded(v)) \in Reporters
      BY <2>1 DEF IInv, Numbered
    <3> QED
      BY <3>1 DEF Sender, Recorded, Vehicle
  <2>3. e \in Epoch /\ records[v].lastUpdate \in Nat
    BY DEF IInv, TypeOK, IsOnline, HasRecord, IsRecords, Record, State
  <2>4. heard[Vehicle(v)][e] \in Int /\ now \in Int
    BY <2>2, <2>3 DEF IInv, TypeOK, NoTime
  <2>5. Recently(heard[Vehicle(v)][e])
    BY <2>1, <2>3, <2>4, CacheAssumption DEF Recently
  <2> QED
    BY <2>1, <2>2, <2>3, <2>5
<1> QED
  BY <1>1, CacheInvariant, PTL

\* Of two reports of one vehicle the cache compares the numbers; in one epoch
\* they tell which was sent first.
LEMMA NumbersTellOrder ==
  ASSUME IInv, NEW report \in network, Trusted(report),
         HasRecord(records, report.vehicle),
         IsOnline(records, report.vehicle, now)
  PROVE  LET record == records[report.vehicle]
         IN  /\ /\ report.state.order < record.state.order
                /\ report.state.epoch = record.state.epoch
                => report.sequence <= record.sequence
             /\ /\ report.state.order > record.state.order
                /\ report.sequence <= record.sequence
                => record.state.epoch < report.state.epoch
<1> DEFINE v == report.vehicle
           record == records[v]
<1>1. /\ Recorded(v) \in network
      /\ Sender(Recorded(v)) = Sender(report)
  BY TrustedSender
     DEF IInv, RecordsHeard, HasRecord, Recorded, Sender, Vehicle
<1>2. /\ Recorded(v).sequence = record.sequence
      /\ Recorded(v).state = record.state
  BY DEF Recorded
<1>3. /\ report.state.order \in Int /\ record.state.order \in Int
      /\ report.state.epoch \in Int /\ record.state.epoch \in Int
      /\ report.sequence \in Int /\ record.sequence \in Int
  <2>1. \A a \in Report : /\ a.state.order \in Int /\ a.state.epoch \in Int
                          /\ a.sequence \in Int
    BY CacheAssumption, ReporterAssumption DEF Report, State, Epoch, Sequence
  <2>2. report \in Report /\ Recorded(v) \in Report
    BY <1>1 DEF IInv, TypeOK
  <2> QED
    BY <1>2, <2>1, <2>2
<1>4. /\ report.state.order <= record.state.order
         => report = Recorded(v) \/ Before(report, Recorded(v))
      /\ record.state.order <= report.state.order
         => report = Recorded(v) \/ Before(Recorded(v), report)
  BY <1>1, <1>2 DEF IInv, Ordered
<1> QED
  BY <1>2, <1>3, <1>4 DEF Before

\* While a vehicle is online its record never goes back within an epoch,
\* however the network orders and repeats the reports.
THEOREM NoStepBack == Spec => NoStepBackWhileOnline
<1>1. IInv /\ [Next]_vars =>
        [\A v \in Configured : StepsBack(v) => ~IsOnline(records, v, now)]_vars
  <2> SUFFICES ASSUME IInv, Next, NEW v \in Configured,
                      StepsBack(v), IsOnline(records, v, now)
               PROVE  FALSE
    OBVIOUS
  <2>1. HasRecord(records, v) /\ records'[v] # records[v]
    <3>1. records[v].state.order \in Int
      BY ReporterAssumption
         DEF StepsBack, HasRecord, IInv, TypeOK, IsRecords, Record, State
    <3> QED
      BY <3>1 DEF StepsBack
  <2>2. PICK report \in network : Deliver(report)
    BY <2>1 DEF Next, Send, Restart, Tick
  <2>3. /\ Accepts(records, report, now)
        /\ v = report.vehicle
        /\ records'[v].state = report.state
    BY <2>1, <2>2 DEF Deliver, Update, Stored, HasRecord
  <2>4. ~(report.sequence <= records[v].sequence)
    BY <2>3 DEF Accepts
  <2> QED
    BY <2>1, <2>3, <2>4, NumbersTellOrder DEF Accepts, StepsBack
<1> QED
  BY <1>1, CacheInvariant, PTL DEF Spec, NoStepBackWhileOnline

\* A newer report is only ever turned away for the sake of an earlier epoch,
\* and only within OnlineTimeout of hearing of it.
THEOREM Blackout == Spec => BlackoutBounded
<1>1. IInv =>
        \A report \in network :
          LET v == report.vehicle
              e == report.state.epoch
          IN  /\ Deliver(report)
              /\ Trusted(report)
              /\ HasRecord(records, v)
              /\ report.state.order > records[v].state.order
              /\ records'[v].state # report.state
              => \E past \in 0 .. e - 1 : Recently(heard[Vehicle(v)][past])
  <2> SUFFICES ASSUME IInv, NEW report \in network,
                      Deliver(report), Trusted(report),
                      HasRecord(records, report.vehicle),
                      report.state.order
                        > records[report.vehicle].state.order,
                      records'[report.vehicle].state # report.state
               PROVE  \E past \in 0 .. report.state.epoch - 1 :
                        Recently(heard[Vehicle(report.vehicle)][past])
    OBVIOUS
  <2> DEFINE v == report.vehicle
             past == records[v].state.epoch
  <2>1. ~Accepts(records, report, now)
    BY DEF Deliver, Update, Stored
  <2>2. /\ IsOnline(records, v, now)
        /\ report.sequence <= records[v].sequence
    BY <2>1 DEF Accepts
  <2>3. past < report.state.epoch
    BY <2>2, NumbersTellOrder
  <2>4. past \in Nat /\ report.state.epoch \in Nat /\ past \in Epoch
    BY ReporterAssumption
       DEF IInv, TypeOK, IsRecords, Record, HasRecord, Report, State, Epoch
  <2>5. Recently(heard[Vehicle(v)][past])
    <3>1. /\ heard[Vehicle(v)][past] # NoTime
          /\ records[v].lastUpdate <= heard[Vehicle(v)][past]
          /\ now - records[v].lastUpdate < OnlineTimeout
      BY <2>2 DEF IInv, RecordsHeard, IsOnline, HasRecord
    <3>2. /\ heard[Vehicle(v)][past] \in Int /\ now \in Int
          /\ records[v].lastUpdate \in Int
      BY <2>4, TrustedSender
         DEF IInv, TypeOK, NoTime, HasRecord, IsRecords, Record
    <3> QED
      BY <3>1, <3>2, CacheAssumption DEF Recently
  <2> QED
    BY <2>3, <2>4, <2>5
<1> QED
  BY <1>1, CacheInvariant, PTL DEF Spec, BlackoutBounded

(***************************************************************************)
(* The socket in front of the cache (ReportChannel): for any rates of the  *)
(* network, a report is handled before its vehicle counts as offline, and  *)
(* a command leaves in time.                                               *)
(*                                                                         *)
(* Both rest on how much work can wait.  Owes compares it with what the    *)
(* network may still send at once: an arrival turns the one into the other *)
(* and time lowers the sum while there is work, so that the backlog never  *)
(* exceeds a burst, a report and the rest of a turn.                       *)
(***************************************************************************)
\* The units of time that a datagram takes: an empty one ends the drain, which
\* costs the rest of a turn.
Cost(datagram) == IF IsReport(datagram) THEN 1 ELSE 2

Rest == IF phase = "rest" THEN 1 ELSE 0

\* w[i] is the work of the first i datagrams in s.
Weighs(w, s) ==
  /\ w \in [0 .. Len(s) -> Int]
  /\ w[0] = 0
  /\ \A i \in 1 .. Len(s) : w[i] = w[i - 1] + Cost(s[i])
  /\ \A i, j \in 0 .. Len(s) : i < j => w[i] + (j - i) <= w[j]

\* How much of the next report's work the vehicle may ask for already.
Credit(s) == IF s < Hurry THEN s ELSE Hurry

\* The work p that waits, less what the crowd c keeps away and with what the
\* vehicle may ask for, in Turnover-ths of a unit.
Owes(p, c, s) == Spacing * Hurry * p - 2 * Hurry * c + Spacing * Credit(s)

\* A report that was handled when it came, or one that is handled in time.
InTime(w) ==
  \/ sinceHeard <= sinceReport
  \/ \E i \in 1 .. Len(socket) :
       /\ IsReport(socket[i])
       /\ sinceHeard + w[i - 1] + Rest <= Period + Busy

\* What a drain has delayed so far it cannot delay once more.
Prompt(w) ==
  /\ phase = "poll" => sinceSend <= ControlInterval - 1 + waited
  /\ phase = "drain" =>
       (Spacing * Hurry - Load)
           * (sinceSend - (ControlInterval - 1 + PollTimeout))
         + Owes(w[Len(socket)], crowd, sinceReport) <= 2 * (Spacing * Hurry)
  /\ phase = "rest" => sinceSend <= ControlInterval - 1 + PollTimeout + Busy

Bounded(w) ==
  /\ Weighs(w, socket)
  /\ Owes(w[Len(socket)] + Rest, crowd, sinceReport) <= 2 * (Spacing * Hurry)
  /\ Prompt(w)
  /\ Backlog <= SocketSize => InTime(w)

ChannelInv == ChannelTypeOK /\ \E w : Bounded(w)

(***************************************************************************)
(* Arithmetic.                                                             *)
(***************************************************************************)
Rates ==
  /\ Spacing \in Nat \ {0} /\ Hurry \in Nat \ {0} /\ Burst \in Nat \ {0}
  /\ Busy \in Nat \ {0}
  /\ Spacing * Hurry * (2 * Burst + 2) + (2 * Hurry + Spacing) * Busy
       <= Spacing * Hurry * Busy

LEMMA RatesHold ==
  Rates /\ Load = 2 * Hurry + Spacing /\ Backlog = 2 * Burst + 2
BY ChannelAssumption DEF Rates, Load, Turnover, Backlog

LEMMA OwesType ==
  ASSUME Rates, NEW p \in Int, NEW c \in Int, NEW s \in Int
  PROVE  Owes(p, c, s) \in Int /\ Credit(s) \in Int
BY DEF Owes, Rates, Credit

\* A product of natural numbers.
LEMMA ProductMonotone ==
  ASSUME NEW a \in Nat, NEW x \in Int, NEW y \in Int, x <= y
  PROVE  a * x <= a * y
<1>1. a * (y - x) >= 0
  OBVIOUS
<1>2. a * (y - x) = a * y - a * x /\ a * y \in Int /\ a * x \in Int
  OBVIOUS
<1>3. QED
  BY <1>1, <1>2

LEMMA OtherOwes ==
  ASSUME Rates, NEW p \in Int, NEW c \in Int, NEW s \in Int
  PROVE  Owes(p + 2, c + Spacing, s) = Owes(p, c, s)
<1>1. Spacing * Hurry * (p + 2) - 2 * Hurry * (c + Spacing)
        = Spacing * Hurry * p - 2 * Hurry * c
  BY DEF Rates
<1>2. QED
  BY <1>1 DEF Owes

LEMMA ReportOwes ==
  ASSUME Rates, NEW p \in Int, NEW c \in Int, NEW s \in Int, s >= Hurry
  PROVE  Owes(p + 1, c, 0) = Owes(p, c, s)
<1>1. Credit(0) = 0 /\ Credit(s) = Hurry
  BY DEF Credit, Rates
<1>2. Spacing * Hurry * (p + 1) = Spacing * Hurry * p + Spacing * Hurry
  BY DEF Rates
<1>3. /\ Spacing * Hurry * p \in Int /\ 2 * Hurry * c \in Int
      /\ Spacing * Hurry \in Int
  BY DEF Rates
<1>4. Spacing * 0 = 0
  BY DEF Rates
<1> DEFINE x == Spacing * Hurry * p
           y == 2 * Hurry * c
           u == Spacing * Hurry
           e == Spacing * Hurry * (p + 1)
           k == Spacing * Credit(0)
           l == Spacing * Credit(s)
<1>5. Owes(p + 1, c, 0) = e - y + k /\ Owes(p, c, s) = x - y + l
  BY DEF Owes
<1>6. e = x + u
  BY <1>2
<1>7. k = 0
  BY <1>1, <1>4
<1>8. l = u
  BY <1>1
<1>9. x \in Int /\ y \in Int /\ u \in Int
  BY <1>3
<1> HIDE DEF x, y, u, e, k, l
<1>10. QED
  BY <1>5, <1>6, <1>7, <1>8, <1>9

LEMMA TimeOwes ==
  ASSUME Rates, NEW p \in Int, NEW c \in Nat, NEW s \in Nat, NEW t \in 0 .. 1
  PROVE  Owes(p, Less(c, t), s + t)
           <= Owes(p, c, s) + (2 * Hurry + Spacing) * t
<1>1. CASE t = 0
  <2>1. Less(c, t) = c /\ s + t = s
    BY <1>1 DEF Less
  <2>2. (2 * Hurry + Spacing) * t = 0
    BY <1>1 DEF Rates
  <2>3. Owes(p, c, s) \in Int
    BY OwesType
  <2>4. QED
    BY <2>1, <2>2, <2>3
<1>2. CASE t = 1
  <2>1. 2 * Hurry * c - 2 * Hurry <= 2 * Hurry * Less(c, t)
    <3>1. CASE c > 1
      <4>1. Less(c, t) = c - 1
        BY <1>2, <3>1 DEF Less
      <4>2. 2 * Hurry * (c - 1) = 2 * Hurry * c - 2 * Hurry
        BY DEF Rates
      <4>3. 2 * Hurry * c - 2 * Hurry \in Int
        BY DEF Rates
      <4>4. QED
        BY <4>1, <4>2, <4>3
    <3>2. CASE c = 1
      <4>1. Less(c, t) = 0
        BY <1>2, <3>2 DEF Less
      <4>2. QED
        BY <3>2, <4>1 DEF Rates
    <3>3. CASE c = 0
      <4>1. Less(c, t) = 0
        BY <1>2, <3>3 DEF Less
      <4>2. QED
        BY <3>3, <4>1 DEF Rates
    <3>4. QED
      BY <3>1, <3>2, <3>3
  <2>2. Spacing * Credit(s + t) <= Spacing * Credit(s) + Spacing
    <3>1. Credit(s + t) <= Credit(s) + 1 /\ Credit(s) \in Int
          /\ Credit(s + t) \in Int
      BY <1>2 DEF Credit, Rates
    <3>2. Spacing * Credit(s + t) <= Spacing * (Credit(s) + 1)
      BY <3>1, ProductMonotone DEF Rates
    <3>3. Spacing * (Credit(s) + 1) = Spacing * Credit(s) + Spacing
      BY <3>1 DEF Rates
    <3>4. QED
      BY <3>2, <3>3
  <2> DEFINE x == Spacing * Hurry * p
             y == 2 * Hurry * c
             z == 2 * Hurry * Less(c, t)
             a == Spacing * Credit(s)
             b == Spacing * Credit(s + t)
             h == 2 * Hurry
  <2>3. Less(c, t) \in Nat
    BY DEF Less
  <2>4. x \in Int /\ y \in Int /\ z \in Int /\ a \in Int /\ b \in Int /\ h \in Int
    BY <2>3 DEF Credit, Rates
  <2>5. /\ Owes(p, Less(c, t), s + t) = x - z + b
        /\ Owes(p, c, s) = x - y + a
    BY DEF Owes
  <2>6. (2 * Hurry + Spacing) * t = h + Spacing
    BY <1>2 DEF Rates
  <2>7. y - h <= z /\ b <= a + Spacing /\ Spacing \in Int
    BY <2>1, <2>2 DEF Rates
  <2> HIDE DEF x, y, z, a, b, h
  <2>8. QED
    BY <2>4, <2>5, <2>6, <2>7
<1>3. QED
  BY <1>1, <1>2

LEMMA LessWork ==
  ASSUME Rates, NEW p \in Int, NEW q \in Int, NEW c \in Int, NEW s \in Int,
         q <= p
  PROVE  Owes(q, c, s) <= Owes(p, c, s)
<1>1. Spacing * Hurry \in Nat
  BY DEF Rates
<1>2. Spacing * Hurry * q <= Spacing * Hurry * p
  BY <1>1, ProductMonotone
<1> DEFINE x == Spacing * Hurry * p
           y == Spacing * Hurry * q
           z == 2 * Hurry * c
           a == Spacing * Credit(s)
<1>3. x \in Int /\ y \in Int /\ z \in Int /\ a \in Int /\ y <= x
  BY <1>1, <1>2, OwesType DEF Rates
<1>4. Owes(q, c, s) = y - z + a /\ Owes(p, c, s) = x - z + a
  BY DEF Owes
<1> HIDE DEF x, y, z, a
<1>5. QED
  BY <1>3, <1>4

LEMMA OneLess ==
  ASSUME Rates, NEW p \in Int, NEW c \in Int, NEW s \in Int
  PROVE  Owes(p - 1, c, s) = Owes(p, c, s) - Spacing * Hurry
<1> DEFINE x == Spacing * Hurry * p
           u == Spacing * Hurry
           z == 2 * Hurry * c
           a == Spacing * Credit(s)
<1>1. Spacing * Hurry * (p - 1) = x - u
  BY DEF Rates
<1>2. x \in Int /\ u \in Int /\ z \in Int /\ a \in Int
  BY OwesType DEF Rates
<1>3. Owes(p - 1, c, s) = x - u - z + a /\ Owes(p, c, s) = x - z + a
  BY <1>1 DEF Owes
<1> HIDE DEF x, u, z, a
<1>4. QED
  BY <1>2, <1>3 DEF u

\* The most that can be owed for a given work.
LEMMA OwesAtMost ==
  ASSUME Rates, NEW p \in Int, NEW c \in Nat, NEW s \in Int
  PROVE  Owes(p, c, s) <= Spacing * Hurry * p + Spacing * Hurry
<1> DEFINE x == Spacing * Hurry * p
           u == Spacing * Hurry
           z == 2 * Hurry * c
           a == Spacing * Credit(s)
<1>1. x \in Int /\ u \in Int /\ z \in Int /\ a \in Int
  BY OwesType DEF Rates
<1>2. z >= 0
  BY DEF Rates
<1>3. a <= u
  <2>1. Credit(s) <= Hurry /\ Credit(s) \in Int
    BY DEF Credit, Rates
  <2>2. QED
    BY <2>1, ProductMonotone DEF Rates
<1>4. Owes(p, c, s) = x - z + a
  BY DEF Owes
<1> HIDE DEF x, u, z, a
<1>5. Owes(p, c, s) <= x + u
  BY <1>1, <1>2, <1>3, <1>4
<1>6. QED
  BY <1>5 DEF x, u

\* The least.
LEMMA OwesAtLeast ==
  ASSUME Rates, NEW p \in Int, NEW c \in 0 .. Burst * Spacing, NEW s \in Nat
  PROVE  Spacing * Hurry * p + Spacing * Credit(s)
           <= Owes(p, c, s) + Spacing * Hurry * (2 * Burst)
<1> DEFINE x == Spacing * Hurry * p
           m == Spacing * Hurry * (2 * Burst)
           z == 2 * Hurry * c
           a == Spacing * Credit(s)
<1>0. Burst * Spacing \in Nat
  BY DEF Rates
<1>1. x \in Int /\ m \in Int /\ z \in Int /\ a \in Int /\ c \in Int
  BY <1>0, OwesType DEF Rates
<1>2. z <= m
  <2>1. 2 * Hurry * c <= 2 * Hurry * (Burst * Spacing)
    BY <1>0, ProductMonotone DEF Rates
  <2>2. 2 * Hurry * (Burst * Spacing) = Spacing * Hurry * (2 * Burst)
    BY DEF Rates
  <2>3. QED
    BY <2>1, <2>2
<1>3. Owes(p, c, s) = x - z + a
  BY DEF Owes
<1> HIDE DEF x, m, z, a
<1>4. x + a <= Owes(p, c, s) + m
  BY <1>1, <1>2, <1>3
<1>5. QED
  BY <1>4 DEF x, m, a

LEMMA Cancel ==
  ASSUME NEW a \in Nat \ {0}, NEW x \in Int, NEW y \in Int, a * x <= a * y
  PROVE  x <= y
<1> SUFFICES ASSUME y + 1 <= x PROVE FALSE
  OBVIOUS
<1>1. a * (y + 1) <= a * x
  BY ProductMonotone
<1>2. a * (y + 1) = a * y + a /\ a * y \in Int /\ a * x \in Int
  OBVIOUS
<1>3. QED
  BY <1>1, <1>2

\* The loop is faster than the network, and a backlog fits in Busy.
LEMMA Faster ==
  ASSUME Rates
  PROVE  /\ Spacing * Hurry - (2 * Hurry + Spacing) \in Nat \ {0}
         /\ 2 * Burst + 2 <= Busy
         /\ Spacing * Hurry * (2 * Burst + 2)
              <= (Spacing * Hurry - (2 * Hurry + Spacing)) * Busy
<1> DEFINE u == Spacing * Hurry
           l == 2 * Hurry + Spacing
           k == 2 * Burst + 2
<1>1. /\ u \in Nat \ {0} /\ l \in Nat /\ k \in Nat \ {0} /\ Busy \in Nat \ {0}
      /\ u * k + l * Busy <= u * Busy
  BY DEF Rates
<1> HIDE DEF u, l, k
<1>2. u * k <= (u - l) * Busy
  BY <1>1
<1>3. u * k > 0
  BY <1>1
<1>4. u - l > 0
  <2> SUFFICES ASSUME u - l <= 0 PROVE FALSE
    BY <1>1
  <2>1. Busy * (u - l) <= Busy * 0
    BY <1>1, ProductMonotone
  <2>2. Busy * (u - l) = (u - l) * Busy /\ Busy * 0 = 0 /\ u * k \in Int
        /\ (u - l) * Busy \in Int
    BY <1>1
  <2>3. QED
    BY <1>2, <1>3, <2>1, <2>2
<1>5. u * k <= u * Busy
  BY <1>1
<1>6. k <= Busy
  BY <1>1, <1>5, Cancel
<1>7. QED
  BY <1>1, <1>2, <1>4, <1>6 DEF u, l, k

\* What waits is a backlog at most; when the vehicle may report, one report less.
LEMMA BacklogBound ==
  ASSUME Rates, NEW p \in Int, NEW c \in 0 .. Burst * Spacing, NEW s \in Nat,
         Owes(p, c, s) <= 2 * (Spacing * Hurry)
  PROVE  /\ p <= 2 * Burst + 2
         /\ s >= Hurry => p <= 2 * Burst + 1
<1> DEFINE u == Spacing * Hurry
           a == Spacing * Credit(s)
           o == Owes(p, c, s)
<1>1. u * p + a <= o + u * (2 * Burst)
  BY OwesAtLeast
<1>2. u \in Nat \ {0} /\ a \in Nat /\ o \in Int
  <2>1. Credit(s) \in Nat
    BY DEF Credit, Rates
  <2>2. Burst * Spacing \in Nat /\ c \in Int
    BY DEF Rates
  <2>3. u \in Nat \ {0}
    BY DEF Rates
  <2>4. a \in Nat
    BY <2>1 DEF Rates
  <2>5. o \in Int
    BY <2>2, OwesType
  <2>6. QED
    BY <2>3, <2>4, <2>5
<1>3. s >= Hurry => a = u
  BY DEF Credit, Rates
<1>4. o <= 2 * u
  OBVIOUS
<1> HIDE DEF u, a, o
<1>5. u * (2 * Burst) + 2 * u = u * (2 * Burst + 2)
  BY <1>2 DEF Rates
<1>6. u * (2 * Burst) + u = u * (2 * Burst + 1)
  BY <1>2 DEF Rates
<1>7. u * p \in Int /\ u * (2 * Burst) \in Int
  BY <1>2 DEF Rates
<1>8. u * p <= u * (2 * Burst + 2)
  BY <1>1, <1>2, <1>4, <1>5, <1>7
<1>9. s >= Hurry => u * p <= u * (2 * Burst + 1)
  BY <1>1, <1>2, <1>3, <1>4, <1>6, <1>7
<1>10. 2 * Burst + 2 \in Int /\ 2 * Burst + 1 \in Int
  BY DEF Rates
<1>11. QED
  BY <1>2, <1>8, <1>9, <1>10, Cancel

\* How long a drain has lasted.
LEMMA DrainBound ==
  ASSUME Rates, NEW x \in Int,
         NEW p \in Nat, NEW c \in 0 .. Burst * Spacing, NEW s \in Nat,
         (Spacing * Hurry - (2 * Hurry + Spacing)) * x + Owes(p, c, s)
           <= 2 * (Spacing * Hurry)
  PROVE  x <= Busy
<1> DEFINE u == Spacing * Hurry
           d == u - (2 * Hurry + Spacing)
           a == Spacing * Credit(s)
           o == Owes(p, c, s)
<1>1. u * p + a <= o + u * (2 * Burst)
  BY OwesAtLeast
<1>2. u \in Nat \ {0} /\ a \in Nat /\ o \in Int
  <2>1. Credit(s) \in Nat
    BY DEF Credit, Rates
  <2>2. Burst * Spacing \in Nat /\ c \in Int
    BY DEF Rates
  <2>3. u \in Nat \ {0}
    BY DEF Rates
  <2>4. a \in Nat
    BY <2>1 DEF Rates
  <2>5. o \in Int
    BY <2>2, OwesType
  <2>6. QED
    BY <2>3, <2>4, <2>5
<1>3. d \in Nat \ {0} /\ u * (2 * Burst + 2) <= d * Busy
  BY Faster
<1>4. d * x + o <= 2 * u
  OBVIOUS
<1> HIDE DEF u, d, a, o
<1>5. u * (2 * Burst) + 2 * u = u * (2 * Burst + 2)
  BY <1>2 DEF Rates
<1>6. /\ u * p >= 0 /\ u * p \in Int /\ u * (2 * Burst) \in Int /\ d * x \in Int
      /\ d * Busy \in Int
  BY <1>2, <1>3 DEF Rates
<1>7. d * x <= d * Busy
  BY <1>1, <1>2, <1>3, <1>4, <1>5, <1>6
<1>8. QED
  BY <1>3, <1>7, Cancel DEF Rates

(***************************************************************************)
(* The work of a sequence of datagrams.                                    *)
(***************************************************************************)
LEMMA CostType ==
  ASSUME NEW d
  PROVE  /\ Cost(d) \in 1 .. 2
         /\ IsReport(d) => Cost(d) = 1
         /\ ~IsReport(d) => Cost(d) = 2
BY DEF Cost

LEMMA WeighsNothing ==
  \E w : Weighs(w, <<>>)
<1> DEFINE w == [i \in 0 .. 0 |-> 0]
<1>1. Weighs(w, <<>>)
  BY DEF Weighs
<1>2. QED
  BY <1>1

LEMMA WeighsLength ==
  ASSUME NEW M, NEW s \in Seq(M), NEW w, Weighs(w, s)
  PROVE  /\ w[0] = 0 /\ w[Len(s)] \in Nat /\ Len(s) \in Nat
         /\ Len(s) <= w[Len(s)]
         /\ \A i \in 1 .. Len(s) : w[i - 1] \in Nat /\ w[i - 1] <= w[Len(s)]
<1>1. /\ Len(s) \in Nat /\ w[0] = 0 /\ w \in [0 .. Len(s) -> Int]
      /\ \A i, j \in 0 .. Len(s) : i < j => w[i] + (j - i) <= w[j]
  BY DEF Weighs
<1>2. \A i \in 0 .. Len(s) : w[i] \in Int
  BY <1>1
<1>3. \A i \in 0 .. Len(s) : w[i] >= i
  <2> SUFFICES ASSUME NEW i \in 0 .. Len(s) PROVE w[i] >= i
    OBVIOUS
  <2>1. CASE i = 0
    BY <1>1, <2>1
  <2>2. CASE i # 0
    <3>1. 0 \in 0 .. Len(s) /\ 0 < i
      BY <1>1, <2>2
    <3>2. w[0] + (i - 0) <= w[i]
      BY <1>1, <3>1
    <3>3. QED
      BY <1>1, <1>2, <3>2
  <2>3. QED
    BY <2>1, <2>2
<1>4. ASSUME NEW i \in 1 .. Len(s)
      PROVE  w[i - 1] \in Nat /\ w[i - 1] <= w[Len(s)]
  <2>1. i - 1 \in 0 .. Len(s) /\ Len(s) \in 0 .. Len(s) /\ i - 1 < Len(s)
    BY <1>1
  <2>2. w[i - 1] + (Len(s) - (i - 1)) <= w[Len(s)]
    BY <1>1, <2>1
  <2>3. w[i - 1] \in Int /\ w[i - 1] >= i - 1 /\ w[Len(s)] \in Int
    BY <1>2, <1>3, <2>1
  <2>4. QED
    BY <1>1, <2>1, <2>2, <2>3
<1>5. Len(s) \in 0 .. Len(s)
  BY <1>1
<1>6. w[Len(s)] \in Int /\ w[Len(s)] >= Len(s)
  BY <1>2, <1>3, <1>5
<1>7. QED
  BY <1>1, <1>4, <1>6

LEMMA WeighsSent ==
  ASSUME NEW M, NEW s \in Seq(M), NEW d \in M, NEW w, Weighs(w, s)
  PROVE  \E v : /\ Weighs(v, Append(s, d))
                /\ v[Len(s) + 1] = w[Len(s)] + Cost(d)
                /\ \A i \in 0 .. Len(s) : v[i] = w[i]
<1> DEFINE n == Len(s)
           z == Append(s, d)
           v == [i \in 0 .. n + 1 |-> IF i <= n THEN w[i] ELSE w[n] + Cost(d)]
<1>1. /\ n \in Nat /\ w[0] = 0 /\ w \in [0 .. n -> Int]
      /\ \A i \in 1 .. n : w[i] = w[i - 1] + Cost(s[i])
      /\ \A i, j \in 0 .. n : i < j => w[i] + (j - i) <= w[j]
  BY DEF Weighs
<1>2. /\ Len(z) = n + 1 /\ z[n + 1] = d
      /\ \A i \in 1 .. n : z[i] = s[i]
  BY <1>1
<1>3. Cost(d) \in 1 .. 2
  BY CostType
<1> HIDE DEF n, z
<1>4. \A i \in 0 .. n : v[i] = w[i] /\ v[i] \in Int
  BY <1>1
<1>5. v[n + 1] = w[n] + Cost(d) /\ w[n] \in Int
  BY <1>1
<1>6. v \in [0 .. n + 1 -> Int]
  BY <1>1, <1>3
<1> HIDE DEF v
<1>7. v[0] = 0
  BY <1>1, <1>4
<1>8. ASSUME NEW i \in 1 .. n + 1
      PROVE  v[i] = v[i - 1] + Cost(z[i])
  <2>1. CASE i = n + 1
    <3>1. i - 1 = n /\ n \in 0 .. n
      BY <1>1, <2>1
    <3>2. v[i - 1] = w[n]
      BY <1>4, <3>1
    <3>3. QED
      BY <1>2, <1>5, <2>1, <3>2
  <2>2. CASE i # n + 1
    <3>1. i \in 1 .. n /\ i - 1 \in 0 .. n /\ i \in 0 .. n
      BY <1>1, <2>2
    <3>2. v[i] = w[i] /\ v[i - 1] = w[i - 1] /\ z[i] = s[i]
      BY <1>2, <1>4, <3>1
    <3>3. QED
      BY <1>1, <3>1, <3>2
  <2>3. QED
    BY <2>1, <2>2
<1>9. ASSUME NEW i \in 0 .. n + 1, NEW j \in 0 .. n + 1, i < j
      PROVE  v[i] + (j - i) <= v[j]
  <2>1. i \in 0 .. n
    BY <1>1, <1>9
  <2>2. CASE j \in 0 .. n
    BY <1>1, <1>4, <1>9, <2>1, <2>2
  <2>3. CASE j = n + 1
    <3>1. CASE i = n
      BY <1>1, <1>3, <1>4, <1>5, <2>1, <2>3, <3>1
    <3>2. CASE i # n
      <4>1. n \in 0 .. n /\ i < n
        BY <1>1, <2>1, <3>2
      <4>2. w[i] + (n - i) <= w[n]
        BY <1>1, <2>1, <4>1
      <4>3. v[i] = w[i] /\ w[i] \in Int
        BY <1>4, <2>1
      <4>4. QED
        BY <1>1, <1>3, <1>5, <2>1, <2>3, <4>2, <4>3
    <3>3. QED
      BY <3>1, <3>2
  <2>4. QED
    BY <1>1, <2>2, <2>3
<1>10. Weighs(v, z)
  BY <1>2, <1>6, <1>7, <1>8, <1>9 DEF Weighs
<1>11. QED
  BY <1>4, <1>5, <1>10 DEF n, z

LEMMA WeighsTaken ==
  ASSUME NEW M, NEW s \in Seq(M), s # <<>>, NEW w, Weighs(w, s)
  PROVE  /\ Head(s) = s[1] /\ Tail(s) \in Seq(M) /\ Len(Tail(s)) = Len(s) - 1
         /\ Len(s) \in Nat \ {0}
         /\ \A i \in 1 .. Len(s) - 1 : Tail(s)[i] = s[i + 1]
         /\ \E v : /\ Weighs(v, Tail(s))
                   /\ \A i \in 0 .. Len(s) - 1 : v[i] = w[i + 1] - Cost(s[1])
<1> DEFINE n == Len(s)
           z == Tail(s)
           c == Cost(s[1])
           v == [i \in 0 .. n - 1 |-> w[i + 1] - c]
<1>1. /\ n \in Nat \ {0} /\ w[0] = 0 /\ w \in [0 .. n -> Int]
      /\ \A i \in 1 .. n : w[i] = w[i - 1] + Cost(s[i])
      /\ \A i, j \in 0 .. n : i < j => w[i] + (j - i) <= w[j]
  BY EmptySeq DEF Weighs
<1>2. /\ Head(s) = s[1] /\ z \in Seq(M) /\ Len(z) = n - 1
      /\ \A i \in 1 .. n - 1 : z[i] = s[i + 1]
  BY <1>1
<1>3. c \in 1 .. 2
  BY CostType
<1>4. w[1] = c
  <2>1. 1 \in 1 .. n
    BY <1>1
  <2>2. w[1] = w[1 - 1] + c
    BY <1>1, <2>1
  <2>3. QED
    BY <1>1, <1>3, <2>2
<1> HIDE DEF n, z, c
<1>5. \A i \in 0 .. n - 1 : v[i] = w[i + 1] - c /\ w[i + 1] \in Int
  <2>1. \A i \in 0 .. n - 1 : i + 1 \in 0 .. n
    BY <1>1
  <2>2. QED
    BY <1>1, <2>1
<1>6. v \in [0 .. n - 1 -> Int]
  BY <1>3, <1>5
<1> HIDE DEF v
<1>7. v[0] = 0
  <2>1. 0 \in 0 .. n - 1
    BY <1>1
  <2>2. v[0] = w[0 + 1] - c
    BY <1>5, <2>1
  <2>3. QED
    BY <1>3, <1>4, <2>2
<1>8. ASSUME NEW i \in 1 .. n - 1
      PROVE  v[i] = v[i - 1] + Cost(z[i])
  <2>1. i \in 0 .. n - 1 /\ i - 1 \in 0 .. n - 1 /\ i + 1 \in 1 .. n
        /\ (i - 1) + 1 = i /\ (i + 1) - 1 = i
    BY <1>1
  <2>2. v[i] = w[i + 1] - c /\ v[i - 1] = w[i] - c /\ z[i] = s[i + 1]
    BY <1>2, <1>5, <2>1
  <2>3. w[i + 1] = w[i] + Cost(s[i + 1])
    BY <1>1, <2>1
  <2>4. w[i] \in Int /\ Cost(s[i + 1]) \in Int
    <3>1. w[i] \in Int
      BY <1>5, <2>1
    <3>2. Cost(s[i + 1]) \in 1 .. 2
      BY CostType
    <3>3. QED
      BY <3>1, <3>2
  <2>5. QED
    BY <1>3, <2>2, <2>3, <2>4
<1>9. ASSUME NEW i \in 0 .. n - 1, NEW j \in 0 .. n - 1, i < j
      PROVE  v[i] + (j - i) <= v[j]
  <2>1. i + 1 \in 0 .. n /\ j + 1 \in 0 .. n /\ i + 1 < j + 1
    BY <1>1, <1>9
  <2>2. w[i + 1] + ((j + 1) - (i + 1)) <= w[j + 1]
    BY <1>1, <2>1
  <2>3. /\ v[i] = w[i + 1] - c /\ w[i + 1] \in Int
        /\ v[j] = w[j + 1] - c /\ w[j + 1] \in Int
    BY <1>5
  <2>4. i \in Int /\ j \in Int /\ c \in Int
    BY <1>1, <1>3
  <2>5. w[i + 1] + (j - i) <= w[j + 1]
    BY <2>2, <2>4
  <2>6. (w[i + 1] - c) + (j - i) <= w[j + 1] - c
    BY <2>3, <2>4, <2>5
  <2>7. QED
    BY <2>3, <2>6
<1>10. Weighs(v, z)
  BY <1>2, <1>6, <1>7, <1>8, <1>9 DEF Weighs
<1>11. QED
  BY <1>1, <1>2, <1>5, <1>10 DEF n, z, c

(***************************************************************************)
(* Types.                                                                  *)
(***************************************************************************)
ChannelDatagram == Noise \cup {VehicleReport}

LEMMA ChannelValues ==
  ASSUME ChannelTypeOK
  PROVE  /\ socket \in Seq(ChannelDatagram) /\ Len(socket) \in Nat
         /\ waited \in 0 .. PollTimeout
         /\ sinceSend \in Nat /\ sinceHeard \in Nat
         /\ sinceReport \in 0 .. Period /\ sinceReport \in Nat
         /\ crowd \in 0 .. Burst * Spacing /\ crowd \in Nat
         /\ Rates
         /\ Period \in Nat /\ PollTimeout \in Nat /\ ControlInterval \in Nat \ {0}
         /\ SocketSize \in Nat /\ Burst * Spacing \in Nat
<1>1. Rates
  BY RatesHold
<1>2. Burst * Spacing \in Nat
  BY <1>1 DEF Rates
<1>3. /\ Period \in Nat /\ PollTimeout \in Nat /\ ControlInterval \in Nat \ {0}
      /\ SocketSize \in Nat
  BY ChannelAssumption
<1>4. socket \in Seq(ChannelDatagram) /\ Len(socket) \in Nat
  BY DEF ChannelTypeOK, ChannelDatagram
<1>5. /\ waited \in 0 .. PollTimeout /\ sinceSend \in Nat /\ sinceHeard \in Nat
      /\ sinceReport \in 0 .. Period /\ crowd \in 0 .. Burst * Spacing
  BY DEF ChannelTypeOK
<1>6. QED
  BY <1>1, <1>2, <1>3, <1>4, <1>5

LEMMA ArrivalTypes ==
  ASSUME ChannelTypeOK, NEW d \in ChannelDatagram,
         Arrive(d)
  PROVE  socket' \in Seq(ChannelDatagram) /\ Len(socket') <= SocketSize
<1>1. /\ socket \in Seq(ChannelDatagram) /\ Len(socket) \in Nat
      /\ Len(socket) <= SocketSize /\ SocketSize \in Nat
  BY ChannelValues DEF ChannelTypeOK
<1>2. /\ Append(socket, d) \in Seq(ChannelDatagram)
      /\ Len(Append(socket, d)) = Len(socket) + 1
  BY <1>1
<1>3. QED
  BY <1>1, <1>2 DEF Arrive

LEMMA NetworkTimeTypes ==
  ASSUME ChannelTypeOK, NEW t \in 0 .. 1,
         NetworkTime(t)
  PROVE  sinceReport' \in 0 .. Period /\ crowd' \in 0 .. Burst * Spacing
<1>1. /\ sinceReport \in 0 .. Period /\ crowd \in 0 .. Burst * Spacing
      /\ Burst * Spacing \in Nat /\ Period \in Nat
  BY ChannelValues
<1>2. /\ sinceReport + t <= Period /\ sinceReport' = sinceReport + t
      /\ crowd' = Less(crowd, t)
  BY DEF NetworkTime
<1> DEFINE m == Burst * Spacing
<1>3. m \in Nat /\ crowd \in 0 .. m
  BY <1>1
<1> HIDE DEF m
<1>4. Less(crowd, t) \in 0 .. m
  BY <1>3 DEF Less
<1>5. QED
  BY <1>1, <1>2, <1>4 DEF m

LEMMA ChannelTypesKept ==
  ASSUME ChannelTypeOK, ChannelNext
  PROVE  ChannelTypeOK'
<1> DEFINE D == ChannelDatagram
<1>0. /\ socket \in Seq(D) /\ Len(socket) \in Nat /\ Len(socket) <= SocketSize
      /\ phase \in {"poll", "drain", "rest"}
      /\ waited \in 0 .. PollTimeout /\ sinceSend \in Nat /\ sinceHeard \in Nat
      /\ sinceReport \in 0 .. Period /\ crowd \in 0 .. Burst * Spacing
      /\ Period \in Nat /\ PollTimeout \in Nat /\ SocketSize \in Nat
  BY ChannelValues DEF ChannelTypeOK
<1> DEFINE Goal ==
             /\ socket' \in Seq(D) /\ Len(socket') <= SocketSize
             /\ phase' \in {"poll", "drain", "rest"}
             /\ waited' \in 0 .. PollTimeout
             /\ sinceSend' \in Nat /\ sinceHeard' \in Nat
             /\ sinceReport' \in 0 .. Period /\ crowd' \in 0 .. Burst * Spacing
<1>1. CASE VehicleReports
  <2>1. Arrive(VehicleReport) /\ VehicleReport \in D
    BY <1>1 DEF VehicleReports, ChannelDatagram
  <2>2. /\ sinceReport' = 0 /\ phase' = phase /\ waited' = waited
        /\ sinceSend' = sinceSend /\ sinceHeard' = sinceHeard /\ crowd' = crowd
    BY <1>1 DEF VehicleReports
  <2>3. Goal
    BY <1>0, <2>1, <2>2, ArrivalTypes
  <2>4. QED
    BY <2>3 DEF ChannelTypeOK, ChannelDatagram
<1>2. ASSUME NEW d \in Noise, OtherDatagram(d)
      PROVE  ChannelTypeOK'
  <2>1. Arrive(d) /\ d \in D
    BY <1>2 DEF OtherDatagram, ChannelDatagram
  <2>2. /\ sinceReport' = sinceReport /\ phase' = phase /\ waited' = waited
        /\ sinceSend' = sinceSend /\ sinceHeard' = sinceHeard
        /\ crowd <= (Burst - 1) * Spacing /\ crowd' = crowd + Spacing
    BY <1>2 DEF OtherDatagram
  <2>3. crowd' \in 0 .. Burst * Spacing
    <3>1. Rates
      BY ChannelValues
    <3>2. (Burst - 1) * Spacing = Burst * Spacing - Spacing
          /\ Burst * Spacing \in Nat /\ Spacing \in Nat
      BY <3>1 DEF Rates
    <3>3. QED
      BY <1>0, <2>2, <3>2
  <2>4. Goal
    BY <1>0, <2>1, <2>2, <2>3, ArrivalTypes
  <2>5. QED
    BY <2>4 DEF ChannelTypeOK, ChannelDatagram
<1>3. CASE Wait
  <2>1. NetworkTime(1) /\ 1 \in 0 .. 1
    BY <1>3 DEF Wait
  <2>2. /\ waited < PollTimeout /\ waited' = waited + 1
        /\ sinceSend' = sinceSend + 1 /\ sinceHeard' = sinceHeard + 1
        /\ socket' = socket /\ phase' = phase
    BY <1>3 DEF Wait, Waiting
  <2>3. Goal
    BY <1>0, <2>1, <2>2, NetworkTimeTypes
  <2>4. QED
    BY <2>3 DEF ChannelTypeOK, ChannelDatagram
<1>4. CASE PollReturns
  <2>1. Goal
    BY <1>0, <1>4 DEF PollReturns, timers
  <2>2. QED
    BY <2>1 DEF ChannelTypeOK, ChannelDatagram
<1>5. CASE Drained
  <2>1. Goal
    BY <1>0, <1>5 DEF Drained, timers
  <2>2. QED
    BY <2>1 DEF ChannelTypeOK, ChannelDatagram
<1>6. ASSUME NEW t \in 0 .. 1, Receive(t)
      PROVE  ChannelTypeOK'
  <2>1. /\ NetworkTime(t) /\ socket # <<>> /\ socket' = Tail(socket)
        /\ sinceSend' = sinceSend + t /\ waited' = waited
        /\ phase' \in {"rest", "drain"} /\ sinceHeard' \in {0, sinceHeard + t}
    BY <1>6 DEF Receive
  <2>2. Len(socket) # 0
    BY <1>0, <2>1, EmptySeq
  <2>3. Tail(socket) \in Seq(D) /\ Len(Tail(socket)) = Len(socket) - 1
    BY <1>0, <2>1, <2>2
  <2>4. socket' \in Seq(D) /\ Len(socket') <= SocketSize
    BY <1>0, <2>1, <2>3
  <2>5. sinceSend' \in Nat /\ sinceHeard' \in Nat
    BY <1>0, <2>1
  <2>6. sinceReport' \in 0 .. Period /\ crowd' \in 0 .. Burst * Spacing
    BY <2>1, NetworkTimeTypes
  <2>7. Goal
    BY <1>0, <2>1, <2>4, <2>5, <2>6
  <2>8. QED
    BY <2>7 DEF ChannelTypeOK, ChannelDatagram
<1>7. ASSUME NEW t \in 0 .. 1, RestOfTurn(t)
      PROVE  ChannelTypeOK'
  <2>1. /\ NetworkTime(t) /\ socket' = socket /\ waited' = waited
        /\ phase' = "poll" /\ sinceSend' \in {0, sinceSend + t}
        /\ sinceHeard' = sinceHeard + t
    BY <1>7 DEF RestOfTurn
  <2>2. Goal
    BY <1>0, <2>1, NetworkTimeTypes
  <2>3. QED
    BY <2>2 DEF ChannelTypeOK, ChannelDatagram
<1>8. QED
  BY <1>1, <1>2, <1>3, <1>4, <1>5, <1>6, <1>7 DEF ChannelNext

LEMMA ChannelTypesStutter ==
  ASSUME ChannelTypeOK, UNCHANGED channelVars
  PROVE  ChannelTypeOK'
BY DEF ChannelTypeOK, channelVars, timers

LEMMA ChannelTypesStart ==
  ASSUME ChannelInit
  PROVE  ChannelTypeOK
<1>1. Rates /\ Period \in Nat /\ PollTimeout \in Nat /\ SocketSize \in Nat
  BY RatesHold, ChannelAssumption
<1>2. Burst * Spacing \in Nat
  BY <1>1 DEF Rates
<1>3. <<>> \in Seq(Noise \cup {VehicleReport}) /\ Len(<<>>) = 0
  OBVIOUS
<1>4. QED
  BY <1>1, <1>2, <1>3 DEF ChannelInit, ChannelTypeOK

\* What waits is a datagram, every time in its range, whatever the network sends.
THEOREM ChannelTypes == ChannelSpec => []ChannelTypeOK
<1>1. ChannelInit => ChannelTypeOK
  BY ChannelTypesStart
<1>2. ChannelTypeOK /\ [ChannelNext]_channelVars => ChannelTypeOK'
  BY ChannelTypesKept, ChannelTypesStutter
<1>3. QED
  BY <1>1, <1>2, PTL DEF ChannelSpec

(***************************************************************************)
(* The steps.                                                              *)
(***************************************************************************)
\* Work that was done in t units, against what became possible in them.
LEMMA WorkTaken ==
  ASSUME Rates, NEW p \in Int, NEW q \in Int, q <= p - 1,
         NEW c \in Nat, NEW s \in Nat, NEW t \in 0 .. 1
  PROVE  /\ Owes(q, Less(c, t), s + t) + Spacing * Hurry
              <= Owes(p, c, s) + (2 * Hurry + Spacing) * t
         /\ Owes(q, Less(c, t), s + t) <= Owes(p, c, s)
<1> DEFINE u == Spacing * Hurry
           l == 2 * Hurry + Spacing
           a == Owes(q, Less(c, t), s + t)
           b == Owes(p - 1, Less(c, t), s + t)
           e == Owes(p - 1, c, s)
           o == Owes(p, c, s)
<1>1. Less(c, t) \in Nat /\ s + t \in Nat /\ p - 1 \in Int
  BY DEF Less
<1>2. u - l \in Nat \ {0} /\ u \in Nat /\ l \in Nat
  BY Faster DEF Rates
<1>3. a \in Int /\ b \in Int /\ e \in Int /\ o \in Int
  <2>1. Less(c, t) \in Int /\ s + t \in Int /\ c \in Int /\ s \in Int
    BY <1>1
  <2>2. QED
    BY <1>1, <2>1, OwesType
<1>4. a <= b
  BY <1>1, LessWork
<1>5. b <= e + l * t
  BY <1>1, TimeOwes
<1>6. e = o - u
  BY OneLess
<1> HIDE DEF u, l, a, b, e, o
<1>7. l * t \in Int /\ l * t <= u
  BY <1>2
<1>8. a + u <= o + l * t /\ a <= o
  BY <1>2, <1>3, <1>4, <1>5, <1>6, <1>7
<1>9. QED
  BY <1>8 DEF u, l, a, o

LEMMA DrainGoesOn ==
  ASSUME Rates, NEW p \in Int, NEW q \in Int, q <= p - 1,
         NEW c \in Nat, NEW s \in Nat, NEW t \in 0 .. 1, NEW x \in Int
  PROVE  (Spacing * Hurry - (2 * Hurry + Spacing)) * (x + t)
             + Owes(q, Less(c, t), s + t)
           <= (Spacing * Hurry - (2 * Hurry + Spacing)) * x + Owes(p, c, s)
<1> DEFINE u == Spacing * Hurry
           l == 2 * Hurry + Spacing
           a == Owes(q, Less(c, t), s + t)
           o == Owes(p, c, s)
<1>1. a + u <= o + l * t
  BY WorkTaken
<1>2. u \in Nat /\ l \in Nat
  BY DEF Rates
<1>3. Less(c, t) \in Nat /\ s + t \in Nat
  BY DEF Less
<1>4. a \in Int /\ o \in Int
  <2>1. Less(c, t) \in Int /\ s + t \in Int /\ c \in Int /\ s \in Int
    BY <1>3
  <2>2. QED
    BY <2>1, OwesType
<1> HIDE DEF u, l, a, o
<1>5. (u - l) * (x + t) + a <= (u - l) * x + o
  <2>1. CASE t = 0
    <3>1. l * t = 0 /\ x + t = x /\ (u - l) * x \in Int
      BY <1>2, <2>1
    <3>2. QED
      BY <1>1, <1>2, <1>4, <3>1
  <2>2. CASE t = 1
    <3>1. l * t = l /\ (u - l) * (x + t) = (u - l) * x + (u - l)
          /\ (u - l) * x \in Int
      BY <1>2, <2>2
    <3>2. QED
      BY <1>1, <1>2, <1>4, <3>1
  <2>3. QED
    BY <2>1, <2>2
<1>6. QED
  BY <1>5 DEF u, l, a, o

LEMMA BoundedFacts ==
  ASSUME ChannelTypeOK, NEW w, Bounded(w)
  PROVE  /\ w[0] = 0 /\ w[Len(socket)] \in Nat /\ Len(socket) <= w[Len(socket)]
         /\ \A i \in 1 .. Len(socket) :
              w[i - 1] \in Nat /\ w[i - 1] <= w[Len(socket)]
         /\ Rest \in 0 .. 1
         /\ Owes(w[Len(socket)] + Rest, crowd, sinceReport)
              <= 2 * (Spacing * Hurry)
         /\ w[Len(socket)] + Rest <= 2 * Burst + 2
         /\ sinceReport >= Hurry => w[Len(socket)] + Rest <= 2 * Burst + 1
         /\ 2 * Burst + 2 <= Busy
<1>1. /\ socket \in Seq(ChannelDatagram) /\ Weighs(w, socket)
      /\ crowd \in 0 .. Burst * Spacing /\ sinceReport \in Nat /\ Rates
      /\ Owes(w[Len(socket)] + Rest, crowd, sinceReport)
           <= 2 * (Spacing * Hurry)
  BY ChannelValues DEF Bounded
<1>2. /\ w[0] = 0 /\ w[Len(socket)] \in Nat /\ Len(socket) <= w[Len(socket)]
      /\ \A i \in 1 .. Len(socket) :
           w[i - 1] \in Nat /\ w[i - 1] <= w[Len(socket)]
  BY <1>1, WeighsLength
<1>3. Rest \in 0 .. 1
  BY DEF Rest
<1>4. w[Len(socket)] + Rest \in Int
  BY <1>2, <1>3
<1>5. /\ w[Len(socket)] + Rest <= 2 * Burst + 2
      /\ sinceReport >= Hurry => w[Len(socket)] + Rest <= 2 * Burst + 1
  BY <1>1, <1>4, BacklogBound
<1>6. 2 * Burst + 2 <= Busy
  BY <1>1, Faster
<1>7. QED
  BY <1>1, <1>2, <1>3, <1>5, <1>6

LEMMA RestKept ==
  ASSUME phase' = phase
  PROVE  Rest' = Rest
BY DEF Rest

\* What the loop is doing does not change when a datagram arrives.
LEMMA Arrives ==
  ASSUME ChannelTypeOK, NEW w, Bounded(w),
         NEW d \in ChannelDatagram, Arrive(d),
         phase' = phase, waited' = waited, sinceSend' = sinceSend,
         crowd' \in Int, sinceReport' \in Int,
         \A p \in Int : Owes(p + Cost(d), crowd', sinceReport')
                          = Owes(p, crowd, sinceReport)
  PROVE  \E v : /\ Weighs(v, socket')
                /\ Owes(v[Len(socket')] + Rest, crowd', sinceReport')
                     <= 2 * (Spacing * Hurry)
                /\ Prompt(v)'
                /\ \A i \in 0 .. Len(socket) : v[i] = w[i]
                /\ \A i \in 1 .. Len(socket) : socket'[i] = socket[i]
                /\ Len(socket) <= Len(socket')
                /\ Len(socket) < SocketSize =>
                     /\ Len(socket') = Len(socket) + 1
                     /\ socket'[Len(socket) + 1] = d
<1> DEFINE n == Len(socket)
           P == w[n]
           R == Rest
           k == Cost(d)
           U == 2 * (Spacing * Hurry)
<1>1. /\ socket \in Seq(ChannelDatagram) /\ n \in Nat /\ Rates /\ SocketSize \in Nat
      /\ crowd \in Nat /\ sinceReport \in Nat
  BY ChannelValues
<1>2. P \in Nat /\ R \in 0 .. 1 /\ Owes(P + R, crowd, sinceReport) <= U
  BY BoundedFacts
<1>3. Weighs(w, socket) /\ Prompt(w)
  BY DEF Bounded
<1>4. k \in 1 .. 2
  BY CostType
<1>5. U \in Int
  BY <1>1 DEF Rates
<1>6. crowd \in Int /\ sinceReport \in Int
  BY <1>1
<1>7. \A p \in Int : Owes(p + k, crowd', sinceReport') = Owes(p, crowd, sinceReport)
  OBVIOUS
<1> HIDE DEF n, P, R, k, U
<1>8. /\ P \in Int /\ P + R \in Int /\ P + k \in Int /\ P + k + R \in Int
      /\ (P + R) + k = P + k + R /\ P <= P + k /\ P + R <= P + k + R
  BY <1>2, <1>4
\* Whether the datagram is kept or dropped.
<1>9. ASSUME NEW q \in {P, P + k}
      PROVE  /\ q \in Int
             /\ Owes(q, crowd', sinceReport') <= Owes(P, crowd, sinceReport)
             /\ Owes(q + R, crowd', sinceReport') <= U
  <2> DEFINE a == Owes(P, crowd', sinceReport')
             b == Owes(P + R, crowd', sinceReport')
             e == Owes(P, crowd, sinceReport)
             f == Owes(P + R, crowd, sinceReport)
             g == Owes(P + k, crowd', sinceReport')
             h == Owes(P + k + R, crowd', sinceReport')
  <2>1. g = e
    BY <1>7, <1>8
  <2>2. h = f
    <3>1. Owes((P + R) + k, crowd', sinceReport') = Owes(P + R, crowd, sinceReport)
      BY <1>7, <1>8
    <3>2. QED
      BY <1>8, <3>1
  <2>3. a <= g
    BY <1>1, <1>8, LessWork
  <2>4. b <= h
    BY <1>1, <1>8, LessWork
  <2>5. /\ a \in Int /\ b \in Int /\ e \in Int /\ f \in Int /\ g \in Int /\ h \in Int
    BY <1>1, <1>6, <1>8, OwesType
  <2>6. f <= U
    BY <1>2
  <2> HIDE DEF a, b, e, f, g, h
  <2>7. a <= e /\ g <= e /\ b <= U /\ h <= U
    BY <1>5, <2>1, <2>2, <2>3, <2>4, <2>5, <2>6
  <2>8. CASE q = P
    BY <1>8, <2>7, <2>8 DEF a, b, e
  <2>9. CASE q = P + k
    BY <1>8, <2>7, <2>9 DEF g, h, e
  <2>10. QED
    BY <2>8, <2>9
\* Prompt reads the work only in what a drain owes.
<1>10. ASSUME NEW v, v[Len(socket')] \in {P, P + k}
       PROVE  Prompt(v)'
  <2> DEFINE m == (Spacing * Hurry - Load)
                    * (sinceSend - (ControlInterval - 1 + PollTimeout))
             a == Owes(v[Len(socket')], crowd', sinceReport')
             b == Owes(P, crowd, sinceReport)
  <2>1. a <= b
    BY <1>9, <1>10
  <2>2. a \in Int /\ b \in Int
    <3>1. v[Len(socket')] \in Int
      BY <1>8, <1>10
    <3>2. QED
      BY <1>1, <1>6, <1>8, <3>1, OwesType
  <2>3. m \in Int
    <3>1. Spacing * Hurry \in Int /\ Load \in Int
      BY <1>1, RatesHold DEF Rates
    <3>2. sinceSend \in Int /\ ControlInterval \in Int /\ PollTimeout \in Int
      BY ChannelValues
    <3>3. QED
      BY <3>1, <3>2
  <2>4. phase = "drain" => m + b <= U
    BY <1>3 DEF Prompt, P, U, n
  <2>5. /\ phase = "poll" => sinceSend <= ControlInterval - 1 + waited
        /\ phase = "rest" => sinceSend <= ControlInterval - 1 + PollTimeout + Busy
    BY <1>3 DEF Prompt
  <2> HIDE DEF m, a, b
  <2>6. phase = "drain" => m + a <= U
    BY <1>5, <2>1, <2>2, <2>3, <2>4
  <2>7. QED
    BY <2>5, <2>6 DEF Prompt, m, a, U
<1>11. CASE n < SocketSize
  <2>1. socket' = Append(socket, d)
    BY <1>11 DEF Arrive, n
  <2>2. PICK v : /\ Weighs(v, Append(socket, d))
                 /\ v[n + 1] = P + k
                 /\ \A i \in 0 .. n : v[i] = w[i]
    BY <1>1, <1>3, WeighsSent DEF n, P, k
  <2>3. /\ Len(socket') = n + 1 /\ socket'[n + 1] = d
        /\ \A i \in 1 .. n : socket'[i] = socket[i]
    BY <1>1, <2>1 DEF n
  <2>4. v[Len(socket')] = P + k
    BY <2>2, <2>3
  <2>5. Prompt(v)'
    BY <1>10, <2>4
  <2>6. Owes(v[Len(socket')] + R, crowd', sinceReport') <= U
    BY <1>9, <2>4
  <2>7. n <= Len(socket')
    BY <1>1, <2>3
  <2>8. QED
    BY <2>1, <2>2, <2>3, <2>5, <2>6, <2>7 DEF n, R, U
<1>12. CASE ~(n < SocketSize)
  <2>1. socket' = socket
    BY <1>12 DEF Arrive, n
  <2>2. w[Len(socket')] = P
    BY <2>1 DEF P, n
  <2>3. Prompt(w)'
    BY <1>10, <2>2
  <2>4. Owes(w[Len(socket')] + R, crowd', sinceReport') <= U
    BY <1>9, <2>2
  <2>5. n <= Len(socket')
    BY <1>1, <2>1 DEF n
  <2>6. QED
    BY <1>3, <1>12, <2>1, <2>3, <2>4, <2>5 DEF n, R, U
<1>13. QED
  BY <1>11, <1>12

LEMMA NetworkKinds ==
  /\ IsReport(VehicleReport) /\ Cost(VehicleReport) = 1
  /\ \A d \in Noise : ~IsReport(d) /\ Cost(d) = 2
BY CostType, BufferAssumption

\* A report finds room, behind what can wait for less than Busy.
LEMMA ReportArrives ==
  ASSUME ChannelTypeOK,
         NEW w, Bounded(w), VehicleReports
  PROVE  \E v : Bounded(v)'
<1> DEFINE n == Len(socket)
<1>1. /\ sinceReport >= Hurry /\ Arrive(VehicleReport) /\ sinceReport' = 0
      /\ phase' = phase /\ waited' = waited /\ sinceSend' = sinceSend
      /\ sinceHeard' = sinceHeard /\ crowd' = crowd
  BY DEF VehicleReports
<1>2. /\ VehicleReport \in ChannelDatagram /\ IsReport(VehicleReport)
      /\ Cost(VehicleReport) = 1
  BY NetworkKinds DEF ChannelDatagram
<1>3. /\ Rates /\ crowd \in Int /\ sinceReport \in Int /\ n \in Nat
      /\ SocketSize \in Nat /\ sinceHeard \in Nat /\ sinceReport <= Period
      /\ Period \in Nat
  BY ChannelValues
<1>4. \A p \in Int : Owes(p + Cost(VehicleReport), crowd', sinceReport')
                       = Owes(p, crowd, sinceReport)
  BY <1>1, <1>2, <1>3, ReportOwes
<1>5. crowd' \in Int /\ sinceReport' \in Int
  BY <1>1, <1>3
<1>6. PICK v : /\ Weighs(v, socket')
               /\ Owes(v[Len(socket')] + Rest, crowd', sinceReport')
                    <= 2 * (Spacing * Hurry)
               /\ Prompt(v)'
               /\ \A i \in 0 .. n : v[i] = w[i]
               /\ \A i \in 1 .. n : socket'[i] = socket[i]
               /\ n <= Len(socket')
               /\ n < SocketSize => /\ Len(socket') = n + 1
                                    /\ socket'[n + 1] = VehicleReport
  BY <1>1, <1>2, <1>4, <1>5, Arrives
<1>7. /\ w[n] + Rest <= 2 * Burst + 1 /\ n <= w[n] /\ w[n] \in Nat
      /\ Rest \in 0 .. 1 /\ 2 * Burst + 2 <= Busy
  BY <1>1, BoundedFacts
<1>8. Rest' = Rest
  BY <1>1, RestKept
<1>9. Burst \in Nat /\ Busy \in Nat /\ Backlog = 2 * Burst + 2
  BY <1>3, RatesHold DEF Rates
<1> HIDE DEF n
<1>10. ASSUME Backlog <= SocketSize
       PROVE  InTime(v)'
  <2>1. InTime(w)
    BY <1>10 DEF Bounded
  <2>2. CASE sinceHeard <= sinceReport
    <3>1. n < SocketSize
      BY <1>3, <1>7, <1>9, <1>10
    <3>2. Len(socket') = n + 1 /\ socket'[n + 1] = VehicleReport
      BY <1>6, <3>1
    <3>3. n + 1 \in 1 .. Len(socket') /\ (n + 1) - 1 = n /\ n \in 0 .. n
      BY <1>3, <3>2
    <3>4. v[(n + 1) - 1] = w[n]
      BY <1>6, <3>3
    <3>5. sinceHeard + w[n] + Rest <= Period + Busy
      BY <1>3, <1>7, <1>9, <2>2
    <3>6. IsReport(socket'[n + 1])
      BY <1>2, <3>2
    <3>7. QED
      BY <1>1, <1>8, <3>3, <3>4, <3>5, <3>6 DEF InTime
  <2>3. ASSUME NEW i \in 1 .. n, IsReport(socket[i]),
               sinceHeard + w[i - 1] + Rest <= Period + Busy
        PROVE  InTime(v)'
    <3>1. i \in 1 .. Len(socket') /\ i - 1 \in 0 .. n
      <4>1. Len(socket') \in Nat
        BY ArrivalTypes, <1>1, <1>2
      <4>2. QED
        BY <1>3, <1>6, <4>1
    <3>2. v[i - 1] = w[i - 1] /\ socket'[i] = socket[i]
      BY <1>6, <3>1
    <3>3. QED
      BY <1>1, <1>8, <2>3, <3>1, <3>2 DEF InTime
  <2>4. QED
    BY <2>1, <2>2, <2>3 DEF InTime, n
<1>11. Bounded(v)'
  BY <1>6, <1>8, <1>10 DEF Bounded
<1>12. QED
  BY <1>11

LEMMA OtherArrives ==
  ASSUME ChannelTypeOK,
         NEW w, Bounded(w), NEW d \in Noise, OtherDatagram(d)
  PROVE  \E v : Bounded(v)'
<1> DEFINE n == Len(socket)
<1>1. /\ Arrive(d) /\ sinceReport' = sinceReport
      /\ phase' = phase /\ waited' = waited /\ sinceSend' = sinceSend
      /\ sinceHeard' = sinceHeard /\ crowd' = crowd + Spacing
  BY DEF OtherDatagram
<1>2. d \in ChannelDatagram /\ Cost(d) = 2
  BY NetworkKinds DEF ChannelDatagram
<1>3. Rates /\ crowd \in Int /\ sinceReport \in Int /\ n \in Nat /\ Spacing \in Nat
  BY ChannelValues DEF Rates
<1>4. \A p \in Int : Owes(p + Cost(d), crowd', sinceReport')
                       = Owes(p, crowd, sinceReport)
  BY <1>1, <1>2, <1>3, OtherOwes
<1>5. crowd' \in Int /\ sinceReport' \in Int
  BY <1>1, <1>3
<1>6. PICK v : /\ Weighs(v, socket')
               /\ Owes(v[Len(socket')] + Rest, crowd', sinceReport')
                    <= 2 * (Spacing * Hurry)
               /\ Prompt(v)'
               /\ \A i \in 0 .. n : v[i] = w[i]
               /\ \A i \in 1 .. n : socket'[i] = socket[i]
               /\ n <= Len(socket')
  BY <1>1, <1>2, <1>4, <1>5, Arrives
<1>7. Rest' = Rest
  BY <1>1, RestKept
<1> HIDE DEF n
<1>8. ASSUME InTime(w)
      PROVE  InTime(v)'
  <2>1. CASE sinceHeard <= sinceReport
    BY <1>1, <2>1 DEF InTime
  <2>2. ASSUME NEW i \in 1 .. n, IsReport(socket[i]),
               sinceHeard + w[i - 1] + Rest <= Period + Busy
        PROVE  InTime(v)'
    <3>1. i \in 1 .. Len(socket') /\ i - 1 \in 0 .. n
      <4>1. Len(socket') \in Nat
        BY ArrivalTypes, <1>1, <1>2
      <4>2. QED
        BY <1>3, <1>6, <4>1
    <3>2. v[i - 1] = w[i - 1] /\ socket'[i] = socket[i]
      BY <1>6, <3>1
    <3>3. QED
      BY <1>1, <1>7, <2>2, <3>1, <3>2 DEF InTime
  <2>3. QED
    BY <1>8, <2>1, <2>2 DEF InTime, n
<1>9. Backlog <= SocketSize => InTime(v)'
  BY <1>8 DEF Bounded
<1>10. Bounded(v)'
  BY <1>6, <1>7, <1>9 DEF Bounded
<1>11. QED
  BY <1>10

\* With nothing waiting, little is owed and the last report has been handled.
LEMMA NothingWaits ==
  ASSUME ChannelTypeOK, NEW w, Bounded(w),
         socket = <<>>
  PROVE  /\ w[Len(socket)] = 0
         /\ Backlog <= SocketSize => sinceHeard <= sinceReport
         /\ \A r \in 0 .. 1 : \A c \in Nat : \A s \in Nat :
              Owes(r, c, s) <= 2 * (Spacing * Hurry)
<1>1. Len(socket) = 0
  OBVIOUS
<1>2. w[0] = 0
  BY BoundedFacts
<1>3. Backlog <= SocketSize => sinceHeard <= sinceReport
  BY <1>1 DEF Bounded, InTime
<1>4. ASSUME NEW r \in 0 .. 1, NEW c \in Nat, NEW s \in Nat
      PROVE  Owes(r, c, s) <= 2 * (Spacing * Hurry)
  <2>1. Rates
    BY ChannelValues
  <2> DEFINE u == Spacing * Hurry
             o == Owes(r, c, s)
  <2>2. o <= u * r + u
    BY <2>1, OwesAtMost
  <2>3. u \in Nat /\ o \in Int
    <3>1. r \in Int /\ c \in Int /\ s \in Int
      OBVIOUS
    <3>2. QED
      BY <2>1, <3>1, OwesType DEF Rates
  <2> HIDE DEF u, o
  <2>4. u * r <= u /\ u * r \in Int
    BY <2>3
  <2>5. o <= 2 * u
    BY <2>2, <2>3, <2>4
  <2>6. QED
    BY <2>5 DEF u, o
<1>5. QED
  BY <1>1, <1>2, <1>3, <1>4

LEMMA PollWaits ==
  ASSUME ChannelTypeOK, NEW w, Bounded(w),
         Wait
  PROVE  \E v : Bounded(v)'
<1>1. /\ phase = "poll" /\ socket = <<>> /\ NetworkTime(1)
      /\ waited' = waited + 1 /\ sinceSend' = sinceSend + 1
      /\ sinceHeard' = sinceHeard + 1 /\ socket' = socket /\ phase' = phase
  BY DEF Wait, Waiting
<1>2. sinceReport' = sinceReport + 1
  BY <1>1 DEF NetworkTime
<1>3. crowd' \in Nat /\ sinceReport' \in Nat
  <2>1. Burst * Spacing \in Nat
    BY ChannelValues
  <2>2. sinceReport' \in 0 .. Period /\ crowd' \in 0 .. Burst * Spacing
    BY <1>1, NetworkTimeTypes
  <2>3. QED
    BY <2>1, <2>2
<1>4. /\ w[Len(socket)] = 0
      /\ Backlog <= SocketSize => sinceHeard <= sinceReport
      /\ Owes(0, crowd', sinceReport') <= 2 * (Spacing * Hurry)
  BY <1>1, <1>3, NothingWaits
<1>5. /\ sinceSend \in Nat /\ waited \in Nat /\ ControlInterval \in Nat
      /\ sinceHeard \in Nat /\ sinceReport \in Nat
  BY ChannelValues
<1>6. sinceSend <= ControlInterval - 1 + waited
  BY <1>1 DEF Bounded, Prompt
<1>7. Rest' = 0
  BY <1>1 DEF Rest
<1>8. Prompt(w)'
  BY <1>1, <1>5, <1>6 DEF Prompt
<1>9. Backlog <= SocketSize => InTime(w)'
  BY <1>1, <1>2, <1>4, <1>5 DEF InTime
<1>10. Weighs(w, socket')
  BY <1>1 DEF Bounded
<1>11. w[Len(socket')] + Rest' = 0
  BY <1>1, <1>4, <1>7
<1>12. Bounded(w)'
  BY <1>4, <1>8, <1>9, <1>10, <1>11 DEF Bounded
<1>13. QED
  BY <1>12

\* What has accumulated before a drain is no more than one wait of poll.
LEMMA PollReports ==
  ASSUME ChannelTypeOK, NEW w, Bounded(w),
         PollReturns
  PROVE  \E v : Bounded(v)'
<1>1. /\ phase = "poll" /\ waited' = 0 /\ socket' = socket
      /\ sinceSend' = sinceSend /\ sinceHeard' = sinceHeard
      /\ sinceReport' = sinceReport /\ crowd' = crowd
      /\ phase' = IF socket # <<>> THEN "drain" ELSE "rest"
  BY DEF PollReturns, timers
<1>2. /\ sinceSend \in Nat /\ waited \in 0 .. PollTimeout /\ ControlInterval \in Nat
      /\ PollTimeout \in Nat /\ Rates /\ crowd \in Nat /\ sinceReport \in Nat
      /\ socket \in Seq(ChannelDatagram)
  BY ChannelValues
<1>3. sinceSend <= ControlInterval - 1 + waited
  BY <1>1 DEF Bounded, Prompt
<1>4. Rest = 0
  BY <1>1 DEF Rest
<1>5. w[Len(socket)] \in Nat
  BY BoundedFacts
<1>6. Owes(w[Len(socket)], crowd, sinceReport) <= 2 * (Spacing * Hurry)
  <2>1. w[Len(socket)] + Rest = w[Len(socket)]
    BY <1>4, <1>5
  <2>2. QED
    BY <2>1, BoundedFacts
<1>7. Weighs(w, socket')
  BY <1>1 DEF Bounded
<1>8. CASE socket # <<>>
  <2>1. phase' = "drain" /\ Rest' = 0
    BY <1>1, <1>8 DEF Rest
  <2>2. (Spacing * Hurry - Load)
            * (sinceSend - (ControlInterval - 1 + PollTimeout))
          + Owes(w[Len(socket)], crowd, sinceReport) <= 2 * (Spacing * Hurry)
    <3> DEFINE d == Spacing * Hurry - Load
               x == sinceSend - (ControlInterval - 1 + PollTimeout)
               o == Owes(w[Len(socket)], crowd, sinceReport)
               m == 2 * (Spacing * Hurry)
    <3>1. d \in Nat
      BY <1>2, Faster, RatesHold
    <3>2. x \in Int /\ x <= 0
      BY <1>2, <1>3
    <3>3. o \in Int /\ m \in Int
      <4>1. w[Len(socket)] \in Int /\ crowd \in Int /\ sinceReport \in Int
        BY <1>2, <1>5
      <4>2. o \in Int
        BY <1>2, <4>1, OwesType
      <4>3. m \in Int
        BY <1>2 DEF Rates
      <4>4. QED
        BY <4>2, <4>3
    <3>4. o <= m
      BY <1>6
    <3> HIDE DEF d, x, o, m
    <3>5. d * x <= d * 0 /\ d * 0 = 0 /\ d * x \in Int
      BY <3>1, <3>2, ProductMonotone
    <3>6. d * x + o <= m
      BY <3>3, <3>4, <3>5
    <3>7. QED
      BY <3>6 DEF d, x, o, m
  <2>3. Prompt(w)'
    BY <1>1, <2>1, <2>2 DEF Prompt
  <2>4. Backlog <= SocketSize => InTime(w)'
    <3>1. Backlog <= SocketSize => InTime(w)
      BY DEF Bounded
    <3>2. QED
      BY <1>1, <1>4, <2>1, <3>1 DEF InTime
  <2>5. w[Len(socket')] + Rest' = w[Len(socket)]
    BY <1>1, <1>5, <2>1
  <2>6. Bounded(w)'
    BY <1>1, <1>6, <1>7, <2>3, <2>4, <2>5 DEF Bounded
  <2>7. QED
    BY <2>6
<1>9. CASE socket = <<>>
  <2>1. phase' = "rest" /\ Rest' = 1
    BY <1>1, <1>9 DEF Rest
  <2>2. /\ w[Len(socket)] = 0
        /\ Backlog <= SocketSize => sinceHeard <= sinceReport
        /\ Owes(1, crowd, sinceReport) <= 2 * (Spacing * Hurry)
    BY <1>2, <1>9, NothingWaits
  <2>3. Busy \in Nat
    BY <1>2 DEF Rates
  <2>4. Prompt(w)'
    BY <1>1, <1>2, <1>3, <2>1, <2>3 DEF Prompt
  <2>5. Backlog <= SocketSize => InTime(w)'
    BY <1>1, <2>2 DEF InTime
  <2>6. w[Len(socket')] + Rest' = 1
    BY <1>1, <2>1, <2>2
  <2>7. Bounded(w)'
    BY <1>1, <1>7, <2>2, <2>4, <2>5, <2>6 DEF Bounded
  <2>8. QED
    BY <2>7
<1>10. QED
  BY <1>8, <1>9

\* A drain that is over has not lasted longer than Busy.
LEMMA DrainIsShort ==
  ASSUME Rates, NEW p \in Nat, NEW c \in 0 .. Burst * Spacing, NEW s \in Nat,
         NEW e \in Nat,
         (Spacing * Hurry - Load) * (e - (ControlInterval - 1 + PollTimeout))
           + Owes(p, c, s) <= 2 * (Spacing * Hurry)
  PROVE  e <= ControlInterval - 1 + PollTimeout + Busy
<1> DEFINE x == e - (ControlInterval - 1 + PollTimeout)
<1>1. ControlInterval \in Nat /\ PollTimeout \in Nat /\ Busy \in Nat
  BY ChannelAssumption
<1>2. x \in Int
  BY <1>1
<1>3. Load = 2 * Hurry + Spacing
  BY RatesHold
<1>4. (Spacing * Hurry - (2 * Hurry + Spacing)) * x + Owes(p, c, s)
        <= 2 * (Spacing * Hurry)
  BY <1>3
<1> HIDE DEF x
<1>5. x <= Busy
  BY <1>2, <1>4, DrainBound
<1>6. QED
  BY <1>1, <1>5 DEF x

LEMMA DrainEnds ==
  ASSUME ChannelTypeOK, NEW w, Bounded(w),
         Drained
  PROVE  \E v : Bounded(v)'
<1>1. /\ phase = "drain" /\ socket = <<>> /\ phase' = "rest" /\ waited' = waited
      /\ socket' = socket /\ sinceSend' = sinceSend /\ sinceHeard' = sinceHeard
      /\ sinceReport' = sinceReport /\ crowd' = crowd
  BY DEF Drained, timers
<1>2. /\ sinceSend \in Nat /\ Rates /\ crowd \in 0 .. Burst * Spacing
      /\ crowd \in Nat /\ sinceReport \in Nat
  BY ChannelValues
<1>3. /\ w[Len(socket)] = 0
      /\ Backlog <= SocketSize => sinceHeard <= sinceReport
      /\ Owes(1, crowd, sinceReport) <= 2 * (Spacing * Hurry)
  BY <1>1, <1>2, NothingWaits
<1>4. (Spacing * Hurry - Load)
          * (sinceSend - (ControlInterval - 1 + PollTimeout))
        + Owes(w[Len(socket)], crowd, sinceReport) <= 2 * (Spacing * Hurry)
  BY <1>1 DEF Bounded, Prompt
<1>5. sinceSend <= ControlInterval - 1 + PollTimeout + Busy
  <2>1. w[Len(socket)] \in Nat
    BY <1>3
  <2>2. QED
    BY <1>2, <1>4, <2>1, DrainIsShort
<1>6. Rest' = 1
  BY <1>1 DEF Rest
<1>7. Prompt(w)'
  BY <1>1, <1>5 DEF Prompt
<1>8. Backlog <= SocketSize => InTime(w)'
  BY <1>1, <1>3 DEF InTime
<1>9. Weighs(w, socket')
  BY <1>1 DEF Bounded
<1>10. w[Len(socket')] + Rest' = 1
  BY <1>1, <1>3, <1>6
<1>11. Bounded(w)'
  BY <1>1, <1>3, <1>7, <1>8, <1>9, <1>10 DEF Bounded
<1>12. QED
  BY <1>11

\* What the drain takes costs more than what can be sent meanwhile.
LEMMA DatagramIsReceived ==
  ASSUME ChannelTypeOK, NEW w, Bounded(w),
         NEW t \in 0 .. 1, Receive(t)
  PROVE  \E v : Bounded(v)'
<1> DEFINE n == Len(socket)
           k == Cost(socket[1])
<1>1. /\ phase = "drain" /\ socket # <<>> /\ socket' = Tail(socket)
      /\ phase' = IF Head(socket).empty THEN "rest" ELSE "drain"
      /\ NetworkTime(t) /\ sinceSend' = sinceSend + t
      /\ sinceHeard' = (IF IsReport(Head(socket)) THEN 0 ELSE sinceHeard + t)
      /\ waited' = waited
  BY DEF Receive
<1>2. /\ sinceReport' = sinceReport + t /\ crowd' = Less(crowd, t)
  BY <1>1 DEF NetworkTime
<1>3. /\ socket \in Seq(ChannelDatagram) /\ Rates /\ crowd \in Nat
      /\ sinceReport \in Nat /\ sinceHeard \in Nat /\ sinceSend \in Nat
      /\ Period \in Nat /\ Busy \in Nat
  BY ChannelValues DEF Rates
<1>4. crowd' \in 0 .. Burst * Spacing /\ sinceReport' \in Nat
  BY <1>1, <1>2, <1>3, NetworkTimeTypes
<1>5. Weighs(w, socket) /\ Rest = 0
  BY <1>1 DEF Bounded, Rest
<1>6. /\ Head(socket) = socket[1] /\ Tail(socket) \in Seq(ChannelDatagram)
      /\ Len(Tail(socket)) = n - 1 /\ n \in Nat \ {0}
      /\ \A i \in 1 .. n - 1 : Tail(socket)[i] = socket[i + 1]
  BY <1>1, <1>3, <1>5, WeighsTaken
<1>7. PICK v : /\ Weighs(v, Tail(socket))
               /\ \A i \in 0 .. n - 1 : v[i] = w[i + 1] - k
  BY <1>1, <1>3, <1>5, WeighsTaken
<1>8. v[Len(socket')] = w[n] - k /\ v[Len(socket')] \in Nat
  <2>1. n - 1 \in 0 .. n - 1 /\ (n - 1) + 1 = n
    BY <1>6
  <2>2. v[n - 1] = w[n] - k
    BY <1>7, <2>1
  <2>3. v[Len(Tail(socket))] \in Nat
    BY <1>6, <1>7, WeighsLength
  <2>4. QED
    BY <1>1, <1>6, <2>2, <2>3
<1>9. w[n] \in Nat /\ \A i \in 1 .. n : w[i - 1] \in Nat
  BY BoundedFacts
<1>10. /\ k \in 1 .. 2 /\ Rest' \in 0 .. 1 /\ Rest' + 1 <= k
       /\ ~IsReport(Head(socket)) => k = 2
  <2>1. CASE IsReport(Head(socket))
    <3>1. ~Head(socket).empty
      BY <2>1 DEF IsReport, Decodes
    <3>2. Rest' = 0
      BY <1>1, <3>1 DEF Rest
    <3>3. k = 1
      BY <1>6, <2>1, CostType
    <3>4. QED
      BY <2>1, <3>2, <3>3
  <2>2. CASE ~IsReport(Head(socket))
    <3>1. k = 2
      BY <1>6, <2>2, CostType
    <3>2. Rest' \in 0 .. 1
      BY DEF Rest
    <3> DEFINE r == Rest'
    <3>3. r \in 0 .. 1
      BY <3>2
    <3> HIDE DEF k, r
    <3>4. k \in 1 .. 2 /\ r + 1 <= k
      BY <3>1, <3>3
    <3>5. QED
      BY <3>1, <3>2, <3>4 DEF r
  <2>3. QED
    BY <2>1, <2>2
<1> DEFINE q == v[Len(socket')]
<1>11. /\ q \in Int /\ q + Rest' \in Int /\ w[n] \in Int
       /\ q <= w[n] - 1 /\ q + Rest' <= w[n] - 1
  <2> DEFINE p == w[n]
             r == Rest'
  <2>1. q = p - k /\ q \in Nat /\ p \in Nat
    BY <1>8, <1>9
  <2>2. k \in 1 .. 2 /\ r \in 0 .. 1 /\ r + 1 <= k
    BY <1>10
  <2> HIDE DEF p, q, k, r
  <2>3. q \in Int /\ q + r \in Int /\ p \in Int /\ q <= p - 1 /\ q + r <= p - 1
    BY <2>1, <2>2
  <2>4. QED
    BY <2>3 DEF p, r
<1>12. Owes(q + Rest', crowd', sinceReport') <= 2 * (Spacing * Hurry)
  <2> DEFINE a == Owes(q + Rest', crowd', sinceReport')
             o == Owes(w[n], crowd, sinceReport)
             m == 2 * (Spacing * Hurry)
  <2>1. a <= o
    BY <1>2, <1>3, <1>11, WorkTaken
  <2>2. o <= m
    <3>1. w[n] + Rest = w[n]
      BY <1>5, <1>9
    <3>2. QED
      BY <3>1, BoundedFacts
  <2>3. o \in Int
    <3>1. crowd \in Int /\ sinceReport \in Int
      BY <1>3
    <3>2. QED
      BY <1>3, <1>11, <3>1, OwesType
  <2>4. a \in Int
    <3>1. Burst * Spacing \in Nat
      BY ChannelValues
    <3>2. crowd' \in Int /\ sinceReport' \in Int
      BY <1>4, <3>1
    <3>3. QED
      BY <1>3, <1>11, <3>2, OwesType
  <2>5. m \in Int
    BY <1>3 DEF Rates
  <2> HIDE DEF a, o, m
  <2>6. a <= m
    BY <2>1, <2>2, <2>3, <2>4, <2>5
  <2>7. QED
    BY <2>6 DEF a, m
<1>13. (Spacing * Hurry - Load)
           * (sinceSend' - (ControlInterval - 1 + PollTimeout))
         + Owes(q, crowd', sinceReport') <= 2 * (Spacing * Hurry)
  <2> DEFINE x == sinceSend - (ControlInterval - 1 + PollTimeout)
             d == Spacing * Hurry - (2 * Hurry + Spacing)
             b == d * (x + t) + Owes(q, crowd', sinceReport')
             e == d * x + Owes(w[n], crowd, sinceReport)
             m == 2 * (Spacing * Hurry)
  <2>1. x \in Int /\ sinceSend' - (ControlInterval - 1 + PollTimeout) = x + t
    <3>1. ControlInterval \in Int /\ PollTimeout \in Int /\ t \in Int
          /\ sinceSend \in Int
      BY ChannelValues
    <3>2. QED
      BY <1>1, <3>1
  <2>2. Load = 2 * Hurry + Spacing
    BY RatesHold
  <2>3. e <= m
    BY <1>1, <2>2 DEF Bounded, Prompt
  <2>4. b <= e
    <3> HIDE DEF x
    <3>1. QED
      BY <1>2, <1>3, <1>11, <2>1, DrainGoesOn
  <2>5. b \in Int /\ e \in Int /\ m \in Int
    <3>1. crowd \in Int /\ sinceReport \in Int
      BY <1>3
    <3>2. Burst * Spacing \in Nat
      BY ChannelValues
    <3>3. crowd' \in Int /\ sinceReport' \in Int
      BY <1>4, <3>2
    <3>4. /\ Owes(q, crowd', sinceReport') \in Int
          /\ Owes(w[n], crowd, sinceReport) \in Int
      BY <1>3, <1>11, <3>1, <3>3, OwesType
    <3>5. d \in Int /\ m \in Int
      BY <1>3 DEF Rates
    <3> HIDE DEF x, d, q, m
    <3>6. d * (x + t) \in Int /\ d * x \in Int
      BY <2>1, <3>5
    <3>7. QED
      BY <3>4, <3>5, <3>6
  <2> HIDE DEF b, e, m
  <2>6. b <= m
    BY <2>3, <2>4, <2>5
  <2> HIDE DEF x, q
  <2>7. QED
    BY <2>1, <2>2, <2>6 DEF b, m
<1>14. sinceSend' <= ControlInterval - 1 + PollTimeout + Busy
  <2>1. sinceSend' \in Nat
    BY <1>1, <1>3
  <2> HIDE DEF q
  <2>2. q \in Nat
    BY <1>8 DEF q
  <2>3. QED
    BY <1>3, <1>4, <1>13, <2>1, <2>2, DrainIsShort
<1>15. phase' \in {"rest", "drain"}
  BY <1>1
<1>16. Prompt(v)'
  <2>1. (Spacing * Hurry - Load)
            * (sinceSend' - (ControlInterval - 1 + PollTimeout))
          + Owes(v[Len(socket')], crowd', sinceReport') <= 2 * (Spacing * Hurry)
    BY <1>13
  <2>2. phase' # "poll"
    BY <1>15
  <2>3. QED
    BY <1>14, <2>1, <2>2 DEF Prompt
<1>17. ASSUME InTime(w)
       PROVE  InTime(v)'
  <2>1. CASE sinceHeard <= sinceReport
    <3>1. sinceHeard' \in {0, sinceHeard + t}
      BY <1>1
    <3>2. sinceHeard' <= sinceReport'
      BY <1>2, <1>3, <2>1, <3>1
    <3>3. QED
      BY <3>2 DEF InTime
  <2>2. CASE IsReport(Head(socket))
    <3>1. sinceHeard' <= sinceReport'
      BY <1>1, <1>4, <2>2
    <3>2. QED
      BY <3>1 DEF InTime
  <2>3. ASSUME ~IsReport(Head(socket)),
               NEW i \in 1 .. n, IsReport(socket[i]),
               sinceHeard + w[i - 1] + Rest <= Period + Busy
        PROVE  InTime(v)'
    <3>1. i # 1
      BY <1>6, <2>3
    <3>2. /\ i - 1 \in 1 .. n - 1 /\ (i - 1) - 1 \in 0 .. n - 1
          /\ ((i - 1) - 1) + 1 = i - 1 /\ (i - 1) + 1 = i
      BY <1>6, <3>1
    <3>3. v[(i - 1) - 1] = w[i - 1] - k /\ socket'[i - 1] = socket[i]
      BY <1>1, <1>6, <1>7, <3>2
    <3>4. sinceHeard' + v[(i - 1) - 1] + Rest' <= Period + Busy
      <4>1. k = 2 /\ sinceHeard' = sinceHeard + t
        BY <1>1, <1>10, <2>3
      <4>2. w[i - 1] \in Nat /\ Rest' \in 0 .. 1
        BY <1>9, <1>10
      <4> DEFINE z == v[(i - 1) - 1]
                 y == w[i - 1]
      <4>3. z = y - 2 /\ y \in Nat /\ sinceHeard + y <= Period + Busy
        BY <1>3, <1>5, <2>3, <3>3, <4>1, <4>2
      <4> DEFINE r == Rest'
      <4>4. r \in 0 .. 1
        BY <4>2
      <4> HIDE DEF z, y, r
      <4>5. sinceHeard + t + (y - 2) + r <= Period + Busy
        BY <1>3, <4>3, <4>4
      <4>6. sinceHeard' + z + r <= Period + Busy
        BY <4>1, <4>3, <4>5
      <4>7. QED
        BY <4>6 DEF z, r
    <3>5. i - 1 \in 1 .. Len(socket')
      BY <1>1, <1>6, <3>2
    <3>6. IsReport(socket'[i - 1])
      BY <2>3, <3>3
    <3>7. QED
      BY <3>4, <3>5, <3>6 DEF InTime
  <2>4. QED
    BY <1>17, <2>1, <2>2, <2>3 DEF InTime
<1>18. Backlog <= SocketSize => InTime(v)'
  BY <1>17 DEF Bounded
<1>19. Weighs(v, socket')
  BY <1>1, <1>7
<1>20. Bounded(v)'
  BY <1>12, <1>16, <1>18, <1>19 DEF Bounded
<1>21. QED
  BY <1>20

LEMMA TurnEnds ==
  ASSUME ChannelTypeOK, NEW w, Bounded(w),
         NEW t \in 0 .. 1, RestOfTurn(t)
  PROVE  \E v : Bounded(v)'
<1> DEFINE n == Len(socket)
           P == w[n]
<1>1. /\ phase = "rest" /\ phase' = "poll" /\ NetworkTime(t)
      /\ sinceSend' = (IF sinceSend + t >= ControlInterval THEN 0 ELSE sinceSend + t)
      /\ sinceHeard' = sinceHeard + t /\ socket' = socket /\ waited' = waited
  BY DEF RestOfTurn
<1>2. /\ sinceReport' = sinceReport + t /\ crowd' = Less(crowd, t)
  BY <1>1 DEF NetworkTime
<1>3. /\ Rates /\ crowd \in Nat /\ sinceReport \in Nat /\ sinceHeard \in Nat
      /\ sinceSend \in Nat /\ waited \in Nat /\ ControlInterval \in Nat \ {0}
      /\ Period \in Nat /\ Busy \in Nat
  BY ChannelValues DEF Rates
<1>4. Rest = 1 /\ Rest' = 0
  BY <1>1 DEF Rest
<1>5. P \in Nat /\ \A i \in 1 .. n : w[i - 1] \in Nat
  BY BoundedFacts
<1>6. Owes(P + Rest', crowd', sinceReport') <= 2 * (Spacing * Hurry)
  <2> DEFINE a == Owes(P, crowd', sinceReport')
             o == Owes(P + 1, crowd, sinceReport)
             m == 2 * (Spacing * Hurry)
  <2>1. P \in Int /\ P + 1 \in Int /\ P <= (P + 1) - 1
    BY <1>5
  <2>2. a <= o
    BY <1>2, <1>3, <2>1, WorkTaken
  <2>3. o <= m
    BY <1>4, BoundedFacts
  <2>4. o \in Int
    <3>1. crowd \in Int /\ sinceReport \in Int
      BY <1>3
    <3>2. QED
      BY <1>3, <2>1, <3>1, OwesType
  <2>5. a \in Int
    <3>1. Burst * Spacing \in Nat
      BY ChannelValues
    <3>2. crowd' \in Int /\ sinceReport' \in Int
      BY <1>1, <1>2, <1>3, <3>1, NetworkTimeTypes
    <3>3. QED
      BY <1>3, <2>1, <3>2, OwesType
  <2>6. m \in Int
    BY <1>3 DEF Rates
  <2>7. P + Rest' = P
    BY <1>4, <1>5
  <2> HIDE DEF a, o, m
  <2>8. a <= m
    BY <2>2, <2>3, <2>4, <2>5, <2>6
  <2>9. QED
    BY <2>7, <2>8 DEF a, m
<1>7. Prompt(w)'
  <2>1. sinceSend' <= ControlInterval - 1 + waited'
    BY <1>1, <1>3
  <2>2. QED
    BY <1>1, <2>1 DEF Prompt
<1>8. ASSUME InTime(w)
      PROVE  InTime(w)'
  <2>1. CASE sinceHeard <= sinceReport
    <3>1. sinceHeard' <= sinceReport'
      BY <1>1, <1>2, <1>3, <2>1
    <3>2. QED
      BY <3>1 DEF InTime
  <2>2. ASSUME NEW i \in 1 .. n, IsReport(socket[i]),
               sinceHeard + w[i - 1] + Rest <= Period + Busy
        PROVE  InTime(w)'
    <3> DEFINE y == w[i - 1]
    <3>1. y \in Nat /\ sinceHeard + y + 1 <= Period + Busy
      BY <1>4, <1>5, <2>2
    <3> HIDE DEF y
    <3>2. sinceHeard' + y + Rest' <= Period + Busy
      BY <1>1, <1>3, <1>4, <3>1
    <3>3. QED
      BY <1>1, <2>2, <3>2 DEF InTime, y
  <2>3. QED
    BY <1>8, <2>1, <2>2 DEF InTime
<1>9. Backlog <= SocketSize => InTime(w)'
  BY <1>8 DEF Bounded
<1>10. Weighs(w, socket')
  BY <1>1 DEF Bounded
<1>11. Owes(w[Len(socket')] + Rest', crowd', sinceReport') <= 2 * (Spacing * Hurry)
  BY <1>1, <1>6
<1>12. Bounded(w)'
  BY <1>7, <1>9, <1>10, <1>11 DEF Bounded
<1>13. QED
  BY <1>12

(***************************************************************************)
(* The invariant and what it is for.                                       *)
(***************************************************************************)
LEMMA ChannelStart ==
  ASSUME ChannelInit
  PROVE  ChannelInv
<1>1. ChannelTypeOK
  BY ChannelTypesStart
<1>2. /\ socket = <<>> /\ phase = "poll" /\ waited = 0 /\ sinceSend = 0
      /\ sinceHeard = 0 /\ sinceReport = 0 /\ crowd = 0
  BY DEF ChannelInit
<1>3. PICK w : Weighs(w, <<>>)
  BY WeighsNothing
<1>4. Len(socket) = 0 /\ w[0] = 0 /\ Rest = 0
  BY <1>2, <1>3 DEF Weighs, Rest
<1>5. Owes(0, 0, 0) <= 2 * (Spacing * Hurry)
  <2>1. Rates
    BY RatesHold
  <2>2. Owes(0, 0, 0) <= Spacing * Hurry * 0 + Spacing * Hurry
    BY <2>1, OwesAtMost
  <2>3. Spacing * Hurry \in Nat /\ Owes(0, 0, 0) \in Int
    BY <2>1, OwesType DEF Rates
  <2>4. Spacing * Hurry * 0 = 0
    BY <2>3
  <2> DEFINE u == Spacing * Hurry
             o == Owes(0, 0, 0)
  <2>5. o <= 0 + u /\ u \in Nat /\ o \in Int
    BY <2>2, <2>3, <2>4
  <2> HIDE DEF u, o
  <2>6. o <= 2 * u
    BY <2>5
  <2>7. QED
    BY <2>6 DEF u, o
<1>6. Prompt(w)
  BY <1>2, ChannelAssumption DEF Prompt
<1>7. InTime(w)
  BY <1>2 DEF InTime
<1>8. w[Len(socket)] + Rest = 0
  BY <1>4
<1>9. Bounded(w)
  BY <1>2, <1>3, <1>5, <1>6, <1>7, <1>8 DEF Bounded
<1>10. QED
  BY <1>1, <1>9 DEF ChannelInv

LEMMA ChannelStep ==
  ASSUME ChannelInv,
         ChannelNext
  PROVE  ChannelInv'
<1>1. ChannelTypeOK
  BY DEF ChannelInv
<1>2. PICK w : Bounded(w)
  BY DEF ChannelInv
<1>3. ChannelTypeOK'
  BY <1>1, ChannelTypesKept
<1>4. CASE VehicleReports
  BY <1>1, <1>2, <1>3, <1>4, ReportArrives DEF ChannelInv
<1>5. ASSUME NEW d \in Noise, OtherDatagram(d)
      PROVE  ChannelInv'
  BY <1>1, <1>2, <1>3, <1>5, OtherArrives DEF ChannelInv
<1>6. CASE Wait
  BY <1>1, <1>2, <1>3, <1>6, PollWaits DEF ChannelInv
<1>7. CASE PollReturns
  BY <1>1, <1>2, <1>3, <1>7, PollReports DEF ChannelInv
<1>8. CASE Drained
  BY <1>1, <1>2, <1>3, <1>8, DrainEnds DEF ChannelInv
<1>9. ASSUME NEW t \in 0 .. 1, Receive(t)
      PROVE  ChannelInv'
  BY <1>1, <1>2, <1>3, <1>9, DatagramIsReceived DEF ChannelInv
<1>10. ASSUME NEW t \in 0 .. 1, RestOfTurn(t)
       PROVE  ChannelInv'
  BY <1>1, <1>2, <1>3, <1>10, TurnEnds DEF ChannelInv
<1>11. QED
  BY <1>4, <1>5, <1>6, <1>7, <1>8, <1>9, <1>10 DEF ChannelNext

LEMMA ChannelStutter ==
  ASSUME ChannelInv, UNCHANGED channelVars
  PROVE  ChannelInv'
<1>1. PICK w : Bounded(w)
  BY DEF ChannelInv
<1>2. /\ socket' = socket /\ phase' = phase /\ waited' = waited
      /\ sinceSend' = sinceSend /\ sinceHeard' = sinceHeard
      /\ sinceReport' = sinceReport /\ crowd' = crowd
  BY DEF channelVars, timers
<1>3. Bounded(w)'
  BY <1>1, <1>2 DEF Bounded, Prompt, InTime, Rest
<1>4. ChannelTypeOK'
  BY ChannelTypesStutter DEF ChannelInv
<1>5. QED
  BY <1>3, <1>4 DEF ChannelInv

\* What the drain and the next report can still cost stays within a backlog, and
\* a report that waits is reached in time, in every order of arrivals and turns.
THEOREM ChannelInvariant == ChannelSpec => []ChannelInv
<1>1. ChannelInit => ChannelInv
  BY ChannelStart
<1>2. ChannelInv /\ [ChannelNext]_channelVars => ChannelInv'
  BY ChannelStep, ChannelStutter
<1>3. QED
  BY <1>1, <1>2, PTL DEF ChannelSpec

\* A drain ends before the network can keep it going: the next command leaves
\* within its interval, one wait of poll and one busy stretch.
THEOREM SendsInTime == ChannelSpec => []SendsOnTime
<1>1. ASSUME ChannelInv PROVE SendsOnTime
  <2>1. PICK w : Bounded(w)
    BY <1>1 DEF ChannelInv
  <2>2. /\ sinceSend \in Nat /\ waited \in 0 .. PollTimeout /\ Rates
        /\ crowd \in 0 .. Burst * Spacing /\ sinceReport \in Nat
        /\ ControlInterval \in Nat \ {0} /\ PollTimeout \in Nat /\ Busy \in Nat
    BY <1>1, ChannelValues DEF ChannelInv, Rates
  <2>3. Prompt(w) /\ phase \in {"poll", "drain", "rest"}
    BY <1>1, <2>1 DEF ChannelInv, Bounded, ChannelTypeOK
  <2>4. sinceSend <= ControlInterval - 1 + PollTimeout + Busy
    <3>1. CASE phase = "poll"
      <4>1. sinceSend <= ControlInterval - 1 + waited
        BY <2>3, <3>1 DEF Prompt
      <4>2. QED
        BY <2>2, <4>1
    <3>2. CASE phase = "drain"
      <4>1. (Spacing * Hurry - Load)
                * (sinceSend - (ControlInterval - 1 + PollTimeout))
              + Owes(w[Len(socket)], crowd, sinceReport) <= 2 * (Spacing * Hurry)
        BY <2>3, <3>2 DEF Prompt
      <4>2. w[Len(socket)] \in Nat
        BY <1>1, <2>1, BoundedFacts DEF ChannelInv
      <4>3. QED
        BY <2>2, <4>1, <4>2, DrainIsShort
    <3>3. CASE phase = "rest"
      BY <2>3, <3>3 DEF Prompt
    <3>4. QED
      BY <2>3, <3>1, <3>2, <3>3
  <2>5. QED
    BY <2>2, <2>4 DEF SendsOnTime
<1>2. QED
  BY <1>1, ChannelInvariant, PTL

\* With room for a backlog in the socket no report is dropped and none is handled
\* too late for its vehicle to stay online.
THEOREM StaysHeard ==
  ASSUME Backlog <= SocketSize
  PROVE  ChannelSpec => []StaysOnline
<1>1. ASSUME ChannelInv PROVE StaysOnline
  <2>1. PICK w : Bounded(w)
    BY <1>1 DEF ChannelInv
  <2>2. /\ sinceHeard \in Nat /\ sinceReport \in 0 .. Period /\ Period \in Nat
        /\ Busy \in Nat
    BY <1>1, ChannelValues DEF ChannelInv, Rates
  <2>3. VehicleOnlineTimeout \in Nat /\ VehicleOnlineTimeout > Period + Busy
    BY ChannelAssumption
  <2>4. InTime(w)
    BY <2>1 DEF Bounded
  <2>5. CASE sinceHeard <= sinceReport
    BY <2>2, <2>3, <2>5 DEF StaysOnline
  <2>6. ASSUME NEW i \in 1 .. Len(socket),
               sinceHeard + w[i - 1] + Rest <= Period + Busy
        PROVE  StaysOnline
    <3>1. w[i - 1] \in Nat /\ Rest \in 0 .. 1
      BY <1>1, <2>1, BoundedFacts DEF ChannelInv
    <3> DEFINE y == w[i - 1]
    <3>2. y \in Nat /\ sinceHeard + y + Rest <= Period + Busy
      BY <2>6, <3>1
    <3> HIDE DEF y
    <3>3. QED
      BY <2>2, <2>3, <3>1, <3>2 DEF StaysOnline
  <2>7. QED
    BY <2>4, <2>5, <2>6 DEF InTime
<1>2. QED
  BY <1>1, ChannelInvariant, PTL
=============================================================================
