------------------------- MODULE VehicleStateCache -------------------------
(***************************************************************************)
(* The cache with the vehicles that report to it over UDP.  A reporter is  *)
(* a program that sends numbered reports under a vehicle's name from an    *)
(* address: the vehicle itself, or one that is configured with somebody    *)
(* else's name or that nobody configured.  It numbers its reports from 0,  *)
(* starts over when it restarts, and wraps around at SeqMod; an epoch is a *)
(* stretch of reports whose numbers increase.                              *)
(*                                                                         *)
(* network holds every report ever sent and delivering does not remove it, *)
(* so reports are lost, repeated, delayed and reordered.  The state a      *)
(* report carries is its place in the true sending order.                  *)
(***************************************************************************)
EXTENDS CacheOps, FiniteSets

CONSTANTS
  Reporters,   \* the senders, each [vehicle, source]
  MaxReports,  \* bound of the reports sent
  MaxEpoch,    \* bound of the epochs of a reporter
  MaxTime      \* bound of the clock

ASSUME ReporterAssumption ==
  /\ MaxReports \in Nat /\ MaxEpoch \in Nat /\ MaxTime \in Nat
  /\ \A r \in Reporters : r = [vehicle |-> r.vehicle, source |-> r.source]

VARIABLES
  records,   \* state_records_
  now,       \* the steady clock
  network,   \* the reports sent
  reporter,  \* per reporter, its epoch and the next sequence it will use
  heard      \* history: when a report of each reporter's epoch last arrived

vars == <<records, now, network, reporter, heard>>

NoTime == -1
Epoch == 0 .. MaxEpoch

State == [order: 1 .. MaxReports, epoch: Epoch]

Report ==
  [vehicle: {r.vehicle : r \in Reporters}, source: {r.source : r \in Reporters},
   sequence: Sequence, state: State]

TypeOK ==
  /\ IsRecords(records, State)
  /\ now \in 0 .. MaxTime
  /\ network \subseteq Report
  /\ reporter \in [Reporters -> [epoch: Epoch, next: Sequence]]
  /\ heard \in [Reporters -> [Epoch -> 0 .. MaxTime \cup {NoTime}]]

Init ==
  /\ records = NoRecords
  /\ now = 0
  /\ network = {}
  /\ reporter = [r \in Reporters |-> [epoch |-> 0, next |-> 0]]
  /\ heard = [r \in Reporters |-> [e \in Epoch |-> NoTime]]

(***************************************************************************)
(* The reporters.                                                          *)
(***************************************************************************)
Send(r) ==
  LET sequence == reporter[r].next
      wraps == NextSequence(sequence) = 0
  IN  /\ Cardinality(network) < MaxReports
      /\ wraps => reporter[r].epoch < MaxEpoch
      /\ network' = network \cup
           {[vehicle |-> r.vehicle, source |-> r.source,
             sequence |-> sequence,
             state |-> [order |-> Cardinality(network) + 1,
                        epoch |-> reporter[r].epoch]]}
      /\ reporter' = [reporter EXCEPT
           ![r].next = NextSequence(sequence),
           ![r].epoch = IF wraps THEN @ + 1 ELSE @]
      /\ UNCHANGED <<records, now, heard>>

Restart(r) ==
  /\ reporter[r].epoch < MaxEpoch
  /\ reporter' = [reporter EXCEPT ![r] = [epoch |-> @.epoch + 1, next |-> 0]]
  /\ UNCHANGED <<records, now, network, heard>>

(***************************************************************************)
(* The cache.                                                              *)
(***************************************************************************)
Sender(report) == [vehicle |-> report.vehicle, source |-> report.source]

Deliver(report) ==
  /\ records' = Update(records, report, now)
  /\ heard' = [heard EXCEPT ![Sender(report)][report.state.epoch] = now]
  /\ UNCHANGED <<now, network, reporter>>

Tick ==
  /\ now < MaxTime
  /\ now' = now + 1
  /\ UNCHANGED <<records, network, reporter, heard>>

Next ==
  \/ \E r \in Reporters : Send(r) \/ Restart(r)
  \/ \E report \in network : Deliver(report)
  \/ Tick

Spec == Init /\ [][Next]_vars

(***************************************************************************)
(* Properties.                                                             *)
(***************************************************************************)
Vehicle(v) == [vehicle |-> v, source |-> VehicleAddress[v]]

Recently(time) == time # NoTime /\ now - time < OnlineTimeout

\* The record of a vehicle that stepped back to an earlier report of the same
\* epoch.
StepsBack(v) ==
  /\ HasRecord(records, v)
  /\ records'[v].state.epoch = records[v].state.epoch
  /\ records'[v].state.order < records[v].state.order

\* While a vehicle is online, a delayed or repeated report never replaces the
\* record of a report it sent later in the same epoch.
NoStepBackWhileOnline ==
  [][\A v \in Configured : StepsBack(v) => ~IsOnline(records, v, now)]_vars

\* A report that is newer than the one recorded is turned away only while the
\* vehicle's earlier epoch was heard within OnlineTimeout: a restarted vehicle,
\* or one whose sequence wrapped around, is ignored for at most that long after
\* the last report of its past arrives, and a vehicle that did neither never.
BlackoutBounded ==
  [][\A report \in network :
       LET v == report.vehicle
           e == report.state.epoch
       IN  /\ Deliver(report)
           /\ Trusted(report)
           /\ HasRecord(records, v)
           /\ report.state.order > records[v].state.order
           /\ records'[v].state # report.state
           => \E past \in 0 .. e - 1 : Recently(heard[Vehicle(v)][past])
    ]_vars

\* A vehicle is online only if it was itself heard, from its own address, within
\* OnlineTimeout, and then its record is one of its own reports.
OnlineIsHeard ==
  \A v \in Configured : IsOnline(records, v, now) =>
    /\ Vehicle(v) \in Reporters
    /\ \E e \in Epoch : Recently(heard[Vehicle(v)][e])
    /\ [vehicle |-> v, source |-> VehicleAddress[v],
        sequence |-> records[v].sequence, state |-> records[v].state]
         \in network

\* "Keep the vehicle states whose sequence increases": as long as a vehicle has
\* not restarted, its record is never replaced by an earlier report.  It fails:
\* after OnlineTimeout without a report the sequence is not compared.
KeepsLatest == [][\A v \in Configured : ~StepsBack(v)]_vars
=============================================================================
