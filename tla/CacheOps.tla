------------------------------ MODULE CacheOps ------------------------------
(***************************************************************************)
(* The methods of VehicleStateCache as operators on state_records_, a      *)
(* function from the vehicles heard so far to their records.  A datagram's *)
(* report is [vehicle, source, sequence, state]; the cache looks at its    *)
(* state only to answer cockpitId.                                         *)
(***************************************************************************)
EXTENDS Integers

CONSTANTS
  VehicleAddress,  \* vehicle_addresses_: configured vehicle -> its address
  OnlineTimeout,   \* kVehicleOnlineTimeout, 500 ms
  SeqMod           \* sequences are uint32_t: 2^32

ASSUME CacheAssumption ==
  /\ OnlineTimeout \in Nat
  /\ SeqMod \in Nat \ {0}

Configured == DOMAIN VehicleAddress

Sequence == 0 .. SeqMod - 1

NextSequence(sequence) == (sequence + 1) % SeqMod

\* VehicleStateRecord, for vehicles whose states are the members of State.
Record(State) == [state: State, sequence: Sequence, lastUpdate: Nat]

IsRecords(records, State) ==
  /\ DOMAIN records \subseteq Configured
  /\ records \in [DOMAIN records -> Record(State)]

NoRecords == [v \in {} |-> {}]

HasRecord(records, v) == v \in DOMAIN records

IsOnline(records, v, now) ==
  HasRecord(records, v) /\ now - records[v].lastUpdate < OnlineTimeout

CockpitOf(records, v) ==
  IF HasRecord(records, v) THEN records[v].state.cockpit_id ELSE ""

\* Mutant for OnlineIsHeard: any sender may report for a configured vehicle.
FromConfiguredVehicle(report) == report.vehicle \in Configured

\* The report names a configured vehicle and comes from its address.
Trusted(report) ==
  /\ report.vehicle \in Configured
  /\ VehicleAddress[report.vehicle] = report.source

\* Mutant for NoStepBackWhileOnline: only a duplicate is rejected.
AcceptsUnlessRepeated(records, report, now) ==
  /\ Trusted(report)
  /\ ~ /\ IsOnline(records, report.vehicle, now)
       /\ report.sequence = records[report.vehicle].sequence

\* While a vehicle is online a sequence that does not increase is rejected.
Accepts(records, report, now) ==
  /\ Trusted(report)
  /\ ~ /\ IsOnline(records, report.vehicle, now)
       /\ report.sequence <= records[report.vehicle].sequence

Stored(records, report, now) ==
  [v \in DOMAIN records \cup {report.vehicle} |->
     IF v = report.vehicle
     THEN [state |-> report.state, sequence |-> report.sequence,
           lastUpdate |-> now]
     ELSE records[v]]

\* Mutant for BlackoutBounded: a rejected report still proves the vehicle
\* alive.
UpdateRefreshing(records, report, now) ==
  IF Accepts(records, report, now) THEN Stored(records, report, now)
  ELSE IF Trusted(report)
  THEN [records EXCEPT ![report.vehicle].lastUpdate = now]
  ELSE records

Update(records, report, now) ==
  IF Accepts(records, report, now) THEN Stored(records, report, now)
                                   ELSE records

\* The vehicles of vehicleStatusList, in the order of their identifiers.
VehicleStatusList(records, now) ==
  [v \in Configured |-> IsOnline(records, v, now)]
=============================================================================
