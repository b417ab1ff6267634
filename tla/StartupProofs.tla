--------------------------- MODULE StartupProofs ---------------------------
(***************************************************************************)
(* What the cockpit has checked of its command line and its configuration  *)
(* when it goes on with them, proved for any number of processes, command  *)
(* lines and files.                                                        *)
(*                                                                         *)
(* loadConfig takes the vehicles one by one and looks at each only once;   *)
(* that the identifiers and the addresses are unique in the end rests on   *)
(* what the map says of the vehicles already taken (Loaded).               *)
(*                                                                         *)
(* And what it makes of its command line: the loop of parseArguments does  *)
(* what the line asks for as a whole, for lines of any length (ReadUpTo).  *)
(***************************************************************************)
EXTENDS Startup, FiniteSetTheorems, TLAPS

(***************************************************************************)
(* The invariant.                                                          *)
(***************************************************************************)
Pairs(known) == {<<v, known[v]>> : v \in DOMAIN known}

Addresses(known) == {known[v] : v \in DOMAIN known}

\* What the first n vehicles of the configuration say.
Said(c, n) ==
  {<<Vehicles(c)[i].vehicle_id, AddressOf[Vehicles(c)[i].ip]>> : i \in 1 .. n}

\* The map holds the first n vehicles, with an address for each.
Holds(c, known, n) ==
  /\ Pairs(known) = Said(c, n)
  /\ IsFiniteSet(Addresses(known))
  /\ Cardinality(Addresses(known)) = n

Reading == {"arguments", "config"}
Trusting == {"device", "listen", "udp", "running"}

Loaded(c) ==
  /\ phase[c] \in Reading => addresses[c] = <<>> /\ loaded[c] = 0
  /\ phase[c] \in {"vehicles"} \cup Trusting =>
       /\ config[c] \in DOMAIN Files
       /\ loaded[c] \in 0 .. Len(Vehicles(c))
       /\ Holds(c, addresses[c], loaded[c])
  /\ phase[c] \in Trusting => loaded[c] = Len(Vehicles(c))

IInv ==
  /\ TypeOK
  /\ \A c \in Cockpits : Loaded(c)

(***************************************************************************)
(* Types.                                                                  *)
(***************************************************************************)
\* The vehicles of a configuration that was found.
LEMMA VehiclesType ==
  ASSUME NEW c \in Cockpits, config[c] \in DOMAIN Files
  PROVE  Vehicles(c) \in Seq([vehicle_id: STRING, ip: STRING])
BY StartupAssumption DEF Vehicles, Config

\* An empty map.
LEMMA EmptyMap == <<>> \in AddressMap
<1> DEFINE V == {AddressOf[text] : text \in DOMAIN AddressOf}
<1>1. <<>> \in [{} -> V]
  OBVIOUS
<1>2. {} \in SUBSET ValidIds
  OBVIOUS
<1>3. QED
  BY <1>1, <1>2 DEF AddressMap

LEMMA InitType == Init => TypeOK
BY EmptyMap DEF Init, TypeOK, DefaultWebSocketPort, PortNumber, Phase

\* The words of a command line are texts.
LEMMA WordType ==
  ASSUME TypeOK, NEW c \in Cockpits, NEW i \in Nat \ {0}, i <= Len(argv[c])
  PROVE  argv[c][i] \in STRING
<1>1. argv[c] \in Seq(STRING)
  BY StartupAssumption DEF TypeOK
<1>2. QED
  BY <1>1

LEMMA ReadOptionType ==
  ASSUME TypeOK, NEW c \in Cockpits, ReadOption(c)
  PROVE  TypeOK'
<1> DEFINE i == index[c]
<1>1. i \in Nat \ {0}
  BY DEF TypeOK
<1>2. i < Len(argv[c]) => argv[c][i + 1] \in STRING
  <2> SUFFICES ASSUME i < Len(argv[c]) PROVE argv[c][i + 1] \in STRING
    OBVIOUS
  <2>1. argv[c] \in Seq(STRING)
    BY StartupAssumption DEF TypeOK
  <2>2. QED
    BY <1>1, <2>1
<1>3. index' \in [Cockpits -> Nat \ {0}]
  BY <1>1 DEF TypeOK, ReadOption
<1>4. config' \in [Cockpits -> STRING \cup {NoPath}]
  BY <1>2 DEF TypeOK, ReadOption
<1>5. port' \in [Cockpits -> PortNumber]
  BY DEF TypeOK, ReadOption, ParsesAsPort
<1>6. phase' \in [Cockpits -> Phase]
  BY DEF TypeOK, ReadOption, GoTo, Phase, Failed
<1>7. QED
  BY <1>3, <1>4, <1>5, <1>6 DEF TypeOK, ReadOption

LEMMA ReadPathType ==
  ASSUME TypeOK, NEW c \in Cockpits, ReadPath(c)
  PROVE  TypeOK'
<1>1. index[c] \in Nat \ {0} /\ index[c] <= Len(argv[c])
  BY DEF TypeOK, ReadPath
<1>2. argv[c][index[c]] \in STRING
  BY <1>1, WordType
<1>3. index' \in [Cockpits -> Nat \ {0}]
  BY <1>1 DEF TypeOK, ReadPath
<1>4. device' \in [Cockpits -> STRING \cup {NoPath}]
  BY <1>2 DEF TypeOK, ReadPath
<1>5. phase' \in [Cockpits -> Phase]
  BY DEF TypeOK, ReadPath, GoTo, Phase, Failed
<1>6. QED
  BY <1>3, <1>4, <1>5 DEF TypeOK, ReadPath

\* The steps that change only the phase.
Moves(c) ==
  \/ ArgumentsRead(c) \/ ParseConfig(c) \/ ConfigLoaded(c)
  \/ OpenDevice(c) \/ StartListening(c) \/ BindChannel(c) \/ Stop(c)

LEMMA MovesType ==
  ASSUME TypeOK, NEW c \in Cockpits, Moves(c)
  PROVE  TypeOK'
<1>1. phase' \in [Cockpits -> Phase]
  BY DEF TypeOK, Moves, ArgumentsRead, ParseConfig, ConfigLoaded, OpenDevice,
         StartListening, BindChannel, Stop, GoTo, Phase, Failed
<1>2. UNCHANGED <<argv, index, device, config, port, addresses, loaded>>
  BY DEF Moves, ArgumentsRead, ParseConfig, ConfigLoaded, OpenDevice,
         StartListening, BindChannel, Stop
<1>3. QED
  BY <1>1, <1>2 DEF TypeOK

\* The map with one more vehicle.
Joined(known, vehicle) ==
  [v \in DOMAIN known \cup {vehicle.vehicle_id} |->
     IF v = vehicle.vehicle_id THEN AddressOf[vehicle.ip] ELSE known[v]]

Next1(c) == Vehicles(c)[loaded[c] + 1]

\* The two outcomes of a vehicle of the configuration.
LEMMA LoadVehicleIs ==
  ASSUME TypeOK, NEW c \in Cockpits, LoadVehicle(c)
  PROVE  /\ phase[c] = "vehicles" /\ loaded[c] < Len(Vehicles(c))
         /\ UNCHANGED <<argv, index, device, config, port>>
         /\ \/ /\ Acceptable(addresses[c], Next1(c))
               /\ addresses' = [addresses EXCEPT ![c] =
                                  Joined(addresses[c], Next1(c))]
               /\ loaded' = [loaded EXCEPT ![c] = @ + 1]
               /\ UNCHANGED phase
            \/ /\ GoTo(c, "bad_config")
               /\ UNCHANGED <<addresses, loaded>>
BY DEF LoadVehicle, Next1, Joined

LEMMA JoinedType ==
  ASSUME NEW known \in AddressMap, NEW vehicle,
         vehicle.vehicle_id \in ValidIds, vehicle.ip \in DOMAIN AddressOf
  PROVE  Joined(known, vehicle) \in AddressMap
<1> DEFINE V == {AddressOf[text] : text \in DOMAIN AddressOf}
           id == vehicle.vehicle_id
           a == AddressOf[vehicle.ip]
<1>1. PICK ids \in SUBSET ValidIds : known \in [ids -> V]
  BY DEF AddressMap
<1>2. a \in V
  OBVIOUS
<1> HIDE DEF V, id, a
<1>3. [v \in ids \cup {id} |-> IF v = id THEN a ELSE known[v]]
        \in [ids \cup {id} -> V]
  BY <1>1, <1>2
<1>4. Joined(known, vehicle) \in [ids \cup {id} -> V]
  BY <1>1, <1>3 DEF Joined, id, a
<1>5. ids \cup {id} \in SUBSET ValidIds
  BY DEF id
<1>6. QED
  BY <1>4, <1>5 DEF AddressMap, V

LEMMA LoadVehicleType ==
  ASSUME TypeOK, NEW c \in Cockpits, LoadVehicle(c)
  PROVE  TypeOK'
<1> DEFINE vehicle == Next1(c)
<1>1. CASE /\ Acceptable(addresses[c], vehicle)
           /\ addresses' = [addresses EXCEPT ![c] =
                              Joined(addresses[c], vehicle)]
           /\ loaded' = [loaded EXCEPT ![c] = @ + 1]
           /\ UNCHANGED phase
  <2>1. addresses[c] \in AddressMap /\ vehicle.vehicle_id \in ValidIds
        /\ vehicle.ip \in DOMAIN AddressOf
    BY <1>1 DEF TypeOK, Acceptable
  <2>2. Joined(addresses[c], vehicle) \in AddressMap
    BY <2>1, JoinedType
  <2>3. loaded' \in [Cockpits -> Nat]
    BY <1>1 DEF TypeOK
  <2>4. addresses' \in [Cockpits -> AddressMap]
    BY <1>1, <2>2 DEF TypeOK
  <2>5. QED
    BY <1>1, <2>3, <2>4, LoadVehicleIs DEF TypeOK
<1>2. CASE GoTo(c, "bad_config") /\ UNCHANGED <<addresses, loaded>>
  BY <1>2, LoadVehicleIs DEF TypeOK, GoTo, Phase, Failed
<1>3. QED
  BY <1>1, <1>2, LoadVehicleIs

LEMMA NextType == TypeOK /\ [Next]_vars => TypeOK'
<1> SUFFICES ASSUME TypeOK, [Next]_vars PROVE TypeOK'
  OBVIOUS
<1>1. CASE UNCHANGED vars
  BY <1>1 DEF TypeOK, vars
<1>2. CASE Next
  <2>1. PICK c \in Cockpits :
          ReadOption(c) \/ ReadPath(c) \/ Moves(c) \/ LoadVehicle(c)
    BY <1>2 DEF Next, Moves
  <2>2. QED
    BY <2>1, ReadOptionType, ReadPathType, MovesType, LoadVehicleType
<1>3. QED
  BY <1>1, <1>2

\* The variables keep their types, whatever the command lines and files.
THEOREM TypeCorrect == Spec => []TypeOK
BY InitType, NextType, PTL DEF Spec

(***************************************************************************)
(* The configuration.                                                      *)
(***************************************************************************)
\* A process that has loaded nothing holds the first none of its vehicles.
LEMMA NothingHeld ==
  ASSUME NEW c \in Cockpits
  PROVE  Holds(c, <<>>, 0)
<1>1. Pairs(<<>>) = {} /\ Addresses(<<>>) = {}
  BY DEF Pairs, Addresses
<1>2. Said(c, 0) = {}
  BY DEF Said
<1>3. QED
  BY <1>1, <1>2, FS_EmptySet DEF Holds

\* An acceptable vehicle joins with an address of its own.
LEMMA JoinedHolds ==
  ASSUME NEW c \in Cockpits, NEW n \in Nat, NEW known,
         Holds(c, known, n), Acceptable(known, Vehicles(c)[n + 1])
  PROVE  Holds(c, Joined(known, Vehicles(c)[n + 1]), n + 1)
<1> DEFINE vehicle == Vehicles(c)[n + 1]
           new == Joined(known, vehicle)
           a == AddressOf[vehicle.ip]
           id == vehicle.vehicle_id
<1>1. id \notin DOMAIN known /\ a \notin Addresses(known)
  BY DEF Acceptable, Addresses
<1>2. /\ DOMAIN new = DOMAIN known \cup {id}
      /\ new[id] = a
      /\ \A v \in DOMAIN known : new[v] = known[v]
  BY <1>1 DEF Joined
<1>3. Said(c, n + 1) = Said(c, n) \cup {<<id, a>>}
  <2>1. 1 .. n + 1 = (1 .. n) \cup {n + 1}
    OBVIOUS
  <2>2. QED
    BY <2>1 DEF Said
<1> HIDE DEF new, a, id
<1>4. Pairs(new) = Pairs(known) \cup {<<id, a>>}
  BY <1>2 DEF Pairs
<1>5. Addresses(new) = Addresses(known) \cup {a}
  BY <1>2 DEF Addresses
<1>6. /\ IsFiniteSet(Addresses(new))
      /\ Cardinality(Addresses(new)) = n + 1
  BY <1>1, <1>5, FS_AddElement DEF Holds
<1>7. QED
  BY <1>3, <1>4, <1>6 DEF Holds, new

LEMMA InitLoaded == Init => \A c \in Cockpits : Loaded(c)
BY DEF Init, Loaded, Reading, Trusting

\* A step of another process.
LEMMA OthersLoaded ==
  ASSUME NEW d \in Cockpits, Loaded(d),
         phase'[d] = phase[d], addresses'[d] = addresses[d],
         loaded'[d] = loaded[d], config'[d] = config[d]
  PROVE  Loaded(d)'
BY DEF Loaded, Holds, Said, Vehicles

LEMMA ReadingLoaded ==
  ASSUME IInv, NEW c \in Cockpits, ReadOption(c) \/ ReadPath(c)
  PROVE  \A d \in Cockpits : Loaded(d)'
<1> TAKE d \in Cockpits
<1>1. addresses'[d] = addresses[d] /\ loaded'[d] = loaded[d]
  BY DEF ReadOption, ReadPath
<1>2. CASE d # c
  <2>1. phase'[d] = phase[d] /\ config'[d] = config[d]
    BY <1>2 DEF ReadOption, ReadPath, GoTo, IInv, TypeOK
  <2>2. QED
    BY <1>1, <2>1, OthersLoaded DEF IInv
<1>3. CASE d = c
  <2>1. phase[c] = "arguments" /\ phase'[c] \in {"arguments", "usage"}
    BY DEF ReadOption, ReadPath, GoTo, IInv, TypeOK
  <2>2. addresses[c] = <<>> /\ loaded[c] = 0
    BY <2>1 DEF IInv, Loaded, Reading
  <2>3. QED
    BY <1>1, <1>3, <2>1, <2>2 DEF Loaded, Reading, Trusting
<1>4. QED
  BY <1>2, <1>3

LEMMA MovesLoaded ==
  ASSUME IInv, NEW c \in Cockpits, Moves(c)
  PROVE  \A d \in Cockpits : Loaded(d)'
<1> TAKE d \in Cockpits
<1>1. UNCHANGED <<config, addresses, loaded>>
  BY DEF Moves, ArgumentsRead, ParseConfig, ConfigLoaded, OpenDevice,
         StartListening, BindChannel, Stop
<1>2. CASE d # c
  <2>1. phase'[d] = phase[d]
    BY <1>2 DEF Moves, ArgumentsRead, ParseConfig, ConfigLoaded, OpenDevice,
                StartListening, BindChannel, Stop, GoTo, IInv, TypeOK
  <2>2. QED
    BY <1>1, <2>1, OthersLoaded DEF IInv
<1>3. CASE d = c
  <2>1. Loaded(c)
    BY DEF IInv
  <2>2. \/ phase[c] = "arguments" /\ phase'[c] \in {"config", "usage"}
        \/ /\ phase[c] = "config" /\ phase'[c] = "vehicles"
           /\ config[c] \in DOMAIN Files
        \/ phase'[c] \in Failed \cup {"stopped"}
        \/ /\ phase[c] = "vehicles" /\ phase'[c] = "device"
           /\ loaded[c] = Len(Vehicles(c))
        \/ phase[c] \in Trusting /\ phase'[c] \in Trusting
    BY DEF Moves, ArgumentsRead, ParseConfig, ConfigLoaded, OpenDevice,
           StartListening, BindChannel, Stop, GoTo, IInv, TypeOK, Trusting,
           Failed
  <2>3. CASE phase[c] = "arguments" /\ phase'[c] \in {"config", "usage"}
    BY <1>1, <1>3, <2>1, <2>3 DEF Loaded, Reading, Trusting
  <2>4. CASE /\ phase[c] = "config" /\ phase'[c] = "vehicles"
             /\ config[c] \in DOMAIN Files
    <3>1. addresses[c] = <<>> /\ loaded[c] = 0
      BY <2>1, <2>4 DEF Loaded, Reading
    <3>2. Len(Vehicles(c)) \in Nat
      BY <2>4, VehiclesType
    <3>3. Holds(c, addresses[c], loaded[c])'
      BY <1>1, <3>1, NothingHeld DEF Holds, Said, Vehicles
    <3>4. QED
      BY <1>1, <1>3, <2>4, <3>1, <3>2, <3>3 DEF Loaded, Reading, Trusting,
                                                Vehicles
  <2>5. CASE phase'[c] \in Failed \cup {"stopped"}
    BY <1>3, <2>5 DEF Loaded, Reading, Trusting, Failed
  <2>6. CASE /\ phase[c] = "vehicles" /\ phase'[c] = "device"
             /\ loaded[c] = Len(Vehicles(c))
    BY <1>1, <1>3, <2>1, <2>6 DEF Loaded, Reading, Trusting, Holds, Said,
                                  Vehicles
  <2>7. CASE phase[c] \in Trusting /\ phase'[c] \in Trusting
    BY <1>1, <1>3, <2>1, <2>7 DEF Loaded, Reading, Trusting, Holds, Said,
                                  Vehicles
  <2>8. QED
    BY <2>2, <2>3, <2>4, <2>5, <2>6, <2>7
<1>4. QED
  BY <1>2, <1>3

LEMMA LoadVehicleLoaded ==
  ASSUME IInv, NEW c \in Cockpits, LoadVehicle(c)
  PROVE  \A d \in Cockpits : Loaded(d)'
<1> TAKE d \in Cockpits
<1> DEFINE vehicle == Next1(c)
<1>0. TypeOK
  BY DEF IInv
<1>1. /\ phase[c] = "vehicles" /\ loaded[c] < Len(Vehicles(c))
      /\ UNCHANGED config
      /\ \/ /\ Acceptable(addresses[c], vehicle)
            /\ addresses' = [addresses EXCEPT ![c] =
                               Joined(addresses[c], vehicle)]
            /\ loaded' = [loaded EXCEPT ![c] = @ + 1]
            /\ UNCHANGED phase
         \/ /\ GoTo(c, "bad_config")
            /\ UNCHANGED <<addresses, loaded>>
  BY <1>0, LoadVehicleIs
<1> HIDE DEF vehicle
<1>2. CASE d # c
  <2>1. /\ phase'[d] = phase[d] /\ addresses'[d] = addresses[d]
        /\ loaded'[d] = loaded[d] /\ config'[d] = config[d]
    BY <1>0, <1>1, <1>2 DEF GoTo, TypeOK
  <2>2. QED
    BY <2>1, OthersLoaded DEF IInv
<1>3. CASE d = c /\ GoTo(c, "bad_config")
  <2>1. phase'[c] = "bad_config"
    BY <1>0, <1>3 DEF GoTo, TypeOK
  <2>2. QED
    BY <1>3, <2>1 DEF Loaded, Reading, Trusting
<1>4. CASE /\ d = c
           /\ Acceptable(addresses[c], vehicle)
           /\ addresses' = [addresses EXCEPT ![c] =
                              Joined(addresses[c], vehicle)]
           /\ loaded' = [loaded EXCEPT ![c] = @ + 1]
           /\ UNCHANGED phase
  <2>1. /\ config[c] \in DOMAIN Files
        /\ Holds(c, addresses[c], loaded[c])
    BY <1>1 DEF IInv, Loaded
  <2>2. loaded[c] \in Nat /\ loaded'[c] = loaded[c] + 1
    BY <1>0, <1>4 DEF TypeOK
  <2>3. addresses'[c] = Joined(addresses[c], vehicle)
    BY <1>0, <1>4 DEF TypeOK
  <2>4. Holds(c, addresses'[c], loaded'[c])
    BY <1>4, <2>1, <2>2, <2>3, JoinedHolds DEF vehicle, Next1
  <2>5. Vehicles(c)' = Vehicles(c)
    BY <1>1 DEF Vehicles
  <2>6. Holds(c, addresses[c], loaded[c])'
    BY <2>4, <2>5 DEF Holds, Said
  <2>7. Len(Vehicles(c)) \in Nat
    BY <2>1, VehiclesType
  <2>8. loaded'[c] \in 0 .. Len(Vehicles(c))
    BY <1>1, <2>2, <2>7
  <2>9. QED
    BY <1>1, <1>4, <2>1, <2>5, <2>6, <2>8 DEF Loaded, Reading, Trusting
<1>5. QED
  BY <1>1, <1>2, <1>3, <1>4

LEMMA NextLoaded == IInv /\ [Next]_vars => IInv'
<1> SUFFICES ASSUME IInv, [Next]_vars PROVE IInv'
  OBVIOUS
<1>1. TypeOK'
  BY NextType DEF IInv
<1>2. CASE UNCHANGED vars
  BY <1>1, <1>2, OthersLoaded DEF IInv, vars
<1>3. CASE Next
  <2>1. PICK c \in Cockpits :
          ReadOption(c) \/ ReadPath(c) \/ Moves(c) \/ LoadVehicle(c)
    BY <1>3 DEF Next, Moves
  <2>2. \A d \in Cockpits : Loaded(d)'
    BY <2>1, ReadingLoaded, MovesLoaded, LoadVehicleLoaded
  <2>3. QED
    BY <1>1, <2>2 DEF IInv
<1>4. QED
  BY <1>2, <1>3

\* The map says the same of the vehicles as the configuration.
LEMMA LoadedIsUnambiguous == IInv => TrustIsUnambiguous
<1> SUFFICES ASSUME IInv, NEW c \in Cockpits, phase[c] \in Trusting
             PROVE  /\ Pairs(addresses[c]) =
                         {<<vehicle.vehicle_id, AddressOf[vehicle.ip]>> :
                            vehicle \in {Vehicles(c)[i] :
                                           i \in DOMAIN Vehicles(c)}}
                    /\ Cardinality(Addresses(addresses[c])) = Len(Vehicles(c))
  BY DEF TrustIsUnambiguous, Trusting, Pairs, Addresses
<1>1. /\ config[c] \in DOMAIN Files
      /\ loaded[c] = Len(Vehicles(c))
      /\ Holds(c, addresses[c], loaded[c])
  BY DEF IInv, Loaded
<1>2. DOMAIN Vehicles(c) = 1 .. Len(Vehicles(c))
  BY <1>1, VehiclesType
<1>3. Said(c, Len(Vehicles(c))) =
        {<<vehicle.vehicle_id, AddressOf[vehicle.ip]>> :
           vehicle \in {Vehicles(c)[i] : i \in DOMAIN Vehicles(c)}}
  BY <1>2 DEF Said
<1>4. QED
  BY <1>1, <1>3 DEF Holds

\* A cockpit past its configuration knows every vehicle of it, each by an
\* identifier and an address of its own, for any configuration and any other
\* processes on the host.
THEOREM Trust == Spec => []TrustIsUnambiguous
<1>1. Init => IInv
  BY InitType, InitLoaded DEF IInv
<1>2. QED
  BY <1>1, NextLoaded, LoadedIsUnambiguous, PTL DEF Spec

(***************************************************************************)
(* The command line.                                                       *)
(*                                                                         *)
(* parseArguments goes through the line once, ArgumentsAreRead speaks of   *)
(* the ways to split the line.  In front of its index every split is the   *)
(* same, and the variables hold what that part of the line asks for.       *)
(***************************************************************************)
\* Where an option with its value, or a path, ends.
End(line, i) == IF TakesValue(line[i]) THEN i + 2 ELSE i + 1

\* The part of a split in front of n.
Before(S, n) == {i \in S : i < n}

Paths(line, S) == {i \in S : ~TakesValue(line[i])}

Places(line, S, option) == {i \in S : line[i] = option}

\* Some split of the line up to n.
Reached(line, n) ==
  \E R \in SUBSET DOMAIN line :
    /\ {End(line, i) : i \in R} \cup {1} = R \cup {n}
    /\ \A i \in R : i < n

\* Something begins at n, unless the line is at its end, and nothing that
\* begins in front of n reaches beyond it.
Meets(line, S, n) ==
  /\ n \in S \cup {Len(line) + 1}
  /\ \A i \in S : i < n => End(line, i) <= n

\* Nothing in this part of the line would have been refused.
Sound(line, R) ==
  /\ \A i \in Paths(line, R) : line[i] \notin Flags
  /\ \A i \in Places(line, R, PortOption) : ParsesAsPort(line[i + 1])
  /\ \A i, j \in Paths(line, R) : i < j => line[i] = NoPath

PortGiven(line, R) ==
  IF Places(line, R, PortOption) = {} THEN DefaultWebSocketPort
  ELSE PortOf[Given(line, R, PortOption, NoPath)]

\* What the variables hold when this part of the line has been read.
Says(line, R, d, f, p) ==
  /\ {line[i] : i \in Paths(line, R)} \ {NoPath} = {d} \ {NoPath}
  /\ f = Given(line, R, ConfigOption, NoPath)
  /\ p = PortGiven(line, R)

\* The line has been read up to n.
ReadUpTo(line, n, d, f, p) ==
  /\ n \in 1 .. Len(line) + 1
  /\ Reached(line, n)
  /\ \A S \in SUBSET DOMAIN line :
       Splits(line, S) =>
         /\ Meets(line, S, n)
         /\ Sound(line, Before(S, n))
         /\ Says(line, Before(S, n), d, f, p)

\* The line asks for nothing.
Refused(line) ==
  \A S \in SUBSET DOMAIN line :
    Splits(line, S) =>
      \/ ~Sound(line, S)
      \/ \A i \in Paths(line, S) : line[i] = NoPath
      \/ Given(line, S, ConfigOption, NoPath) = NoPath

Read(c) ==
  /\ phase[c] = "arguments" =>
       ReadUpTo(argv[c], index[c], device[c], config[c], port[c])
  /\ phase[c] \notin {"arguments", "usage"} =>
       Asks(argv[c], device[c], config[c], port[c])
  /\ phase[c] = "usage" => Refused(argv[c])

ReadInv == \A c \in Cockpits : Read(c)

LEMMA SplitsIs ==
  ASSUME NEW line, NEW S, Splits(line, S)
  PROVE  /\ S \subseteq DOMAIN line
         /\ {End(line, i) : i \in S} \cup {1} = S \cup {Len(line) + 1}
BY DEF Splits, End

LEMMA EndType ==
  ASSUME NEW line, NEW i \in Nat
  PROVE  End(line, i) \in Nat /\ End(line, i) > i /\ End(line, i) <= i + 2
BY DEF End

\* The next beginning after one at n.
LEMMA MeetsNext ==
  ASSUME NEW line \in Seq(STRING), NEW S, Splits(line, S),
         NEW n \in 1 .. Len(line), Meets(line, S, n)
  PROVE  /\ n \in S
         /\ Meets(line, S, End(line, n))
         /\ Before(S, End(line, n)) = Before(S, n) \cup {n}
<1> DEFINE e == End(line, n)
<1>1. S \subseteq 1 .. Len(line)
  BY SplitsIs
<1>2. n \in S
  BY DEF Meets
<1>3. e \in Nat /\ e > n /\ e <= n + 2
  BY EndType
<1>4. e \in S \cup {Len(line) + 1}
  BY <1>2, SplitsIs
<1>5. \A i \in S : i > n => i >= e
  <2> SUFFICES ASSUME NEW i \in S, i > n, i < e
               PROVE  FALSE
    BY <1>1, <1>3
  <2>1. i \in Nat /\ i = n + 1 /\ e = n + 2
    BY <1>1, <1>3
  <2>2. i # 1
    BY <2>1
  <2>3. PICK j \in S : i = End(line, j)
    BY <2>2, SplitsIs
  <2>4. j \in Nat /\ j < i
    BY <1>1, <2>1, <2>3, EndType
  <2>5. CASE j = n
    BY <2>1, <2>3, <2>5
  <2>6. CASE j < n
    BY <2>1, <2>3, <2>6 DEF Meets
  <2>7. QED
    BY <2>1, <2>4, <2>5, <2>6
<1> HIDE DEF e
<1>6. \A i \in S : i < e <=> i < n \/ i = n
  BY <1>1, <1>3, <1>5
<1>7. Before(S, e) = Before(S, n) \cup {n}
  BY <1>2, <1>6 DEF Before
<1>8. \A i \in S : i < e => End(line, i) <= e
  <2> SUFFICES ASSUME NEW i \in S, i < e PROVE End(line, i) <= e
    OBVIOUS
  <2>1. CASE i = n
    BY <1>3, <2>1 DEF e
  <2>2. CASE i < n
    <3>1. End(line, i) <= n /\ End(line, i) \in Nat
      BY <1>1, <2>2, EndType DEF Meets
    <3>2. QED
      BY <1>3, <3>1
  <2>3. QED
    BY <1>6, <2>1, <2>2
<1>9. QED
  BY <1>2, <1>4, <1>7, <1>8 DEF Meets, e

\* A split reaches one beginning further.
LEMMA ReachedNext ==
  ASSUME NEW line \in Seq(STRING), NEW n \in 1 .. Len(line), Reached(line, n)
  PROVE  Reached(line, End(line, n))
<1>1. PICK R \in SUBSET DOMAIN line :
        /\ {End(line, i) : i \in R} \cup {1} = R \cup {n}
        /\ \A i \in R : i < n
  BY DEF Reached
<1> DEFINE Q == R \cup {n}
<1>2. Q \in SUBSET DOMAIN line
  OBVIOUS
<1>3. {End(line, i) : i \in Q} \cup {1} = Q \cup {End(line, n)}
  BY <1>1
<1>4. \A i \in Q : i < End(line, n)
  BY <1>1, EndType
<1>5. QED
  BY <1>2, <1>3, <1>4 DEF Reached

\* At the end of the line the part that was read is a split of all of it.
LEMMA ReachedEnd ==
  ASSUME NEW line \in Seq(STRING), Reached(line, Len(line) + 1)
  PROVE  \E S \in SUBSET DOMAIN line : Splits(line, S)
BY DEF Reached, Splits, End

LEMMA BeforeEnd ==
  ASSUME NEW line \in Seq(STRING), NEW S \in SUBSET DOMAIN line
  PROVE  Before(S, Len(line) + 1) = S
BY DEF Before

\* The value of the last such option.
LEMMA GivenLast ==
  ASSUME NEW line, NEW R \in SUBSET Nat, NEW n \in Nat, \A i \in R : i < n,
         NEW default
  PROVE  Given(line, R \cup {n}, line[n], default) = line[n + 1]
<1> DEFINE P == {i \in R \cup {n} : line[i] = line[n]}
<1>1. n \in P /\ \A i \in P : i <= n
  OBVIOUS
<1>2. \A m \in P : (\A j \in P : j <= m) => m = n
  <2> SUFFICES ASSUME NEW m \in P, \A j \in P : j <= m PROVE m = n
    OBVIOUS
  <2>1. m <= n /\ n <= m /\ m \in Nat
    BY <1>1
  <2>2. QED
    BY <2>1
<1> HIDE DEF P
<1>3. (CHOOSE i \in P : \A j \in P : j <= i) = n
  BY <1>1, <1>2
<1>4. P # {}
  BY <1>1
<1>5. QED
  BY <1>3, <1>4 DEF Given, P

\* Anything else leaves it.
LEMMA GivenOther ==
  ASSUME NEW line, NEW R, NEW n, NEW option, line[n] # option, NEW default
  PROVE  /\ Given(line, R \cup {n}, option, default) =
              Given(line, R, option, default)
         /\ Places(line, R \cup {n}, option) = Places(line, R, option)
<1> DEFINE Value(P) ==
      IF P = {} THEN default
      ELSE line[(CHOOSE i \in P : \A j \in P : j <= i) + 1]
<1>1. Places(line, R \cup {n}, option) = Places(line, R, option)
  BY DEF Places
<1>2. /\ Given(line, R \cup {n}, option, default) =
           Value(Places(line, R \cup {n}, option))
      /\ Given(line, R, option, default) = Value(Places(line, R, option))
  BY DEF Given, Places
<1> HIDE DEF Value
<1>3. QED
  BY <1>1, <1>2

\* An option that is read is not a path.
LEMMA PathsNext ==
  ASSUME NEW line, NEW R, NEW n
  PROVE  /\ TakesValue(line[n]) => Paths(line, R \cup {n}) = Paths(line, R)
         /\ ~TakesValue(line[n]) =>
              Paths(line, R \cup {n}) = Paths(line, R) \cup {n}
<1>1. CASE TakesValue(line[n])
  BY <1>1 DEF Paths
<1>2. CASE ~TakesValue(line[n])
  BY <1>2 DEF Paths
<1>3. QED
  BY <1>1, <1>2

LEMMA OptionsDiffer == ConfigOption # PortOption
BY DEF ConfigOption, PortOption

(***************************************************************************)
(* The steps of parseArguments.                                            *)
(***************************************************************************)
LEMMA NothingRead ==
  ASSUME NEW line \in Seq(STRING)
  PROVE  ReadUpTo(line, 1, NoPath, NoPath, DefaultWebSocketPort)
<1>1. Reached(line, 1)
  <2>1. /\ {End(line, i) : i \in {}} \cup {1} = {} \cup {1}
        /\ \A i \in {} : i < 1
        /\ {} \in SUBSET DOMAIN line
    OBVIOUS
  <2>2. QED
    BY <2>1 DEF Reached
<1>2. ASSUME NEW S \in SUBSET DOMAIN line, Splits(line, S)
      PROVE  /\ Meets(line, S, 1)
             /\ Before(S, 1) = {}
  <2>1. S \subseteq 1 .. Len(line)
    OBVIOUS
  <2>2. 1 \in S \cup {Len(line) + 1}
    BY <1>2, SplitsIs
  <2>3. QED
    BY <2>1, <2>2 DEF Meets, Before
<1>3. Sound(line, {})
  BY DEF Sound, Paths, Places
<1>4. Says(line, {}, NoPath, NoPath, DefaultWebSocketPort)
  <2>1. Given(line, {}, ConfigOption, NoPath) = NoPath
    BY DEF Given
  <2>2. QED
    BY <2>1 DEF Says, Paths, PortGiven, Places
<1>5. 1 \in 1 .. Len(line) + 1
  OBVIOUS
<1>6. QED
  BY <1>1, <1>2, <1>3, <1>4, <1>5 DEF ReadUpTo

\* What begins at n turns the variables from d, f and p into e, g and q.
Turns(line, n, d, f, p, e, g, q) ==
  \A R \in SUBSET (1 .. n - 1) :
    Sound(line, R) /\ Says(line, R, d, f, p)
      => Sound(line, R \cup {n}) /\ Says(line, R \cup {n}, e, g, q)

\* A step onto the next beginning, whatever it found there.
LEMMA ReadNext ==
  ASSUME NEW line \in Seq(STRING), NEW n \in 1 .. Len(line),
         NEW d, NEW f, NEW p, ReadUpTo(line, n, d, f, p),
         End(line, n) <= Len(line) + 1, NEW e, NEW g, NEW q,
         Turns(line, n, d, f, p, e, g, q)
  PROVE  ReadUpTo(line, End(line, n), e, g, q)
<1> DEFINE m == End(line, n)
<1>1. m \in 1 .. Len(line) + 1
  BY EndType
<1>2. Reached(line, m)
  BY ReachedNext DEF ReadUpTo
<1>3. ASSUME NEW S \in SUBSET DOMAIN line, Splits(line, S)
      PROVE  /\ Meets(line, S, m)
             /\ Sound(line, Before(S, m))
             /\ Says(line, Before(S, m), e, g, q)
  <2>1. /\ Meets(line, S, n)
        /\ Sound(line, Before(S, n))
        /\ Says(line, Before(S, n), d, f, p)
    BY <1>3 DEF ReadUpTo
  <2>2. /\ Meets(line, S, m)
        /\ Before(S, m) = Before(S, n) \cup {n}
    BY <1>3, <2>1, MeetsNext
  <2>3. Before(S, n) \in SUBSET (1 .. n - 1)
    BY DEF Before
  <2>4. QED
    BY <2>1, <2>2, <2>3 DEF Turns
<1>4. QED
  BY <1>1, <1>2, <1>3 DEF ReadUpTo

\* A configuration's path.
LEMMA ConfigRead ==
  ASSUME NEW line \in Seq(STRING), NEW n \in 1 .. Len(line),
         NEW d, NEW f, NEW p, ReadUpTo(line, n, d, f, p),
         n < Len(line), line[n] = ConfigOption
  PROVE  ReadUpTo(line, n + 2, d, line[n + 1], p)
<1>1. TakesValue(line[n]) /\ End(line, n) = n + 2
  BY DEF TakesValue, End
<1>2. ASSUME NEW R \in SUBSET (1 .. n - 1),
             Sound(line, R), Says(line, R, d, f, p)
      PROVE  Sound(line, R \cup {n}) /\ Says(line, R \cup {n}, d, line[n + 1], p)
  <2>1. Paths(line, R \cup {n}) = Paths(line, R)
    BY <1>1, PathsNext
  <2>2. /\ Places(line, R \cup {n}, PortOption) = Places(line, R, PortOption)
        /\ Given(line, R \cup {n}, PortOption, NoPath) =
             Given(line, R, PortOption, NoPath)
    BY GivenOther, OptionsDiffer
  <2>3. Given(line, R \cup {n}, ConfigOption, NoPath) = line[n + 1]
    <3>1. n \in Nat /\ R \in SUBSET Nat /\ \A i \in R : i < n
      OBVIOUS
    <3>2. Given(line, R \cup {n}, line[n], NoPath) = line[n + 1]
      BY <3>1, GivenLast
    <3>3. QED
      BY <3>2
  <2>4. QED
    BY <1>2, <2>1, <2>2, <2>3 DEF Sound, Says, PortGiven
<1>3. Turns(line, n, d, f, p, d, line[n + 1], p)
  BY <1>2 DEF Turns
<1>4. ReadUpTo(line, End(line, n), d, line[n + 1], p)
  BY <1>1, <1>3, ReadNext
<1>5. QED
  BY <1>1, <1>4

\* A port.
LEMMA PortRead ==
  ASSUME NEW line \in Seq(STRING), NEW n \in 1 .. Len(line),
         NEW d, NEW f, NEW p, ReadUpTo(line, n, d, f, p),
         n < Len(line), line[n] = PortOption, ParsesAsPort(line[n + 1])
  PROVE  ReadUpTo(line, n + 2, d, f, PortOf[line[n + 1]])
<1>1. TakesValue(line[n]) /\ End(line, n) = n + 2
  BY DEF TakesValue, End
<1>2. ASSUME NEW R \in SUBSET (1 .. n - 1),
             Sound(line, R), Says(line, R, d, f, p)
      PROVE  /\ Sound(line, R \cup {n})
             /\ Says(line, R \cup {n}, d, f, PortOf[line[n + 1]])
  <2>1. Paths(line, R \cup {n}) = Paths(line, R)
    BY <1>1, PathsNext
  <2>2. Given(line, R \cup {n}, ConfigOption, NoPath) =
          Given(line, R, ConfigOption, NoPath)
    BY GivenOther, OptionsDiffer
  <2>3. Places(line, R \cup {n}, PortOption) =
          Places(line, R, PortOption) \cup {n}
    BY DEF Places
  <2>4. Given(line, R \cup {n}, PortOption, NoPath) = line[n + 1]
    <3>1. n \in Nat /\ R \in SUBSET Nat /\ \A i \in R : i < n
      OBVIOUS
    <3>2. Given(line, R \cup {n}, line[n], NoPath) = line[n + 1]
      BY <3>1, GivenLast
    <3>3. QED
      BY <3>2
  <2>5. Sound(line, R \cup {n})
    BY <1>2, <2>1, <2>3 DEF Sound
  <2>6. PortGiven(line, R \cup {n}) = PortOf[line[n + 1]]
    BY <2>3, <2>4 DEF PortGiven
  <2>7. QED
    BY <1>2, <2>1, <2>2, <2>5, <2>6 DEF Says
<1>3. Turns(line, n, d, f, p, d, f, PortOf[line[n + 1]])
  BY <1>2 DEF Turns
<1>4. ReadUpTo(line, End(line, n), d, f, PortOf[line[n + 1]])
  BY <1>1, <1>3, ReadNext
<1>5. QED
  BY <1>1, <1>4

\* The path of the device.
LEMMA PathRead ==
  ASSUME NEW line \in Seq(STRING), NEW n \in 1 .. Len(line),
         NEW f, NEW p, ReadUpTo(line, n, NoPath, f, p),
         ~TakesValue(line[n]), line[n] \notin Flags
  PROVE  ReadUpTo(line, n + 1, line[n], f, p)
<1>1. End(line, n) = n + 1
  BY DEF End
<1>2. ASSUME NEW R \in SUBSET (1 .. n - 1),
             Sound(line, R), Says(line, R, NoPath, f, p)
      PROVE  Sound(line, R \cup {n}) /\ Says(line, R \cup {n}, line[n], f, p)
  <2>1. Paths(line, R \cup {n}) = Paths(line, R) \cup {n}
    BY PathsNext
  <2>2. line[n] # ConfigOption /\ line[n] # PortOption
    BY DEF TakesValue
  <2>3. /\ Places(line, R \cup {n}, PortOption) = Places(line, R, PortOption)
        /\ Given(line, R \cup {n}, PortOption, NoPath) =
             Given(line, R, PortOption, NoPath)
        /\ Given(line, R \cup {n}, ConfigOption, NoPath) =
             Given(line, R, ConfigOption, NoPath)
    BY <2>2, GivenOther
  <2>4. \A i \in Paths(line, R) : line[i] = NoPath /\ i < n /\ i \in Nat
    BY <1>2 DEF Says, Paths
  <2>5. Sound(line, R \cup {n})
    <3>1. \A i \in Paths(line, R \cup {n}) : line[i] \notin Flags
      BY <1>2, <2>1 DEF Sound
    <3>2. \A i \in Places(line, R \cup {n}, PortOption) :
            ParsesAsPort(line[i + 1])
      BY <1>2, <2>3 DEF Sound
    <3>3. \A i, j \in Paths(line, R) \cup {n} : i < j => line[i] = NoPath
      BY <2>4
    <3>4. QED
      BY <2>1, <3>1, <3>2, <3>3 DEF Sound
  <2>6. {line[i] : i \in Paths(line, R \cup {n})} \ {NoPath} =
          {line[n]} \ {NoPath}
    BY <2>1, <2>4
  <2>7. QED
    BY <1>2, <2>3, <2>5, <2>6 DEF Says, PortGiven
<1>3. Turns(line, n, NoPath, f, p, line[n], f, p)
  BY <1>2 DEF Turns
<1>4. ReadUpTo(line, End(line, n), line[n], f, p)
  BY <1>1, <1>3, ReadNext
<1>5. QED
  BY <1>1, <1>4

\* The end of the line.
LEMMA AskedFor ==
  ASSUME NEW line \in Seq(STRING), NEW d, NEW f, NEW p,
         ReadUpTo(line, Len(line) + 1, d, f, p), d # NoPath, f # NoPath
  PROVE  Asks(line, d, f, p)
<1>1. PICK S \in SUBSET DOMAIN line : Splits(line, S)
  BY ReachedEnd DEF ReadUpTo
<1>2. Sound(line, S) /\ Says(line, S, d, f, p)
  BY <1>1, BeforeEnd DEF ReadUpTo
<1>3. \A i \in Places(line, S, PortOption) :
        /\ line[i + 1] \in DOMAIN PortOf
        /\ PortOf[line[i + 1]] \in PortNumber
  BY <1>2 DEF Sound, ParsesAsPort
<1>4. {line[i] : i \in Paths(line, S)} \ {NoPath} = {d}
  <2>1. {d} \ {NoPath} = {d}
    OBVIOUS
  <2>2. QED
    BY <1>2, <2>1 DEF Says
<1>5. IF Places(line, S, PortOption) = {} THEN p = DefaultWebSocketPort
      ELSE p = PortOf[Given(line, S, PortOption, NoPath)]
  BY <1>2 DEF Says, PortGiven
<1>6. /\ \A i \in Paths(line, S) : line[i] \notin Flags
      /\ \A i, j \in Paths(line, S) : i < j => line[i] = NoPath
      /\ f = Given(line, S, ConfigOption, NoPath)
  BY <1>2 DEF Sound, Says
<1> DEFINE paths == {i \in S : ~TakesValue(line[i])}
           ports == {i \in S : line[i] = PortOption}
<1>7. paths = Paths(line, S) /\ ports = Places(line, S, PortOption)
  BY DEF Paths, Places
<1> HIDE DEF paths, ports
<1>8. /\ Splits(line, S)
      /\ \A i \in paths : line[i] \notin Flags
      /\ \A i \in ports : /\ line[i + 1] \in DOMAIN PortOf
                           /\ PortOf[line[i + 1]] \in PortNumber
      /\ {line[i] : i \in paths} \ {NoPath} = {d}
      /\ \A i, j \in paths : i < j => line[i] = NoPath
      /\ f = Given(line, S, ConfigOption, NoPath) /\ f # NoPath
      /\ IF ports = {} THEN p = DefaultWebSocketPort
         ELSE p = PortOf[Given(line, S, PortOption, NoPath)]
  BY <1>1, <1>3, <1>4, <1>5, <1>6, <1>7
<1>9. QED
  BY <1>8 DEF Asks, paths, ports

\* Nothing else is asked for.
LEMMA RefusedAsksNothing ==
  ASSUME NEW line, Refused(line), NEW d, NEW f, NEW p
  PROVE  ~Asks(line, d, f, p)
<1> SUFFICES ASSUME Asks(line, d, f, p) PROVE FALSE
  OBVIOUS
<1>1. PICK S \in SUBSET DOMAIN line :
        /\ Splits(line, S)
        /\ \A i \in Paths(line, S) : line[i] \notin Flags
        /\ \A i \in Places(line, S, PortOption) :
             /\ line[i + 1] \in DOMAIN PortOf
             /\ PortOf[line[i + 1]] \in PortNumber
        /\ {line[i] : i \in Paths(line, S)} \ {NoPath} = {d}
        /\ \A i, j \in Paths(line, S) : i < j => line[i] = NoPath
        /\ f = Given(line, S, ConfigOption, NoPath) /\ f # NoPath
  BY DEF Asks, Paths, Places
<1>2. Sound(line, S)
  BY <1>1 DEF Sound, ParsesAsPort
<1>3. d \in {line[i] : i \in Paths(line, S)} \ {NoPath}
  BY <1>1
<1>4. ~ \A i \in Paths(line, S) : line[i] = NoPath
  BY <1>3
<1>5. QED
  BY <1>1, <1>2, <1>4 DEF Refused

\* A line that ends without a device or a configuration.
LEMMA NothingAsked ==
  ASSUME NEW line \in Seq(STRING), NEW d, NEW f, NEW p,
         ReadUpTo(line, Len(line) + 1, d, f, p), d = NoPath \/ f = NoPath
  PROVE  Refused(line)
<1> SUFFICES ASSUME NEW S \in SUBSET DOMAIN line, Splits(line, S)
             PROVE  \/ \A i \in Paths(line, S) : line[i] = NoPath
                    \/ Given(line, S, ConfigOption, NoPath) = NoPath
  BY DEF Refused
<1>1. Says(line, S, d, f, p)
  BY BeforeEnd DEF ReadUpTo
<1>2. CASE d = NoPath
  BY <1>1, <1>2 DEF Says
<1>3. CASE f = NoPath
  BY <1>1, <1>3 DEF Says
<1>4. QED
  BY <1>2, <1>3

\* An option without a value.
LEMMA ValueMissing ==
  ASSUME NEW line \in Seq(STRING), NEW n \in 1 .. Len(line),
         NEW d, NEW f, NEW p, ReadUpTo(line, n, d, f, p),
         TakesValue(line[n]), n = Len(line)
  PROVE  Refused(line)
<1> SUFFICES ASSUME NEW S \in SUBSET DOMAIN line, Splits(line, S)
             PROVE  FALSE
  BY DEF Refused
<1>1. Meets(line, S, n)
  BY DEF ReadUpTo
<1>2. End(line, n) \in S \cup {Len(line) + 1}
  BY <1>1, MeetsNext DEF Meets
<1>3. End(line, n) = Len(line) + 2
  BY DEF End
<1>4. S \subseteq 1 .. Len(line)
  OBVIOUS
<1>5. QED
  BY <1>2, <1>3, <1>4

\* A port that is none.
LEMMA PortRefused ==
  ASSUME NEW line \in Seq(STRING), NEW n \in 1 .. Len(line),
         NEW d, NEW f, NEW p, ReadUpTo(line, n, d, f, p),
         line[n] = PortOption, ~ParsesAsPort(line[n + 1])
  PROVE  Refused(line)
<1> SUFFICES ASSUME NEW S \in SUBSET DOMAIN line, Splits(line, S)
             PROVE  ~Sound(line, S)
  BY DEF Refused
<1>1. n \in S
  BY MeetsNext DEF ReadUpTo
<1>2. n \in Places(line, S, PortOption)
  BY <1>1 DEF Places
<1>3. QED
  BY <1>2 DEF Sound

\* A flag that is no option, or a second path.
LEMMA PathRefused ==
  ASSUME NEW line \in Seq(STRING), NEW n \in 1 .. Len(line),
         NEW d, NEW f, NEW p, ReadUpTo(line, n, d, f, p),
         ~TakesValue(line[n]), line[n] \in Flags \/ d # NoPath
  PROVE  Refused(line)
<1> SUFFICES ASSUME NEW S \in SUBSET DOMAIN line, Splits(line, S)
             PROVE  ~Sound(line, S)
  BY DEF Refused
<1>1. n \in S /\ Says(line, Before(S, n), d, f, p)
  BY MeetsNext DEF ReadUpTo
<1>2. n \in Paths(line, S)
  BY <1>1 DEF Paths
<1>3. CASE line[n] \in Flags
  BY <1>2, <1>3 DEF Sound
<1>4. CASE d # NoPath
  <2>1. d \in {line[i] : i \in Paths(line, Before(S, n))}
    BY <1>1, <1>4 DEF Says
  <2>2. PICK i \in Paths(line, Before(S, n)) : line[i] = d
    BY <2>1
  <2>3. i \in Paths(line, S) /\ i < n
    BY <2>2 DEF Paths, Before
  <2>4. QED
    BY <1>2, <1>4, <2>2, <2>3 DEF Sound
<1>5. QED
  BY <1>3, <1>4

(***************************************************************************)
(* The invariant of the command line.                                      *)
(***************************************************************************)
LEMMA LineType ==
  ASSUME TypeOK, NEW c \in Cockpits
  PROVE  argv[c] \in Seq(STRING)
BY StartupAssumption DEF TypeOK

LEMMA InitRead == Init => ReadInv
<1> SUFFICES ASSUME Init, NEW c \in Cockpits PROVE Read(c)
  BY DEF ReadInv
<1>1. argv[c] \in Seq(STRING)
  BY InitType, LineType
<1>2. ReadUpTo(argv[c], 1, NoPath, NoPath, DefaultWebSocketPort)
  BY <1>1, NothingRead
<1>3. /\ phase[c] = "arguments" /\ index[c] = 1 /\ device[c] = NoPath
      /\ config[c] = NoPath /\ port[c] = DefaultWebSocketPort
  BY DEF Init
<1>4. QED
  BY <1>2, <1>3 DEF Read

\* A step that is not this process's.
LEMMA OthersRead ==
  ASSUME NEW d \in Cockpits, Read(d),
         phase'[d] = phase[d], argv'[d] = argv[d], index'[d] = index[d],
         device'[d] = device[d], config'[d] = config[d], port'[d] = port[d]
  PROVE  Read(d)'
BY DEF Read

LEMMA ReadOptionRead ==
  ASSUME TypeOK, ReadInv, NEW c \in Cockpits, ReadOption(c)
  PROVE  ReadInv'
<1> SUFFICES ASSUME NEW b \in Cockpits PROVE Read(b)'
  BY DEF ReadInv
<1>1. CASE b # c
  <2>1. /\ phase'[b] = phase[b] /\ argv'[b] = argv[b]
        /\ index'[b] = index[b] /\ device'[b] = device[b]
        /\ config'[b] = config[b] /\ port'[b] = port[b]
    BY <1>1 DEF ReadOption, GoTo, TypeOK
  <2>2. QED
    BY <2>1, OthersRead DEF ReadInv
<1>2. CASE b = c
  <2> DEFINE line == argv[c]
             i == index[c]
             word == line[i + 1]
  <2>1. /\ phase[c] = "arguments" /\ line \in Seq(STRING)
        /\ ReadUpTo(line, i, device[c], config[c], port[c])
        /\ i \in 1 .. Len(line)
    <3>1. phase[c] = "arguments" /\ i <= Len(line)
      BY DEF ReadOption
    <3>2. ReadUpTo(line, i, device[c], config[c], port[c])
      BY <3>1 DEF ReadInv, Read
    <3>3. line \in Seq(STRING) /\ i \in Nat \ {0}
      BY LineType DEF TypeOK
    <3>4. QED
      BY <3>1, <3>2, <3>3
  <2>2. TakesValue(line[i])
    BY DEF ReadOption, TakesValue
  <2>3. index'[c] = i + 2 /\ argv' = argv /\ device' = device
    BY DEF ReadOption, TypeOK
  <2>4. \/ i = Len(line) /\ phase'[c] = "usage"
        \/ /\ i < Len(line) /\ line[i] = ConfigOption
           /\ config'[c] = word /\ port' = port /\ phase' = phase
        \/ /\ i < Len(line) /\ line[i] = PortOption /\ ParsesAsPort(word)
           /\ port'[c] = PortOf[word] /\ config' = config /\ phase' = phase
        \/ /\ i < Len(line) /\ line[i] = PortOption /\ ~ParsesAsPort(word)
           /\ phase'[c] = "usage"
    BY DEF ReadOption, GoTo, TypeOK
  <2> HIDE DEF line, i, word
  <2>5. CASE i = Len(line) /\ phase'[c] = "usage"
    <3>1. Refused(line)
      BY <2>1, <2>2, <2>5, ValueMissing
    <3>2. QED
      BY <1>2, <2>3, <2>5, <3>1 DEF Read, line
  <2>6. CASE /\ i < Len(line) /\ line[i] = ConfigOption
             /\ config'[c] = word /\ port' = port /\ phase' = phase
    <3>1. ReadUpTo(line, i + 2, device[c], word, port[c])
      BY <2>1, <2>6, ConfigRead DEF word
    <3>2. QED
      BY <1>2, <2>1, <2>3, <2>6, <3>1 DEF Read, line
  <2>7. CASE /\ i < Len(line) /\ line[i] = PortOption /\ ParsesAsPort(word)
             /\ port'[c] = PortOf[word] /\ config' = config /\ phase' = phase
    <3>1. ReadUpTo(line, i + 2, device[c], config[c], PortOf[word])
      BY <2>1, <2>7, PortRead DEF word
    <3>2. QED
      BY <1>2, <2>1, <2>3, <2>7, <3>1 DEF Read, line
  <2>8. CASE /\ i < Len(line) /\ line[i] = PortOption /\ ~ParsesAsPort(word)
             /\ phase'[c] = "usage"
    <3>1. Refused(line)
      BY <2>1, <2>8, PortRefused DEF word
    <3>2. QED
      BY <1>2, <2>3, <2>8, <3>1 DEF Read, line
  <2>9. QED
    BY <2>4, <2>5, <2>6, <2>7, <2>8
<1>3. QED
  BY <1>1, <1>2

LEMMA ReadPathRead ==
  ASSUME TypeOK, ReadInv, NEW c \in Cockpits, ReadPath(c)
  PROVE  ReadInv'
<1> SUFFICES ASSUME NEW b \in Cockpits PROVE Read(b)'
  BY DEF ReadInv
<1>1. CASE b # c
  <2>1. /\ phase'[b] = phase[b] /\ argv'[b] = argv[b]
        /\ index'[b] = index[b] /\ device'[b] = device[b]
        /\ config'[b] = config[b] /\ port'[b] = port[b]
    BY <1>1 DEF ReadPath, GoTo, TypeOK
  <2>2. QED
    BY <2>1, OthersRead DEF ReadInv
<1>2. CASE b = c
  <2> DEFINE line == argv[c]
             i == index[c]
  <2>1. /\ phase[c] = "arguments" /\ line \in Seq(STRING)
        /\ ReadUpTo(line, i, device[c], config[c], port[c])
        /\ i \in 1 .. Len(line)
    <3>1. phase[c] = "arguments" /\ i <= Len(line)
      BY DEF ReadPath
    <3>2. ReadUpTo(line, i, device[c], config[c], port[c])
      BY <3>1 DEF ReadInv, Read
    <3>3. line \in Seq(STRING) /\ i \in Nat \ {0}
      BY LineType DEF TypeOK
    <3>4. QED
      BY <3>1, <3>2, <3>3
  <2>2. ~TakesValue(line[i])
    BY DEF ReadPath, TakesValue
  <2>3. /\ index'[c] = i + 1 /\ argv' = argv
        /\ config' = config /\ port' = port
    BY DEF ReadPath, TypeOK
  <2>4. \/ /\ line[i] \notin Flags /\ device[c] = NoPath
           /\ device'[c] = line[i] /\ phase' = phase
        \/ /\ line[i] \in Flags \/ device[c] # NoPath
           /\ phase'[c] = "usage"
    BY DEF ReadPath, GoTo, TypeOK
  <2> HIDE DEF line, i
  <2>5. CASE /\ line[i] \notin Flags /\ device[c] = NoPath
             /\ device'[c] = line[i] /\ phase' = phase
    <3>1. ReadUpTo(line, i + 1, line[i], config[c], port[c])
      BY <2>1, <2>2, <2>5, PathRead
    <3>2. QED
      BY <1>2, <2>1, <2>3, <2>5, <3>1 DEF Read, line
  <2>6. CASE /\ line[i] \in Flags \/ device[c] # NoPath
             /\ phase'[c] = "usage"
    <3>1. Refused(line)
      BY <2>1, <2>2, <2>6, PathRefused
    <3>2. QED
      BY <1>2, <2>3, <2>6, <3>1 DEF Read, line
  <2>7. QED
    BY <2>4, <2>5, <2>6
<1>3. QED
  BY <1>1, <1>2

LEMMA ArgumentsReadRead ==
  ASSUME TypeOK, ReadInv, NEW c \in Cockpits, ArgumentsRead(c)
  PROVE  Read(c)'
<1> DEFINE line == argv[c]
<1>1. phase[c] = "arguments" /\ index[c] > Len(line)
  BY DEF ArgumentsRead
<1>2. ReadUpTo(line, index[c], device[c], config[c], port[c])
  BY <1>1 DEF ReadInv, Read
<1>3. line \in Seq(STRING)
  BY LineType
<1>4. index[c] = Len(line) + 1
  BY <1>1, <1>2, <1>3 DEF ReadUpTo
<1>5. /\ NoPath \notin {device[c], config[c]} => phase'[c] = "config"
      /\ NoPath \in {device[c], config[c]} => phase'[c] = "usage"
      /\ argv' = argv /\ device' = device /\ config' = config /\ port' = port
  BY DEF ArgumentsRead, GoTo, TypeOK
<1> HIDE DEF line
<1>6. CASE NoPath \notin {device[c], config[c]}
  <2>1. Asks(line, device[c], config[c], port[c])
    BY <1>2, <1>3, <1>4, <1>6, AskedFor
  <2>2. QED
    BY <1>5, <1>6, <2>1 DEF Read, line
<1>7. CASE NoPath \in {device[c], config[c]}
  <2>1. Refused(line)
    BY <1>2, <1>3, <1>4, <1>7, NothingAsked
  <2>2. QED
    BY <1>5, <1>7, <2>1 DEF Read, line
<1>8. QED
  BY <1>6, <1>7

\* What comes after the command line leaves it and what was read alone.
LEMMA LaterRead ==
  ASSUME TypeOK, ReadInv, NEW c \in Cockpits, Moves(c) \/ LoadVehicle(c)
  PROVE  ReadInv'
<1> SUFFICES ASSUME NEW b \in Cockpits PROVE Read(b)'
  BY DEF ReadInv
<1>1. UNCHANGED <<argv, index, device, config, port>>
  BY DEF Moves, ArgumentsRead, ParseConfig, ConfigLoaded, OpenDevice,
         StartListening, BindChannel, Stop, LoadVehicle
<1>2. CASE b # c
  <2>1. phase'[b] = phase[b]
    BY <1>2 DEF Moves, ArgumentsRead, ParseConfig, ConfigLoaded, OpenDevice,
                StartListening, BindChannel, Stop, LoadVehicle, GoTo, TypeOK
  <2>2. QED
    BY <1>1, <2>1, OthersRead DEF ReadInv
<1>3. CASE b = c /\ ArgumentsRead(c)
  BY <1>3, ArgumentsReadRead
<1>4. CASE b = c /\ ~ArgumentsRead(c)
  <2>1. /\ phase[c] \notin {"arguments", "usage"}
        /\ phase'[c] \notin {"arguments", "usage"}
    BY <1>4 DEF Moves, ParseConfig, ConfigLoaded, OpenDevice,
                StartListening, BindChannel, Stop, LoadVehicle, GoTo, TypeOK
  <2>2. QED
    BY <1>1, <1>4, <2>1 DEF ReadInv, Read
<1>5. QED
  BY <1>2, <1>3, <1>4

LEMMA NextRead == TypeOK /\ ReadInv /\ [Next]_vars => ReadInv'
<1> SUFFICES ASSUME TypeOK, ReadInv, [Next]_vars PROVE ReadInv'
  OBVIOUS
<1>1. CASE UNCHANGED vars
  BY <1>1, OthersRead DEF ReadInv, vars
<1>2. CASE Next
  <2>1. PICK c \in Cockpits :
          ReadOption(c) \/ ReadPath(c) \/ Moves(c) \/ LoadVehicle(c)
    BY <1>2 DEF Next, Moves
  <2>2. QED
    BY <2>1, ReadOptionRead, ReadPathRead, LaterRead
<1>3. QED
  BY <1>1, <1>2

\* The process goes on with what its command line asks for, in whatever order
\* options, values and paths come and however often they are repeated, and it
\* refuses exactly the lines that ask for nothing or for two devices: for every
\* command line of whatever words, and any number of processes.
THEOREM CommandLine == Spec => []ArgumentsAreRead
<1>1. ReadInv => ArgumentsAreRead
  BY RefusedAsksNothing DEF ReadInv, Read, ArgumentsAreRead
<1>2. QED
  BY InitType, InitRead, NextType, NextRead, <1>1, PTL DEF Spec
=============================================================================
