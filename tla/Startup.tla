------------------------------- MODULE Startup -------------------------------
(***************************************************************************)
(* The start of the cockpit process, main() and Cockpit::initialize(), for *)
(* one or more cockpits on one host: each reads its arguments one by one,  *)
(* loads its configuration vehicle by vehicle, opens its input device,     *)
(* listens for pages and binds the UDP port, and gives up at the first     *)
(* failure.  The steps of different processes interleave; what a process   *)
(* holds is free again when it has exited.                                 *)
(*                                                                         *)
(* Arguments, identifiers and addresses are texts, of which the constants  *)
(* say what the parsers make of them.                                      *)
(***************************************************************************)
EXTENDS Integers, FiniteSets, Sequences

CONSTANTS
  Cockpits,       \* the processes
  Arguments,      \* the command lines they may be started with
  Files,          \* the readable configurations: path -> file
  Devices,        \* the paths that open as an input device with usable axes
  Flags,          \* the arguments that begin with --
  PortOf,         \* decimal texts -> their value
  AddressOf,      \* texts inet_pton understands -> the address
  ValidIds        \* texts of 1 to 19 characters without \ and "

PortNumber == 1 .. 65535
DefaultWebSocketPort == 8765

\* The two options that take a value, and a path that was not given.
ConfigOption == "--config"
PortOption == "--websocket-port"
NoPath == ""

Config == [cockpit_id: STRING,
           vehicles: Seq([vehicle_id: STRING, ip: STRING])]

ASSUME StartupAssumption ==
  /\ Arguments \subseteq Seq(STRING)
  /\ \A path \in DOMAIN Files : Files[path] \in Config
  /\ NoPath \notin DOMAIN Files \cup Devices \cup ValidIds
  /\ {ConfigOption, PortOption} \subseteq Flags
  /\ \A text \in DOMAIN PortOf : PortOf[text] \in Nat

VARIABLES
  argv,       \* the command line of each process, without its name
  index,      \* parseArguments' index
  device,     \* input_device_path
  config,     \* config_path
  port,       \* websocket_port
  addresses,  \* loadConfig's local map, then state_cache_'s vehicle_addresses_
  loaded,     \* how many of the configuration's vehicles are in it
  phase       \* where each process is, or why it has exited

vars == <<argv, index, device, config, port, addresses, loaded, phase>>

Failed == {"usage", "bad_config", "no_device", "no_listener", "no_channel"}

Phase ==
  {"arguments", "config", "vehicles", "device", "listen", "udp", "running",
   "stopped"} \cup Failed

\* Vehicles with their addresses.
AddressMap ==
  UNION {[ids -> {AddressOf[text] : text \in DOMAIN AddressOf}] :
           ids \in SUBSET ValidIds}

TypeOK ==
  /\ argv \in [Cockpits -> Arguments]
  /\ index \in [Cockpits -> Nat \ {0}]
  /\ device \in [Cockpits -> STRING \cup {NoPath}]
  /\ config \in [Cockpits -> STRING \cup {NoPath}]
  /\ port \in [Cockpits -> PortNumber]
  /\ addresses \in [Cockpits -> AddressMap]
  /\ loaded \in [Cockpits -> Nat]
  /\ phase \in [Cockpits -> Phase]

Init ==
  /\ argv \in [Cockpits -> Arguments]
  /\ index = [c \in Cockpits |-> 1]
  /\ device = [c \in Cockpits |-> NoPath]
  /\ config = [c \in Cockpits |-> NoPath]
  /\ port = [c \in Cockpits |-> DefaultWebSocketPort]
  /\ addresses = [c \in Cockpits |-> <<>>]
  /\ loaded = [c \in Cockpits |-> 0]
  /\ phase = [c \in Cockpits |-> "arguments"]

GoTo(c, next) == phase' = [phase EXCEPT ![c] = next]

(***************************************************************************)
(* parseArguments.                                                         *)
(***************************************************************************)
ParsesAsPort(text) == text \in DOMAIN PortOf /\ PortOf[text] \in PortNumber

\* An option and its value.
ReadOption(c) ==
  LET i == index[c]
      option == argv[c][i]
  IN  /\ phase[c] = "arguments" /\ i <= Len(argv[c])
      /\ option \in {ConfigOption, PortOption}
      /\ index' = [index EXCEPT ![c] = i + 2]
      /\ \/ /\ i = Len(argv[c])
            /\ GoTo(c, "usage")
            /\ UNCHANGED <<config, port>>
         \/ /\ i < Len(argv[c]) /\ option = ConfigOption
            /\ config' = [config EXCEPT ![c] = argv[c][i + 1]]
            /\ UNCHANGED <<port, phase>>
         \/ /\ i < Len(argv[c]) /\ option = PortOption
            /\ IF ParsesAsPort(argv[c][i + 1])
               THEN /\ port' = [port EXCEPT ![c] = PortOf[argv[c][i + 1]]]
                    /\ UNCHANGED phase
               ELSE GoTo(c, "usage") /\ UNCHANGED port
            /\ UNCHANGED config
      /\ UNCHANGED <<argv, device, addresses, loaded>>

\* Mutant for ArgumentsAreRead: a second device path replaces the first.
ReadPathReplacing(c) ==
  LET i == index[c]
      argument == argv[c][i]
  IN  /\ phase[c] = "arguments" /\ i <= Len(argv[c])
      /\ argument \notin {ConfigOption, PortOption}
      /\ index' = [index EXCEPT ![c] = i + 1]
      /\ IF argument \notin Flags
         THEN device' = [device EXCEPT ![c] = argument] /\ UNCHANGED phase
         ELSE GoTo(c, "usage") /\ UNCHANGED device
      /\ UNCHANGED <<argv, config, port, addresses, loaded>>

\* Any other argument: the path of the device, unless there is one already.
ReadPath(c) ==
  LET i == index[c]
      argument == argv[c][i]
  IN  /\ phase[c] = "arguments" /\ i <= Len(argv[c])
      /\ argument \notin {ConfigOption, PortOption}
      /\ index' = [index EXCEPT ![c] = i + 1]
      /\ IF argument \notin Flags /\ device[c] = NoPath
         THEN device' = [device EXCEPT ![c] = argument] /\ UNCHANGED phase
         ELSE GoTo(c, "usage") /\ UNCHANGED device
      /\ UNCHANGED <<argv, config, port, addresses, loaded>>

ArgumentsRead(c) ==
  /\ phase[c] = "arguments" /\ index[c] > Len(argv[c])
  /\ GoTo(c, IF NoPath \notin {device[c], config[c]} THEN "config" ELSE "usage")
  /\ UNCHANGED <<argv, index, device, config, port, addresses, loaded>>

(***************************************************************************)
(* loadConfig.                                                             *)
(***************************************************************************)
ParseConfig(c) ==
  /\ phase[c] = "config"
  /\ GoTo(c, IF /\ config[c] \in DOMAIN Files
                /\ Files[config[c]].cockpit_id \in ValidIds
                /\ Files[config[c]].vehicles # <<>>
             THEN "vehicles" ELSE "bad_config")
  /\ UNCHANGED <<argv, index, device, config, port, addresses, loaded>>

Vehicles(c) == Files[config[c]].vehicles

\* Mutant for TrustIsUnambiguous: two vehicles may share an address.
AcceptableByIdOnly(known, vehicle) ==
  /\ vehicle.vehicle_id \in ValidIds
  /\ vehicle.ip \in DOMAIN AddressOf
  /\ vehicle.vehicle_id \notin DOMAIN known

\* A vehicle that may join those already loaded.
Acceptable(known, vehicle) ==
  /\ vehicle.vehicle_id \in ValidIds
  /\ vehicle.ip \in DOMAIN AddressOf
  /\ vehicle.vehicle_id \notin DOMAIN known
  /\ \A v \in DOMAIN known : known[v] # AddressOf[vehicle.ip]

LoadVehicle(c) ==
  /\ phase[c] = "vehicles" /\ loaded[c] < Len(Vehicles(c))
  /\ LET vehicle == Vehicles(c)[loaded[c] + 1]
         known == addresses[c]
     IN  IF Acceptable(known, vehicle)
         THEN /\ addresses' = [addresses EXCEPT ![c] =
                   [v \in DOMAIN known \cup {vehicle.vehicle_id} |->
                      IF v = vehicle.vehicle_id THEN AddressOf[vehicle.ip]
                                                ELSE known[v]]]
              /\ loaded' = [loaded EXCEPT ![c] = @ + 1]
              /\ UNCHANGED phase
         ELSE GoTo(c, "bad_config") /\ UNCHANGED <<addresses, loaded>>
  /\ UNCHANGED <<argv, index, device, config, port>>

ConfigLoaded(c) ==
  /\ phase[c] = "vehicles" /\ loaded[c] = Len(Vehicles(c))
  /\ GoTo(c, "device")
  /\ UNCHANGED <<argv, index, device, config, port, addresses, loaded>>

(***************************************************************************)
(* initialize, and the end of run.                                         *)
(***************************************************************************)
\* The listener and the UDP port a process holds.
Listening(c) == phase[c] \in {"udp", "running"}
Bound(c) == phase[c] = "running"

OpenDevice(c) ==
  /\ phase[c] = "device"
  /\ GoTo(c, IF device[c] \in Devices THEN "listen" ELSE "no_device")
  /\ UNCHANGED <<argv, index, device, config, port, addresses, loaded>>

StartListening(c) ==
  /\ phase[c] = "listen"
  /\ GoTo(c, IF \E d \in Cockpits : Listening(d) /\ port[d] = port[c]
             THEN "no_listener" ELSE "udp")
  /\ UNCHANGED <<argv, index, device, config, port, addresses, loaded>>

\* The port is the same for every cockpit, kCockpitUdpPort.
BindChannel(c) ==
  /\ phase[c] = "udp"
  /\ GoTo(c, IF \E d \in Cockpits : Bound(d) THEN "no_channel" ELSE "running")
  /\ UNCHANGED <<argv, index, device, config, port, addresses, loaded>>

Stop(c) ==
  /\ phase[c] = "running"
  /\ GoTo(c, "stopped")
  /\ UNCHANGED <<argv, index, device, config, port, addresses, loaded>>

Next ==
  \E c \in Cockpits :
    \/ ReadOption(c) \/ ReadPath(c) \/ ArgumentsRead(c)
    \/ ParseConfig(c) \/ LoadVehicle(c) \/ ConfigLoaded(c)
    \/ OpenDevice(c) \/ StartListening(c) \/ BindChannel(c) \/ Stop(c)

Spec == Init /\ [][Next]_vars

(***************************************************************************)
(* Properties.                                                             *)
(***************************************************************************)
TakesValue(argument) == argument \in {ConfigOption, PortOption}

\* S are the places of a command line where an option or a path begins: each
\* begins where the one before it ends, and the last one ends the line.
Splits(line, S) ==
  LET End(i) == IF TakesValue(line[i]) THEN i + 2 ELSE i + 1
  IN  /\ S \subseteq DOMAIN line
      /\ {End(i) : i \in S} \cup {1} = S \cup {Len(line) + 1}

\* The value of the last such option, or what holds without any.
Given(line, S, option, default) ==
  LET places == {i \in S : line[i] = option}
  IN  IF places = {} THEN default
      ELSE line[(CHOOSE i \in places : \A j \in places : j <= i) + 1]

\* What the command line asks for: a device, a configuration and a port.
Asks(line, d, f, p) ==
  \E S \in SUBSET DOMAIN line :
    LET paths == {i \in S : ~TakesValue(line[i])}
        ports == {i \in S : line[i] = PortOption}
    IN  /\ Splits(line, S)
        /\ \A i \in paths : line[i] \notin Flags
        /\ \A i \in ports : /\ line[i + 1] \in DOMAIN PortOf
                             /\ PortOf[line[i + 1]] \in PortNumber
        /\ {line[i] : i \in paths} \ {NoPath} = {d}
        /\ \A i, j \in paths : i < j => line[i] = NoPath
        /\ f = Given(line, S, ConfigOption, NoPath) /\ f # NoPath
        /\ IF ports = {} THEN p = DefaultWebSocketPort
           ELSE p = PortOf[Given(line, S, PortOption, NoPath)]

\* The process goes on with what its command line asks for, in whatever order
\* options, values and paths come and however often they are repeated, and it
\* refuses exactly the lines that ask for nothing or for two devices.
ArgumentsAreRead ==
  \A c \in Cockpits :
    /\ phase[c] \notin {"arguments", "usage"}
         => Asks(argv[c], device[c], config[c], port[c])
    /\ phase[c] = "usage" =>
         \A i, j \in DOMAIN argv[c] :
           \A p \in {DefaultWebSocketPort} \cup
                     {PortOf[text] : text \in DOMAIN PortOf} :
             ~Asks(argv[c], argv[c][i], argv[c][j], p)

\* Whom the cache trusts is unambiguous: a cockpit past its configuration knows
\* every vehicle of it, each by an identifier and an address of its own, so that
\* a report's source names one vehicle.
TrustIsUnambiguous ==
  \A c \in Cockpits :
    phase[c] \in {"device", "listen", "udp", "running"} =>
      LET known == addresses[c]
      IN  /\ {<<v, known[v]>> : v \in DOMAIN known} =
               {<<vehicle.vehicle_id, AddressOf[vehicle.ip]>> :
                  vehicle \in {Vehicles(c)[i] : i \in DOMAIN Vehicles(c)}}
          /\ Cardinality({known[v] : v \in DOMAIN known}) = Len(Vehicles(c))
=============================================================================
