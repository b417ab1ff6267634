------------------------------ MODULE MCStartup ------------------------------
(* One process with every command line of up to five of a few arguments, one *)
(* good file and files with one mistake each; or two processes that compete  *)
(* for their ports.                                                          *)
EXTENDS Startup

CONSTANTS c1, c2

Host == {c1, c2}

Texts == {"--config", "--websocket-port", "wheel", "good", "8775"}
Lines(n) == UNION {[1 .. k -> Texts] : k \in 0 .. n}

File(id, vehicles) == [cockpit_id |-> id, vehicles |-> vehicles]
Truck(id, ip) == [vehicle_id |-> id, ip |-> ip]

SomeFiles ==
  [good |-> File("cockpit_01", <<Truck("truck_01", "ip_01"),
                                 Truck("truck_02", "ip_02")>>),
   same_ip |-> File("cockpit_01", <<Truck("truck_01", "ip_01"),
                                    Truck("truck_02", "ip_01")>>),
   same_id |-> File("cockpit_01", <<Truck("truck_01", "ip_01"),
                                    Truck("truck_01", "ip_02")>>),
   bad_ip |-> File("cockpit_01", <<Truck("truck_01", "ip_01"),
                                   Truck("truck_02", "somewhere")>>),
   bad_id |-> File("cockpit_01", <<Truck("", "ip_01")>>),
   nobody |-> File("", <<Truck("truck_01", "ip_01")>>),
   empty |-> File("cockpit_01", <<>>)]

Tail1(path) == <<"--config", path, "wheel">>
Edges ==
  {<<"", "--config", "good", "wheel">>, <<"wheel", "--config", "">>,
   <<"keyboard", "--config", "good">>, <<"wheel", "--config", "good", "--help">>,
   <<"--help">> \o Tail1("good"), <<"--config", "--help", "wheel">>} \cup
  {<<"--websocket-port", text>> \o Tail1("good") : text \in {"0", "70000"}} \cup
  {Tail1(path) : path \in DOMAIN SomeFiles \cup {"missing"}}

AllLines == Lines(5) \cup Edges
TwoCockpits == {Tail1("good"),
                <<"--websocket-port", "8775">> \o Tail1("good")}

\* A process without arguments exits at once.
Alone(line) == [c \in Host |-> IF c = c1 THEN line ELSE <<>>]

MCInit ==
  /\ argv \in {Alone(line) : line \in AllLines} \cup [Host -> TwoCockpits]
  /\ Init

MCSpec == MCInit /\ [][Next]_vars

Numbers == [t \in {"0", "8775", "70000"} |->
              CASE t = "0" -> 0 [] t = "8775" -> 8775 [] t = "70000" -> 70000]
Addresses == [t \in {"ip_01", "ip_02"} |-> t]
Ids == {"cockpit_01", "truck_01", "truck_02"}
=============================================================================
