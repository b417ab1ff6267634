------------------------ MODULE MCVehicleStateCache ------------------------
(* One configured vehicle, a second program using its name from another    *)
(* address, and a program nobody configured.                               *)
EXTENDS VehicleStateCache

OneVehicle == [v \in {"truck_01"} |-> "address_01"]

Alone == {[vehicle |-> "truck_01", source |-> "address_01"]}

WithNamesakes ==
  Alone \cup {[vehicle |-> "truck_01", source |-> "address_02"],
              [vehicle |-> "truck_02", source |-> "address_02"]}
=============================================================================
