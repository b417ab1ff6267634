SPECIFICATION Spec
CONSTANTS
  HoldDuration = 2
  RotationTimeout = 5
  RotationThreshold = 1
  VehicleAddress <- TwoTrucks
  OnlineTimeout = 1
  SeqMod = 7
  truck_01 = truck_01
  truck_02 = truck_02
  NoVehicle = NoVehicle
  Manners <- Hasty
INVARIANTS RequestIsHonoured
CHECK_DEADLOCK FALSE
