SPECIFICATION Spec
CONSTANTS
  HoldDuration = 2
  RotationTimeout = 5
  RotationThreshold = 1
  VehicleAddress <- TwoTrucks
  OnlineTimeout = 1
  SeqMod = 7
  truck_01 = truck_01
  truck_02 = truck_02
  NoVehicle = NoVehicle
  Manners <- Checked
INVARIANTS TypeOK EntersOnRequest ReleaseIsTold  RequestIsHonoured
SYMMETRY Symmetry
CHECK_DEADLOCK FALSE
