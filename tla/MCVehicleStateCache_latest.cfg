SPECIFICATION Spec
CONSTANTS
  VehicleAddress <- OneVehicle
  OnlineTimeout = 2
  SeqMod = 8
  Reporters <- Alone
  MaxReports = 3
  MaxEpoch = 0
  MaxTime = 3
PROPERTY KeepsLatest
CHECK_DEADLOCK FALSE
