SPECIFICATION Spec
CONSTANTS
  VehicleAddress <- OneVehicle
  OnlineTimeout = 2
  SeqMod = 2
  Reporters <- WithNamesakes
  MaxReports = 3
  MaxEpoch = 1
  MaxTime = 4
INVARIANT OnlineIsHeard
PROPERTIES NoStepBackWhileOnline BlackoutBounded
CHECK_DEADLOCK FALSE
