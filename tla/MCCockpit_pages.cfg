SPECIFICATION MCPagesSpec
CONSTANTS
  HoldDuration = 2
  RotationTimeout = 5
  RotationThreshold = 1
  VehicleAddress <- OneTruck
  OnlineTimeout = 2
  SeqMod = 4
  Ids <- TruckAndUnknown
  NoVehicle = NoVehicle
  Frames <- Throttle
  Reports <- Arriving
  ControlInterval = 1
  ListInterval = 2
  Start = 2
  MaxTime = 4
  MaxClicks = 1
  MaxMessages = 1
  MaxSession = 2
INVARIANT PageOwnsSelection
CHECK_DEADLOCK FALSE
