SPECIFICATION MCFairSpec
CONSTANTS
  HoldDuration = 2
  RotationTimeout = 5
  RotationThreshold = 1
  VehicleAddress <- OneTruck
  OnlineTimeout = 2
  SeqMod = 4
  Ids <- TruckAndUnknown
  NoVehicle = NoVehicle
  Frames <- Inputs
  Reports <- Arriving
  ControlInterval = 1
  ListInterval = 2
  Start = 2
  MaxTime = 4
  MaxClicks = 1
  MaxMessages = 1
  MaxSession = 2
INVARIANTS GeneratorFollowsCache IdleIsClean LostDeviceIsNeutral
PROPERTIES CommandsReachOnlineVehicles DisconnectReleases SilenceReleases
CHECK_DEADLOCK FALSE
