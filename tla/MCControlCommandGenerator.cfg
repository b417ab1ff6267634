SPECIFICATION MCSpec
CONSTANTS
  HoldDuration = 2
  RotationTimeout = 1
  RotationThreshold = 2
  MaxTime = 4
  MaxClicks = 3
  Frames <- AllFrames
  VehicleStates <- AllStates
INVARIANTS ContinuousFollowsInput CommandEncodable ReverseLightAgrees LightGroupAgrees HoldsTrackCombo
PROPERTIES DialDecides HoldFiresOnce FreshRemoteSession
CHECK_DEADLOCK FALSE
