SPECIFICATION Spec
CONSTANTS
  Packets <- Moves
  Starts <- AnyStart
  DeviceRange <- Ranges
  BufferSize = 6
  Batch = 2
  Dial = "BTN_Z"
  MaxClicks = 2
  MaxFrames = 1
INVARIANTS SeenChangesAreShown ClicksAreShown AxesFollowTheirRange
CHECK_DEADLOCK FALSE
