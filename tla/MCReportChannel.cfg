SPECIFICATION ChannelSpec
CONSTANTS
  Noise <- Junk
  Burst = 2
  Spacing = 8
  Hurry = 4
  Period = 16
  SocketSize = 6
  ControlInterval = 4
  PollTimeout = 4
  VehicleOnlineTimeout = 29
  Busy = 12
INVARIANTS ChannelTypeOK SendsOnTime StaysOnline
