SPECIFICATION MCFairSpec
CONSTANTS
  p1 = p1
  p2 = p2
  truck_01 = truck_01
  truck_02 = truck_02
  Pages <- TwoPages
  Vehicles <- TwoVehicles
  None = None
  Overlap = FALSE
  MaxSent = 2
  MaxPushed = 1
INVARIANTS PageTypeOK SelectedIsShown ChosenIsDriven
PROPERTY AbandonedIsReleased
CHECK_DEADLOCK FALSE
