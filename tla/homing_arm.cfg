CONSTANTS
  Joint = {"upper", "lower"}
  Last = 4
  Switch <- Switches
  LoLimit <- Lo
  HiLimit <- Hi
  HomeOffset <- Offsets
  Programs <- ArmHoming
  Required = {"upper", "lower"}
  Strategy <- Strategies
  NeedsParked <- Clearance
  Preferred = 1
  SingleSide <- ToA
  ParkDistance = 4
  SearchDistance = 3
  BackOff = 1
  EscapeDistance = 1
  Extension = 1
  Tolerance = 0
  StartPlaces <- Everywhere
  StartZeros = {2, 3}
  Standalone = FALSE
  Hazards = {"sdo", "drive", "interrupt"}
SPECIFICATION FairHoming
INVARIANTS HomedMeansReferenced NothingLeftRunning LimitsRestored
PROPERTIES ClearanceKept HomingEnds
