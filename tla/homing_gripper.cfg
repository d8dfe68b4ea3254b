CONSTANTS
  Joint = {"shoulder", "gripper"}
  Last = 4
  Switch <- Switches
  LoLimit <- Lo
  HiLimit <- Hi
  HomeOffset <- Offsets
  Programs <- GripperHoming
  Required = {"gripper"}
  Strategy <- Strategies
  NeedsParked <- Clearance
  Preferred = 1
  SingleSide <- ToA
  ParkDistance = 4
  SearchDistance = 3
  BackOff = 1
  EscapeDistance = 1
  Extension = 0
  Tolerance = 1
  StartPlaces <- Everywhere
  StartZeros = {1, 3}
  Standalone = FALSE
  Hazards = {"drive"}
SPECIFICATION HSpec
INVARIANTS OneAtATime
