CONSTANTS
  Joint = {"shoulder"}
  Last = 4
  Switch <- Switches
  LoLimit <- Lo
  HiLimit <- Hi
  HomeOffset <- Offsets
  Programs <- Verbs
  Required = {}
  Strategy <- Strategies
  NeedsParked <- Clearance
  Preferred = 1
  SingleSide <- ToA
  ParkDistance = 4
  SearchDistance = 3
  BackOff = 1
  EscapeDistance = 1
  Extension = 0
  Tolerance = 1
  StartPlaces <- Everywhere
  StartZeros = {2, 3}
  Standalone = TRUE
  Hazards = {"sdo", "drive", "interrupt"}
SPECIFICATION HSpec
PROPERTIES CommandLeavesRest
