CONSTANTS
  Modes = {"joint_states", "controller"}
  Cubes <- TwoCubes
  Tolerance = 1
  RequirePickReady = TRUE
  Depth = 2
  StateDepth = 2
SPECIFICATION FairSpec
INVARIANTS TypeOK BusyMeansBusy
PROPERTIES StreamIsContinuous StartsNearRobot CycleEnds
