CONSTANTS
  MaxRuns = 2
  Configs <- AllConfigs
  Trajectory <- There
  Tolerance = 0
  MaxStep = 1
  Sign <- Reversed
  Zero = 2
  Poses = {0, 2}
  Hazards = {"kill", "powercycle", "restart", "orphan"}
SPECIFICATION FairSessions
INVARIANTS ControlFollowsReady PickReadyAdmits MarkerOwned
PROPERTIES OnlyReferencedMotion NoEndlessWait
CHECK_DEADLOCK FALSE
