CONSTANTS
  MaxRuns = 1
  Configs <- TaskOnly
  Trajectory <- There
  Tolerance = 0
  MaxStep = 1
  Sign <- Reversed
  Zero = 2
  Poses = {0, 2}
  Hazards = {"restart"}
SPECIFICATION FairSessions
PROPERTIES StartsFromMeasuredPose
CHECK_DEADLOCK FALSE
