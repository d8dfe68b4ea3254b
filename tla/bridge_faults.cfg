SPECIFICATION FairSpec
CONSTANTS
  j1 = j1
  Joint = {j1}
  TicksPerUnit <- OneTpu
  Sign <- OneSign
  DriveZero <- OneZero
  PosMin <- OneMin
  PosMax <- OneMax
  MaxStep <- OneStep
  FirstTol <- OneTol
  SyncTol <- OneTol
  MaxTracking <- OneTracking
  WatchdogTicks = 1
  WkcFaultCycles = 2
  StateFaultCycles = 2
  TimingFaultCycles = 2
  PrimeCycles = 2
  GraceCycles = 1
  AllowMotion = TRUE
  Candidates <- OneFew
  Seqs = {0}
  Poses <- OneStill
  Reports <- AllReports
  Disturbances <- Everything
  MaxMove = 1
  MaxStall = 1
  MaxBurst = 1
INVARIANTS
  FrameMatchesState
  StreakAtLimitIsFault
  MarkerOnlyAfterPriming
PROPERTIES
  FaultLatched
  SilenceEndsInHold
  BadFramesEndInFault
