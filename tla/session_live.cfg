SPECIFICATION FairSession
CONSTANTS
  j1 = j1
  Joint = {j1}
  TicksPerUnit <- OneTpu
  Sign <- OneSign
  DriveZero <- OneZero
  PosMin <- OneMin
  PosMax <- OneMax
  MaxStep <- OneTol
  FirstTol <- OneTol
  SyncTol <- OneTol
  MaxTracking <- OneTracking
  WatchdogTicks = 1
  WkcFaultCycles = 1
  StateFaultCycles = 1
  TimingFaultCycles = 1
  PrimeCycles = 1
  GraceCycles = 1
  AllowMotion = TRUE
  Candidates <- OneCandidate
  Seqs <- FewSeqs
  Poses <- OnePose
  Reports <- FaultReports
  Disturbances <- InterruptOnly
  MaxMove = 1
  MaxStall = 1
  MaxBurst = 1
  QueueCap = 1
  SeqCap = 2
  Commands <- None
  NonFinite = NonFinite
PROPERTIES
  InactiveEndsHalted
  FaultReachesClient
  WatchdogTripIsFinal
