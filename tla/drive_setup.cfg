CONSTANTS
  N = 2
  Positions <- Places
  PrimeCycles = 4
  FaultCycles = 2
  WkcFaultCycles = 2
  HandedOver = {TRUE, FALSE}
  Hazards = {"sdo", "frame", "drive", "stop"}
SPECIFICATION FairSetup
INVARIANTS HoldsStill NoFaultedReady ReadyMeansConfigured EveryExitHalts
PROPERTIES SetupEnds
