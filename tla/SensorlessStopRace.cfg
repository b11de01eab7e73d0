SPECIFICATION Spec
CONSTANTS
  Modes = {"FULL", "IF"}
  HfiEnable = FALSE
  Fallback = TRUE
  AlignCycles = 2
  RampCycles = 1
  RampTimeout = 4
  IfHold = 1
  IqHold = 2
  TravelEnd = 2
  LockDwell = 2
  LockTimeout = 3
  BlendCycles = 2
  HfiDwell = 2
  HfiTimeout = 3
  UnlockDwell = 2
  StopDwell = 2
  StopTimeout = 3
  RunTest = 3
  TotalTimeout = 16
  CycleCap = 5
  Preemptible = TRUE
PROPERTIES
  FaultStays
