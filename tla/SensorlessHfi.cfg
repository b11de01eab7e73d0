SPECIFICATION LiveSpec
CONSTANTS
  Modes = {"FULL"}
  HfiEnable = TRUE
  Fallback = TRUE
  AlignCycles = 1
  RampCycles = 1
  RampTimeout = 4
  IfHold = 1
  IqHold = 1
  TravelEnd = 2
  LockDwell = 1
  LockTimeout = 1
  BlendCycles = 1
  HfiDwell = 1
  HfiTimeout = 3
  UnlockDwell = 2
  StopDwell = 2
  StopTimeout = 3
  RunTest = 2
  TotalTimeout = 9
  CycleCap = 5
  Preemptible = FALSE
INVARIANTS
  TypeOK
PROPERTIES
  StartEnds
  StopEnds
