SPECIFICATION LiveSpec
CONSTANTS
  Hosts = {"scope"}
  QuickStopOption = 2
  DisableOption = 3
  FaultOption = 4
  LocalStop = 0
  LocalErrStop = 0
INVARIANTS
  TypeOK
  DisableStops
PROPERTIES
  OptionHonoured
  SuspendedWaits
  PendingAnswered
