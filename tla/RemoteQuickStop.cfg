SPECIFICATION LiveSpec
CONSTANTS
  Hosts = {}
  QuickStopOption = 2
  DisableOption = 3
  FaultOption = 4
  LocalStop = 0
  LocalErrStop = 0
PROPERTY QuickStopStops
