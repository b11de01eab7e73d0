CONSTANTS
  Watchdog = 2
  MaxRun = 3
  Wrap = 4
  Modes = {"bounded", "travel", "probe"}
  Preemptible = TRUE
SPECIFICATION LiveSpec
INVARIANTS
  TypeOK
  RunBounded
  BeatAfterRelease
PROPERTIES
  OwnershipSpec
  RunEnds
  RequestAnswered
