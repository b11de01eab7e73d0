CONSTANTS
  Watchdog = 2
  MaxRun = 3
  Wrap = 4
  Modes = {"bounded", "full"}
  Preemptible = TRUE
SPECIFICATION Spec
INVARIANT JlinkBounded
