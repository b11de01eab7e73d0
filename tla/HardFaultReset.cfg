SPECIFICATION Spec
CONSTANTS
  Errors <- MCErrors
  Warnings = {}
  NoFault = NoFault
  PwmErrors <- MCPwm
  MainErrors = {}
  InfoMax = 2
  Preemptible = FALSE
INVARIANTS
  NonResettableStays
