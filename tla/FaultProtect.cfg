SPECIFICATION LiveSpec
CONSTANTS
  Errors <- MCErrors
  Warnings <- MCTwoWarnings
  NoFault = NoFault
  PwmErrors <- MCPwm
  MainErrors <- MCMain
  InfoMax = 2
  Preemptible = FALSE
INVARIANTS
  TypeOK
  ErrorIsNamed
  SupremeStays
PROPERTIES
  LatchSpec
  WarningsRecover
  ResetAnswered
