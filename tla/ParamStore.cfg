SPECIFICATION LiveSpec
CONSTANTS
  QueueMax = 1
  MaxEvents = 3
INVARIANTS
  TypeOK
  NoLostSave
  ResetRestoresAll
  BootSound
PROPERTIES
  SavesEnd
CHECK_DEADLOCK FALSE
