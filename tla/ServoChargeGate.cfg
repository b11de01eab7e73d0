SPECIFICATION Spec
CONSTANTS
  PowerUpDelay = 1
  ChargeStep1 = 1
  SrvOnBrkDly = 1
  LooseBrakeDelay = 1
  SrvOffToBrakeDealy = 2
  SrvOffToBrakeSpd = 0
  HoldBraekDelay = 1
  Brake48V_Delay = 2
  StopSpeed = 1
  MaxSpeed = 2
  StopMode = 0
  ErrStopMode = 1
  ManualBrake = 0
  Faults = {}
  NoFault = NoFault
INVARIANTS
  ChargesWithGates
