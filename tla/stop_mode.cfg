SPECIFICATION Spec
CONSTANTS
  NumMotors = 1
  Faults = {}
  MaxFaults = 0
  Commands <- LoopCommands
  Timeout = 1
  QueryPeriod = 2
  ControlPeriod = 1
  CheckPeriod = 2
  SlotTime = 0
  ReopenTime = 2
  AgeCap = 4
INVARIANTS
  StopIsBrake
