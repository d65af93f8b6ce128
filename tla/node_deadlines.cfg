SPECIFICATION Spec
CONSTANTS
  NumMotors = 2
  Faults = {}
  MaxFaults = 0
  Commands <- TwoLoops
  Timeout = 6
  QueryPeriod = 2
  ControlPeriod = 1
  CheckPeriod = 2
  SlotTime = 1
  ReopenTime = 2
  AgeCap = 27
INVARIANTS
  TypeOK
  CommandReadAsMeant
  WatchdogReported
  ShutdownStops
  StoppedInTime
  AppliedInTime
PROPERTIES
  ImplementsSwitch
