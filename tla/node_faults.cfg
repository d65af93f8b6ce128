SPECIFICATION FairSpec
CONSTANTS
  NumMotors = 1
  Faults = {"noise", "reopen", "closed"}
  MaxFaults = 2
  Commands <- AnyCommands
  Timeout = 1
  QueryPeriod = 2
  ControlPeriod = 1
  CheckPeriod = 2
  SlotTime = 1
  ReopenTime = 1
  AgeCap = 42
INVARIANTS
  WatchdogBound
  StoppedDespiteLosses
PROPERTIES
  WatchdogStops
