SPECIFICATION LifeSpec
CONSTANTS
  NumMotors = 2
  Faults = {}
  MaxFaults = 0
  Commands <- TwoLoops
  Timeout = 1
  QueryPeriod = 2
  ControlPeriod = 1
  CheckPeriod = 2
  SlotTime = 0
  ReopenTime = 2
  AgeCap = 6
INVARIANTS
  LifeTypeOK
  InactiveMeansStopped
  CacheFollowsMotors
  WatchdogBoundOnceChecked
  StoppedAfterActivation
  AppliedAfterActivation
PROPERTIES
  StaleOnlyAtFirst
