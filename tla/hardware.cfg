SPECIFICATION FairSpec
CONSTANTS
  NumMotors = 2
  Faults = {"noise", "reopen", "closed"}
  MaxFaults = 1
  Speeds <- TwoSpeeds
  Inverted <- SecondOnly
INVARIANTS TypeOK OneSender InactiveMeansStopped ReadAsVelocity
PROPERTIES CommandArrives DeactivateReturns
CHECK_DEADLOCK FALSE
