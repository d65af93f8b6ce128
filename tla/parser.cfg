SPECIFICATION Spec
CONSTANTS
  Frames <- MCFrames
  Scraps <- MCScraps
  MaxPieces = 3
  ReadSize = 256
  Setup <- MCSetup
INVARIANTS TypeOK BufferIsRest DeliveredApart NoFrameMissed OnlyRepliesDelivered
PROPERTIES ImplementsSearch RepliesArrive
CHECK_DEADLOCK FALSE
