SPECIFICATION Spec
CONSTANTS
  d1 = d1
  d2 = d2
  w1 = w1
  w2 = w2
  NoDevice = NoDevice
  Device <- OneDevice
  Web <- OneSlot
  MaxId = 1
  Native = TRUE
  Enabled <- CancelAndLoss
INVARIANTS
  CaptureInv
PROPERTIES
  ValidatedIsClean
  ImplementsBarrier
CHECK_DEADLOCK FALSE
