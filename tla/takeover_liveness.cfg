SPECIFICATION LiveSpec
CONSTANTS
  d1 = d1
  d2 = d2
  w1 = w1
  w2 = w2
  NoDevice = NoDevice
  Device <- OneDevice
  Web <- OneSlot
  MaxId = 1
  Native = TRUE
  Enabled <- Slow
PROPERTIES
  HandlersAnswer
  LapsedHoldEnds
CHECK_DEADLOCK FALSE
