SPECIFICATION Spec
CONSTANTS
  d1 = d1
  d2 = d2
  w1 = w1
  w2 = w2
  NoDevice = NoDevice
  Device <- TwoDevices
  Web <- OneSlot
  MaxId = 2
  Native = TRUE
  Enabled <- ThawFails
SYMMETRY Symmetry
PROPERTIES
  OnlyHolderTypes
  ImplementsBarrier
CHECK_DEADLOCK FALSE
