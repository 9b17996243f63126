SPECIFICATION Spec
CONSTANTS
  d1 = d1
  d2 = d2
  w1 = w1
  w2 = w2
  NoDevice = NoDevice
  Device <- TwoDevices
  Web <- TwoSlots
  MaxId = 1
  Native = TRUE
  Enabled <- Slow
SYMMETRY Symmetry
INVARIANTS
  TypeOK
  NoModelActWhileHuman
  FrozenWhileHuman
  RowsMatchGate
  ThawedAtRest
PROPERTIES
  ClosedRowsStayClosed
CHECK_DEADLOCK FALSE
