SPECIFICATION Spec
CONSTANTS
  k1 = k1
  k2 = k2
  Keys <- TwoKeys
  Off = off
  Intervals <- SomeIntervals
  Offsets <- SomeOffsets
  FutureClamp = 3
  MaxTime = 3
INVARIANTS
  TypeOK
  NoLostWakeup
PROPERTIES
  ImplementsTimers
SYMMETRY Symmetry
