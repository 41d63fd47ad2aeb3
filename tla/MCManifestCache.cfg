SPECIFICATION Spec
CONSTANTS
  small = small
  middle = middle
  large = large
  huge = huge
  Keys = {k1, k2, k3, k4, k5}
  Values = {small, middle, large, huge}
  Size <- Sizes
  MaxBytes = 4
  NoEntry = NoEntry
INVARIANTS
  TypeOK
  Accounted
  MemoryBound
PROPERTY
  EvictsColdest
