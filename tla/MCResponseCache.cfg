SPECIFICATION ObsSpec
CONSTANTS
  Keys = {k1, k2, k3}
  Values = {v1, v2}
  TTL = 2
  MaxEntries = 2
  NoEntry = NoEntry
INVARIANTS
  TypeOK
  CapacityBound
PROPERTY
  KeepsPromise
