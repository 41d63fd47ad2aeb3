SPECIFICATION Spec
SYMMETRY Symmetry
CONSTANTS
  Requests = {r1, r2}
  IPs = {1, 2, 3, 4}
  Limit = 2
  MaxRefusals = 3
INVARIANTS
  TypeOK
  Bounded
  NothingLost
  OneLowest
PROPERTY
  LoudestStays
