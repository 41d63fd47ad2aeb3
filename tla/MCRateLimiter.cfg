SPECIFICATION Spec
SYMMETRY Symmetry
CONSTANTS
  ip1 = ip1
  ip2 = ip2
  ip3 = ip3
  Requests = {r1, r2}
  IPs = {ip1, ip2, ip3}
  Rate <- MCRate
  Burst <- MCBurst
  MaxIPs = 2
  IdleTTL = 3
  TrimEvery = 2
  MaxLag = 1
  NoClient = NoClient
INVARIANTS
  TypeOK
  MaxIPsBound
  WithinBudget
  IdleIsFull
  OneBucket
