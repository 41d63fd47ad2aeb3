SPECIFICATION Spec
SYMMETRY Symmetry
CONSTANTS
  x = x
  y = y
  h1 = h1
  h2 = h2
  Requests = {r1, r2}
  Queries <- SomeQueries
  Refs = {x, y}
  Hosts = {h1, h2}
  Lives = {3, 5}
  Margin = 2
  MaxTTL = 2
  MaxLag = 1
  V2TTL = 1
  MaxBytes = 1
  Registry = Registry
  NoEntry = NoEntry
INVARIANTS
  TypeOK
  AnswerFits
  RedirectAlive
  ChargedForUpstream
