SPECIFICATION Spec
SYMMETRY Symmetry
CONSTANTS
  Requests = {r1, r2, r3}
  Urls = {u1}
  Kinds = {"client", "proxy"}
  Answers = {"good", "malformed"}
  TTL = 2
  Timeout = 2
  Lifetime = 4
  MaxEntries = 1
  NoEntry = NoEntry
  Background = Background
INVARIANTS
  TypeOK
  NoRedundantFetch
  NoStranded
  CanceledOnlySelf
  ServedFresh
