SPECIFICATION Spec
SYMMETRY Symmetry
CONSTANTS
  Requests = {r1, r2}
  Urls = {u1, u2}
  Kinds = {"client", "bypass", "blob"}
  Answers = {"tokenless", "malformed", "oversized"}
  TTL = 1
  Timeout = 1
  Lifetime = 2
  MaxEntries = 1
  NoEntry = NoEntry
  Background = Background
INVARIANTS
  CachedUsable
  
