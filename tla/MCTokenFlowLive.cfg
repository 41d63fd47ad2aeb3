SPECIFICATION FairSpec
CONSTANTS
  Requests = {r1, r2}
  Urls = {u1}
  Kinds = {"client", "proxy"}
  Answers = {"good", "refused"}
  TTL = 1
  Timeout = 1
  Lifetime = 2
  MaxEntries = 1
  NoEntry = NoEntry
  Background = Background
PROPERTIES
  EveryRequestEnds
  DisconnectFrees
