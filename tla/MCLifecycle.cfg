SPECIFICATION FairSpec
CONSTANTS
  Conns = {c1, c2}
  MaxCalls = 2
  UpstreamTimeout = 2
  ShutdownTimeout = 2
  NewGrace = 2
  Files <- MCFiles
  MaxFiles = 2
  Missing = Missing
  Broken = Broken
  Bad = Bad
  Unparsable = Unparsable
  Addresses <- MCAddresses
  Default <- MCDefault
CHECK_DEADLOCK FALSE
INVARIANTS
  TypeOK
  CleanExit
  AllOrNothing
  EarlierWins
PROPERTY
  ExitsAfterSignal
