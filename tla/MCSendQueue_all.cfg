CONSTANTS
  Msg = {a, b}
  ResendTicks = 2
  MaxAttempts = 3
  ClientTag <- MCClientTag
  MaxPosts = 3
  MaxWire = 2
SPECIFICATION FairSpec
INVARIANTS
  TypeOK
  ListWellFormed
  StopAndWait
  ClosedPortHasWork
PROPERTIES
  ReopenJustified
  ImplementsOutbox
  Drains
