CONSTANTS
  Msg = {a, b}
  ResendTicks = 2
  MaxAttempts = 3
  ClientTag <- MCClientTag
  MaxPosts = 2
  MaxWire = 1
SPECIFICATION Spec
PROPERTIES
  SyncWaitsForEcho
