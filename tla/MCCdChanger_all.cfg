CONSTANTS
  Msg <- MCOwn
  ResendTicks = 2
  MaxAttempts = 1
  Settings <- MCSettings
  MaxRx = 2
SPECIFICATION FairSpec
INVARIANTS
  TimerSound
  StatusAgrees
  CommandWins
PROPERTIES
  FallsSilent
