CONSTANTS
  Msg <- MCMsg
  ResendTicks = 1
  MaxAttempts = 1
  Period = 2
  AskAt <- MCAskAt
  MaxRequests = 1
  IdleTimeout = 2
  Warning = 130
  Coolant <- MCCoolant
  MaxSaid = 4
  MaxRx = 2
SPECIFICATION FairSpec
INVARIANTS
  NoQuestionAfterAnswer
  WarningKept
PROPERTIES
  WarnsOnce
  TurnsOff
