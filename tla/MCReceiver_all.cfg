CONSTANTS
  ByteBits = 3
  Size = 8
  MaxSent = 3
  Settings <- MCSettings
SPECIFICATION FairSpec
INVARIANTS
  TypeOK
  SilentWithinMessages
PROPERTIES
  IntactDelivered
  OncePerByte
  BecomesQuiet
