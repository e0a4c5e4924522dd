CONSTANTS
  Kinds <- AllKinds
  Second = 1
  IdleSeconds = 2
  BootTicks = 4
  BootLate = 2
  LedTicks = 2
  MaxMessages = 3
SPECIFICATION FairSpec
INVARIANTS
  TypeOK
  LitIsTimed
  PowerOffJustified
PROPERTIES
  BootIsLongPress
  ImplementsPicture
  LedsGoOut
