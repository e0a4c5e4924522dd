CONSTANTS
  Options <- AllOptions
  MaxRx = 2
SPECIFICATION Spec
INVARIANTS
  KeysFollowFirmware
PROPERTIES
  ImplementsPicture
  KeysFollowPicture
