CONSTANTS
  MaxFd = 3
SPECIFICATION Spec
INVARIANTS
  PointersValid
  ListsConsistent
  OnlyClientsSeeStaleReadiness
