CONSTANTS
  MaxFd = 2
SPECIFICATION FairSpec
PROPERTIES
  InputServed
  TimerServed
