CONSTANTS
  Client = {c1, c2}
  Msg = {"m"}
  Scripts <- MCScripts
  CmdSize = 3
  MaxHeard = 1
SPECIFICATION ServerFairSpec
INVARIANTS
  LinesHandled
  EveryLineCounts
  SameNews
PROPERTIES
  AllIsRead
