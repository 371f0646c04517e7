SPECIFICATION MCSpec
CONSTANTS
  Numbers <- TimeNumbers
  Ticks <- TimeTicks
  Cursors <- TimeCursors
  Asks <- TimeAsks
  Top = 7
  None = None
  LastTime = 2
  LastTick = 5
INVARIANTS
  VerifiedOverTheWindow
CHECK_DEADLOCK FALSE
