SPECIFICATION MCSpec
CONSTANTS
  Numbers <- TimeNumbers
  Ticks <- TimeTicks
  Cursors <- TimeCursors
  Asks <- TimeAsks
  Top = 7
  None = None
  LastTime = 3
  LastTick = 5
INVARIANTS
  ExportsAreExact
  FindIsFirst
  MatchesAreCertain
  ParserFollowsSyntax
  VerdictsAreTheRange
  StallsAreCounted
  ChangesTellTheSignal
  SamplesAreSummedUp
  AnomaliesAreFound
  TimesAreMeant
CHECK_DEADLOCK FALSE
