CONSTANTS
  BgCount = 2
  PerGroup = 4
  BlocksCount = 6
  HeadCount <- MCHeads
  Images <- MCImages
  MaxRuns = 2
  MaxKills = 1
  MaxInterrupts = 1
  Width = 3
  Ahead = 1
  MaxGreps = 1
SPECIFICATION GrepSpec
INVARIANTS ResultsAreExact OneLostEach MarksAreKept GrepMissesNoData ProgressIsDefined
PROPERTY BothEnd
CHECK_DEADLOCK FALSE
