CONSTANTS
  BgCount = 2
  PerGroup = 5
  BlocksCount = 8
  HeadCount <- MCHeads
  Images <- MCImages
  MaxRuns = 3
  MaxKills = 1
  MaxInterrupts = 1
SPECIFICATION Spec
INVARIANT ReportIsOfThisSearch
CHECK_DEADLOCK FALSE
