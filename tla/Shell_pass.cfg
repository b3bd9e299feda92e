CONSTANTS
  Procs = {p1, p2}
  p1 = p1
  p2 = p2
  InodeCount = 6
  Names <- MCNames
  Shown <- MCShown
  Lower <- MCLower
  Number <- MCNumber
  Images <- MCImages
  LsArgs <- MCLsArgs
  RecursionLimit = 3
  MaxUp = 3
SPECIFICATION FairSpec
INVARIANTS TypeOK PathLeadsBack ShellLives
PROPERTY CommandsEnd
