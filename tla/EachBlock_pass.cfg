CONSTANTS
  NDirect = 2
  PtrsPerBlk = 2
  BlocksCount = 28
  Files <- AllFiles
SPECIFICATION FairSpec
INVARIANTS YieldsAreData Bounded InFileOrder DenseIsComplete
PROPERTY Terminates
