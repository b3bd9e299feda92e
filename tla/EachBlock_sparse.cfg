CONSTANTS
  NDirect = 2
  PtrsPerBlk = 2
  BlocksCount = 28
  Files <- SparseFiles
SPECIFICATION FairSpec
INVARIANTS SparseIsComplete
