CONSTANTS
  BlockSize = 3
  Calls <- MCCalls
SPECIFICATION FairSpec
INVARIANTS FileComesFirst NothingIsLost NeverFarBeyond FittingFilesAreRead
PROPERTY Terminates
