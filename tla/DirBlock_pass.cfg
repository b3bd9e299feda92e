CONSTANTS
  BlockSize = 16
  RecLens = {0, 4, 8, 12, 16}
  NameLens = {0, 4, 8}
  Inodes = {1}
SPECIFICATION FairSpec
INVARIANTS AcceptedIsTiled IterAgrees ScanFailsOnHeader
PROPERTIES EditIsLocal WalksEnd
