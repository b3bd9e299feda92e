CONSTANTS
  Procs = {p, q}
  Cells = {0, 1, 2, 3, 4}
  Vals = {0, 1, 2}
  Image0 <- MCImage
  Ahead = 3
  Inodes = {1}
  NBlock = 1
  BlockEdits <- MCBlockEdits
  EntryEdits <- MCEntryEdits
  Entries <- MCEntries
  Searches = {"isearch"}
  Hits <- MCHits
  MaxOpens = 2
  MaxEdits = 2
  MaxKills = 1
SYMMETRY Symmetry
SPECIFICATION Spec
INVARIANTS OwnEditsAreSeen ShownIsWritten SearchIsExplained
PROPERTY KeepsPromise
CHECK_DEADLOCK FALSE
