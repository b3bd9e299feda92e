CONSTANTS
  p1 = p1
  p2 = p2
  d1 = d1
  d2 = d2
  Procs = {p1, p2}
  Dests = {d1}
  BlockSize = 2
  SaveEvery = 2
  Text <- Str
  Files <- DenseAndSurplus
SPECIFICATION FairSpec
INVARIANT FinishedIsComplete
PROPERTIES KeepsPromise RunEnds
