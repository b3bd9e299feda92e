CONSTANTS
  p1 = p1
  p2 = p2
  d1 = d1
  d2 = d2
  Procs = {p1}
  Dests = {d1, d2}
  BlockSize = 2
  SaveEvery = 2
  Text <- Str
  Files <- DenseFiles
SPECIFICATION Spec
INVARIANT FinishedIsComplete
