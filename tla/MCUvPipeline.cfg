SPECIFICATION FairSpec
CONSTANTS
  Workers = {w1, w2}
  Reqs <- MCReqs
  Exit = Exit
  CatBuf = 2
  PipeCap = 3
  BufLen = 2
  Batch = 2
  OutCap = 1
  Disk = {1, 5}
  Input <- MCInput
INVARIANTS Inv Copies
PROPERTIES KeepsPromise Ends
