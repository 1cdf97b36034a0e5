CONSTANTS
  NumCU = 3
  GridSizes = {0, 1, 2, 4, 5}
  Descriptors <- MCDescriptors
  Magic = 1
  ImemWords = 6
  CbankWords = 2
  GmemWords = 10
  BlockThreads = 2
  Sessions <- MCSessions
SPECIFICATION HostFairSpec
INVARIANTS TypeOK SessionAgrees OwnGrid
PROPERTIES GridSpec Returns
