CONSTANTS
  Lanes = {0}
  ImemWords = 3
  NumWarps = 8
  Body <- LoopBody
  Programs <- LoopPrograms
  Entries = {0}
  BlockSizes = {5}
SPECIFICATION FairSpec
INVARIANTS InFlightOnce
PROPERTIES NoStarvation
