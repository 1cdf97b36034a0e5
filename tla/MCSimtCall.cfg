CONSTANTS
  Lanes = {l1, l2}
  ImemWords = 4
  StackDepth = 3
  IssPcSpace = 64
  CodeSize = 4
  Ops = {"ALU", "CALL"}
  LastOps = {"EXIT"}
  Programs <- AllPrograms
SPECIFICATION LSpec
INVARIANTS BitExact
CHECK_DEADLOCK FALSE
SYMMETRY LaneSymmetry
