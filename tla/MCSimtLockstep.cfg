CONSTANTS
  Lanes = {l1, l2, l3}
  ImemWords = 4
  StackDepth = 5
  IssPcSpace = 64
  CodeSize = 4
  Ops = {"BRA", "SSY", "SYNC"}
  LastOps = {"EXIT"}
  Programs <- AllPrograms
SPECIFICATION LFairSpec
INVARIANTS TypeOK DepthBound FrameBudget ResumePoint NoLaneLost BitExact
PROPERTIES ThreadsSpec Terminates
CHECK_DEADLOCK FALSE
