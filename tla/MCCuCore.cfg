CONSTANTS
  Lanes = {0, 1}
  ImemWords = 5
  NumWarps = 2
  Body <- MemBody
  Programs <- BlockPrograms
  Entries = {0}
  BlockSizes = {1, 3, 4}
SPECIFICATION FairSpec
INVARIANTS TypeOK LiveInFlight DecisionHolds DoneIsFinal
PROPERTIES WarpsAreSerial BarrierSpec Completes
