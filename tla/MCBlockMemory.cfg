CONSTANTS
  Tpb = 3
  WarpSize = 2
  LineWords = 2
  GmemWords = 4
  SmemWords = 4
  Width = 4
  Stale = 9
  Programs <- MCPrograms
SPECIFICATION Spec
INVARIANTS
  BlockAgrees
