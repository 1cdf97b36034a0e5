CONSTANTS
  Width = 8
  EW = 4
  MW = 3
  WarpSize = 2
  Formats = {}
  Contexts = {}
  Pairs <- MCPairs
  Registers = {}
  RootEW = 8
  RootMW = 7
  Roots <- MCRoots
  TurnEW = 8
  TurnMW = 14
  Turns = {}
  TexRequests = {}
SPECIFICATION FairSpec
PROPERTIES
  AccuracyAsDocumented
