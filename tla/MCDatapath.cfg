CONSTANTS
  Width = 8
  EW = 4
  MW = 3
  WarpSize = 2
  Formats <- MCFormats
  Contexts <- MCContexts
  Pairs <- MCPairs
  Registers <- MCRegisters
  RootEW = 8
  RootMW = 7
  Roots <- MCRoots
  TurnEW = 8
  TurnMW = 14
  Turns <- MCTurns
  TexRequests <- MCTexRequests
SPECIFICATION Spec
INVARIANTS
  LaneAgreement
  RoundTrip
  FloatsTruncate
  OrderIsNumeric
  IntegersAreExact
  ApproximationsHold
  SamplesStayInside
