CONSTANTS
  W = 2
  H = 2
  Far = 100
  ColourSpace = 8
  MaxAlpha = 2
  FragMax = 4
  ZSpace = 4
  BlockThreads = 2
  MaxVerts = 6
  MaxTris = 2
  MaxCommands = 2
  ClearColours = {0}
  Meshes <- EmptyMeshes
  HostTriangles = {}
SPECIFICATION Spec
PROPERTIES GoldenSpec
CHECK_DEADLOCK FALSE
