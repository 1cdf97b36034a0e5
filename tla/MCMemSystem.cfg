CONSTANTS
  NumLines = 2
  LineWords = 2
  WordSpace = 2
  L1Sets = 1
  L2Sets = 1
  NumPorts = 2
  Requests <- SharingRequests
SPECIFICATION Spec
INVARIANTS TypeOK Handshake CleanIsMemory BoundaryEmpty
PROPERTIES GlobalSpec
