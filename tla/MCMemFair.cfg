CONSTANTS
  NumLines = 2
  LineWords = 1
  WordSpace = 2
  L1Sets = 1
  L2Sets = 1
  NumPorts = 3
  Requests <- BusyRequests
SPECIFICATION FairSpec
PROPERTIES Answered FlushEnds
