CONSTANTS
  LastIf = 1
  InEndpoints <- MCStreamOnly
  Tests = 5
  OpenRetries = 1
  MaxOpenFails = 2
  TopN = 1
  Got = {}
  MaxPasses = 1
SPECIFICATION FairSpec
INVARIANTS
  GivesUpInTime
PROPERTIES
  ScanEnds
