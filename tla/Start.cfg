CONSTANTS
  Configured <- MCConfigured
  Profiles <- MCProfiles
  NumCandidates = 240
SPECIFICATION StartSpec
CHECK_DEADLOCK FALSE
INVARIANTS
  NoProfileTwice
  SweepsComplete
  VerdictTrue
  WholeSequence
  ScanRepeatable
