CONSTANTS
  Configs <- HistoryConfigs
  AutoProfiles = 3
  Cap = 3
SPECIFICATION HFairSpec
INVARIANTS
  FullNoDataWindow
  StartedBeforePolled
PROPERTIES
  ResendSpacing
  CycleCoverage
