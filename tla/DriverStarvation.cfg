CONSTANTS
  Configs <- StarveConfigs
  AutoProfiles = 3
  Cap = 3
SPECIFICATION HFairSpec
PROPERTIES
  RotationReachesAll
