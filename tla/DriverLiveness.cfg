CONSTANTS
  Configs <- LiveConfigs
  AutoProfiles = 3
  Cap = 3
  MaxSetBacks = 1
  MaxBack = 1
SPECIFICATION CFairSpec
PROPERTIES
  Recovery
  StreamPriority
