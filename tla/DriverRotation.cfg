CONSTANTS
  Configs <- RotateConfigs
  AutoProfiles = 4
  Cap = 3
SPECIFICATION HSpec
PROPERTIES
  RotatesThroughProfiles
