CONSTANTS
  Configs <- RetryConfigs
  AutoProfiles = 1
  Cap = 3
SPECIFICATION HSpec
PROPERTIES
  RetryPeriodAfterFailure
