CONSTANTS
  Configs <- AllConfigs
  AutoProfiles = 3
  Cap = 3
SPECIFICATION Spec
INVARIANTS
  TypeOK
  SessionAgreement
  SyntheticOnlyWhenAllowed
  HardwareModeHasSource
