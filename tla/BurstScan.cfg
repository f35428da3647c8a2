CONSTANTS
  LastIf = 2
  InEndpoints <- MCInEndpoints
  Tests = 3
  OpenRetries = 1
  MaxOpenFails = 2
  TopN = 2
  Got = {64}
  MaxPasses = 1
SPECIFICATION Spec
INVARIANTS
  TopIsBest
  NoTestOnLostSession
  SummaryTrue
  SettingsMatchSession
PROPERTIES
  EveryStepAdvances
  SessionSpec
