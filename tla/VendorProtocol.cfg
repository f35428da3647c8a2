CONSTANTS
  LastIf = 3
  LastEp = 3
SPECIFICATION FairSpec
INVARIANTS
  ResourcesMatchSession
  SettingsMatchSession
  ContextOutlivesHandle
  PollVerdict
PROPERTIES
  SessionSpec
  CallsReturn
