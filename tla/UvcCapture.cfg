CONSTANTS
  MaxOpens = 2
  MaxFrames = 2
SPECIFICATION FairSpec
CHECK_DEADLOCK FALSE
INVARIANTS
  StaleFrameOnlyByRace
  FreedOnlyByRace
PROPERTIES
  SlotSpec
  CallsReturn
