CONSTANTS
  Configs <- MCConfigs
  Payloads <- MCPayloads
  FrameSizes <- MCFrameSizes
SPECIFICATION Spec
INVARIANTS
  TypeOK
  NothingOutOfBounds
  HeaderHidden
  OwnStreamShown
  StereoApart
  AlignedWithIr
  AllTopicsServed
