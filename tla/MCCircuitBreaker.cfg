CONSTANTS
  None = None
  MaxTime = 4
  MaxWrites = 4
  MaxGuards = 2
  DefaultConfig <- MCDefaultConfig
  Configs <- MCConfigs
SPECIFICATION FairSpec
INVARIANTS
  BreakerTypeOK
  DegradedWritesAreCounted
  PauseHasAnOwner
PROPERTIES
  DegradedWritesCapped
  BreakerRecovers
