CONSTANTS
  a1 = a1
  a2 = a2
  a3 = a3
  Address = {a1, a2, a3}
  Creators = {a1}
  CredentialId <- MCCredentialId
  CacheEntry = {verdict}
  None = None
  MaxSliceCount = 1
  U32_MAX = 1000
  MAX_ATTESTORS_PER_SLICE = 3
  SliceInputs <- MCSliceInputs
  NewWeights = {0, 2, 1000}
  NewThresholds = {1, 60}
  NewMembers = {a3}
  Suspendable = {}
  WeightingSettings = {}
  NewMaxAttestors = {2}
SPECIFICATION SliceSpec
INVARIANTS
  SliceTypeOK
  ThresholdAchievable
PROPERTIES
  ThresholdChangeInvalidates
