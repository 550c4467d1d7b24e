CONSTANTS
  a1 = a1
  a2 = a2
  a3 = a3
  a4 = a4
  Address = {a1, a2, a3, a4}
  Creators = {a1}
  CredentialId = {c1}
  CacheEntry = {}
  None = None
  MaxSliceCount = 1
  U32_MAX = 1000
  MAX_ATTESTORS_PER_SLICE = 3
  SliceInputs <- MCSliceInputs
  NewWeights = {1}
  NewThresholds = {}
  NewMembers = {a1}
  Suspendable = {}
  WeightingSettings = {}
  NewMaxAttestors = {}
  MaxTime = 2
  DelegationExpiries <- MCDelegationExpiries
  Delegates = {a1, a3, a4}
SPECIFICATION HistorySpec
INVARIANTS
  DelegationTypeOK
  RevokedDelegateStaysOut
  RemovedMemberStaysOut
