CONSTANTS
  a1 = a1
  a2 = a2
  a3 = a3
  c1 = c1
  c2 = c2
  None = None
  Address = {a1, a2, a3}
  Creators = {a1}
  CredentialId = {c1}
  CacheEntry <- MCCacheEntry
  MaxSliceCount = 2
  U32_MAX = 1000
  MAX_ATTESTORS_PER_SLICE = 3
  SliceInputs <- TwoSlices
  NewWeights = {}
  NewThresholds = {1, 2}
  NewMembers = {}
  Suspendable = {}
  WeightingSettings = {}
  NewMaxAttestors = {}
  MaxTime = 0
  DelegationExpiries <- NoExpiry
  Delegates = {}
  Subject <- MCSubject
  Issuer <- MCIssuer
  TypeOf <- MCTypeOf
  DEFAULT_VERIFICATION_CACHE_TTL = 1
  GracePeriod = 0
  MaxCacheExpiry = 1
  MaxRecords = 2
  Values = {TRUE, FALSE}
  AttestExpiries <- NoExpiry
  RenewedExpiries = {}
  AttestationDeadlines = {}
  Windows = {}
  ReleaseTimes = {}
  CacheTtls = {}
  BatchIds = {}
  IssuedExpiries <- NoExpiry
  IndependenceSettings = {}
  Policies = {}
SPECIFICATION AttestationSpec
INVARIANTS
  DeadCredentialNotServed
  ServedVerdictWasEarned
  CapturedWeightOnRecord
  NoEquivocation
PROPERTIES
  SliceSpec
