CONSTANTS
  a1 = a1
  a2 = a2
  a3 = a3
  c1 = c1
  c2 = c2
  None = None
  Address = {a1, a2, a3}
  Creators = {a1}
  CredentialId = {c1}
  CacheEntry <- MCCacheEntry
  MaxSliceCount = 1
  U32_MAX = 1000
  MAX_ATTESTORS_PER_SLICE = 3
  SliceInputs <- OneSlice
  NewWeights = {2}
  NewThresholds = {1, 2}
  NewMembers = {a1}
  Suspendable = {}
  WeightingSettings = {}
  NewMaxAttestors = {}
  MaxTime = 0
  DelegationExpiries <- NoExpiry
  Delegates = {a3}
  Subject <- MCSubject
  Issuer <- MCIssuer
  TypeOf <- MCTypeOf
  DEFAULT_VERIFICATION_CACHE_TTL = 0
  GracePeriod = 0
  MaxCacheExpiry = 0
  MaxRecords = 2
  Values = {TRUE, FALSE}
  AttestExpiries <- NoExpiry
  RenewedExpiries = {}
  AttestationDeadlines = {}
  Windows = {}
  ReleaseTimes = {}
  CacheTtls = {}
  BatchIds = {c1}
  IssuedExpiries <- NoExpiry
  IndependenceSettings = {TRUE}
  Policies = {}
SPECIFICATION AttestationSpec
INVARIANTS
  NoEquivocation
  
  AttestPairsCountedOnce
  AttestationTypeOK
PROPERTIES
  CapturedWeightImmutable
