CONSTANTS
  a1 = a1
  a2 = a2
  a3 = a3
  c1 = c1
  c2 = c2
  None = None
  Address = {a1, a2, a3}
  Creators = {a1}
  CredentialId = {c1}
  CacheEntry <- MCCacheEntry
  MaxSliceCount = 1
  U32_MAX = 1000
  MAX_ATTESTORS_PER_SLICE = 3
  SliceInputs <- OneSlice
  NewWeights = {}
  NewThresholds = {}
  NewMembers = {}
  Suspendable = {}
  WeightingSettings = {TRUE}
  NewMaxAttestors = {}
  MaxTime = 3
  DelegationExpiries <- NoExpiry
  Delegates = {}
  Subject <- MCSubject
  Issuer <- MCIssuer
  TypeOf <- MCTypeOf
  DEFAULT_VERIFICATION_CACHE_TTL = 2
  GracePeriod = 2
  MaxCacheExpiry = 5
  MaxRecords = 2
  Values = {TRUE}
  AttestExpiries <- ExpiryOrNone
  RenewedExpiries = {2}
  AttestationDeadlines = {1}
  Windows <- MCWindows
  ReleaseTimes = {1}
  CacheTtls = {0}
  BatchIds = {}
  IssuedExpiries <- ExpiryOrNone
  IndependenceSettings = {}
  Policies <- MCPolicies
SPECIFICATION AttestationSpec
INVARIANTS
  DeadCredentialNotServed
  StalenessBounded
