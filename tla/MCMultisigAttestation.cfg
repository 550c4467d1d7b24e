CONSTANTS
  a1 = a1
  a2 = a2
  a3 = a3
  c1 = c1
  c2 = c2
  None = None
  Address = {a1, a2, a3}
  Creators = {a1}
  CredentialId = {c1}
  CacheEntry <- MCCacheEntry
  MaxSliceCount = 1
  U32_MAX = 1000
  MAX_ATTESTORS_PER_SLICE = 3
  SliceInputs <- MCSliceInputs
  NewWeights = {}
  NewThresholds = {}
  NewMembers = {}
  Suspendable = {}
  WeightingSettings = {}
  NewMaxAttestors = {}
  MaxTime = 2
  DelegationExpiries <- NoExpiry
  Delegates = {}
  Subject <- MCSubject
  Issuer <- MCIssuer
  TypeOf <- MCTypeOf
  DEFAULT_VERIFICATION_CACHE_TTL = 0
  GracePeriod = 0
  MaxCacheExpiry = 2
  MaxRecords = 2
  Values = {TRUE, FALSE}
  AttestExpiries <- NoExpiry
  RenewedExpiries = {}
  AttestationDeadlines = {}
  Windows = {}
  ReleaseTimes = {}
  CacheTtls = {}
  BatchIds = {}
  IssuedExpiries <- NoExpiry
  IndependenceSettings = {}
  Policies <- TwoOfTwo
  MaxRequests = 2
  RequiredSigners <- MCRequiredSigners
SPECIFICATION FairMultisigSpec
INVARIANTS
  MultisigTypeOK
  OutcomeIsEarned
  ApprovalIsEarned
PROPERTIES
  OutcomeIsFinal
  RequestsAreSettled
