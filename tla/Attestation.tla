---------------------------- MODULE Attestation ----------------------------
(***************************************************************************)
(* Attestation of credentials by quorum slices, on top of the slices and   *)
(* delegations of module SliceDelegation: attest, batch_attest and         *)
(* renew_attestation, the conditions a credential's issuer and the admin   *)
(* may put on them, and the verdict is_attested with its cache.            *)
(*                                                                         *)
(* The credentials are issued beforehand.  Of their lifecycle only what    *)
(* the verdict reads is kept here: revoked, suspended and expires_at (the  *)
(* indexes and the revocation workflow are module CredentialLifecycle's).  *)
(*                                                                         *)
(* Left out: the counters and histories that no decision reads             *)
(* (AttestorCount, holder activity, notifications, consensus history), the *)
(* rate limit, BBS+ credentials, and nested slices (no call of the         *)
(* contract creates the NestedSliceNode they need).                        *)
(***************************************************************************)
EXTENDS SliceDelegation

CONSTANTS
  Subject, Issuer,       \* the parties of each credential
  TypeOf,                \* credential type of each credential
  DEFAULT_VERIFICATION_CACHE_TTL,
  GracePeriod,           \* of every credential type
  MaxCacheExpiry,        \* bound: expiry of cache entries
  MaxRecords,            \* bound: attestation records per credential
  \* The arguments that calls are made with:
  Values,                \* attestation values
  AttestExpiries,        \* expires_at of attest and batch_attest, None included
  RenewedExpiries,       \* new expiries of renew_attestation and the credential renewals
  AttestationDeadlines,  \* set_attestation_expiry
  Windows,               \* set_attestation_window, [start, end]
  ReleaseTimes,          \* set_attestation_time_lock
  CacheTtls,             \* set_verification_cache_ttl
  BatchIds,              \* credentials that batch_attest is called for
  IssuedExpiries,        \* expires_at that credentials are issued with, or None
  IndependenceSettings,  \* enable_ and disable_attestor_independence
  Policies               \* set_attestation_policy, [threshold, window_seconds]

CredentialType == {TypeOf[c] : c \in CredentialId}

ASSUME AttestationConstants ==
  /\ Subject \in [CredentialId -> Address]
  /\ Issuer \in [CredentialId -> Address]
  /\ DOMAIN TypeOf = CredentialId
  /\ GracePeriod \in Nat
  /\ MaxCacheExpiry \in Nat
  /\ CacheTtls \cup {DEFAULT_VERIFICATION_CACHE_TTL} \subseteq 0..(MaxCacheExpiry - MaxTime)
  /\ MaxRecords \in Nat
  /\ Values \subseteq BOOLEAN
  /\ AttestExpiries \cup IssuedExpiries \subseteq Nat \cup {None}
  /\ BatchIds \subseteq CredentialId
  /\ IndependenceSettings \subseteq BOOLEAN
  /\ RenewedExpiries \cup AttestationDeadlines \cup ReleaseTimes \subseteq Nat
  /\ Windows \subseteq [start : Nat, end : Nat]
  /\ Policies \subseteq [threshold : Nat, window_seconds : Nat]
  /\ None \notin Windows \cup Policies
  /\ CacheEntry = [is_attested : BOOLEAN, expires_at : 0..MaxCacheExpiry]

VARIABLES
  credentials,          \* Credential(id), the fields read by the verdict
  records,              \* Attestors(id): the attestation records
  attestationWeight,    \* AttestationWeight(id, slice, attestor)
  credentialSlices,     \* CredentialSlices(id)
  attestationCount,     \* CredentialAttestationCount(id)
  conditions,           \* AttestationExpiry(id), AttestationWindow(id), TimeLock(id)
  attestationPolicy,    \* AttestationPolicy(type)
  multisigApproved,     \* ids with MultisigAttestationApproved set
  config,               \* AttestorIndependenceEnabled, VerificationCacheTtl
  reputation            \* AttestorReputation(attestor).score

recordVars == <<records, attestationWeight, credentialSlices, attestationCount, reputation>>
conditionVars == <<conditions, attestationPolicy, multisigApproved, config>>
attestationVars == <<credentials, recordVars, conditionVars>>
vars == <<sliceVars, delegationVars, attestationVars>>

\* What slices and delegations own apart from the cache.
lowerVars == <<slices, suspendedAttestor, maxAttestors, delegationVars>>

Record == [attestor : Address, value : BOOLEAN, expires_at : Nat \cup {None}]

----------------------------------------------------------------------------
(* What the verdict is computed from. *)

REPUTATION_REWARD == 1

\* A positive record that has not expired.
Live(rec) == rec.value /\ ~Passed(rec.expires_at)

\* Mutant of WeightOf: a record for another slice counts with the member's weight.
WeightOfAnySlice(c, s, rec) ==
  IF rec.attestor \in Members(s) THEN 1 ELSE 0

\* Weight of one record towards slice s: the weight captured when it was made,
\* which also shows that it was made for s.
WeightOf(c, s, rec) ==
  LET w == attestationWeight[c][s][rec.attestor] IN
  IF w = None \/ <<s, rec.attestor>> \in suspendedAttestor THEN 0
  ELSE IF slices[s].reputation_weighting_enabled THEN (w * reputation[rec.attestor]) \div 100
  ELSE w

total_attested_weight(c, s) ==
  Saturate(SumFunction([i \in DOMAIN records[c] |->
    IF Live(records[c][i]) THEN WeightOf(c, s, records[c][i]) ELSE 0]))

\* Current weights of the candidates that are members and not suspended.
is_quorum(s, candidates) ==
  LET sl == slices[s] IN
  Saturate(SumFunction([i \in DOMAIN sl.attestors |->
    IF sl.attestors[i] \in candidates /\ <<s, sl.attestors[i]>> \notin suspendedAttestor
    THEN sl.weights[i] ELSE 0])) >= required_weight(sl)

LiveAttestors(c) ==
  {records[c][i].attestor : i \in {j \in DOMAIN records[c] : Live(records[c][j])}}

\* With several attesting slices, the attestors must be a quorum of each.
verify_credential_intersection(c) ==
  Cardinality(credentialSlices[c]) > 1
  => \A s \in credentialSlices[c] : is_quorum(s, LiveAttestors(c))

is_multisig_approved(c) ==
  attestationPolicy[TypeOf[c]] # None => c \in multisigApproved

is_time_locked(c) == conditions[c].release_at # None /\ now < conditions[c].release_at

\* Mutant of NotAttestable: deadlines are not looked at.
NotAttestableNow(c) ==
  credentials[c].revoked \/ credentials[c].suspended \/ is_time_locked(c)

\* Early returns of is_attested: false, and the answer is not cached.
NotAttestable(c) ==
  \/ credentials[c].revoked
  \/ credentials[c].suspended
  \/ is_time_locked(c)
  \/ Passed(credentials[c].expires_at)
  \/ Passed(conditions[c].attestation_expiry)

Quorum(c, s) ==
  /\ total_attested_weight(c, s) >= required_weight(slices[s])
  /\ is_multisig_approved(c)
  /\ verify_credential_intersection(c)

----------------------------------------------------------------------------
(* The verdict and its cache. *)

Fresh(c, s) == verificationCache[c][s] # None /\ now < verificationCache[c][s].expires_at

\* The answer of is_attested in the current state.
Answer(c, s) ==
  IF Fresh(c, s) THEN verificationCache[c][s].is_attested
  ELSE ~NotAttestable(c) /\ Quorum(c, s)

set_verification_cache(c, s, verdict) ==
  SetEntry(c, s, [is_attested |-> verdict, expires_at |-> now + config.cache_ttl])

\* A call that finds a fresh entry changes nothing; neither does one that
\* returns early.
is_attested(c, s) ==
  /\ s \in DOMAIN slices
  /\ ~Fresh(c, s)
  /\ ~NotAttestable(c)
  /\ set_verification_cache(c, s, Quorum(c, s))
  /\ UNCHANGED <<lowerVars, attestationVars>>

\* Stores the answer whatever it is, also when is_attested returned early, which
\* it may do before it looks for the slice.  One call takes a list of pairs; it
\* is the sequence of its single-pair calls.
warm_verification_cache(c, s) ==
  /\ s \in DOMAIN slices \/ NotAttestable(c)
  /\ ~Fresh(c, s)
  /\ set_verification_cache(c, s, ~NotAttestable(c) /\ Quorum(c, s))
  /\ UNCHANGED <<lowerVars, attestationVars>>

set_verification_cache_ttl(ttl) ==
  /\ config' = [config EXCEPT !.cache_ttl = ttl]
  /\ UNCHANGED <<sliceVars, delegationVars, credentials, recordVars, conditions,
                 attestationPolicy, multisigApproved>>

\* Mutant of the invalidation below: the entries are left to expire.
invalidate_nothing(c) == UNCHANGED verificationCache

\* Mutant: negative verdicts are stored instead of the entries being removed.
store_negative_verdicts(c) ==
  verificationCache' = [verificationCache EXCEPT ![c] =
    [s \in SliceId |-> [is_attested |-> FALSE, expires_at |-> now]]]

invalidate_verification_caches_for_credential(c) ==
  verificationCache' = [verificationCache EXCEPT ![c] =
    [s \in SliceId |-> IF s \in DOMAIN slices THEN None ELSE @[s]]]

----------------------------------------------------------------------------
(* Attesting. *)

\* Mutant of detect_fork: only the records of the others are compared.
detect_fork_with_others(c, s, attestor, value) ==
  /\ attestor \in Members(s)
  /\ \E i \in DOMAIN records[c] :
       /\ records[c][i].attestor \in Members(s) \ {attestor}
       /\ records[c][i].value # value

\* A current member of the slice has a record with the other value.
detect_fork(c, s, attestor, value) ==
  /\ attestor \in Members(s)
  /\ \E i \in DOMAIN records[c] :
       records[c][i].attestor \in Members(s) /\ records[c][i].value # value

\* The checks on the credential that attest and batch_attest share.  The panic
\* on a fork undoes the fork evidence and the suspensions written before it.
Attestable(c, s, attestor, value) ==
  /\ ~credentials[c].revoked
  /\ ~credentials[c].suspended
  /\ LET window == conditions[c].window IN
     window # None => now >= window.start /\ now < window.end
  /\ ~detect_fork(c, s, attestor, value)
  /\ Len(records[c]) < MaxRecords

require_attestor_independence(caller, c) ==
  config.independence => caller # Subject[c] /\ caller # Issuer[c]

\* Mutant of reward_attestor_reputation: the score is not capped.
reward_uncapped(attestor) ==
  reputation' = [reputation EXCEPT ![attestor] = @ + REPUTATION_REWARD]

reward_attestor_reputation(attestor) ==
  reputation' = [reputation EXCEPT
    ![attestor] = IF @ + REPUTATION_REWARD > 100 THEN 100 ELSE @ + REPUTATION_REWARD]

\* Mutant of record_credential_slice: only the first slice is recorded.
record_first_slice(c, s) ==
  credentialSlices' = [credentialSlices EXCEPT ![c] = IF @ = {} THEN {s} ELSE @]

record_credential_slice(c, s) ==
  credentialSlices' = [credentialSlices EXCEPT ![c] = @ \cup {s}]

\* Mutant of already_attested_in_slice: repeated attestations are accepted.
never_attested(c, s, attestor) == FALSE

already_attested_in_slice(c, s, attestor) == attestationWeight[c][s][attestor] # None

attest(caller, c, s, value, expires_at) ==
  LET attestor == resolve_attestor(caller, s)
      sl == slices[s] IN
  /\ require_attestor_independence(caller, c)
  /\ attestor # None
  /\ <<s, attestor>> \notin suspendedAttestor
  /\ Attestable(c, s, attestor, value)
  /\ ~already_attested_in_slice(c, s, attestor)
  /\ records' = [records EXCEPT ![c] =
       Append(@, [attestor |-> attestor, value |-> value, expires_at |-> expires_at])]
  /\ record_credential_slice(c, s)
  /\ \E i \in DOMAIN sl.attestors :
       /\ IsPosition(sl.attestors, i, attestor)
       /\ attestationWeight' = [attestationWeight EXCEPT ![c][s][attestor] = sl.weights[i]]
  /\ SetEntry(c, s, None)
  /\ attestationCount' = [attestationCount EXCEPT ![c] = @ + 1]
  /\ reward_attestor_reputation(attestor)
  /\ UNCHANGED <<lowerVars, credentials, conditionVars>>

\* The duplicate guard looks at the records of every slice; no weight is
\* captured and the slice is not recorded for the credential.
batch_attest(caller, ids, s, value, expires_at) ==
  LET attestor == resolve_attestor(caller, s) IN
  /\ attestor # None
  /\ <<s, attestor>> \notin suspendedAttestor
  /\ \A c \in ids :
       /\ Attestable(c, s, attestor, value)
       /\ \A i \in DOMAIN records[c] : records[c][i].attestor # attestor
  /\ records' = [c \in CredentialId |->
       IF c \in ids
       THEN Append(records[c],
                   [attestor |-> attestor, value |-> value, expires_at |-> expires_at])
       ELSE records[c]]
  /\ verificationCache' = [c \in CredentialId |->
       IF c \in ids THEN [verificationCache[c] EXCEPT ![s] = None] ELSE verificationCache[c]]
  /\ UNCHANGED <<lowerVars, credentials, conditionVars, attestationWeight,
                 credentialSlices, attestationCount, reputation>>

renew_attestation(attestor, c, expires_at) ==
  /\ ~credentials[c].revoked
  /\ ~credentials[c].suspended
  /\ expires_at > now
  /\ \E i \in DOMAIN records[c] : records[c][i].attestor = attestor
  /\ records' = [records EXCEPT ![c] =
       [i \in DOMAIN @ |->
          IF @[i].attestor = attestor THEN [@[i] EXCEPT !.expires_at = expires_at] ELSE @[i]]]
  /\ invalidate_verification_caches_for_credential(c)
  /\ UNCHANGED <<lowerVars, credentials, conditionVars, attestationWeight,
                 credentialSlices, attestationCount, reputation>>

----------------------------------------------------------------------------
(* Conditions on the attestations of a credential: none of these calls      *)
(* touches the verification cache.                                          *)

SetCondition(new) ==
  /\ conditions' = new
  /\ UNCHANGED <<sliceVars, delegationVars, credentials, recordVars,
                 attestationPolicy, multisigApproved, config>>

set_attestation_expiry(c, expires_at) ==
  /\ expires_at > now
  /\ SetCondition([conditions EXCEPT ![c].attestation_expiry = expires_at])

set_attestation_window(c, window) ==
  /\ window.start < window.end
  /\ SetCondition([conditions EXCEPT ![c].window = window])

set_attestation_time_lock(c, release_at) ==
  /\ release_at > now
  /\ SetCondition([conditions EXCEPT ![c].release_at = release_at])

clear_attestation_time_lock(c) ==
  SetCondition([conditions EXCEPT ![c].release_at = None])

set_attestation_policy(type, policy) ==
  /\ policy.threshold > 0
  /\ policy.window_seconds > 0
  /\ attestationPolicy' = [attestationPolicy EXCEPT ![type] = policy]
  /\ UNCHANGED <<sliceVars, delegationVars, credentials, recordVars, conditions,
                 multisigApproved, config>>

enable_attestor_independence(enabled) ==
  /\ config' = [config EXCEPT !.independence = enabled]
  /\ UNCHANGED <<sliceVars, delegationVars, credentials, recordVars, conditions,
                 attestationPolicy, multisigApproved>>

----------------------------------------------------------------------------
(* Status changes of a credential, and the cache entries they drop. *)

SetStatus(c, new) ==
  /\ credentials' = [credentials EXCEPT ![c] = new]
  /\ invalidate_verification_caches_for_credential(c)
  /\ UNCHANGED <<lowerVars, recordVars, conditionVars>>

\* Every way of revoking: revoke_consent does the same to what is kept here.
mark_credential_revoked(c) ==
  /\ ~credentials[c].revoked
  /\ SetStatus(c, [credentials[c] EXCEPT !.revoked = TRUE, !.suspended = FALSE])

suspend_credential(c) ==
  /\ ~credentials[c].revoked /\ ~credentials[c].suspended
  /\ ~Passed(credentials[c].expires_at)
  /\ SetStatus(c, [credentials[c] EXCEPT !.suspended = TRUE])

resume_credential(c) ==
  /\ ~credentials[c].revoked /\ credentials[c].suspended
  /\ ~Passed(credentials[c].expires_at)
  /\ SetStatus(c, [credentials[c] EXCEPT !.suspended = FALSE])

renew_credential(c, expires_at) ==
  /\ ~credentials[c].revoked /\ ~credentials[c].suspended
  /\ expires_at > now
  /\ SetStatus(c, [credentials[c] EXCEPT !.expires_at = expires_at])

\* The expiry, if there is one, has passed within the grace period; the new one
\* is not looked at.
renew_credential_with_grace(c, expires_at) ==
  LET old == credentials[c].expires_at IN
  /\ ~credentials[c].revoked /\ ~credentials[c].suspended
  /\ old # None => now >= old /\ now < old + GracePeriod
  /\ SetStatus(c, [credentials[c] EXCEPT !.expires_at = expires_at])

----------------------------------------------------------------------------
AttestationInit ==
  /\ DelegationInit
  /\ credentials \in [CredentialId ->
       [revoked : {FALSE}, suspended : {FALSE}, expires_at : IssuedExpiries]]
  /\ records = [c \in CredentialId |-> <<>>]
  /\ attestationWeight = [c \in CredentialId |-> [s \in SliceId |-> [a \in Address |-> None]]]
  /\ credentialSlices = [c \in CredentialId |-> {}]
  /\ attestationCount = [c \in CredentialId |-> 0]
  /\ conditions = [c \in CredentialId |->
                     [attestation_expiry |-> None, window |-> None, release_at |-> None]]
  /\ attestationPolicy = [t \in CredentialType |-> None]
  /\ multisigApproved = {}
  /\ config = [independence |-> FALSE, cache_ttl |-> DEFAULT_VERIFICATION_CACHE_TTL]
  /\ reputation = [a \in Address |-> 100]

AttestCalls(s) ==
  \E caller \in Address, v \in Values, t \in AttestExpiries :
    \/ \E c \in CredentialId : attest(caller, c, s, v, t)
    \/ \E ids \in SUBSET BatchIds \ {{}} : batch_attest(caller, ids, s, v, t)

CredentialCalls(c) ==
  \/ \E a \in Address, t \in RenewedExpiries : renew_attestation(a, c, t)
  \/ \E t \in AttestationDeadlines : set_attestation_expiry(c, t)
  \/ \E w \in Windows : set_attestation_window(c, w)
  \/ \E t \in ReleaseTimes : set_attestation_time_lock(c, t)
  \/ ReleaseTimes # {} /\ clear_attestation_time_lock(c)
  \/ mark_credential_revoked(c)
  \/ suspend_credential(c)
  \/ resume_credential(c)
  \/ \E t \in RenewedExpiries :
       renew_credential(c, t) \/ renew_credential_with_grace(c, t)
  \/ \E s \in SliceId : is_attested(c, s) \/ warm_verification_cache(c, s)

AdminCalls ==
  \/ \E ttl \in CacheTtls : set_verification_cache_ttl(ttl)
  \/ \E t \in CredentialType, p \in Policies : set_attestation_policy(t, p)
  \/ \E b \in IndependenceSettings : enable_attestor_independence(b)

AttestationNext ==
  \/ SliceCalls /\ UNCHANGED <<delegationVars, attestationVars>>
  \/ (\E s \in DOMAIN slices : DelegationOp(s)) /\ UNCHANGED attestationVars
  \/ Tick /\ UNCHANGED attestationVars
  \/ \E s \in DOMAIN slices : AttestCalls(s)
  \/ \E c \in CredentialId : CredentialCalls(c)
  \/ AdminCalls

AttestationSpec == AttestationInit /\ [][AttestationNext]_vars

----------------------------------------------------------------------------
(* Properties. *)

Credential == [revoked : BOOLEAN, suspended : BOOLEAN, expires_at : Nat \cup {None}]
Conditions == [attestation_expiry : Nat \cup {None}, window : Windows \cup {None},
               release_at : Nat \cup {None}]

\* Type invariant: the delegations' one; attested weights are u32 and the
\* reputation score stays within 0..100 however often it is rewarded.
AttestationTypeOK ==
  /\ DelegationTypeOK
  /\ credentials \in [CredentialId -> Credential]
  /\ records \in [CredentialId -> Seq(Record)]
  /\ attestationWeight \in [CredentialId -> [SliceId -> [Address -> 0..U32_MAX \cup {None}]]]
  /\ credentialSlices \in [CredentialId -> SUBSET SliceId]
  /\ attestationCount \in [CredentialId -> Nat]
  /\ conditions \in [CredentialId -> Conditions]
  /\ attestationPolicy \in [CredentialType -> Policies \cup {None}]
  /\ multisigApproved \subseteq CredentialId
  /\ config \in [independence : BOOLEAN, cache_ttl : 0..(MaxCacheExpiry - MaxTime)]
  /\ reputation \in [Address -> 0..100]

Captured(c, s, a) == attestationWeight[c][s][a] # None

CachedPositive(c, s) ==
  verificationCache[c][s] # None /\ verificationCache[c][s].is_attested

\* A credential that is revoked or suspended is never answered for from the
\* cache: whatever was cached before (by is_attested or by
\* warm_verification_cache, for any slice), and whatever is cached after, the
\* cache holds no positive verdict on it.
DeadCredentialNotServed ==
  \A c \in CredentialId, s \in SliceId :
    credentials[c].revoked \/ credentials[c].suspended => ~CachedPositive(c, s)

\* A positive verdict in the cache of a slice with an absolute threshold is
\* backed by positive records whose captured weights reach the threshold the
\* slice has now: no change of threshold (up or down), members or weights, and
\* no later attestation, leaves a verdict behind that was never earned.
ServedVerdictWasEarned ==
  \A c \in CredentialId, s \in DOMAIN slices :
    CachedPositive(c, s) /\ slices[s].threshold_type = "Absolute"
    => SumFunction([i \in DOMAIN records[c] |->
         IF records[c][i].value /\ Captured(c, s, records[c][i].attestor)
         THEN attestationWeight[c][s][records[c][i].attestor] ELSE 0])
       >= slices[s].threshold

\* Changing the admin's TTL later does not lengthen the life of an entry.
LongestTtl == Max(CacheTtls \cup {DEFAULT_VERIFICATION_CACHE_TTL})

\* How stale a positive answer can be: past the expiry of the credential, or the
\* deadline that its issuer has set on its attestations, the answer is positive
\* for less than one cache TTL, whatever is renewed, re-attested, set or
\* computed anew in the meantime.
StalenessBounded ==
  \A c \in CredentialId, s \in DOMAIN slices :
    \A deadline \in {credentials[c].expires_at, conditions[c].attestation_expiry} :
      Answer(c, s) => deadline = None \/ now < deadline + LongestTtl

\* No attestor has stated both values on one credential: attest and
\* batch_attest refuse the second (detect_fork), through whichever slice and
\* in person or by a delegate, with members joining and leaving in between.
NoEquivocation ==
  \A c \in CredentialId : \A i, j \in DOMAIN records[c] :
    records[c][i].attestor = records[c][j].attestor => records[c][i].value = records[c][j].value

\* Weight is captured only for an attestation that is on record, and for a
\* slice that the partition check of is_attested will look at.
CapturedWeightOnRecord ==
  \A c \in CredentialId, s \in SliceId, a \in Address :
    Captured(c, s, a) => /\ s \in credentialSlices[c]
                         /\ \E i \in DOMAIN records[c] : records[c][i].attestor = a

\* What an attestation is worth is settled when it is made: no reweighting,
\* rebalancing, removal, re-adding or second attestation changes it.
CapturedWeightImmutable ==
  [][\A c \in CredentialId, s \in SliceId, a \in Address :
       Captured(c, s, a) => attestationWeight'[c][s][a] = attestationWeight[c][s][a]]_vars

\* The counter that is_attested_by_count reads has counted each (slice,
\* attestor) pair exactly once: however often a member leaves, comes back, is
\* reweighted or acts by a delegate, a second call of attest for the
\* pair is refused.  (attest is the only writer of the counter: the records of
\* batch_attest and of executed multisig requests are not in it, so that it may
\* be less than the number of records.)
AttestPairsCountedOnce ==
  \A c \in CredentialId :
    attestationCount[c] = Cardinality({p \in SliceId \X Address : Captured(c, p[1], p[2])})
=============================================================================
