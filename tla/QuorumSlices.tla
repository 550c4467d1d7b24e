---------------------------- MODULE QuorumSlices ----------------------------
(***************************************************************************)
(* Weighted quorum slices of the quorum_proof contract: their creation and *)
(* every operation that changes their members, weights or threshold, the   *)
(* suspension of attestors, and what those operations do to the cache of   *)
(* verification results that is kept per (credential, slice).              *)
(*                                                                         *)
(* A contract call is one transaction: it either panics, and then nothing  *)
(* of it is kept, or it commits as a whole.  So an operation is one action *)
(* whose guard is the conjunction of the call's assertions.  Authorisation *)
(* is the argument of an action being the address the code compares it to. *)
(*                                                                         *)
(* The verdicts themselves belong to module Attestation.  Here a verdict   *)
(* is an opaque CacheEntry that may be stored at any time (record_verdict),*)
(* and Attestation's is_attested is shown to implement that.               *)
(***************************************************************************)
EXTENDS Integers, Sequences, FiniteSets, SequencesExt

CONSTANTS
  Address,          \* accounts
  CredentialId,     \* ids of issued credentials
  MaxSliceCount,    \* bound: slices created
  MAX_ATTESTORS_PER_SLICE,  \* limit on members until the admin sets another
  U32_MAX,          \* largest u32: sums of weights saturate here
  CacheEntry,       \* what is_attested stores for a (credential, slice)
  None,             \* an absent storage key
  \* The arguments that calls are made with:
  Creators,         \* accounts that create slices
  SliceInputs,      \* creations, [attestors, weights, threshold, threshold_type]
  NewWeights,       \* weights given to add_attestor and the reweighting calls
  NewThresholds,    \* thresholds given to the threshold calls
  NewMembers,       \* addresses added to a slice or replacing a member
  Suspendable,      \* attestors that suspend_attestor is called for
  WeightingSettings,\* set_reputation_weighting_enabled
  NewMaxAttestors   \* limits given to set_max_attestors_per_slice

ASSUME SliceConstants ==
  /\ MaxSliceCount \in Nat
  /\ MAX_ATTESTORS_PER_SLICE \in Nat
  /\ U32_MAX \in Nat
  /\ None \notin CacheEntry
  /\ None \notin Address
  /\ NewWeights \subseteq 0..U32_MAX
  /\ NewThresholds \subseteq 0..U32_MAX
  /\ Creators \subseteq Address
  /\ NewMembers \subseteq Address
  /\ Suspendable \subseteq Address
  /\ WeightingSettings \subseteq BOOLEAN
  /\ NewMaxAttestors \subseteq Nat
  /\ \A in \in SliceInputs :
       /\ in.attestors \in Seq(Address)
       /\ in.weights \in Seq(0..U32_MAX)
       /\ in.threshold \in 0..U32_MAX
       /\ in.threshold_type \in {"Absolute", "Percentage"}

VARIABLES
  slices,             \* Slice(id) for id in 1..SliceCount, with the per-slice keys
                      \* SliceThresholdType, AttestorSet and SliceTotalWeight
  suspendedAttestor,  \* the (slice, attestor) pairs with SuspendedAttestor set
  maxAttestors,       \* MaxAttestorsPerSlice
  verificationCache   \* AttestVerifyCache(credential, slice)

sliceVars == <<slices, suspendedAttestor, maxAttestors, verificationCache>>

SliceId == 1..MaxSliceCount
ThresholdType == {"Absolute", "Percentage"}

\* Weights are validated against this range.
MAX_WEIGHT == 100

----------------------------------------------------------------------------
(* Pure helpers. *)

Saturate(n) == IF n \in 0..U32_MAX THEN n ELSE U32_MAX

total_slice_weight(weights) == Saturate(SumFunction(weights))

validate_weight(w) == w \in 1..MAX_WEIGHT

\* The first index at which seq holds a: iter().position(|x| x == a).
IsPosition(seq, i, a) == seq[i] = a /\ \A j \in 1..(i - 1) : seq[j] # a

\* Weight needed in slice sl; a percentage is rounded up.
required_weight(sl) ==
  IF sl.threshold_type = "Absolute"
  THEN sl.threshold
  ELSE (total_slice_weight(sl.weights) * sl.threshold + 99) \div 100

\* Members of a slice as the attestor vector has them.
Members(s) == ToSet(slices[s].attestors)

\* The answer of the contract's own check that a threshold can be reached.
validate_threshold(sl) ==
  IF sl.threshold_type = "Absolute"
  THEN sl.threshold <= total_slice_weight(sl.weights)
  ELSE sl.threshold \in 1..100

----------------------------------------------------------------------------
(* The verification cache. *)

\* Mutant of the invalidation below: only the first credential is visited.
invalidate_first_only(s) ==
  verificationCache' = [verificationCache EXCEPT ![Min(CredentialId)][s] = None]


invalidate_verification_caches_for_slice(s) ==
  verificationCache' =
    [c \in CredentialId |-> [verificationCache[c] EXCEPT ![s] = None]]

SetEntry(c, s, entry) ==
  verificationCache' = [verificationCache EXCEPT ![c][s] = entry]

\* A verdict is computed and stored (or recomputed).
record_verdict(c, s) ==
  /\ \E entry \in CacheEntry : SetEntry(c, s, entry)
  /\ UNCHANGED <<slices, suspendedAttestor, maxAttestors>>

\* The verdicts of some credentials for some slices are dropped.
drop_verdicts(C, S) ==
  /\ verificationCache' =
       [c \in CredentialId |-> [s \in SliceId |->
          IF c \in C /\ s \in S THEN None ELSE verificationCache[c][s]]]
  /\ UNCHANGED <<slices, suspendedAttestor, maxAttestors>>

----------------------------------------------------------------------------
(* Operations on slices. *)

create_weighted_slice(creator, attestors, weights, threshold, type) ==
  LET total == total_slice_weight(weights) IN
  /\ Len(slices) < MaxSliceCount
  /\ attestors # <<>>
  /\ Len(attestors) <= maxAttestors
  /\ Len(weights) = Len(attestors)
  /\ IsInjective(attestors)
  /\ \A i \in DOMAIN weights : validate_weight(weights[i])
  /\ \/ type = "Absolute" /\ threshold > 0 /\ threshold <= total
     \/ type = "Percentage" /\ threshold \in 1..100
  /\ slices' = Append(slices,
       [creator |-> creator, attestors |-> attestors, weights |-> weights,
        threshold |-> threshold, threshold_type |-> type,
        attestor_set |-> ToSet(attestors), total_weight |-> total,
        reputation_weighting_enabled |-> FALSE])
  /\ UNCHANGED <<suspendedAttestor, maxAttestors, verificationCache>>

add_attestor(creator, s, attestor, weight) ==
  LET sl == slices[s]
      weights == Append(sl.weights, weight) IN
  /\ sl.creator = creator
  /\ Len(sl.attestors) < maxAttestors
  /\ validate_weight(weight)
  /\ attestor \notin Members(s)
  /\ slices' = [slices EXCEPT ![s] =
       [sl EXCEPT !.attestors = Append(sl.attestors, attestor),
                  !.weights = weights,
                  !.total_weight = total_slice_weight(weights),
                  !.attestor_set = @ \cup {attestor}]]
  /\ UNCHANGED <<suspendedAttestor, maxAttestors, verificationCache>>

\* Mutant of ClampedThreshold: the threshold is left as it was.
KeptThreshold(sl, total) == sl.threshold

ClampedThreshold(sl, total) ==
  IF sl.threshold_type = "Absolute" /\ sl.threshold > total THEN total ELSE sl.threshold

\* Mutant of OthersRemain: the last attestor may be removed too.
NoOthersNeeded(sl) == TRUE

OthersRemain(sl) == Len(sl.attestors) > 1

\* Mutant of remove_attestor: the attestor set is forgotten.
remove_from_vector(creator, s, attestor) ==
  LET sl == slices[s] IN
  /\ sl.creator = creator
  /\ \E i \in DOMAIN sl.attestors :
       LET weights == RemoveAt(sl.weights, i)
           total == total_slice_weight(weights) IN
       /\ IsPosition(sl.attestors, i, attestor)
       /\ OthersRemain(sl)
       /\ slices' = [slices EXCEPT ![s] =
            [sl EXCEPT !.attestors = RemoveAt(sl.attestors, i),
                       !.weights = weights,
                       !.threshold = ClampedThreshold(sl, total),
                       !.total_weight = total]]
  /\ invalidate_verification_caches_for_slice(s)
  /\ UNCHANGED <<suspendedAttestor, maxAttestors>>

remove_attestor(creator, s, attestor) ==
  LET sl == slices[s] IN
  /\ sl.creator = creator
  /\ \E i \in DOMAIN sl.attestors :
       LET weights == RemoveAt(sl.weights, i)
           total == total_slice_weight(weights) IN
       /\ IsPosition(sl.attestors, i, attestor)
       /\ OthersRemain(sl)
       /\ slices' = [slices EXCEPT ![s] =
            [sl EXCEPT !.attestors = RemoveAt(sl.attestors, i),
                       !.weights = weights,
                       !.threshold = ClampedThreshold(sl, total),
                       !.total_weight = total,
                       !.attestor_set = @ \ {attestor}]]
  /\ invalidate_verification_caches_for_slice(s)
  /\ UNCHANGED <<suspendedAttestor, maxAttestors>>

\* Swaps the address in the attestor vector only: the attestor set, the
\* delegations and the caches are not touched.
replace_attestor(owner, s, old, new) ==
  LET sl == slices[s] IN
  /\ sl.creator = owner
  /\ \E i \in DOMAIN sl.attestors :
       /\ IsPosition(sl.attestors, i, old)
       /\ slices' = [slices EXCEPT ![s].attestors[i] = new]
  /\ UNCHANGED <<suspendedAttestor, maxAttestors, verificationCache>>

update_attestor_weight(creator, s, attestor, weight) ==
  LET sl == slices[s] IN
  /\ validate_weight(weight)
  /\ sl.creator = creator
  /\ \E i \in DOMAIN sl.attestors :
       LET weights == [sl.weights EXCEPT ![i] = weight]
           total == total_slice_weight(weights) IN
       /\ IsPosition(sl.attestors, i, attestor)
       /\ sl.threshold_type = "Percentage" \/ sl.threshold <= total
       /\ slices' = [slices EXCEPT ![s] =
            [sl EXCEPT !.weights = weights, !.total_weight = total]]
  /\ UNCHANGED <<suspendedAttestor, maxAttestors, verificationCache>>

update_slice_threshold(creator, s, threshold) ==
  LET sl == slices[s] IN
  /\ sl.creator = creator
  /\ threshold > 0
  /\ threshold <= total_slice_weight(sl.weights)
  /\ slices' = [slices EXCEPT ![s] =
       [sl EXCEPT !.threshold = threshold, !.threshold_type = "Absolute"]]
  /\ invalidate_verification_caches_for_slice(s)
  /\ UNCHANGED <<suspendedAttestor, maxAttestors>>

update_percentage_threshold(creator, s, percentage) ==
  LET sl == slices[s] IN
  /\ percentage \in 1..100
  /\ sl.creator = creator
  /\ slices' = [slices EXCEPT ![s] =
       [sl EXCEPT !.threshold = percentage, !.threshold_type = "Percentage"]]
  /\ invalidate_verification_caches_for_slice(s)
  /\ UNCHANGED <<suspendedAttestor, maxAttestors>>

rebalance_slice(creator, s, weights, threshold) ==
  LET sl == slices[s]
      total == total_slice_weight(weights) IN
  /\ sl.creator = creator
  /\ Len(weights) = Len(sl.attestors)
  /\ threshold >= 1
  /\ \A i \in DOMAIN weights : validate_weight(weights[i])
  /\ threshold <= IF sl.threshold_type = "Absolute" THEN total ELSE 100
  /\ slices' = [slices EXCEPT ![s] =
       [sl EXCEPT !.weights = weights, !.threshold = threshold, !.total_weight = total]]
  /\ invalidate_verification_caches_for_slice(s)
  /\ UNCHANGED <<suspendedAttestor, maxAttestors>>

\* Unlike rebalance_slice: any u32 is accepted as a weight, the threshold is
\* compared with the total whatever its type, and neither the total-weight key
\* nor the verification cache is touched.
reweight_slice(creator, s, weights) ==
  LET sl == slices[s] IN
  /\ sl.creator = creator
  /\ Len(weights) = Len(sl.attestors)
  /\ sl.threshold <= total_slice_weight(weights)
  /\ slices' = [slices EXCEPT ![s].weights = weights]
  /\ UNCHANGED <<suspendedAttestor, maxAttestors, verificationCache>>

set_reputation_weighting_enabled(creator, s, enabled) ==
  /\ slices[s].creator = creator
  /\ slices' = [slices EXCEPT ![s].reputation_weighting_enabled = enabled]
  /\ UNCHANGED <<suspendedAttestor, maxAttestors, verificationCache>>

set_max_attestors_per_slice(new_max) ==
  /\ new_max > 0
  /\ maxAttestors' = new_max
  /\ UNCHANGED <<slices, suspendedAttestor, verificationCache>>

suspend_attestor(creator, s, attestor) ==
  /\ slices[s].creator = creator
  /\ attestor \in Members(s)
  /\ suspendedAttestor' = suspendedAttestor \cup {<<s, attestor>>}
  /\ UNCHANGED <<slices, maxAttestors, verificationCache>>

\* Removing the key of an attestor that is not suspended is a no-op.
resume_attestor(creator, s, attestor) ==
  /\ slices[s].creator = creator
  /\ suspendedAttestor' = suspendedAttestor \ {<<s, attestor>>}
  /\ UNCHANGED <<slices, maxAttestors, verificationCache>>


----------------------------------------------------------------------------
SliceInit ==
  /\ slices = <<>>
  /\ suspendedAttestor = {}
  /\ maxAttestors = MAX_ATTESTORS_PER_SLICE
  /\ verificationCache = [c \in CredentialId |-> [s \in SliceId |-> None]]

SliceOp(creator, s) ==
  \/ \E a \in NewMembers, w \in NewWeights : add_attestor(creator, s, a, w)
  \/ \E a \in Address : remove_attestor(creator, s, a)
  \/ \E a \in Address, b \in NewMembers : replace_attestor(creator, s, a, b)
  \/ \E a \in Address, w \in NewWeights : update_attestor_weight(creator, s, a, w)
  \/ \E t \in NewThresholds : update_slice_threshold(creator, s, t)
  \/ \E t \in NewThresholds : update_percentage_threshold(creator, s, t)
  \/ \E ws \in [DOMAIN slices[s].attestors -> NewWeights], t \in NewThresholds :
       rebalance_slice(creator, s, ws, t)
  \/ \E ws \in [DOMAIN slices[s].attestors -> NewWeights] : reweight_slice(creator, s, ws)
  \/ \E b \in WeightingSettings : set_reputation_weighting_enabled(creator, s, b)
  \/ \E a \in Suspendable : suspend_attestor(creator, s, a) \/ resume_attestor(creator, s, a)

SliceCalls ==
  \/ \E creator \in Creators :
       \/ \E in \in SliceInputs :
            create_weighted_slice(creator, in.attestors, in.weights, in.threshold,
                                  in.threshold_type)
       \/ \E s \in DOMAIN slices : SliceOp(creator, s)
  \/ \E n \in NewMaxAttestors : set_max_attestors_per_slice(n)

SliceNext ==
  \/ SliceCalls
  \/ \E c \in CredentialId, s \in SliceId : record_verdict(c, s)
  \/ \E C \in SUBSET CredentialId, S \in SUBSET SliceId : drop_verdicts(C, S)

SliceSpec == SliceInit /\ [][SliceNext]_sliceVars

----------------------------------------------------------------------------
(* Properties. *)

QuorumSlice ==
  [creator : Address, attestors : Seq(Address), weights : Seq(0..U32_MAX),
   threshold : 0..U32_MAX, threshold_type : ThresholdType,
   attestor_set : SUBSET Address, total_weight : 0..U32_MAX,
   reputation_weighting_enabled : BOOLEAN]

\* Every stored value has its type, sums of weights stay within u32, every
\* slice has at least one attestor and exactly one weight for each.
SliceTypeOK ==
  /\ slices \in Seq(QuorumSlice)
  /\ Len(slices) <= MaxSliceCount
  /\ \A s \in DOMAIN slices :
       Len(slices[s].attestors) > 0 /\ Len(slices[s].weights) = Len(slices[s].attestors)
  /\ suspendedAttestor \subseteq SliceId \X Address
  /\ maxAttestors \in Nat
  /\ verificationCache \in [CredentialId -> [SliceId -> CacheEntry \cup {None}]]

\* Whatever sequence of member, weight and threshold changes a slice goes
\* through, its threshold stays within the weight it has: validate_threshold
\* answers true for every slice (remove_attestor clamps, the weight calls
\* refuse a total below the threshold).
ThresholdAchievable == \A s \in DOMAIN slices : validate_threshold(slices[s])

\* No call changes the threshold of a slice, or makes its list of members
\* shorter, and leaves a verdict of that slice in the cache, for any credential.
\* (A call that swaps one member for another, replace_attestor, does leave them.)
ThresholdChangeInvalidates ==
  [][\A s \in DOMAIN slices :
       \/ slices'[s].threshold # slices[s].threshold
       \/ slices'[s].threshold_type # slices[s].threshold_type
       \/ Len(slices'[s].attestors) < Len(slices[s].attestors)
       => \A c \in CredentialId : verificationCache'[c][s] = None]_sliceVars

\* What docs/verification-cache-invalidation.md and the comment on
\* invalidate_verification_caches_for_slice ask for: no call changes the weight
\* that a slice requires and leaves a verdict of that slice in the cache.
RequiredWeightChangeInvalidates ==
  [][\A s \in DOMAIN slices :
       required_weight(slices'[s]) # required_weight(slices[s])
       => \A c \in CredentialId : verificationCache'[c][s] = None]_sliceVars
=============================================================================
