------------------------ MODULE QuorumSlices_proofs ------------------------
(***************************************************************************)
(* Type correctness of the quorum slices and the invalidation of cached    *)
(* verdicts, for any number of accounts, credentials and slices and        *)
(* whatever arguments the calls are made with.                             *)
(***************************************************************************)
EXTENDS QuorumSlices, SequenceTheorems, TLAPS

(* Removing one entry of a vector, as remove_attestor does to the          *)
(* attestors and to the weights, leaves a vector one shorter.              *)
LEMMA RemoveAtType ==
  ASSUME NEW S, NEW seq \in Seq(S), NEW i \in 1..Len(seq)
  PROVE  RemoveAt(seq, i) \in Seq(S) /\ Len(RemoveAt(seq, i)) = Len(seq) - 1
<1> DEFINE before == SubSeq(seq, 1, i - 1)
           after == SubSeq(seq, i + 1, Len(seq))
<1>1. before \in Seq(S) /\ Len(before) = i - 1
  BY SubSeqProperties
<1>2. after \in Seq(S) /\ Len(after) = Len(seq) - i
  BY SubSeqProperties
<1>3. before \o after \in Seq(S) /\ Len(before \o after) = Len(before) + Len(after)
  BY <1>1, <1>2, ConcatProperties
<1>4. RemoveAt(seq, i) = before \o after
  BY DEF RemoveAt
<1> HIDE DEF before, after
<1>5. Len(before) + Len(after) = Len(seq) - 1
  <2>1. Len(seq) \in Nat /\ i \in Int
    BY LenProperties
  <2> QED
    BY <1>1, <1>2, <2>1
<1> QED
  BY <1>3, <1>4, <1>5

(* The total weight saturates at the largest u32.                          *)
LEMMA TotalType == ASSUME NEW weights PROVE total_slice_weight(weights) \in 0..U32_MAX
  BY SliceConstants DEF total_slice_weight, Saturate

(* A well-formed slice: what SliceTypeOK asks of each.                     *)
WellFormed(sl) ==
  sl \in QuorumSlice /\ Len(sl.attestors) > 0 /\ Len(sl.weights) = Len(sl.attestors)

CacheTypeOK == verificationCache \in [CredentialId -> [SliceId -> CacheEntry \cup {None}]]

(* Dropping the verdicts on a slice keeps the cache's type and leaves none *)
(* of them, for any credential.                                            *)
LEMMA Invalidation ==
  ASSUME CacheTypeOK, NEW s \in SliceId, invalidate_verification_caches_for_slice(s)
  PROVE  CacheTypeOK' /\ \A c \in CredentialId : verificationCache'[c][s] = None
  BY DEF CacheTypeOK, invalidate_verification_caches_for_slice

(* A call that stores one well-formed slice under its id keeps SliceTypeOK. *)
LEMMA StoreSlice ==
  ASSUME SliceTypeOK, NEW s \in DOMAIN slices, NEW sl, WellFormed(sl),
         slices' = [slices EXCEPT ![s] = sl],
         UNCHANGED <<suspendedAttestor, maxAttestors>>, CacheTypeOK'
  PROVE  SliceTypeOK'
<1>1. slices' \in Seq(QuorumSlice) /\ Len(slices') = Len(slices) /\ DOMAIN slices' = DOMAIN slices
  BY DEF SliceTypeOK, WellFormed
<1>2. \A t \in DOMAIN slices' :
        Len(slices'[t].attestors) > 0 /\ Len(slices'[t].weights) = Len(slices'[t].attestors)
  BY <1>1 DEF SliceTypeOK, WellFormed
<1> QED
  BY <1>1, <1>2 DEF SliceTypeOK, CacheTypeOK

(* Ids of stored slices are slice ids, and the slices are well-formed.     *)
LEMMA StoredSlice ==
  ASSUME SliceTypeOK, NEW s \in DOMAIN slices
  PROVE  s \in SliceId /\ WellFormed(slices[s]) /\ CacheTypeOK
<1>1. s \in 1..Len(slices) /\ Len(slices) \in Nat
  BY DEF SliceTypeOK
<1> QED
  BY <1>1, SliceConstants DEF SliceTypeOK, WellFormed, SliceId, CacheTypeOK

----------------------------------------------------------------------------
(* One lemma per operation on a slice. *)

(* add_attestor appends one member and one weight.                          *)
LEMMA AddType ==
  ASSUME SliceTypeOK, NEW s \in DOMAIN slices, NEW creator,
         NEW a \in Address, NEW w \in 0..U32_MAX, add_attestor(creator, s, a, w)
  PROVE  SliceTypeOK'
<1> DEFINE sl == slices[s]
           new == [sl EXCEPT !.attestors = Append(sl.attestors, a),
                             !.weights = Append(sl.weights, w),
                             !.total_weight = total_slice_weight(Append(sl.weights, w)),
                             !.attestor_set = @ \cup {a}]
<1>1. WellFormed(sl) /\ CacheTypeOK
  BY StoredSlice
<1>2. WellFormed(new)
  <2>1. Append(sl.attestors, a) \in Seq(Address) /\ Append(sl.weights, w) \in Seq(0..U32_MAX)
    BY <1>1 DEF WellFormed, QuorumSlice
  <2>2. Len(Append(sl.attestors, a)) > 0 /\ Len(Append(sl.weights, w)) = Len(Append(sl.attestors, a))
    BY <1>1 DEF WellFormed, QuorumSlice
  <2> QED
    BY <1>1, <2>1, <2>2, TotalType, Zenon DEF WellFormed, QuorumSlice
<1>3. slices' = [slices EXCEPT ![s] = new] /\ UNCHANGED <<suspendedAttestor, maxAttestors>>
      /\ UNCHANGED verificationCache
  BY DEF add_attestor
<1> QED
  BY <1>1, <1>2, <1>3, StoreSlice, Zenon DEF CacheTypeOK

(* remove_attestor leaves at least one member, and the clamped threshold is a u32. *)
LEMMA RemoveType ==
  ASSUME SliceTypeOK, NEW s \in DOMAIN slices, NEW creator,
         NEW a \in Address, remove_attestor(creator, s, a)
  PROVE  SliceTypeOK'
<1> DEFINE sl == slices[s]
<1>1. WellFormed(sl) /\ CacheTypeOK /\ s \in SliceId
  BY StoredSlice
<1>2. CacheTypeOK'
  BY <1>1, Invalidation DEF remove_attestor
<1>3. PICK i \in DOMAIN sl.attestors :
        /\ OthersRemain(sl)
        /\ slices' = [slices EXCEPT ![s] =
             [sl EXCEPT !.attestors = RemoveAt(sl.attestors, i),
                        !.weights = RemoveAt(sl.weights, i),
                        !.threshold = ClampedThreshold(sl, total_slice_weight(RemoveAt(sl.weights, i))),
                        !.total_weight = total_slice_weight(RemoveAt(sl.weights, i)),
                        !.attestor_set = @ \ {a}]]
  BY Zenon DEF remove_attestor
<1> DEFINE attestors == RemoveAt(sl.attestors, i)
           weights == RemoveAt(sl.weights, i)
           total == total_slice_weight(weights)
           new == [sl EXCEPT !.attestors = attestors, !.weights = weights,
                             !.threshold = ClampedThreshold(sl, total),
                             !.total_weight = total, !.attestor_set = @ \ {a}]
<1>0. /\ sl.attestors \in Seq(Address) /\ i \in 1..Len(sl.attestors)
      /\ sl.weights \in Seq(0..U32_MAX) /\ i \in 1..Len(sl.weights)
  BY <1>1, <1>3, LenProperties DEF WellFormed, QuorumSlice
<1>4. attestors \in Seq(Address) /\ Len(attestors) = Len(sl.attestors) - 1
  BY <1>0, RemoveAtType, Zenon
<1>5. weights \in Seq(0..U32_MAX) /\ Len(weights) = Len(sl.weights) - 1
  BY <1>0, RemoveAtType, Zenon
<1>6. total \in 0..U32_MAX
  BY TotalType
<1>7. ClampedThreshold(sl, total) \in 0..U32_MAX
  BY <1>1, <1>6 DEF ClampedThreshold, WellFormed, QuorumSlice
<1>8. Len(attestors) > 0 /\ Len(weights) = Len(attestors)
  BY <1>1, <1>3, <1>4, <1>5, SMTT(30) DEF OthersRemain, WellFormed, QuorumSlice
<1>9. slices' = [slices EXCEPT ![s] = new]
  BY <1>3
<1> HIDE DEF attestors, weights, total
<1>10. WellFormed(new)
  BY <1>1, <1>4, <1>5, <1>6, <1>7, <1>8, Zenon DEF WellFormed, QuorumSlice
<1> QED
  BY <1>2, <1>9, <1>10, StoreSlice, Zenon DEF remove_attestor

(* replace_attestor changes one address of the vector.                      *)
LEMMA ReplaceType ==
  ASSUME SliceTypeOK, NEW s \in DOMAIN slices, NEW creator,
         NEW a \in Address, NEW b \in Address, replace_attestor(creator, s, a, b)
  PROVE  SliceTypeOK'
<1> DEFINE sl == slices[s]
<1>1. WellFormed(sl) /\ CacheTypeOK
  BY StoredSlice
<1>2. PICK i \in DOMAIN sl.attestors : slices' = [slices EXCEPT ![s].attestors[i] = b]
  BY Zenon DEF replace_attestor
<1> DEFINE attestors == [sl.attestors EXCEPT ![i] = b]
           new == [sl EXCEPT !.attestors = attestors]
<1>3. attestors \in Seq(Address) /\ Len(attestors) = Len(sl.attestors)
  BY <1>1 DEF WellFormed, QuorumSlice
<1>4. WellFormed(new)
  BY <1>1, <1>3, Zenon DEF WellFormed, QuorumSlice
<1>5. slices' = [slices EXCEPT ![s] = new]
  BY <1>2
<1> QED
  BY <1>1, <1>4, <1>5, StoreSlice, Zenon DEF replace_attestor, CacheTypeOK

(* update_attestor_weight changes one weight and the stored total.          *)
LEMMA WeightType ==
  ASSUME SliceTypeOK, NEW s \in DOMAIN slices, NEW creator,
         NEW a \in Address, NEW w \in 0..U32_MAX, update_attestor_weight(creator, s, a, w)
  PROVE  SliceTypeOK'
<1> DEFINE sl == slices[s]
<1>1. WellFormed(sl) /\ CacheTypeOK
  BY StoredSlice
<1>2. PICK i \in DOMAIN sl.attestors :
        slices' = [slices EXCEPT ![s] =
          [sl EXCEPT !.weights = [sl.weights EXCEPT ![i] = w],
                     !.total_weight = total_slice_weight([sl.weights EXCEPT ![i] = w])]]
  BY Zenon DEF update_attestor_weight
<1> DEFINE weights == [sl.weights EXCEPT ![i] = w]
           total == total_slice_weight(weights)
           new == [sl EXCEPT !.weights = weights, !.total_weight = total]
<1>3. weights \in Seq(0..U32_MAX) /\ Len(weights) = Len(sl.weights)
  BY <1>1 DEF WellFormed, QuorumSlice
<1>4. total \in 0..U32_MAX
  BY TotalType
<1>5. slices' = [slices EXCEPT ![s] = new]
  BY <1>2
<1> HIDE DEF weights, total
<1>6. WellFormed(new)
  BY <1>1, <1>3, <1>4, Zenon DEF WellFormed, QuorumSlice
<1> QED
  BY <1>1, <1>5, <1>6, StoreSlice, Zenon DEF update_attestor_weight, CacheTypeOK

(* A vector of weights for the members of a slice.                         *)
LEMMA WeightVector ==
  ASSUME NEW attestors \in Seq(Address), NEW ws \in [DOMAIN attestors -> 0..U32_MAX]
  PROVE  ws \in Seq(0..U32_MAX)
<1>1. Len(attestors) \in Nat /\ DOMAIN attestors = 1..Len(attestors)
  OBVIOUS
<1>2. ws \in [1..Len(attestors) -> 0..U32_MAX]
  BY <1>1
<1>3. Seq(0..U32_MAX) = UNION {[1..n -> 0..U32_MAX] : n \in Nat}
  BY SeqDef, Zenon
<1> QED
  BY <1>1, <1>2, <1>3, Zenon

(* Both threshold calls store a u32 and drop verdicts.                      *)
LEMMA ThresholdUpdateType ==
  ASSUME SliceTypeOK, NEW s \in DOMAIN slices, NEW creator, NEW t \in 0..U32_MAX,
         update_slice_threshold(creator, s, t) \/ update_percentage_threshold(creator, s, t)
  PROVE  SliceTypeOK'
<1> DEFINE sl == slices[s]
<1>1. WellFormed(sl) /\ CacheTypeOK /\ s \in SliceId
  BY StoredSlice
<1>2. CacheTypeOK' /\ UNCHANGED <<suspendedAttestor, maxAttestors>>
  BY <1>1, Invalidation DEF update_slice_threshold, update_percentage_threshold
<1>3. PICK type \in ThresholdType :
        slices' = [slices EXCEPT ![s] = [sl EXCEPT !.threshold = t, !.threshold_type = type]]
  BY DEF update_slice_threshold, update_percentage_threshold, ThresholdType
<1>4. WellFormed([sl EXCEPT !.threshold = t, !.threshold_type = type])
  BY <1>1, Zenon DEF WellFormed, QuorumSlice
<1> QED
  BY <1>2, <1>3, <1>4, StoreSlice, Zenon

(* rebalance_slice stores a weight per member and a u32 threshold.          *)
LEMMA RebalanceType ==
  ASSUME SliceTypeOK, NEW s \in DOMAIN slices, NEW creator, NEW t \in 0..U32_MAX,
         NEW ws \in [DOMAIN slices[s].attestors -> 0..U32_MAX], rebalance_slice(creator, s, ws, t)
  PROVE  SliceTypeOK'
<1> DEFINE sl == slices[s]
           total == total_slice_weight(ws)
           new == [sl EXCEPT !.weights = ws, !.threshold = t, !.total_weight = total]
<1>1. WellFormed(sl) /\ CacheTypeOK /\ s \in SliceId
  BY StoredSlice
<1>2. CacheTypeOK' /\ UNCHANGED <<suspendedAttestor, maxAttestors>>
  BY <1>1, Invalidation DEF rebalance_slice
<1>3. slices' = [slices EXCEPT ![s] = new] /\ Len(ws) = Len(sl.attestors)
  BY DEF rebalance_slice
<1>4. ws \in Seq(0..U32_MAX)
  BY <1>1, WeightVector DEF WellFormed, QuorumSlice
<1>5. total \in 0..U32_MAX
  BY TotalType
<1> HIDE DEF total
<1>6. WellFormed(new)
  BY <1>1, <1>3, <1>4, <1>5, Zenon DEF WellFormed, QuorumSlice
<1> QED
  BY <1>2, <1>3, <1>6, StoreSlice, Zenon

(* reweight_slice stores a weight per member.                               *)
LEMMA ReweightType ==
  ASSUME SliceTypeOK, NEW s \in DOMAIN slices, NEW creator,
         NEW ws \in [DOMAIN slices[s].attestors -> 0..U32_MAX], reweight_slice(creator, s, ws)
  PROVE  SliceTypeOK'
<1> DEFINE sl == slices[s]
           new == [sl EXCEPT !.weights = ws]
<1>1. WellFormed(sl) /\ CacheTypeOK
  BY StoredSlice
<1>2. slices' = [slices EXCEPT ![s] = new] /\ Len(ws) = Len(sl.attestors)
  BY DEF reweight_slice
<1>3. ws \in Seq(0..U32_MAX)
  BY <1>1, WeightVector DEF WellFormed, QuorumSlice
<1>4. WellFormed(new)
  BY <1>1, <1>2, <1>3, Zenon DEF WellFormed, QuorumSlice
<1> QED
  BY <1>1, <1>2, <1>4, StoreSlice, Zenon DEF reweight_slice, CacheTypeOK

(* set_reputation_weighting_enabled stores a Boolean.                       *)
LEMMA WeightingType ==
  ASSUME SliceTypeOK, NEW s \in DOMAIN slices, NEW creator, NEW b \in BOOLEAN,
         set_reputation_weighting_enabled(creator, s, b)
  PROVE  SliceTypeOK'
<1> DEFINE new == [slices[s] EXCEPT !.reputation_weighting_enabled = b]
<1>1. WellFormed(slices[s]) /\ CacheTypeOK
  BY StoredSlice
<1>2. slices' = [slices EXCEPT ![s] = new]
  BY DEF set_reputation_weighting_enabled
<1>3. WellFormed(new)
  BY <1>1, SMTT(30) DEF WellFormed, QuorumSlice
<1> QED
  BY <1>1, <1>2, <1>3, StoreSlice, Zenon DEF set_reputation_weighting_enabled, CacheTypeOK

(* Suspending and resuming touch only pairs of a slice and an address.      *)
LEMMA SuspensionType ==
  ASSUME SliceTypeOK, NEW s \in DOMAIN slices, NEW creator, NEW a \in Address,
         suspend_attestor(creator, s, a) \/ resume_attestor(creator, s, a)
  PROVE  SliceTypeOK'
<1>1. s \in SliceId
  BY StoredSlice
<1> QED
  BY <1>1 DEF SliceTypeOK, suspend_attestor, resume_attestor

(* create_weighted_slice appends a well-formed slice within the bound.      *)
LEMMA CreateType ==
  ASSUME SliceTypeOK, NEW creator \in Address, NEW in \in SliceInputs,
         create_weighted_slice(creator, in.attestors, in.weights, in.threshold, in.threshold_type)
  PROVE  SliceTypeOK'
<1> DEFINE total == total_slice_weight(in.weights)
           new == [creator |-> creator, attestors |-> in.attestors, weights |-> in.weights,
                   threshold |-> in.threshold, threshold_type |-> in.threshold_type,
                   attestor_set |-> ToSet(in.attestors), total_weight |-> total,
                   reputation_weighting_enabled |-> FALSE]
<1>1. /\ in.attestors \in Seq(Address) /\ in.weights \in Seq(0..U32_MAX)
      /\ in.threshold \in 0..U32_MAX /\ in.threshold_type \in ThresholdType
  BY SliceConstants DEF ThresholdType
<1>2. /\ slices' = Append(slices, new) /\ Len(slices) < MaxSliceCount
      /\ Len(in.attestors) > 0 /\ Len(in.weights) = Len(in.attestors)
      /\ UNCHANGED <<suspendedAttestor, maxAttestors, verificationCache>>
  BY <1>1, EmptySeq DEF create_weighted_slice
<1>3. total \in 0..U32_MAX
  BY TotalType
<1>4. ToSet(in.attestors) \subseteq Address
  BY <1>1 DEF ToSet
<1> HIDE DEF total
<1>5. WellFormed(new)
  BY <1>1, <1>2, <1>3, <1>4, SMTT(30) DEF WellFormed, QuorumSlice
<1> HIDE DEF new
<1>6. /\ slices' \in Seq(QuorumSlice) /\ Len(slices') <= MaxSliceCount
      /\ \A t \in DOMAIN slices' :
           Len(slices'[t].attestors) > 0 /\ Len(slices'[t].weights) = Len(slices'[t].attestors)
  BY <1>2, <1>5, SliceConstants, SMTT(30) DEF SliceTypeOK, WellFormed
<1> QED
  BY <1>2, <1>6 DEF SliceTypeOK

----------------------------------------------------------------------------
(* Type correctness. *)

(* The empty contract is well-typed.                                        *)
LEMMA InitType == SliceInit => SliceTypeOK
<1> SUFFICES ASSUME SliceInit PROVE SliceTypeOK
  OBVIOUS
<1>1. slices = <<>> /\ Len(slices) = 0 /\ slices \in Seq(QuorumSlice) /\ DOMAIN slices = {}
  BY DEF SliceInit
<1>2. verificationCache \in [CredentialId -> [SliceId -> CacheEntry \cup {None}]]
  BY DEF SliceInit
<1> QED
  BY <1>1, <1>2, SliceConstants DEF SliceInit, SliceTypeOK

(* Each operation of a slice's creator keeps the types.                    *)
LEMMA SliceOpType ==
  ASSUME SliceTypeOK, NEW creator \in Creators, NEW s \in DOMAIN slices, SliceOp(creator, s)
  PROVE  SliceTypeOK'
<1> USE SliceConstants
<1>1. ASSUME NEW a \in NewMembers, NEW w \in NewWeights, add_attestor(creator, s, a, w)
      PROVE  SliceTypeOK'
  BY <1>1, AddType
<1>2. ASSUME NEW a \in Address, remove_attestor(creator, s, a) PROVE SliceTypeOK'
  BY <1>2, RemoveType, SMTT(30)
<1>3. ASSUME NEW a \in Address, NEW b \in NewMembers, replace_attestor(creator, s, a, b)
      PROVE  SliceTypeOK'
  BY <1>3, ReplaceType
<1>4. ASSUME NEW a \in Address, NEW w \in NewWeights, update_attestor_weight(creator, s, a, w)
      PROVE  SliceTypeOK'
  BY <1>4, WeightType, SMTT(30)
<1>5. ASSUME NEW t \in NewThresholds,
             update_slice_threshold(creator, s, t) \/ update_percentage_threshold(creator, s, t)
      PROVE  SliceTypeOK'
  BY <1>5, ThresholdUpdateType
<1>6. ASSUME NEW ws \in [DOMAIN slices[s].attestors -> NewWeights], NEW t \in NewThresholds,
             rebalance_slice(creator, s, ws, t)
      PROVE  SliceTypeOK'
  <2>1. ws \in [DOMAIN slices[s].attestors -> 0..U32_MAX]
    BY Zenon
  <2> QED
    BY <1>6, <2>1, RebalanceType, SMTT(30)
<1>7. ASSUME NEW ws \in [DOMAIN slices[s].attestors -> NewWeights], reweight_slice(creator, s, ws)
      PROVE  SliceTypeOK'
  <2>1. ws \in [DOMAIN slices[s].attestors -> 0..U32_MAX]
    BY Zenon
  <2> QED
    BY <1>7, <2>1, ReweightType, SMTT(30)
<1>8. ASSUME NEW b \in WeightingSettings, set_reputation_weighting_enabled(creator, s, b)
      PROVE  SliceTypeOK'
  BY <1>8, WeightingType
<1>9. ASSUME NEW a \in Suspendable, suspend_attestor(creator, s, a) \/ resume_attestor(creator, s, a)
      PROVE  SliceTypeOK'
  BY <1>9, SuspensionType
<1> QED
  BY <1>1, <1>2, <1>3, <1>4, <1>5, <1>6, <1>7, <1>8, <1>9, SMTT(30) DEF SliceOp

(* Storing or dropping verdicts keeps the types.                           *)
LEMMA VerdictType ==
  ASSUME SliceTypeOK,
         \/ \E c \in CredentialId, s \in SliceId : record_verdict(c, s)
         \/ \E C \in SUBSET CredentialId, S \in SUBSET SliceId : drop_verdicts(C, S)
  PROVE  SliceTypeOK'
<1>1. CASE \E c \in CredentialId, s \in SliceId : record_verdict(c, s)
  BY <1>1 DEF SliceTypeOK, record_verdict, SetEntry
<1>2. CASE \E C \in SUBSET CredentialId, S \in SUBSET SliceId : drop_verdicts(C, S)
  BY <1>2 DEF SliceTypeOK, drop_verdicts
<1> QED
  BY <1>1, <1>2, SMTT(30)

(* Every call on slices keeps the types.                                    *)
LEMMA SliceCallsType == SliceTypeOK /\ SliceCalls => SliceTypeOK'
<1> SUFFICES ASSUME SliceTypeOK, SliceCalls PROVE SliceTypeOK'
  OBVIOUS
<1>1. ASSUME NEW creator \in Creators, NEW in \in SliceInputs,
             create_weighted_slice(creator, in.attestors, in.weights, in.threshold,
                                   in.threshold_type)
      PROVE  SliceTypeOK'
  BY <1>1, CreateType, SliceConstants, SMTT(30)
<1>2. ASSUME NEW creator \in Creators, NEW s \in DOMAIN slices, SliceOp(creator, s)
      PROVE  SliceTypeOK'
  BY <1>2, SliceOpType
<1>3. ASSUME NEW n \in NewMaxAttestors, set_max_attestors_per_slice(n)
      PROVE  SliceTypeOK'
  BY <1>3, SliceConstants, SMTT(30) DEF SliceTypeOK, set_max_attestors_per_slice
<1> QED
  BY <1>1, <1>2, <1>3, SMTT(30) DEF SliceCalls

(* Every step, stuttering included, keeps the types.                        *)
LEMMA SliceNextType == SliceTypeOK /\ [SliceNext]_sliceVars => SliceTypeOK'
<1>1. SliceTypeOK /\ UNCHANGED sliceVars => SliceTypeOK'
  BY DEF SliceTypeOK, sliceVars
<1> QED
  BY <1>1, SliceCallsType, VerdictType, SMTT(30) DEF SliceNext

(* Whatever calls are made on them, the stored slices keep their types:    *)
(* sums of weights stay within u32, no slice loses its last attestor, and  *)
(* each attestor has exactly one weight.                                   *)
THEOREM SliceTypes == SliceSpec => []SliceTypeOK
  BY InitType, SliceNextType, PTL DEF SliceSpec

----------------------------------------------------------------------------
(* Invalidation of the verdicts on a slice. *)

(* Nothing that could turn a verdict around happened to slice s, as far as *)
(* its threshold and the number of its members go.                         *)
Kept(s) ==
  /\ slices'[s].threshold = slices[s].threshold
  /\ slices'[s].threshold_type = slices[s].threshold_type
  /\ ~(Len(slices'[s].attestors) < Len(slices[s].attestors))

NoVerdicts(s) == \A c \in CredentialId : verificationCache'[c][s] = None

(* Storing, under the id of a slice, one with the same threshold and no    *)
(* fewer attestors keeps every slice in that sense.                        *)
LEMMA StoreKept ==
  ASSUME SliceTypeOK, NEW s \in DOMAIN slices, NEW sl,
         slices' = [slices EXCEPT ![s] = sl],
         sl.threshold = slices[s].threshold, sl.threshold_type = slices[s].threshold_type,
         ~(Len(sl.attestors) < Len(slices[s].attestors))
  PROVE  \A t \in DOMAIN slices : Kept(t)
<1>1. slices'[s] = sl /\ \A t \in DOMAIN slices \ {s} : slices'[t] = slices[t]
  BY DEF SliceTypeOK
<1>2. \A t \in DOMAIN slices : Len(slices[t].attestors) \in Nat
  BY StoredSlice, LenProperties DEF WellFormed, QuorumSlice
<1> QED
  BY <1>1, <1>2, SMTT(30) DEF Kept

(* So does a call that changes no slice.                                   *)
LEMMA UnchangedKept ==
  ASSUME SliceTypeOK, UNCHANGED slices PROVE \A t \in DOMAIN slices : Kept(t)
  BY SMTT(30) DEF Kept, SliceTypeOK, QuorumSlice

(* The calls that leave the threshold alone and do not shorten the vector. *)
LEMMA QuietOp ==
  ASSUME SliceTypeOK, NEW creator, NEW s \in DOMAIN slices,
         \/ \E a \in NewMembers, w \in NewWeights : add_attestor(creator, s, a, w)
         \/ \E a \in Address, b \in NewMembers : replace_attestor(creator, s, a, b)
         \/ \E a \in Address, w \in NewWeights : update_attestor_weight(creator, s, a, w)
         \/ \E ws \in [DOMAIN slices[s].attestors -> NewWeights] : reweight_slice(creator, s, ws)
         \/ \E b \in WeightingSettings : set_reputation_weighting_enabled(creator, s, b)
         \/ \E a \in Suspendable : suspend_attestor(creator, s, a) \/ resume_attestor(creator, s, a)
  PROVE  \A t \in DOMAIN slices : Kept(t)
<1> DEFINE sl == slices[s]
<1>1. /\ sl \in QuorumSlice /\ sl.attestors \in Seq(Address)
      /\ Len(sl.attestors) \in Nat /\ ~(Len(sl.attestors) < Len(sl.attestors))
  BY StoredSlice DEF WellFormed, QuorumSlice
<1>2. ASSUME NEW a \in NewMembers, NEW w \in NewWeights, add_attestor(creator, s, a, w)
      PROVE  \A t \in DOMAIN slices : Kept(t)
  <2> DEFINE new == [sl EXCEPT !.attestors = Append(sl.attestors, a),
                               !.weights = Append(sl.weights, w),
                               !.total_weight = total_slice_weight(Append(sl.weights, w)),
                               !.attestor_set = @ \cup {a}]
  <2>1. slices' = [slices EXCEPT ![s] = new]
    BY <1>2, Zenon DEF add_attestor
  <2>2. /\ new.attestors = Append(sl.attestors, a)
        /\ new.threshold = sl.threshold /\ new.threshold_type = sl.threshold_type
    BY <1>1 DEF QuorumSlice
  <2>3. ~(Len(Append(sl.attestors, a)) < Len(sl.attestors))
    BY <1>1, SliceConstants, SMTT(30)
  <2> HIDE DEF new
  <2> QED
    BY <2>1, <2>2, <2>3, StoreKept, Zenon
<1>3. ASSUME NEW a \in Address, NEW b \in NewMembers, replace_attestor(creator, s, a, b)
      PROVE  \A t \in DOMAIN slices : Kept(t)
  <2>1. PICK i \in DOMAIN sl.attestors : slices' = [slices EXCEPT ![s].attestors[i] = b]
    BY <1>3, Zenon DEF replace_attestor
  <2> DEFINE new == [sl EXCEPT !.attestors = [sl.attestors EXCEPT ![i] = b]]
  <2>2. slices' = [slices EXCEPT ![s] = new]
    BY <2>1
  <2>3. /\ Len(new.attestors) = Len(sl.attestors)
        /\ new.threshold = sl.threshold /\ new.threshold_type = sl.threshold_type
    BY <1>1, SliceConstants DEF QuorumSlice
  <2> HIDE DEF new
  <2> QED
    BY <1>1, <2>2, <2>3, StoreKept, Zenon
<1>4. ASSUME NEW a \in Address, NEW w \in NewWeights, update_attestor_weight(creator, s, a, w)
      PROVE  \A t \in DOMAIN slices : Kept(t)
  <2>1. PICK ws, total : slices' = [slices EXCEPT ![s] =
                           [sl EXCEPT !.weights = ws, !.total_weight = total]]
    BY <1>4, Zenon DEF update_attestor_weight
  <2> DEFINE new == [sl EXCEPT !.weights = ws, !.total_weight = total]
  <2>2. /\ new.attestors = sl.attestors
        /\ new.threshold = sl.threshold /\ new.threshold_type = sl.threshold_type
    BY <1>1 DEF QuorumSlice
  <2> HIDE DEF new
  <2> QED
    BY <1>1, <2>1, <2>2, StoreKept, Zenon DEF new
<1>5. ASSUME NEW ws \in [DOMAIN slices[s].attestors -> NewWeights], reweight_slice(creator, s, ws)
      PROVE  \A t \in DOMAIN slices : Kept(t)
  <2> DEFINE new == [sl EXCEPT !.weights = ws]
  <2>1. slices' = [slices EXCEPT ![s] = new]
    BY <1>5 DEF reweight_slice
  <2>2. /\ new.attestors = sl.attestors
        /\ new.threshold = sl.threshold /\ new.threshold_type = sl.threshold_type
    BY <1>1 DEF QuorumSlice
  <2> HIDE DEF new
  <2> QED
    BY <1>1, <2>1, <2>2, StoreKept, Zenon
<1>6. ASSUME NEW b \in WeightingSettings, set_reputation_weighting_enabled(creator, s, b)
      PROVE  \A t \in DOMAIN slices : Kept(t)
  <2> DEFINE new == [sl EXCEPT !.reputation_weighting_enabled = b]
  <2>1. slices' = [slices EXCEPT ![s] = new]
    BY <1>6 DEF set_reputation_weighting_enabled
  <2>2. /\ new.attestors = sl.attestors
        /\ new.threshold = sl.threshold /\ new.threshold_type = sl.threshold_type
    BY <1>1, SMTT(30) DEF QuorumSlice
  <2> HIDE DEF new
  <2> QED
    BY <1>1, <2>1, <2>2, StoreKept, Zenon
<1>7. UNCHANGED slices => \A t \in DOMAIN slices : Kept(t)
  BY UnchangedKept, SMTT(30)
<1> QED
  BY <1>2, <1>3, <1>4, <1>5, <1>6, <1>7 DEF suspend_attestor, resume_attestor

(* The calls that change the threshold or shorten the attestor vector drop *)
(* the verdicts on the slice and keep every other slice.                   *)
LEMMA LoudOp ==
  ASSUME SliceTypeOK, NEW creator, NEW s \in DOMAIN slices,
         \/ \E a \in Address : remove_attestor(creator, s, a)
         \/ \E t \in NewThresholds : update_slice_threshold(creator, s, t)
         \/ \E t \in NewThresholds : update_percentage_threshold(creator, s, t)
         \/ \E ws \in [DOMAIN slices[s].attestors -> NewWeights], t \in NewThresholds :
              rebalance_slice(creator, s, ws, t)
  PROVE  \A t \in DOMAIN slices : Kept(t) \/ NoVerdicts(t)
<1>1. CacheTypeOK /\ s \in SliceId /\ slices \in Seq(QuorumSlice)
  BY StoredSlice DEF SliceTypeOK
<1>2. invalidate_verification_caches_for_slice(s)
  BY Zenon DEF remove_attestor, update_slice_threshold, update_percentage_threshold, rebalance_slice
<1>3. NoVerdicts(s)
  BY <1>1, <1>2, Invalidation, SMTT(30) DEF NoVerdicts
<1>4. PICK new : slices' = [slices EXCEPT ![s] = new]
  BY Zenon DEF remove_attestor, update_slice_threshold, update_percentage_threshold, rebalance_slice
<1>5. \A t \in DOMAIN slices \ {s} : slices'[t] = slices[t] /\ Len(slices[t].attestors) \in Nat
  <2>1. \A t \in DOMAIN slices \ {s} : slices'[t] = slices[t]
    BY <1>1, <1>4, SMTT(30)
  <2>2. \A t \in DOMAIN slices : Len(slices[t].attestors) \in Nat
    BY StoredSlice, LenProperties, SMTT(30) DEF WellFormed, QuorumSlice
  <2> QED
    BY <2>1, <2>2, SMTT(30)
<1> QED
  BY <1>3, <1>5, SMTT(30) DEF Kept

(* Every step keeps a slice or drops the verdicts on it.                   *)
LEMMA KeptOrDropped ==
  SliceTypeOK /\ SliceNext => \A t \in DOMAIN slices : Kept(t) \/ NoVerdicts(t)
<1> SUFFICES ASSUME SliceTypeOK, SliceNext
             PROVE  \A t \in DOMAIN slices : Kept(t) \/ NoVerdicts(t)
  OBVIOUS
<1>1. ASSUME NEW creator \in Creators, NEW in \in SliceInputs,
             create_weighted_slice(creator, in.attestors, in.weights, in.threshold,
                                   in.threshold_type)
      PROVE  \A t \in DOMAIN slices : Kept(t)
  <2>1. PICK new : slices' = Append(slices, new)
    BY <1>1 DEF create_weighted_slice
  <2>2. slices \in Seq(QuorumSlice) /\ DOMAIN slices = 1..Len(slices) /\ Len(slices) \in Nat
    BY DEF SliceTypeOK
  <2>3. \A t \in DOMAIN slices : slices'[t] = slices[t] /\ Len(slices[t].attestors) \in Nat
    BY <2>1, <2>2, SMTT(30) DEF QuorumSlice
  <2> QED
    BY <2>3 DEF Kept
<1>2. ASSUME NEW creator \in Creators, NEW s \in DOMAIN slices, SliceOp(creator, s)
      PROVE  \A t \in DOMAIN slices : Kept(t) \/ NoVerdicts(t)
  BY <1>2, QuietOp, LoudOp, Zenon DEF SliceOp
<1>3. \/ \E n \in NewMaxAttestors : set_max_attestors_per_slice(n)
      \/ \E c \in CredentialId, s \in SliceId : record_verdict(c, s)
      \/ \E C \in SUBSET CredentialId, S \in SUBSET SliceId : drop_verdicts(C, S)
      => UNCHANGED slices
  BY DEF set_max_attestors_per_slice, record_verdict, drop_verdicts
<1> QED
  BY <1>1, <1>2, <1>3, UnchangedKept, SMTT(30) DEF SliceNext, SliceCalls

(* No operation of the contract changes a slice's threshold, or shortens   *)
(* its list of members, and leaves a verdict on it in the cache, for any   *)
(* credential.                                                             *)
THEOREM ThresholdChanges == SliceSpec => ThresholdChangeInvalidates
<1>1. SliceTypeOK /\ SliceNext =>
        \A s \in DOMAIN slices :
          \/ slices'[s].threshold # slices[s].threshold
          \/ slices'[s].threshold_type # slices[s].threshold_type
          \/ Len(slices'[s].attestors) < Len(slices[s].attestors)
          => \A c \in CredentialId : verificationCache'[c][s] = None
  BY KeptOrDropped DEF Kept, NoVerdicts
<1> QED
  BY <1>1, SliceTypes, PTL DEF SliceSpec, ThresholdChangeInvalidates
=============================================================================
