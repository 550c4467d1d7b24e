---------------------- MODULE DelegationHistory_proofs ----------------------
(***************************************************************************)
(* A revoked delegate and a removed member stay out, for any number of     *)
(* addresses, slices and calls.  The argument is an invariant on the keys  *)
(* that resolve_attestor reads: the reverse index does not lead a revoked  *)
(* delegate to the delegator, and the attestor set has no removed member.  *)
(***************************************************************************)
EXTENDS DelegationHistory, QuorumSlices_proofs

(* Removing one entry of a vector takes at most that entry's value away.   *)
LEMMA RemoveAtKeeps ==
  ASSUME NEW S, NEW seq \in Seq(S), NEW i \in 1..Len(seq), NEW j \in 1..Len(seq), j # i
  PROVE  seq[j] \in ToSet(RemoveAt(seq, i))
<1> DEFINE before == SubSeq(seq, 1, i - 1)
           after == SubSeq(seq, i + 1, Len(seq))
           short == before \o after
<1>0. Len(seq) \in Nat /\ i \in Int /\ j \in Int
  BY LenProperties
<1>1. /\ before \in Seq(S) /\ Len(before) = i - 1
      /\ \A k \in 1..(i - 1) : before[k] = seq[k]
  BY <1>0, SubSeqProperties
<1>2. /\ after \in Seq(S) /\ Len(after) = Len(seq) - i
      /\ \A k \in 1..(Len(seq) - i) : after[k] = seq[i + k]
  BY <1>0, SubSeqProperties
<1>3. RemoveAt(seq, i) = short
  BY DEF RemoveAt
<1> HIDE DEF before, after
<1>4. /\ short \in Seq(S) /\ Len(short) = Len(before) + Len(after)
      /\ \A k \in 1..Len(before) + Len(after) :
           short[k] = IF k <= Len(before) THEN before[k] ELSE after[k - Len(before)]
  BY <1>1, <1>2, ConcatProperties
<1> HIDE DEF short
<1>5. \E k \in 1..Len(short) : short[k] = seq[j]
  <2>1. CASE j < i
    <3>1. j \in 1..(i - 1) /\ j \in 1..Len(short)
      BY <1>0, <1>1, <1>2, <1>4, <2>1, SMTT(30)
    <3>2. short[j] = seq[j]
      BY <1>0, <1>1, <1>2, <1>4, <3>1, SMTT(30)
    <3> QED
      BY <3>1, <3>2
  <2>2. CASE i < j
    <3>1. j - i \in 1..(Len(seq) - i) /\ j - 1 \in 1..Len(short) /\ ~(j - 1 <= Len(before))
          /\ (j - 1) - Len(before) = j - i /\ i + (j - i) = j
      BY <1>0, <1>1, <1>2, <1>4, <2>2, SMTT(30)
    <3>2. short[j - 1] = after[j - i]
      BY <1>1, <1>2, <1>4, <3>1
    <3>3. after[j - i] = seq[j]
      BY <1>2, <3>1
    <3> QED
      BY <3>1, <3>2, <3>3, SMTT(30)
  <2> QED
    BY <1>0, <2>1, <2>2
<1>6. DOMAIN short = 1..Len(short)
  BY <1>4, LenProperties
<1> QED
  BY <1>3, <1>5, <1>6 DEF ToSet

----------------------------------------------------------------------------
(* The attestor set against the attestor vector. *)

(* The attestor set of slice s gains nobody outside the new vector, and    *)
(* loses the member that a shorter vector has lost.                        *)
InStep(s) ==
  \A a : a \notin ToSet(slices'[s].attestors) =>
    /\ a \in slices'[s].attestor_set => a \in slices[s].attestor_set
    /\ a \in ToSet(slices[s].attestors) /\ Len(slices'[s].attestors) < Len(slices[s].attestors)
       => a \notin slices'[s].attestor_set

(* Storing under an id a slice that stands in this relation to the old one *)
(* does so for every slice.                                                *)
LEMMA StoreInStep ==
  ASSUME SliceTypeOK, NEW s \in DOMAIN slices, NEW sl, slices' = [slices EXCEPT ![s] = sl],
         \A a : a \notin ToSet(sl.attestors) =>
           /\ a \in sl.attestor_set => a \in slices[s].attestor_set
           /\ a \in ToSet(slices[s].attestors) /\ Len(sl.attestors) < Len(slices[s].attestors)
              => a \notin sl.attestor_set
  PROVE  DOMAIN slices' = DOMAIN slices /\ \A t \in DOMAIN slices : InStep(t)
<1>1. /\ DOMAIN slices' = DOMAIN slices /\ slices'[s] = sl
      /\ \A t \in DOMAIN slices \ {s} : slices'[t] = slices[t]
  BY DEF SliceTypeOK
<1>2. InStep(s)
  BY <1>1, Zenon DEF InStep
<1>3. ASSUME NEW t \in DOMAIN slices, t # s PROVE InStep(t)
  BY <1>1, <1>3, Zenon DEF InStep
<1> QED
  BY <1>1, <1>2, <1>3, SMTT(30)

(* So does a call that leaves the set alone and the vector as long.        *)
LEMMA QuietInStep ==
  ASSUME SliceTypeOK, NEW s \in DOMAIN slices, NEW sl, slices' = [slices EXCEPT ![s] = sl],
         sl.attestor_set = slices[s].attestor_set,
         Len(sl.attestors) = Len(slices[s].attestors)
  PROVE  DOMAIN slices' = DOMAIN slices /\ \A t \in DOMAIN slices : InStep(t)
<1>1. ~(Len(sl.attestors) < Len(slices[s].attestors))
  BY StoredSlice, LenProperties DEF WellFormed, QuorumSlice
<1> QED
  BY <1>1, StoreInStep, Zenon

(* remove_attestor takes the address from the vector and from the set.     *)
LEMMA RemoveInStep ==
  ASSUME SliceTypeOK, NEW s \in DOMAIN slices, NEW creator, NEW a \in Address,
         remove_attestor(creator, s, a)
  PROVE  DOMAIN slices' = DOMAIN slices /\ \A t \in DOMAIN slices : InStep(t)
<1> DEFINE sl == slices[s]
<1>1. WellFormed(sl)
  BY StoredSlice
<1>2. PICK i \in DOMAIN sl.attestors :
        /\ IsPosition(sl.attestors, i, a)
        /\ slices' = [slices EXCEPT ![s] =
             [sl EXCEPT !.attestors = RemoveAt(sl.attestors, i),
                        !.weights = RemoveAt(sl.weights, i),
                        !.threshold = ClampedThreshold(sl, total_slice_weight(RemoveAt(sl.weights, i))),
                        !.total_weight = total_slice_weight(RemoveAt(sl.weights, i)),
                        !.attestor_set = @ \ {a}]]
  BY Zenon DEF remove_attestor
<1> DEFINE weights == RemoveAt(sl.weights, i)
           total == total_slice_weight(weights)
           new == [sl EXCEPT !.attestors = RemoveAt(sl.attestors, i), !.weights = weights,
                             !.threshold = ClampedThreshold(sl, total),
                             !.total_weight = total, !.attestor_set = @ \ {a}]
<1>3. new.attestors = RemoveAt(sl.attestors, i) /\ new.attestor_set = sl.attestor_set \ {a}
  BY <1>1 DEF WellFormed, QuorumSlice
<1>4. sl.attestors \in Seq(Address) /\ i \in 1..Len(sl.attestors) /\ sl.attestors[i] = a
  <2>1. sl.attestors[i] = a
    BY <1>2, Zenon DEF IsPosition
  <2> QED
    BY <1>1, <2>1, LenProperties, SMTT(30) DEF WellFormed, QuorumSlice
<1>5. \A b \in ToSet(sl.attestors) : b # a => b \in ToSet(RemoveAt(sl.attestors, i))
  <2> SUFFICES ASSUME NEW b \in ToSet(sl.attestors), b # a
               PROVE  b \in ToSet(RemoveAt(sl.attestors, i))
    OBVIOUS
  <2>1. PICK j \in 1..Len(sl.attestors) : sl.attestors[j] = b
    BY <1>4 DEF ToSet
  <2>2. j # i
    BY <1>4, <2>1
  <2> QED
    BY <1>4, <2>1, <2>2, RemoveAtKeeps, Zenon
<1>6. slices' = [slices EXCEPT ![s] = new]
  BY <1>2
<1> HIDE DEF new
<1> QED
  BY <1>3, <1>5, <1>6, StoreInStep, Zenon

(* Each operation of a slice's creator keeps set and vector in step.       *)
LEMMA OpInStep ==
  ASSUME SliceTypeOK, NEW creator, NEW s \in DOMAIN slices, SliceOp(creator, s)
  PROVE  (DOMAIN slices' = DOMAIN slices /\ \A t \in DOMAIN slices : InStep(t)) \/ UNCHANGED slices
<1> DEFINE sl == slices[s]
           Goal == DOMAIN slices' = DOMAIN slices /\ \A t \in DOMAIN slices : InStep(t)
<1>1. sl \in QuorumSlice /\ sl.attestors \in Seq(Address) /\ Len(sl.attestors) \in Nat
  BY StoredSlice DEF WellFormed, QuorumSlice
<1>2. ASSUME NEW a \in NewMembers, NEW w \in NewWeights, add_attestor(creator, s, a, w)
      PROVE  Goal
  <2>1. PICK ws, total : slices' = [slices EXCEPT ![s] =
          [sl EXCEPT !.attestors = Append(sl.attestors, a), !.weights = ws,
                     !.total_weight = total, !.attestor_set = @ \cup {a}]]
    BY <1>2, Zenon DEF add_attestor
  <2> DEFINE new == [sl EXCEPT !.attestors = Append(sl.attestors, a), !.weights = ws,
                               !.total_weight = total, !.attestor_set = @ \cup {a}]
  <2>2. new.attestors = Append(sl.attestors, a) /\ new.attestor_set = sl.attestor_set \cup {a}
    BY <1>1 DEF QuorumSlice
  <2>3. /\ a \in ToSet(Append(sl.attestors, a))
        /\ ~(Len(Append(sl.attestors, a)) < Len(sl.attestors))
    <3> DEFINE n == Len(sl.attestors)
               long == Append(sl.attestors, a)
    <3>1. Len(long) = n + 1 /\ long[n + 1] = a /\ DOMAIN long = 1..(n + 1)
      BY <1>1, SliceConstants, SMTT(30)
    <3>2. n + 1 \in 1..(n + 1) /\ ~(n + 1 < n)
      BY <1>1
    <3> QED
      BY <3>1, <3>2, Zenon DEF ToSet
  <2>4. slices' = [slices EXCEPT ![s] = new]
    BY <2>1
  <2> HIDE DEF new
  <2> QED
    BY <2>2, <2>3, <2>4, StoreInStep, Zenon
<1>3. ASSUME NEW a \in Address, NEW b \in NewMembers, replace_attestor(creator, s, a, b)
      PROVE  Goal
  <2>1. PICK i \in DOMAIN sl.attestors : slices' = [slices EXCEPT ![s].attestors[i] = b]
    BY <1>3, Zenon DEF replace_attestor
  <2> DEFINE new == [sl EXCEPT !.attestors = [sl.attestors EXCEPT ![i] = b]]
  <2>2. slices' = [slices EXCEPT ![s] = new]
    BY <2>1
  <2>3. Len(new.attestors) = Len(sl.attestors) /\ new.attestor_set = sl.attestor_set
    BY <1>1, SliceConstants DEF QuorumSlice
  <2> HIDE DEF new
  <2> QED
    BY <2>2, <2>3, QuietInStep, Zenon
<1>4. ASSUME NEW new, slices' = [slices EXCEPT ![s] = new],
             new.attestors = sl.attestors, new.attestor_set = sl.attestor_set
      PROVE  Goal
  BY <1>4, QuietInStep, Zenon
<1>5. ASSUME NEW a \in Address, NEW w \in NewWeights, update_attestor_weight(creator, s, a, w)
      PROVE  Goal
  <2>1. PICK ws, total : slices' = [slices EXCEPT ![s] =
                           [sl EXCEPT !.weights = ws, !.total_weight = total]]
    BY <1>5, Zenon DEF update_attestor_weight
  <2> DEFINE new == [sl EXCEPT !.weights = ws, !.total_weight = total]
  <2>2. new.attestors = sl.attestors /\ new.attestor_set = sl.attestor_set
    BY <1>1 DEF QuorumSlice
  <2> HIDE DEF new, Goal
  <2> QED
    BY <2>1, <2>2, <1>4, Zenon DEF new
<1>6. ASSUME NEW th \in NewThresholds,
             update_slice_threshold(creator, s, th) \/ update_percentage_threshold(creator, s, th)
      PROVE  Goal
  <2>1. PICK type : slices' = [slices EXCEPT ![s] =
                      [sl EXCEPT !.threshold = th, !.threshold_type = type]]
    BY <1>6, Zenon DEF update_slice_threshold, update_percentage_threshold
  <2> DEFINE new == [sl EXCEPT !.threshold = th, !.threshold_type = type]
  <2>2. new.attestors = sl.attestors /\ new.attestor_set = sl.attestor_set
    BY <1>1 DEF QuorumSlice
  <2> HIDE DEF new, Goal
  <2> QED
    BY <2>1, <2>2, <1>4, Zenon DEF new
<1>7. ASSUME NEW ws, NEW th, rebalance_slice(creator, s, ws, th)
      PROVE  Goal
  <2> DEFINE total == total_slice_weight(ws)
             new == [sl EXCEPT !.weights = ws, !.threshold = th, !.total_weight = total]
  <2>1. slices' = [slices EXCEPT ![s] = new]
    BY <1>7, Zenon DEF rebalance_slice
  <2>2. new.attestors = sl.attestors /\ new.attestor_set = sl.attestor_set
    BY <1>1, SMTT(30) DEF QuorumSlice
  <2> HIDE DEF new, Goal
  <2> QED
    BY <2>1, <2>2, <1>4, ZenonT(30)
<1>8. ASSUME NEW ws, reweight_slice(creator, s, ws) PROVE Goal
  <2> DEFINE new == [sl EXCEPT !.weights = ws]
  <2>1. slices' = [slices EXCEPT ![s] = new]
    BY <1>8 DEF reweight_slice
  <2>2. new.attestors = sl.attestors /\ new.attestor_set = sl.attestor_set
    BY <1>1, SMTT(30) DEF QuorumSlice
  <2> HIDE DEF new, Goal
  <2> QED
    BY <2>1, <2>2, <1>4, Zenon
<1>9. ASSUME NEW b, set_reputation_weighting_enabled(creator, s, b) PROVE Goal
  <2> DEFINE new == [sl EXCEPT !.reputation_weighting_enabled = b]
  <2>1. slices' = [slices EXCEPT ![s] = new]
    BY <1>9 DEF set_reputation_weighting_enabled
  <2>2. new.attestors = sl.attestors /\ new.attestor_set = sl.attestor_set
    BY <1>1 DEF QuorumSlice
  <2> HIDE DEF new, Goal
  <2> QED
    BY <2>1, <2>2, <1>4, Zenon
<1>10. ASSUME NEW a \in Address, remove_attestor(creator, s, a) PROVE Goal
  BY <1>10, RemoveInStep, Zenon
<1>11. ASSUME NEW a, suspend_attestor(creator, s, a) \/ resume_attestor(creator, s, a)
       PROVE  UNCHANGED slices
  BY <1>11, Zenon DEF suspend_attestor, resume_attestor
<1> HIDE DEF Goal
<1>12. Goal \/ UNCHANGED slices
  BY <1>2, <1>3, <1>5, <1>6, <1>7, <1>8, <1>9, <1>10, <1>11, Zenon DEF SliceOp
<1> QED
  BY <1>12, Zenon DEF Goal

(* Every step on slices keeps the stored slices and set and vector in step. *)
LEMMA SliceInStep ==
  ASSUME SliceTypeOK, [SliceNext]_sliceVars
  PROVE  DOMAIN slices \subseteq DOMAIN slices' /\ \A t \in DOMAIN slices : InStep(t)
<1> DEFINE Goal == DOMAIN slices \subseteq DOMAIN slices' /\ \A t \in DOMAIN slices : InStep(t)
<1>0. \A t \in DOMAIN slices : ~(Len(slices[t].attestors) < Len(slices[t].attestors))
  BY StoredSlice, LenProperties, SMTT(30) DEF WellFormed, QuorumSlice
<1>1. ASSUME NEW creator \in Creators, NEW in \in SliceInputs,
             create_weighted_slice(creator, in.attestors, in.weights, in.threshold,
                                   in.threshold_type)
      PROVE  Goal
  <2>1. PICK new : slices' = Append(slices, new)
    BY <1>1 DEF create_weighted_slice
  <2>2. slices \in Seq(QuorumSlice)
    BY DEF SliceTypeOK
  <2>3. DOMAIN slices \subseteq DOMAIN slices' /\ \A t \in DOMAIN slices : slices'[t] = slices[t]
    BY <2>1, <2>2, SMTT(30)
  <2> QED
    BY <1>0, <2>3, Zenon DEF InStep
<1>2. UNCHANGED slices => Goal
  BY <1>0, Zenon DEF InStep
<1> HIDE DEF Goal
<1>3. ASSUME NEW creator \in Creators, NEW s \in DOMAIN slices, SliceOp(creator, s)
      PROVE  Goal
  BY <1>2, <1>3, OpInStep, Zenon DEF Goal
<1>4. \/ \E n \in NewMaxAttestors : set_max_attestors_per_slice(n)
      \/ \E c \in CredentialId, s \in SliceId : record_verdict(c, s)
      \/ \E C \in SUBSET CredentialId, S \in SUBSET SliceId : drop_verdicts(C, S)
      \/ UNCHANGED sliceVars
      => UNCHANGED slices
  BY DEF set_max_attestors_per_slice, record_verdict, drop_verdicts, sliceVars
<1>5. Goal
  BY <1>1, <1>2, <1>3, <1>4, Zenon DEF SliceNext, SliceCalls
<1> QED
  BY <1>5, Zenon DEF Goal

----------------------------------------------------------------------------
(* Types of the delegation keys. *)

(* The contract without slices and delegations is well-typed.              *)
LEMMA DelegationInitType == DelegationInit => DelegationTypeOK
<1> SUFFICES ASSUME DelegationInit PROVE DelegationTypeOK
  OBVIOUS
<1>1. SliceTypeOK
  BY InitType DEF DelegationInit
<1>2. \A a \in Address : a # None
  BY SliceConstants
<1> QED
  BY <1>1, <1>2, DelegationConstants, SMTT(30) DEF DelegationInit, DelegationTypeOK

(* Steps on slices come with unchanged delegations, and the others with    *)
(* unchanged slices.                                                       *)
LEMMA StepKinds ==
  ASSUME [HistoryNext]_allVars
  PROVE  \/ [SliceNext]_sliceVars /\ UNCHANGED delegationVars
         \/ /\ UNCHANGED sliceVars
            /\ \/ \E s \in DOMAIN slices : DelegationOp(s)
               \/ Tick
<1>1. CASE HistoryNext
  BY <1>1, Zenon DEF HistoryNext, DelegationNext, DelegationOp, delegate_slice_vote,
     revoke_slice_delegation, Tick, sliceVars
<1>2. CASE UNCHANGED allVars
  BY <1>2 DEF allVars
<1> QED
  BY <1>1, <1>2, SMTT(30)

(* delegate_slice_vote stores a delegation to somebody else, both ways.    *)
LEMMA DelegateType ==
  ASSUME DelegationTypeOK, UNCHANGED sliceVars, NEW s \in SliceId, NEW a \in Address,
         NEW b \in Delegates, NEW t \in DelegationExpiries, delegate_slice_vote(a, s, b, t)
  PROVE  DelegationTypeOK'
<1>1. SliceTypeOK'
  BY DEF SliceTypeOK, DelegationTypeOK, sliceVars
<1>2. b \in Address /\ t \in Nat \cup {None} /\ a # b /\ now' = now
  BY DelegationConstants DEF delegate_slice_vote
<1>3. [delegate |-> b, expires_at |-> t] \in Delegation
  BY <1>2, SMTT(30) DEF Delegation
<1>4. /\ sliceDelegation' \in [SliceId -> [Address -> Delegation \cup {None}]]
      /\ delegateOf' \in [SliceId -> [Address -> Address \cup {None}]]
  BY <1>2, <1>3, SMTT(30) DEF delegate_slice_vote, DelegationTypeOK
<1>5. ASSUME NEW u \in SliceId, NEW x \in Address
      PROVE  /\ delegateOf'[u][x] # x
             /\ sliceDelegation'[u][x] # None => sliceDelegation'[u][x].delegate # x
  BY <1>2, SMTT(30) DEF delegate_slice_vote, DelegationTypeOK
<1> QED
  BY <1>1, <1>2, <1>4, <1>5, SMTT(30) DEF DelegationTypeOK

(* revoke_slice_delegation removes one entry of either key.                *)
LEMMA RevokeType ==
  ASSUME DelegationTypeOK, UNCHANGED sliceVars, NEW s \in SliceId, NEW a \in Address,
         revoke_slice_delegation(a, s)
  PROVE  DelegationTypeOK'
<1>1. SliceTypeOK'
  BY DEF SliceTypeOK, DelegationTypeOK, sliceVars
<1>2. sliceDelegation[s][a].delegate \in Address /\ now' = now
  BY DEF revoke_slice_delegation, DelegationTypeOK, Delegation
<1>3. /\ sliceDelegation' \in [SliceId -> [Address -> Delegation \cup {None}]]
      /\ delegateOf' \in [SliceId -> [Address -> Address \cup {None}]]
  BY <1>2, SMTT(30) DEF revoke_slice_delegation, DelegationTypeOK
<1>4. ASSUME NEW u \in SliceId, NEW x \in Address
      PROVE  /\ delegateOf'[u][x] # x
             /\ sliceDelegation'[u][x] # None => sliceDelegation'[u][x].delegate # x
  BY <1>2, SliceConstants, SMTT(30) DEF revoke_slice_delegation, DelegationTypeOK
<1> QED
  BY <1>1, <1>2, <1>3, <1>4, SMTT(30) DEF DelegationTypeOK

(* Every step keeps the types.                                             *)
LEMMA DelegationNextType ==
  ASSUME DelegationTypeOK, [HistoryNext]_allVars PROVE DelegationTypeOK'
<1>1. CASE [SliceNext]_sliceVars /\ UNCHANGED delegationVars
  <2>1. SliceTypeOK'
    BY <1>1, SliceNextType, SMTT(30) DEF DelegationTypeOK
  <2> QED
    BY <1>1, <2>1, SMTT(30) DEF DelegationTypeOK, delegationVars
<1>2. ASSUME UNCHANGED sliceVars, NEW s \in DOMAIN slices, DelegationOp(s) PROVE DelegationTypeOK'
  <2>1. s \in SliceId
    BY StoredSlice, SMTT(30) DEF DelegationTypeOK
  <2> QED
    BY <1>2, <2>1, DelegateType, RevokeType, SMTT(30) DEF DelegationOp
<1>3. CASE UNCHANGED sliceVars /\ Tick
  <2>1. SliceTypeOK'
    BY <1>3 DEF SliceTypeOK, DelegationTypeOK, sliceVars
  <2> QED
    BY <1>3, <2>1, DelegationConstants, SMTT(30) DEF DelegationTypeOK, Tick
<1> QED
  BY <1>1, <1>2, <1>3, StepKinds, SMTT(30)

----------------------------------------------------------------------------
(* The two results. *)

(* The reverse index of a revoked delegate names somebody else or nobody.  *)
RevokedInv ==
  /\ revoked \subseteq SliceId \X Address \X Address
  /\ \A h \in revoked : h[2] # h[3] /\ delegateOf[h[1]][h[3]] # h[2]

(* The attestor set of a slice has none of its removed members.            *)
RemovedInv ==
  /\ removed \subseteq SliceId \X Address
  /\ \A h \in removed : h[1] \in DOMAIN slices /\ h[2] \notin slices[h[1]].attestor_set

HistoryInv == DelegationTypeOK /\ RevokedInv /\ RemovedInv

(* A delegation that is gone was revoked, index entry and all; the index   *)
(* leads back to the delegator only by a new delegation.                   *)
LEMMA RevokedStep ==
  ASSUME HistoryInv, [HistoryNext]_allVars PROVE RevokedInv'
<1>1. CASE UNCHANGED allVars
  BY <1>1 DEF allVars, delegationVars, historyVars, HistoryInv, RevokedInv
<1>2. CASE HistoryNext
  <2>1. revoked' \subseteq SliceId \X Address \X Address
    BY <1>2 DEF HistoryNext, RecordRevocations
  <2>2. ASSUME NEW s \in SliceId, NEW d \in Address, NEW x \in Address,
               \/ Names(s, d, x) /\ sliceDelegation'[s][d] = None
               \/ <<s, d, x>> \in revoked /\ ~Names(s, d, x)'
        PROVE  d # x /\ delegateOf'[s][x] # d
    <3>1. d # x
      BY <2>2, SMTT(30) DEF HistoryInv, RevokedInv, DelegationTypeOK, Names
    <3>2. CASE UNCHANGED <<sliceDelegation, delegateOf>>
      BY <2>2, <3>2, SMTT(30) DEF HistoryInv, RevokedInv, Names
    <3>3. ASSUME NEW t \in SliceId, NEW a \in Address, NEW b \in Address,
                 NEW e \in Nat \cup {None}, delegate_slice_vote(a, t, b, e)
          PROVE  delegateOf'[s][x] # d
      <4>1. /\ sliceDelegation' = [sliceDelegation EXCEPT ![t][a] = [delegate |-> b, expires_at |-> e]]
            /\ delegateOf' = [delegateOf EXCEPT ![t][b] = a]
        BY <3>3, SMTT(30) DEF delegate_slice_vote
      <4>2. [delegate |-> b, expires_at |-> e] # None
        BY <3>3, DelegationConstants, SMTT(30) DEF Delegation
      <4> QED
        BY <2>2, <4>1, <4>2, SMTT(30) DEF HistoryInv, RevokedInv, DelegationTypeOK, Names
    <3>4. ASSUME NEW t \in SliceId, NEW a \in Address, revoke_slice_delegation(a, t)
          PROVE  delegateOf'[s][x] # d
      <4>1. /\ sliceDelegation' = [sliceDelegation EXCEPT ![t][a] = None]
            /\ delegateOf' = [delegateOf EXCEPT ![t][sliceDelegation[t][a].delegate] = None]
        BY <3>4 DEF revoke_slice_delegation
      <4> QED
        BY <2>2, <4>1, SliceConstants, SMTT(30) DEF HistoryInv, RevokedInv, DelegationTypeOK, Names
    <3>5. \/ UNCHANGED <<sliceDelegation, delegateOf>>
          \/ \E t \in SliceId, a \in Address :
               \/ \E b \in Delegates, e \in DelegationExpiries : delegate_slice_vote(a, t, b, e)
               \/ revoke_slice_delegation(a, t)
      <4>1. DOMAIN slices \subseteq SliceId
        BY StoredSlice DEF HistoryInv, DelegationTypeOK
      <4> QED
        BY <1>2, <4>1, SMTT(30) DEF HistoryNext, DelegationNext, DelegationOp, Tick, delegationVars
    <3> QED
      BY <3>1, <3>2, <3>3, <3>4, <3>5, DelegationConstants, SMTT(30)
  <2>3. ASSUME NEW h \in revoked' PROVE h[2] # h[3] /\ delegateOf'[h[1]][h[3]] # h[2]
    <3>1. /\ h = <<h[1], h[2], h[3]>> /\ h[1] \in SliceId /\ h[2] \in Address /\ h[3] \in Address
      BY <2>1
    <3>2. \/ Names(h[1], h[2], h[3]) /\ sliceDelegation'[h[1]][h[2]] = None
          \/ h \in revoked /\ ~Names(h[1], h[2], h[3])'
      BY <1>2, Zenon DEF HistoryNext, RecordRevocations
    <3> QED
      BY <2>2, <3>1, <3>2, SMTT(30)
  <2> QED
    BY <2>1, <2>3, SMTT(30) DEF RevokedInv
<1> QED
  BY <1>1, <1>2, SMTT(30)

(* A removed member has left the set with the vector and comes back into   *)
(* both.                                                                   *)
LEMMA RemovedStep ==
  ASSUME HistoryInv, [HistoryNext]_allVars PROVE RemovedInv'
<1>1. CASE UNCHANGED allVars
  BY <1>1 DEF allVars, sliceVars, historyVars, HistoryInv, RemovedInv
<1>2. CASE HistoryNext
  <2>1. [SliceNext]_sliceVars
    BY StepKinds DEF sliceVars
  <2>2. DOMAIN slices \subseteq DOMAIN slices' /\ \A t \in DOMAIN slices : InStep(t)
    BY <2>1, SliceInStep, SMTT(30) DEF HistoryInv, DelegationTypeOK
  <2>3. removed' \subseteq SliceId \X Address
    BY <1>2 DEF HistoryNext, RecordRemovals
  <2>4. ASSUME NEW h \in removed'
        PROVE  h[1] \in DOMAIN slices' /\ h[2] \notin slices'[h[1]].attestor_set
    <3>1. (RemovedFrom(h[1], h[2]) \/ h \in removed) /\ h[2] \notin ToSet(slices'[h[1]].attestors)
      BY <1>2, Zenon DEF HistoryNext, RecordRemovals, Members
    <3>2. h[1] \in DOMAIN slices
      BY <3>1, Zenon DEF RemovedFrom, HistoryInv, RemovedInv
    <3>3. /\ h[2] \in slices'[h[1]].attestor_set => h[2] \in slices[h[1]].attestor_set
          /\ h[2] \in ToSet(slices[h[1]].attestors)
             /\ Len(slices'[h[1]].attestors) < Len(slices[h[1]].attestors)
             => h[2] \notin slices'[h[1]].attestor_set
      BY <2>2, <3>1, <3>2, Zenon DEF InStep
    <3>4. RemovedFrom(h[1], h[2]) => h[2] \notin slices'[h[1]].attestor_set
      BY <3>3, Zenon DEF RemovedFrom, Members
    <3>5. h \in removed => h[2] \notin slices'[h[1]].attestor_set
      BY <3>3, Zenon DEF HistoryInv, RemovedInv
    <3> QED
      BY <2>2, <3>1, <3>2, <3>4, <3>5, Zenon
  <2> QED
    BY <2>3, <2>4, Zenon DEF RemovedInv
<1> QED
  BY <1>1, <1>2

(* The strengthening holds in every reachable state.                       *)
LEMMA HistoryInvariant == HistorySpec => []HistoryInv
<1>1. HistoryInit => HistoryInv
  BY DelegationInitType DEF HistoryInit, HistoryInv, RevokedInv, RemovedInv
<1>2. HistoryInv /\ [HistoryNext]_allVars => HistoryInv'
  BY DelegationNextType, RevokedStep, RemovedStep, SMTT(30) DEF HistoryInv
<1> QED
  BY <1>1, <1>2, PTL DEF HistorySpec

(* Whatever is called on slices and delegations, their keys keep their     *)
(* types and nobody is made their own delegate.                            *)
THEOREM DelegationTypes == HistorySpec => []DelegationTypeOK
<1>1. HistoryInv => DelegationTypeOK
  BY DEF HistoryInv
<1> QED
  BY <1>1, HistoryInvariant, PTL

(* After revoke_slice_delegation the former delegate never acts for the    *)
(* delegator again, unless that delegator delegates to that address anew.  *)
THEOREM RevocationLasts == HistorySpec => []RevokedDelegateStaysOut
<1>1. HistoryInv => RevokedDelegateStaysOut
  <2> SUFFICES ASSUME HistoryInv, NEW h \in revoked PROVE resolve_attestor(h[3], h[1]) # h[2]
    BY DEF RevokedDelegateStaysOut
  <2>1. h[2] # h[3] /\ delegateOf[h[1]][h[3]] # h[2] /\ h[2] \in Address
    BY SMTT(30) DEF HistoryInv, RevokedInv
  <2> QED
    BY <2>1, SliceConstants, SMTT(30) DEF resolve_attestor
<1> QED
  BY <1>1, HistoryInvariant, PTL

(* After remove_attestor nobody acts for the removed member, in person or  *)
(* by delegate, until the member is in the slice again.                    *)
THEOREM RemovalLasts == HistorySpec => []RemovedMemberStaysOut
<1>1. HistoryInv => RemovedMemberStaysOut
  <2> SUFFICES ASSUME HistoryInv, NEW h \in removed, NEW caller \in Address
               PROVE  resolve_attestor(caller, h[1]) # h[2]
    BY DEF RemovedMemberStaysOut
  <2>1. h[2] \notin slices[h[1]].attestor_set /\ h[2] \in Address
    BY DEF HistoryInv, RemovedInv
  <2> QED
    BY <2>1, SliceConstants, SMTT(30) DEF resolve_attestor
<1> QED
  BY <1>1, HistoryInvariant, PTL
=============================================================================
