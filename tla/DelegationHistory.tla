------------------------- MODULE DelegationHistory -------------------------
(***************************************************************************)
(* Module SliceDelegation with two history variables that no call reads:   *)
(* the delegations that were revoked and the members that were removed,    *)
(* for as long as nobody has taken it back.  With them one can say that a  *)
(* revocation or a removal lasts, through everything that is called later. *)
(*                                                                         *)
(* Both are read off the key that is the authority on the fact (the        *)
(* delegation by delegator, the attestor vector of the slice), while       *)
(* resolve_attestor decides by other keys: the reverse index DelegateOf    *)
(* and the second copy AttestorSet.                                        *)
(***************************************************************************)
EXTENDS SliceDelegation

VARIABLES
  revoked,  \* <<slice, delegator, delegate>>: revoked, not delegated anew since
  removed   \* <<slice, member>>: removed, not a member again since

historyVars == <<revoked, removed>>
allVars == <<sliceVars, delegationVars, historyVars>>

\* The delegation that delegator d has given in slice s names x.
Names(s, d, x) == sliceDelegation[s][d] # None /\ sliceDelegation[s][d].delegate = x

RecordRevocations ==
  revoked' = {h \in SliceId \X Address \X Address :
    \/ Names(h[1], h[2], h[3]) /\ sliceDelegation'[h[1]][h[2]] = None
    \/ h \in revoked /\ ~Names(h[1], h[2], h[3])'}

\* A removal makes the list of members shorter; replace_attestor does not.
RemovedFrom(s, a) ==
  /\ s \in DOMAIN slices
  /\ a \in Members(s)
  /\ Len(slices'[s].attestors) < Len(slices[s].attestors)

RecordRemovals ==
  removed' = {h \in SliceId \X Address :
    /\ RemovedFrom(h[1], h[2]) \/ h \in removed
    /\ h[2] \notin Members(h[1])'}

HistoryInit == DelegationInit /\ revoked = {} /\ removed = {}
HistoryNext == DelegationNext /\ RecordRevocations /\ RecordRemovals
HistorySpec == HistoryInit /\ [][HistoryNext]_allVars

----------------------------------------------------------------------------
(* Properties. *)

\* After revoke_slice_delegation the former delegate cannot attest in the
\* delegator's name again until that delegator delegates to that very address
\* anew: a later delegation to somebody else does not bring the old one back,
\* nor does another member's choice of the same delegate, an expiry, or the
\* delegator's removal and return.  (attest and batch_attest act for whom
\* resolve_attestor says.)
RevokedDelegateStaysOut ==
  \A h \in revoked : resolve_attestor(h[3], h[1]) # h[2]

\* After remove_attestor nobody attests in the removed member's name, the
\* member no more than a delegate appointed before or after: the delegation
\* keys survive the removal, and the check goes by AttestorSet, which every
\* removal and return has to keep in step with the attestor vector.
RemovedMemberStaysOut ==
  \A h \in removed : \A caller \in Address : resolve_attestor(caller, h[1]) # h[2]
=============================================================================
