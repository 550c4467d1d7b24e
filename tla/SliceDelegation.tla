-------------------------- MODULE SliceDelegation --------------------------
(***************************************************************************)
(* Vote delegation within a quorum slice, on top of module QuorumSlices: a *)
(* member lets another address attest in its name, until it revokes the    *)
(* delegation or the delegation expires.  resolve_attestor, which attest   *)
(* and batch_attest start from, decides in whose name a caller acts.       *)
(*                                                                         *)
(* Two storage keys describe one delegation: SliceDelegation by delegator, *)
(* and the reverse index DelegateOf by delegate.                           *)
(***************************************************************************)
EXTENDS QuorumSlices

CONSTANTS
  MaxTime,            \* bound: last ledger timestamp
  DelegationExpiries, \* expiry arguments of delegate_slice_vote, None included
  Delegates           \* addresses that votes are delegated to

Delegation == [delegate : Address, expires_at : Nat \cup {None}]

ASSUME DelegationConstants ==
  /\ MaxTime \in Nat
  /\ None \notin Nat
  /\ None \notin Delegation
  /\ DelegationExpiries \subseteq Nat \cup {None}
  /\ Delegates \subseteq Address

VARIABLES
  now,              \* ledger timestamp
  sliceDelegation,  \* SliceDelegation(slice, delegator)
  delegateOf        \* DelegateOf(slice, delegate): the delegator

delegationVars == <<now, sliceDelegation, delegateOf>>

\* An optional deadline that has passed.
Passed(deadline) == deadline # None /\ now >= deadline

\* Mutant of delegate_slice_vote: a member may name itself.
delegate_to_anyone(delegator, s, delegate, expires_at) ==
  /\ delegator \in Members(s)
  /\ ~Passed(expires_at)
  /\ sliceDelegation' = [sliceDelegation EXCEPT ![s][delegator] =
                           [delegate |-> delegate, expires_at |-> expires_at]]
  /\ delegateOf' = [delegateOf EXCEPT ![s][delegate] = delegator]
  /\ UNCHANGED <<sliceVars, now>>

delegate_slice_vote(delegator, s, delegate, expires_at) ==
  /\ delegator \in Members(s)
  /\ delegator # delegate
  /\ ~Passed(expires_at)
  /\ sliceDelegation' = [sliceDelegation EXCEPT ![s][delegator] =
                           [delegate |-> delegate, expires_at |-> expires_at]]
  /\ delegateOf' = [delegateOf EXCEPT ![s][delegate] = delegator]
  /\ UNCHANGED <<sliceVars, now>>

\* Mutant of revoke_slice_delegation: the reverse index is kept.
revoke_without_index(delegator, s) ==
  /\ sliceDelegation[s][delegator] # None
  /\ sliceDelegation' = [sliceDelegation EXCEPT ![s][delegator] = None]
  /\ UNCHANGED <<sliceVars, now, delegateOf>>

\* The reverse index is removed for the delegate that the delegation names.
revoke_slice_delegation(delegator, s) ==
  /\ sliceDelegation[s][delegator] # None
  /\ sliceDelegation' = [sliceDelegation EXCEPT ![s][delegator] = None]
  /\ delegateOf' = [delegateOf EXCEPT ![s][sliceDelegation[s][delegator].delegate] = None]
  /\ UNCHANGED <<sliceVars, now>>

DelegationInForce(s, delegator) ==
  /\ sliceDelegation[s][delegator] # None
  /\ ~Passed(sliceDelegation[s][delegator].expires_at)

\* In whose name caller acts in slice s; None where the code panics.
resolve_attestor(caller, s) ==
  LET delegator == delegateOf[s][caller] IN
  IF caller \in slices[s].attestor_set THEN caller
  ELSE IF /\ delegator # None
          /\ delegator \in slices[s].attestor_set
          /\ DelegationInForce(s, delegator)
       THEN delegator
       ELSE None

\* A ledger closes and the next one has a later timestamp.
Tick ==
  /\ now < MaxTime
  /\ now' = now + 1
  /\ UNCHANGED <<sliceVars, sliceDelegation, delegateOf>>

----------------------------------------------------------------------------
DelegationInit ==
  /\ SliceInit
  /\ now = 0
  /\ sliceDelegation = [s \in SliceId |-> [a \in Address |-> None]]
  /\ delegateOf = [s \in SliceId |-> [a \in Address |-> None]]

DelegationOp(s) ==
  \/ \E a \in Address, b \in Delegates, t \in DelegationExpiries :
       delegate_slice_vote(a, s, b, t)
  \/ \E a \in Address : revoke_slice_delegation(a, s)

DelegationNext ==
  \/ SliceNext /\ UNCHANGED delegationVars
  \/ \E s \in DOMAIN slices : DelegationOp(s)
  \/ Tick

DelegationSpec == DelegationInit /\ [][DelegationNext]_<<sliceVars, delegationVars>>

----------------------------------------------------------------------------
(* Properties. *)

\* Type invariant: the slices' one, both delegation keys hold addresses and
\* optional expiries, and neither key makes anybody their own delegate.
DelegationTypeOK ==
  /\ SliceTypeOK
  /\ now \in 0..MaxTime
  /\ sliceDelegation \in [SliceId -> [Address -> Delegation \cup {None}]]
  /\ delegateOf \in [SliceId -> [Address -> Address \cup {None}]]
  /\ \A s \in SliceId, a \in Address :
       /\ delegateOf[s][a] # a
       /\ sliceDelegation[s][a] # None => sliceDelegation[s][a].delegate # a
=============================================================================
