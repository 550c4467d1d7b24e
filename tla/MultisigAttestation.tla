------------------------ MODULE MultisigAttestation ------------------------
(***************************************************************************)
(* Multi-signature attestation requests, on top of module Attestation: for *)
(* a credential type that has a policy, a member of a slice files a        *)
(* request, the required signers co-sign it within the policy's window,    *)
(* and the signature that meets the threshold executes it.  Until one      *)
(* positive request has been executed, is_attested answers false for the   *)
(* credentials of that type (Attestation's is_multisig_approved).          *)
(***************************************************************************)
EXTENDS Attestation

CONSTANTS
  MaxRequests,      \* bound: requests filed
  RequiredSigners   \* signer lists that requests are filed with

ASSUME MultisigConstants ==
  /\ MaxRequests \in Nat
  /\ RequiredSigners \subseteq Seq(Address)

VARIABLE requests   \* AttestationRequest(id) for id in 1..AttestationRequestCount

AttestationRequest ==
  [credential_id : CredentialId, slice_id : SliceId, initiator : Address,
   required_signers : RequiredSigners, signatures : SUBSET Address, threshold : Nat,
   attestation_value : BOOLEAN, expires_at : Nat, executed : BOOLEAN, rolled_back : BOOLEAN]

\* The initiator's signature is counted from the start.
request_multisig_attestation(initiator, c, s, required_signers, value) ==
  LET policy == attestationPolicy[TypeOf[c]] IN
  /\ Len(requests) < MaxRequests
  /\ ~credentials[c].revoked
  /\ policy # None
  /\ Len(required_signers) >= policy.threshold
  /\ initiator \in slices[s].attestor_set
  /\ requests' = Append(requests,
       [credential_id |-> c, slice_id |-> s, initiator |-> initiator,
        required_signers |-> required_signers, signatures |-> {initiator},
        threshold |-> policy.threshold, attestation_value |-> value,
        expires_at |-> now + policy.window_seconds, executed |-> FALSE, rolled_back |-> FALSE])
  /\ UNCHANGED vars

\* Mutant of Pending: an executed request can still be signed.
NotRolledBack(id) == ~requests[id].rolled_back

Pending(id) == ~requests[id].executed /\ ~requests[id].rolled_back

\* Mutant of WindowOver: the window is taken to be half open.
WindowClosed(id) == now >= requests[id].expires_at

WindowOver(id) == now > requests[id].expires_at

\* Mutant of Approval: a negative attestation approves too.
ApprovalOfAnyValue(req) == {req.credential_id}

Approval(req) == IF req.attestation_value THEN {req.credential_id} ELSE {}

threshold_met(req) == Cardinality(req.signatures) >= req.threshold

\* Executing pushes a record for the initiator and nothing else: the guards of
\* attest, the captured weight and the invalidation of the cache are not there.
\* A call after the window panics, which undoes the rolled_back flag it has set.
sign_attestation_request(signer, id) ==
  LET req == requests[id]
      signed == [req EXCEPT !.signatures = @ \cup {signer}]
      c == req.credential_id IN
  /\ Pending(id)
  /\ ~WindowOver(id)
  /\ signer \in ToSet(req.required_signers)
  /\ signer \notin req.signatures
  /\ \/ /\ ~threshold_met(signed)
        /\ requests' = [requests EXCEPT ![id] = signed]
        /\ UNCHANGED <<records, multisigApproved>>
     \/ /\ threshold_met(signed)
        /\ Len(records[c]) < MaxRecords
        /\ requests' = [requests EXCEPT ![id] = [signed EXCEPT !.executed = TRUE]]
        /\ records' = [records EXCEPT ![c] = Append(@,
             [attestor |-> req.initiator, value |-> req.attestation_value, expires_at |-> None])]
        /\ multisigApproved' = multisigApproved \cup Approval(req)
  /\ UNCHANGED <<sliceVars, delegationVars, credentials, attestationWeight, credentialSlices,
                 attestationCount, reputation, conditions, attestationPolicy, config>>

\* Mutant of rollback_attestation_request: it refuses revoked credentials.
rollback_of_live_credential(id) ==
  /\ Pending(id)
  /\ WindowOver(id)
  /\ ~credentials[requests[id].credential_id].revoked
  /\ requests' = [requests EXCEPT ![id].rolled_back = TRUE]
  /\ UNCHANGED vars

\* rollback_attestation_request, and check_and_rollback_attestation where it
\* does not return false.
rollback_attestation_request(id) ==
  /\ Pending(id)
  /\ WindowOver(id)
  /\ requests' = [requests EXCEPT ![id].rolled_back = TRUE]
  /\ UNCHANGED vars

----------------------------------------------------------------------------
multisigVars == <<vars, requests>>

MultisigInit == AttestationInit /\ requests = <<>>

MultisigNext ==
  \/ AttestationNext /\ UNCHANGED requests
  \/ \E a \in Address, c \in CredentialId, s \in DOMAIN slices, v \in Values :
       \E signers \in RequiredSigners : request_multisig_attestation(a, c, s, signers, v)
  \/ \E id \in DOMAIN requests :
       \/ \E a \in Address : sign_attestation_request(a, id)
       \/ rollback_attestation_request(id)

MultisigSpec == MultisigInit /\ [][MultisigNext]_multisigVars

\* Ledgers keep closing, and someone calls the rollback that anybody may call.
MultisigFairness ==
  /\ WF_multisigVars(Tick /\ UNCHANGED <<attestationVars, requests>>)
  /\ \A id \in 1..MaxRequests :
       WF_multisigVars(id \in DOMAIN requests /\ rollback_attestation_request(id))

FairMultisigSpec == MultisigSpec /\ MultisigFairness

----------------------------------------------------------------------------
(* Properties. *)

\* Type invariant: the attestations' one, and well-formed requests.
MultisigTypeOK ==
  /\ AttestationTypeOK
  /\ requests \in Seq(AttestationRequest)

\* A request is executed only by enough distinct signatures, all of them by
\* its initiator or its required signers, and it is rolled back only after its
\* window: whatever policies, slices and memberships became meanwhile.
OutcomeIsEarned ==
  \A id \in DOMAIN requests :
    LET req == requests[id] IN
    /\ req.executed => /\ Cardinality(req.signatures) >= req.threshold
                       /\ req.signatures \subseteq ToSet(req.required_signers) \cup {req.initiator}
    /\ req.rolled_back => ~req.executed /\ now > req.expires_at

\* The flag that lets is_attested answer positively for a type with a policy is
\* set only by an executed positive request on that very credential.
ApprovalIsEarned ==
  \A c \in multisigApproved : \E id \in DOMAIN requests :
    /\ requests[id].credential_id = c
    /\ requests[id].attestation_value
    /\ requests[id].executed
    /\ threshold_met(requests[id])

\* Once executed or rolled back a request is never touched again: a late
\* signature does not revive it and it is not executed twice.  After its window
\* an open request takes no signature, and so is not executed any more: all
\* that can happen to it is the rollback, which OutcomeIsEarned rules out before.
OutcomeIsFinal ==
  [][\A id \in DOMAIN requests :
       /\ requests[id].executed \/ requests[id].rolled_back => requests'[id] = requests[id]
       /\ now > requests[id].expires_at =>
            requests'[id] \in {requests[id], [requests[id] EXCEPT !.rolled_back = TRUE]}]_multisigVars

\* Every request whose window ends within the modelled time is executed or
\* rolled back in the end, although signing after the window fails and undoes
\* the rollback it attempts.
RequestsAreSettled ==
  \A id \in 1..MaxRequests :
    id \in DOMAIN requests /\ requests[id].expires_at < MaxTime
      ~> id \in DOMAIN requests /\ ~Pending(id)
=============================================================================
