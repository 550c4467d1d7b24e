------------------------ MODULE MCMultisigAttestation ------------------------
(* Small instances of MultisigAttestation for TLC. *)
EXTENDS MultisigAttestation

CONSTANTS a1, a2, a3, c1, c2

\* One slice of two members, both of them needed.
MCSliceInputs ==
  { [attestors |-> <<a1, a2>>, weights |-> <<1, 1>>, threshold |-> 2, threshold_type |-> "Absolute"] }

MCSubject == [c \in CredentialId |-> a3]
MCIssuer == [c \in CredentialId |-> a3]
MCTypeOf == [c \in CredentialId |-> "degree"]
MCCacheEntry == [is_attested : BOOLEAN, expires_at : 0..MaxCacheExpiry]
NoExpiry == {None}

TwoOfTwo == {[threshold |-> 2, window_seconds |-> 1]}

\* A member and an outsider as required signers: either member of the slice may
\* be the initiator, so the initiator is among them or is not.
MCRequiredSigners == {<<a2, a3>>}
==============================================================================
