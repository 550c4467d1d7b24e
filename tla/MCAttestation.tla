--------------------------- MODULE MCAttestation ---------------------------
(* Small instances of Attestation for TLC. *)
EXTENDS Attestation

CONSTANTS a1, a2, a3, c1, c2

\* Two overlapping slices: both members are needed in the first, either of
\* its two members is enough in the second.
TwoSlices ==
  { [attestors |-> <<a1, a2>>, weights |-> <<1, 1>>, threshold |-> 2, threshold_type |-> "Absolute"],
    [attestors |-> <<a2, a3>>, weights |-> <<1, 1>>, threshold |-> 50, threshold_type |-> "Percentage"] }

OneSlice == {in \in TwoSlices : in.threshold_type = "Absolute"}

MCSubject == [c \in CredentialId |-> a1]
MCIssuer == [c \in CredentialId |-> a3]
MCTypeOf == [c \in CredentialId |-> "degree"]
MCCacheEntry == [is_attested : BOOLEAN, expires_at : 0..MaxCacheExpiry]
NoExpiry == {None}
ExpiryOrNone == {None, 1}
MCWindows == {[start |-> 0, end |-> 1]}
MCPolicies == {[threshold |-> 2, window_seconds |-> 1]}
=============================================================================
