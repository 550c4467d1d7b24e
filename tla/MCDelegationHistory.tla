------------------------- MODULE MCDelegationHistory -------------------------
(* Small instances of DelegationHistory for TLC. *)
EXTENDS DelegationHistory

CONSTANTS a1, a2, a3, a4

\* One slice of two members, both of them needed.
MCSliceInputs ==
  { [attestors |-> <<a1, a2>>, weights |-> <<1, 1>>, threshold |-> 2, threshold_type |-> "Absolute"] }

MCDelegationExpiries == {None, 2}
=============================================================================
