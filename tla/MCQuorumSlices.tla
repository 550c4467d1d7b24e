--------------------------- MODULE MCQuorumSlices ---------------------------
(* Small instances of QuorumSlices for TLC. *)
EXTENDS QuorumSlices

CONSTANTS a1, a2, a3

\* One slice with an absolute threshold and one with a percentage, both with
\* weights that no single removal leaves sufficient.
MCSliceInputs ==
  { [attestors |-> <<a1, a2>>, weights |-> <<3, 1>>, threshold |-> 4, threshold_type |-> "Absolute"],
    [attestors |-> <<a1, a2>>, weights |-> <<3, 1>>, threshold |-> 50, threshold_type |-> "Percentage"] }

MCCredentialId == 1..2
=============================================================================
