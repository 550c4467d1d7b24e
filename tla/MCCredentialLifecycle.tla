----------------------- MODULE MCCredentialLifecycle -----------------------
(* Small instances of CredentialLifecycle: holders and approvers are       *)
(* interchangeable.                                                        *)
EXTENDS CredentialLifecycle, TLC

Symmetry == Permutations(Subjects) \cup Permutations(Approvers)
=============================================================================
