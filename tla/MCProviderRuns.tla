--------------------------- MODULE MCProviderRuns ---------------------------
(* Small instances of ProviderRuns, with one run each.                     *)
EXTENDS ProviderRuns, TLC

\* The people who decide on a gate are interchangeable.
ApproverSymmetry == Permutations(Approvers)
=============================================================================
