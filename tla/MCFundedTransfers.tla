-------------------------- MODULE MCFundedTransfers --------------------------
(* Instances of FundedTransfers for TLC.                                      *)
EXTENDS FundedTransfers, TLC

\* Nothing in the specification orders the allocations of a partner. For the
\* runs of safety properties only.
LineSymmetry == Permutations(Lines)
=============================================================================
