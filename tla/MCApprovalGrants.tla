-------------------------- MODULE MCApprovalGrants --------------------------
(* An instance of ApprovalGrants for TLC.                                   *)
EXTENDS ApprovalGrants, TLC

CONSTANTS c1, c2

\* calls are only compared with each other
MCSymmetry == Permutations({c1, c2})

=============================================================================
