--------------------------- MODULE MCApprovalStore ---------------------------
(* Instances of ApprovalStore for TLC.                                       *)
EXTENDS ApprovalStore, TLC

\* Clients are interchangeable, and so are the approvals no session left behind.
Symmetry == Permutations(Client) \cup Permutations(ApprovalId \ Left)
=============================================================================
