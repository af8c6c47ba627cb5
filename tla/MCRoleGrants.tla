---------------------------- MODULE MCRoleGrants ----------------------------
(***************************************************************************)
(* Instances of RoleGrants for TLC.                                        *)
(***************************************************************************)
EXTENDS RoleGrants, TLC

\* Members, approvals and grants are interchangeable.
Symmetry ==
  Permutations(Members) \cup Permutations(ApprovalIds) \cup Permutations(GrantIds)

=============================================================================
