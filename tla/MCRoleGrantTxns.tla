-------------------------- MODULE MCRoleGrantTxns --------------------------
(***************************************************************************)
(* Instances of RoleGrantTxns for TLC.                                     *)
(***************************************************************************)
EXTENDS RoleGrantTxns, TLC

CONSTANT FirstTarget  \* the member every approval names

MCTargetOf == [a \in ApprovalIds |-> FirstTarget]

Symmetry == Permutations(Sessions) \cup Permutations(GrantIds)

=============================================================================
