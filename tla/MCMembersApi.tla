---------------------------- MODULE MCMembersApi ----------------------------
(***************************************************************************)
(* Instances of MembersApi for TLC.                                        *)
(***************************************************************************)
EXTENDS MembersApi, TLC

\* For the runs without a liveness property.
Symmetry == Permutations(Requests) \cup Permutations(Subjects)

=============================================================================
