---------------------------- MODULE MCReconcile -----------------------------
(***************************************************************************)
(* Instances of Reconcile for TLC.                                         *)
(***************************************************************************)
EXTENDS Reconcile, TLC

CONSTANT ShortCard  \* tag F, mask 255

\* A deleted record is FFFFFFFF with mask 255, and the other card is FF with
\* that mask: cut after the first F, both read as ShortCard.
MCCutTag == [e \in Entries |-> IF e = ShortCard THEN {} ELSE {ShortCard}]

=============================================================================
