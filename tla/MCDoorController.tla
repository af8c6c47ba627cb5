-------------------------- MODULE MCDoorController --------------------------
(***************************************************************************)
(* Instances of DoorController for TLC.                                    *)
(***************************************************************************)
EXTENDS DoorController, TLC

CONSTANT ShortCard  \* tag F, mask 255

\* A deleted record is FFFFFFFF with mask 255: cut after its first F it reads
\* as ShortCard, and so does any longer tag of Fs with that mask.
MCCutTag == [e \in Entries |-> IF e = ShortCard THEN {} ELSE {ShortCard}]

=============================================================================
