----------------------------- MODULE SlotKeeper -----------------------------
(***************************************************************************)
(* What a pass over the card table promises, with no board, no network and *)
(* no plan in it: it brings slots, one at a time, to what it was asked     *)
(* for, touches no slot that is as asked, and calls itself settled only    *)
(* when the table is what it was asked for, unless somebody else has been  *)
(* at the table meanwhile.  A slot whose read back was cut inside its tag  *)
(* may hold a card whose tag only begins with the one asked for.           *)
(***************************************************************************)
CONSTANTS Slots, Entries,
          CutTag    \* the cards a record reads as when cut inside its tag

VARIABLES table,    \* the controller's card table
          asked,    \* the table the pass was asked for
          quiet,    \* the table was read to its end, and nobody else has
                    \* changed it since
          torn,     \* the slots whose read back was cut inside the tag
          settled   \* the pass says the table is as asked

keeper == <<table, asked, quiet, torn, settled>>

\* Slot n is as asked, as far as its read back can tell.
AsShown(n) ==
  \/ table[n] = asked[n]
  \/ n \in torn /\ asked[n] \in CutTag[table[n]]

Init ==
  /\ table \in [Slots -> Entries]
  /\ asked \in [Slots -> Entries]
  /\ quiet = FALSE
  /\ torn = {}
  /\ settled = FALSE

\* A pass is started, reads the table, is shown a slot, or is given up.
Ask ==
  /\ asked' \in [Slots -> Entries]
  /\ settled' = FALSE
  /\ quiet' \in BOOLEAN
  /\ torn' \in SUBSET Slots
  /\ UNCHANGED table

\* One slot is brought to what was asked for.
Bring(n) ==
  /\ ~settled
  /\ quiet => table[n] # asked[n]
  /\ table' = [table EXCEPT ![n] = asked[n]]
  /\ UNCHANGED <<asked, quiet, torn, settled>>

Settle ==
  /\ quiet' \in BOOLEAN
  /\ torn' \in SUBSET Slots
  /\ settled' = TRUE
  /\ quiet' => \A n \in Slots : AsShown(n)'
  /\ UNCHANGED <<table, asked>>

\* Somebody else writes.
Disturb ==
  /\ table' \in [Slots -> Entries]
  /\ quiet' = FALSE
  /\ UNCHANGED <<asked, torn, settled>>

Next ==
  \/ Ask
  \/ \E n \in Slots : Bring(n)
  \/ Settle
  \/ Disturb

Spec == Init /\ [][Next]_keeper

=============================================================================
