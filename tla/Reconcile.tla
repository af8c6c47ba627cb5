----------------------------- MODULE Reconcile ------------------------------
(***************************************************************************)
(* A pass that makes the board's card table what the lab's rows ask for:   *)
(* read the table, plan the difference (plan_changes), and apply the plan  *)
(* change by change with write_slot and clear_slot, each read back.  The   *)
(* repository has the plan and the operations; the few lines that join     *)
(* them are its conformance suite's apply_plan, which stops at the first   *)
(* exception.                                                              *)
(*                                                                         *)
(* The board is DoorDevice, with every client it may have.  A step of the  *)
(* pass is one request served by the board.  A request that is lost, an    *)
(* answer that is lost and a crash of the service are all Breaks, which    *)
(* may leave the request on its way, to be served later (ServeLate).  So   *)
(* is an answer that was cut, unless the cut fell inside a tag: what is    *)
(* left of the tag is a tag (_DUMP_LINE takes 1 to 8 digits).              *)
(***************************************************************************)
EXTENDS DoorDevice

CONSTANTS FIRST_ASSIGNABLE,   \* slots below it are reserved for testing
          CutTag,             \* the cards a record's line reads as when it is
                              \* cut inside its tag
          NoSlot              \* no request is on its way

ASSUME ReconcileAssumption ==
  /\ FIRST_ASSIGNABLE \in Nat
  /\ CutTag \in [Entries -> SUBSET Cards]
  /\ NoSlot \notin Nat

VARIABLES asked,    \* what the pass wants in each slot, after SlotEntry
          todo,     \* the slots of the plan still to be changed
          at,       \* where the pass is, or how it ended
          late,     \* [slot, entry] of a change whose sender gave up
          \* What happened, kept for the properties; no guard reads these.
          whole,    \* the table was read to its end
          quiet,    \* nobody else changed the table since it was read
          torn      \* slots shown as asked by a read back cut inside its tag

reconcile == <<asked, todo, at, late, whole, quiet, torn>>
vars == <<device, reconcile>>

Places == {"idle", "refused", "reading", "changing", "reading back",
           "done", "failed"}
Running == {"reading", "changing", "reading back"}

\* How a tag is written in a row: as the board prints it, padded or in small
\* letters, or as one of the two numbers that mean no card.
Spellings == {"canonical", "other form", "marker"}
NoRow == [card |-> NoCard, form |-> "canonical"]
Rows == [card: Cards, form: Spellings] \cup {NoRow}

\* SlotEntry keeps the one form both sides of the diff are compared in.
Refused(row) == row.form = "marker"
normalise_tag(row) == row.card

Nothing == [slot |-> NoSlot, entry |-> NoCard]

-----------------------------------------------------------------------------
(* The plan.                                                               *)

\* Faulty: a rewrite of every row in place of a difference.
rewrite_all(want, have) == {n \in Slots : want[n] # NoCard \/ have[n] # NoCard}

\* The slots that change: written where the rows have a card, cleared where
\* they have none.
plan_changes(want, have) == {n \in Slots : want[n] # have[n]}

\* Changes are applied upwards from the lowest slot.
First(plan) == CHOOSE n \in plan : \A m \in plan : n <= m

\* What a row or a slot dump that is cut inside its tag may read as.
CutRow(n) == CutTag[table[n]]

\* What parse_card_table makes of an answer that was cut in row k, which still
\* reads as entry.
Parsed(k, entry) ==
  [n \in Slots |-> IF n < k THEN table[n] ELSE IF n = k THEN entry ELSE NoCard]

-----------------------------------------------------------------------------
(* The requests, each with its own login and logout (wire.py).             *)

ReadTable == [cmd |-> "table", login |-> "right", slot |-> 0,
              entry |-> NoCard, door |-> NoDoor]
ChangeOf(n, entry) ==
  [cmd |-> IF entry = NoCard THEN "remove" ELSE "write", login |-> "right",
   slot |-> n, entry |-> entry, door |-> NoDoor]
ShowOf(n) == [cmd |-> "show", login |-> "right", slot |-> n,
              entry |-> NoCard, door |-> NoDoor]

\* The pass starts from rows as they are now.  A row whose tag is a marker
\* stops it before anything is sent.
StartPass(rows) ==
  /\ at \notin Running
  /\ asked' = [n \in Slots |-> IF n \in DOMAIN rows
                               THEN normalise_tag(rows[n]) ELSE NoCard]
  /\ at' = IF \E n \in DOMAIN rows : Refused(rows[n])
           THEN "refused" ELSE "reading"
  /\ todo' = {}
  /\ whole' = FALSE
  /\ quiet' = FALSE
  /\ torn' = {}
  /\ UNCHANGED <<device, late>>

\* read_card_table: a refusal raises, and an answer that is cut below its
\* marker is a shorter table.
Read(k, entry) ==
  /\ at = "reading"
  /\ entry = NoCard \/ (k \in Slots /\ entry \in CutRow(k))
  /\ Handle(ReadTable, TRUE)
  /\ IF Runs(ReadTable)
     THEN /\ todo' = plan_changes(asked, Parsed(k, entry))
          /\ whole' = (k = NUMUSERS)
          /\ quiet' = TRUE
          /\ at' = IF todo' = {} THEN "done" ELSE "changing"
     ELSE /\ at' = "failed"
          /\ UNCHANGED <<todo, whole, quiet>>
  /\ UNCHANGED <<asked, late, torn>>

\* write_slot and clear_slot send their change and do not read its answer.
Change(takes) ==
  /\ at = "changing"
  /\ Handle(ChangeOf(First(todo), asked[First(todo)]), takes)
  /\ at' = "reading back"
  /\ UNCHANGED <<asked, todo, whole, quiet, torn, late>>

\* Faulty: the change is believed without the read back.
BelieveTheAnswer ==
  /\ at = "reading back"
  /\ Handle(ShowOf(First(todo)), TRUE)
  /\ todo' = todo \ {First(todo)}
  /\ at' = IF todo' = {} THEN "done" ELSE "changing"
  /\ UNCHANGED <<asked, whole, quiet, torn, late>>

\* The read back, which raises unless it shows what was wanted.  It shows the
\* slot, or what is left of its tag.
ReadBack ==
  /\ at = "reading back"
  /\ Handle(ShowOf(First(todo)), TRUE)
  /\ \E held \in {table[First(todo)]} \cup CutRow(First(todo)) :
       IF Runs(ShowOf(First(todo))) /\ held = asked[First(todo)]
       THEN /\ todo' = todo \ {First(todo)}
            /\ at' = IF todo' = {} THEN "done" ELSE "changing"
            /\ torn' = IF held = table[First(todo)] THEN torn
                       ELSE torn \cup {First(todo)}
       ELSE /\ at' = "failed"
            /\ UNCHANGED <<todo, torn>>
  /\ UNCHANGED <<asked, whole, quiet, late>>

\* The request or its answer is lost, or the service stops.  The change the
\* pass was about to make may be on its way all the same.
Breaks ==
  /\ at \in Running
  /\ at' = "failed"
  /\ late' \in {late} \cup (IF at = "changing"
                            THEN {[slot |-> First(todo), entry |-> asked[First(todo)]]}
                            ELSE {})
  /\ UNCHANGED <<device, asked, todo, whole, quiet, torn>>

\* The board takes a request whose sender is long gone.
ServeLate(takes) ==
  /\ late # Nothing
  /\ Handle(ChangeOf(late.slot, late.entry), takes)
  /\ quiet' = (quiet /\ table' = table)
  /\ late' = Nothing
  /\ UNCHANGED <<asked, todo, at, whole, torn>>

\* Anybody else on the board's network, time, and its power switch.
Others ==
  /\ DeviceNext
  /\ quiet' = (quiet /\ table' = table)
  /\ UNCHANGED <<asked, todo, at, whole, torn, late>>

Init ==
  /\ DeviceInit
  /\ asked = [n \in Slots |-> NoCard]
  /\ todo = {}
  /\ at = "idle"
  /\ whole = FALSE
  /\ quiet = FALSE
  /\ torn = {}
  /\ late = Nothing

Next ==
  \/ \E rows \in [FIRST_ASSIGNABLE .. NUMUSERS - 1 -> Rows] : StartPass(rows)
  \/ \E k \in 0 .. NUMUSERS, entry \in Entries : Read(k, entry)
  \/ \E takes \in BOOLEAN : Change(takes)
  \/ ReadBack
  \/ Breaks
  \/ \E takes \in BOOLEAN : ServeLate(takes)
  \/ Others

Spec == Init /\ [][Next]_vars

-----------------------------------------------------------------------------
(* Properties.                                                             *)

\* The pass and what it left on the network are well typed.
TypeOK ==
  /\ DeviceTypeOK
  /\ asked \in [Slots -> Entries]
  /\ todo \in SUBSET Slots
  /\ at \in Places
  /\ whole \in BOOLEAN
  /\ quiet \in BOOLEAN
  /\ torn \in SUBSET Slots
  /\ late \in [slot: Slots, entry: Entries] \cup {Nothing}

\* What the pass promises of the table: it brings slots to what it was asked
\* for, one by one, and says it is done only when they are (reconcile.py,
\* controller.py:88-113).  A table that was cut as it was read promises
\* nothing, since cards that are there read as gone.  A slot whose read back
\* was cut inside its tag may hold another card than the one asked for, but
\* only one whose tag begins with it (wire.py:32, 170-179).
Keeper == INSTANCE SlotKeeper WITH quiet <- quiet /\ whole, settled <- at = "done"
ImplementsKeeper == Keeper!Spec

\* A second pass writes nothing (checks_card_table.py:98-111): a change is
\* only sent for a slot that is not as asked, whatever the first pass, others
\* and the way the rows spell a tag have done, unless the table was cut as it
\* was read or has moved since.
WritesAreNeeded ==
  [][at = "changing" /\ at' = "reading back" /\ whole /\ quiet =>
       table[First(todo)] # asked[First(todo)]]_vars

=============================================================================
