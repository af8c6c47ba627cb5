-------------------------- MODULE ReconcileProofs ---------------------------
(***************************************************************************)
(* Proofs about the pass over the card table, for any number of slots and  *)
(* cards, any lockout threshold, any rows and any other clients.           *)
(*                                                                         *)
(* The inductive invariant says what a plan is worth once it is being      *)
(* applied to a table nobody else has changed: the slots outside it are as *)
(* asked (InStep), and those in it are not, except perhaps the one that is *)
(* being read back (StillToDo).                                            *)
(***************************************************************************)
EXTENDS Reconcile, WellFoundedInduction, TLAPS

-----------------------------------------------------------------------------
(* The board on its own.                                                   *)

\* What makes the lockout's promise inductive.
Lockout == failed \in Nat /\ privileged \in BOOLEAN /\ LockoutIsUnprivileged

\* A board that has just started is not locked out.
LEMMA InitLockout == DeviceInit => Lockout
<1>1. DeviceInit => failed \in Nat
  BY DEF DeviceInit
<1>2. DeviceInit => privileged \in BOOLEAN /\ LockoutIsUnprivileged
  BY Zenon DEF DeviceInit, LockoutIsUnprivileged
<1> QED BY <1>1, <1>2 DEF Lockout

\* No request leaves anybody privileged on a board that is locked out.
LEMMA HandleLockout ==
  ASSUME Lockout, NEW r \in Requests, NEW takes \in BOOLEAN, Handle(r, takes)
  PROVE  Lockout'
<1>1. r.login \in Logins
  BY DEF Requests, Logins
<1>2. Login(r)
  BY DEF Handle
<1>3. privileged' \in BOOLEAN
  BY <1>2, Zenon DEF Login, Lockout, Chained
<1>4. CASE r.login = "none"
  BY <1>2, <1>4, <1>3 DEF Login, Lockout, LockoutIsUnprivileged, locked_out
<1>5. CASE r.login # "none" /\ locked_out
  BY <1>2, <1>5, <1>3 DEF Login, Lockout, LockoutIsUnprivileged
<1>6. CASE r.login = "right" /\ ~locked_out
  <2>1. failed' = 0
    BY <1>2, <1>6 DEF Login
  <2> QED BY <1>3, <2>1, DeviceAssumption DEF Lockout, LockoutIsUnprivileged, locked_out
<1>7. CASE r.login = "wrong" /\ ~locked_out
  BY <1>2, <1>7, <1>3 DEF Login, Lockout, LockoutIsUnprivileged
<1> QED BY <1>1, <1>4, <1>5, <1>6, <1>7 DEF Logins

\* Nor does any other step.
LEMMA NextLockout ==
  ASSUME Lockout, [DeviceNext]_device
  PROVE  Lockout'
<1>1. CASE \E r \in Requests, takes \in BOOLEAN : Handle(r, takes)
  BY <1>1, HandleLockout
<1>2. CASE WindowElapses
  BY <1>2 DEF WindowElapses, Lockout, LockoutIsUnprivileged, locked_out
<1>3. CASE PowerCycle
  BY <1>3 DEF PowerCycle, Lockout, LockoutIsUnprivileged
<1>4. CASE UNCHANGED device
  BY <1>4 DEF device, Lockout, LockoutIsUnprivileged, locked_out
<1> QED BY <1>1, <1>2, <1>3, <1>4 DEF DeviceNext

\* While the lockout is in force nobody is privileged.
THEOREM LockedOutIsUnprivileged == DeviceSpec => []LockoutIsUnprivileged
<1>1. Lockout => LockoutIsUnprivileged
  BY DEF Lockout
<1>2. Lockout /\ [DeviceNext]_device => Lockout'
  BY NextLockout
<1> QED BY InitLockout, <1>1, <1>2, PTL DEF DeviceSpec

\* While it stays in force nothing changes at the door, whatever is asked and
\* whatever password is given.
THEOREM LockedOutChangesNothing == DeviceSpec => LockoutHolds
<1> DEFINE Step == locked_out /\ locked_out' =>
                     UNCHANGED <<table, alarm, locked, privileged>>
<1>1. ASSUME Lockout, Lockout', [DeviceNext]_device, locked_out, locked_out'
      PROVE  UNCHANGED <<table, alarm, locked, privileged>>
  <2>1. ~privileged /\ ~privileged'
    BY <1>1 DEF Lockout, LockoutIsUnprivileged
  <2>2. ASSUME NEW r \in Requests, NEW takes \in BOOLEAN, Handle(r, takes)
        PROVE  UNCHANGED <<table, alarm, locked, privileged>>
    <3>1. r.cmd = "status" \/ ~Runs(r)
      BY <1>1, <2>1 DEF Runs, LoginSucceeds
    <3>2. UNCHANGED <<table, alarm, locked>>
      BY <2>2, <3>1 DEF Handle, Perform
    <3>3. privileged = FALSE /\ (UNCHANGED privileged \/ privileged' = FALSE)
      BY <1>1, <2>1, <2>2 DEF Handle, Login, Lockout
    <3> QED BY <3>2, <3>3
  <2>3. CASE WindowElapses \/ PowerCycle
    BY <1>1, <2>3, DeviceAssumption DEF WindowElapses, PowerCycle, locked_out
  <2> QED BY <1>1, <2>2, <2>3 DEF DeviceNext, device
<1>2. Lockout /\ Lockout' /\ [DeviceNext]_device => [Step]_device
  BY <1>1
<1>3. Lockout /\ [DeviceNext]_device => Lockout'
  BY NextLockout
<1> QED BY InitLockout, <1>2, <1>3, PTL DEF DeviceSpec, LockoutHolds

-----------------------------------------------------------------------------
(* What makes the pass's promises inductive.                               *)

\* A plan is applied only while there is some of it left, and is done when
\* there is none.
PlanIsLive ==
  /\ at \in {"changing", "reading back"} => todo # {}
  /\ at = "done" => todo = {}

\* What is not in the plan is as asked, as far as its read back could tell.
InStep ==
  quiet /\ whole /\ at \in {"changing", "reading back", "done"} =>
    \A n \in Slots \ todo : Keeper!AsShown(n)

\* What is in the plan is not, before its turn.
StillToDo ==
  /\ quiet /\ whole /\ at = "changing" =>
       \A n \in todo : table[n] # asked[n]
  /\ quiet /\ whole /\ at = "reading back" =>
       \A n \in todo \ {First(todo)} : table[n] # asked[n]

IInv == TypeOK /\ PlanIsLive /\ InStep /\ StillToDo

-----------------------------------------------------------------------------
(* The plan's first slot and the requests of a pass.                       *)

\* A plan that is not empty has a lowest slot, which is the one that is
\* changed first.
LEMMA FirstIsIn ==
  ASSUME NEW plan \in SUBSET Slots, plan # {}
  PROVE  First(plan) \in plan
<1>1. plan \subseteq Nat
  BY DeviceAssumption DEF Slots
<1>2. \E n \in plan : \A m \in plan : ~ (<<m, n>> \in OpToRel(<, Nat))
  BY <1>1, NatLessThanWellFounded, WFMin
<1>3. PICK n \in plan : \A m \in plan : ~ (<<m, n>> \in OpToRel(<, Nat))
  BY <1>2
<1>4. \A m \in plan : n <= m
  <2>1. TAKE m \in plan
  <2>2. m \in Nat /\ n \in Nat
    BY <1>1
  <2>3. <<m, n>> \in Nat \X Nat
    BY <2>2
  <2>4. ~(m < n)
    BY <1>3, <2>3 DEF OpToRel
  <2> QED BY <2>2, <2>4
<1> QED BY <1>4 DEF First

\* The requests a pass makes are requests the board may be sent.
LEMMA ReadTableIsARequest == ReadTable \in Requests
  BY DEF ReadTable, Requests, Logins

LEMMA ChangeIsARequest ==
  ASSUME NEW n \in Slots, NEW entry \in Entries
  PROVE  ChangeOf(n, entry) \in Requests
<1>1. n \in 0 .. NUMUSERS
  BY DeviceAssumption DEF Slots
<1> QED BY <1>1 DEF ChangeOf, Requests, Logins, Entries

LEMMA ShowIsARequest ==
  ASSUME NEW n \in Slots
  PROVE  ShowOf(n) \in Requests
<1>1. n \in 0 .. NUMUSERS
  BY DeviceAssumption DEF Slots
<1> QED BY <1>1 DEF ShowOf, Requests, Logins

-----------------------------------------------------------------------------
(* What the board's steps do to its memory.                                *)

\* The board keeps its types whatever it is asked.
LEMMA HandleTypeOK ==
  ASSUME DeviceTypeOK, NEW r \in Requests, NEW takes \in BOOLEAN, Handle(r, takes)
  PROVE  DeviceTypeOK'
<1>1. /\ r.slot \in 0 .. NUMUSERS
      /\ r.entry \in Entries
      /\ r.cmd \in Commands
      /\ r.login \in Logins
  BY DeviceAssumption DEF Requests, Entries, Commands, DoorCommands
<1>2. failed' \in Nat /\ window' \in BOOLEAN /\ privileged' \in BOOLEAN
  <2>1. failed' \in Nat
    BY DEF Handle, Login, DeviceTypeOK
  <2>2. window' \in BOOLEAN
    BY Zenon DEF Handle, Login, DeviceTypeOK
  <2>3. privileged' \in BOOLEAN
    BY Zenon DEF Handle, Login, DeviceTypeOK, Chained
  <2> QED BY <2>1, <2>2, <2>3
<1>3. ASSUME Perform(r, takes)
      PROVE  /\ table' \in [Slots -> Entries]
             /\ alarm' \in Entries \cup {"kept", "chime"}
             /\ locked' \in [Doors -> BOOLEAN]
  <2>1. CASE r.cmd \in {"write", "remove"} /\ takes
    <3>1. Store(r.slot, r.entry) /\ UNCHANGED locked
      BY <1>3, <2>1 DEF Perform
    <3>2. r.slot = NUMUSERS \/ r.slot \in Slots
      BY <1>1, DeviceAssumption DEF Slots
    <3> QED BY <1>1, <3>1, <3>2 DEF Store, DeviceTypeOK
  <2>2. CASE r.cmd = "open" /\ r.door \in Doors
    BY <1>3, <2>2 DEF Perform, DeviceTypeOK
  <2>3. CASE r.cmd = "unlock" /\ r.door \in Doors
    BY <1>3, <2>3 DEF Perform, DeviceTypeOK
  <2>4. CASE r.cmd = "lock"
    <3>1. /\ locked' = [d \in Doors |-> locked[d] \/ r.door \in {d, NoDoor}]
          /\ UNCHANGED <<table, alarm>>
      BY <1>3, <2>4 DEF Perform
    <3>2. locked' \in [Doors -> BOOLEAN]
      BY <3>1, Zenon
    <3> QED BY <3>1, <3>2 DEF DeviceTypeOK
  <2>5. CASE /\ ~(r.cmd \in {"write", "remove"} /\ takes)
             /\ ~(r.cmd = "open" /\ r.door \in Doors)
             /\ ~(r.cmd = "unlock" /\ r.door \in Doors)
             /\ r.cmd # "lock"
    BY <1>3, <2>5 DEF Perform, DeviceTypeOK
  <2> QED BY <2>1, <2>2, <2>3, <2>4, <2>5
<1>4. /\ table' \in [Slots -> Entries]
      /\ alarm' \in Entries \cup {"kept", "chime"}
      /\ locked' \in [Doors -> BOOLEAN]
  <2>1. CASE Runs(r)
    BY <1>3, <2>1 DEF Handle
  <2>2. CASE ~Runs(r)
    BY <2>2 DEF Handle, DeviceTypeOK
  <2> QED BY <2>1, <2>2
<1>5. spent' \in BOOLEAN
  BY DEF Handle, DeviceTypeOK
<1> QED BY <1>2, <1>4, <1>5 DEF DeviceTypeOK

\* So does any other step of the board.
LEMMA NextTypeOK ==
  ASSUME DeviceTypeOK, DeviceNext
  PROVE  DeviceTypeOK'
<1>1. CASE \E r \in Requests, takes \in BOOLEAN : Handle(r, takes)
  BY <1>1, HandleTypeOK
<1>2. CASE WindowElapses
  BY <1>2 DEF WindowElapses, DeviceTypeOK
<1>3. CASE PowerCycle
  BY <1>3 DEF PowerCycle, DeviceTypeOK
<1> QED BY <1>1, <1>2, <1>3 DEF DeviceNext

\* Neither the table nor a slot that is shown changes by being read.
LEMMA ReadingWritesNothing ==
  ASSUME NEW r \in Requests, r.cmd = "table" \/ r.cmd = "show", Handle(r, TRUE)
  PROVE  table' = table
  BY DEF Handle, Perform

\* A change reaches its own slot or none.
LEMMA ChangingWritesOneSlot ==
  ASSUME NEW n \in Slots, NEW entry, NEW takes \in BOOLEAN,
         Handle(ChangeOf(n, entry), takes)
  PROVE  table' = table \/ table' = [table EXCEPT ![n] = entry]
<1>1. n # NUMUSERS
  BY DeviceAssumption DEF Slots
<1>2. ChangeOf(n, entry).slot = n /\ ChangeOf(n, entry).entry = entry
  BY DEF ChangeOf
<1>3. ChangeOf(n, entry).cmd \in {"write", "remove"}
  BY DEF ChangeOf
<1> HIDE DEF ChangeOf
<1>4. CASE Runs(ChangeOf(n, entry)) /\ takes
  BY <1>1, <1>2, <1>3, <1>4 DEF Handle, Perform, Store
<1>5. CASE ~(Runs(ChangeOf(n, entry)) /\ takes)
  BY <1>3, <1>5 DEF Handle, Perform
<1> QED BY <1>4, <1>5

-----------------------------------------------------------------------------
(* The invariant.                                                          *)

\* A pass that was never started has promised nothing.
LEMMA InitIInv == Init => IInv
<1> SUFFICES ASSUME Init PROVE IInv
  OBVIOUS
<1>1. DeviceTypeOK
  BY DEF Init, DeviceInit, DeviceTypeOK, Entries
<1>2. TypeOK
  BY <1>1 DEF Init, TypeOK, Places, Entries
<1>3. PlanIsLive /\ InStep /\ StillToDo
  BY DEF Init, PlanIsLive, InStep, StillToDo
<1> QED BY <1>2, <1>3 DEF IInv

\* Starting a pass promises nothing yet.
LEMMA StartPassIInv ==
  ASSUME IInv, NEW rows \in [FIRST_ASSIGNABLE .. NUMUSERS - 1 -> Rows],
         StartPass(rows)
  PROVE  IInv'
<1>1. asked' \in [Slots -> Entries]
  <2>1. asked' = [n \in Slots |-> IF n \in DOMAIN rows
                                  THEN normalise_tag(rows[n]) ELSE NoCard]
    BY DEF StartPass
  <2>2. \A row \in Rows : normalise_tag(row) \in Entries
    BY DEF Rows, NoRow, normalise_tag, Entries
  <2>3. \A n \in DOMAIN rows : rows[n] \in Rows
    OBVIOUS
  <2>4. NoCard \in Entries
    BY DEF Entries
  <2> HIDE DEF normalise_tag
  <2> QED BY <2>1, <2>2, <2>3, <2>4
<1>2. at' \in {"refused", "reading"}
  BY DEF StartPass
<1>3. TypeOK'
  <2>1. DeviceTypeOK' /\ UNCHANGED late
    BY DEF StartPass, IInv, TypeOK, DeviceTypeOK, device
  <2>2. todo' = {} /\ whole' = FALSE /\ quiet' = FALSE /\ torn' = {}
    BY DEF StartPass
  <2> QED BY <1>1, <1>2, <2>1, <2>2 DEF TypeOK, IInv, Places
<1>4. PlanIsLive' /\ InStep' /\ StillToDo'
  BY <1>2 DEF PlanIsLive, InStep, StillToDo
<1> QED BY <1>3, <1>4 DEF IInv

\* The plan of a table that was read to its end is exactly the slots that are
\* not as asked.
LEMMA PlanOfAWholeTable ==
  ASSUME TypeOK, NEW entry \in Entries
  PROVE  plan_changes(asked, Parsed(NUMUSERS, entry)) =
           {n \in Slots : table[n] # asked[n]}
<1>1. \A n \in Slots : n < NUMUSERS
  BY DeviceAssumption DEF Slots
<1>2. \A n \in Slots : Parsed(NUMUSERS, entry)[n] = table[n]
  BY <1>1 DEF Parsed
<1> QED BY <1>2 DEF plan_changes

LEMMA ReadIInv ==
  ASSUME IInv, NEW k \in 0 .. NUMUSERS, NEW entry \in Entries, Read(k, entry)
  PROVE  IInv'
<1>1. DeviceTypeOK'
  BY ReadTableIsARequest, HandleTypeOK DEF Read, IInv, TypeOK
<1>2. UNCHANGED table
  <2>1. ReadTable.cmd = "table"
    BY DEF ReadTable
  <2> QED BY <2>1, ReadTableIsARequest, ReadingWritesNothing DEF Read
<1>3. UNCHANGED <<asked, late, torn>> /\ at = "reading"
  BY DEF Read
<1>4. CASE Runs(ReadTable)
  <2>1. /\ todo' = plan_changes(asked, Parsed(k, entry))
        /\ whole' = (k = NUMUSERS)
        /\ quiet' = TRUE
        /\ at' = IF todo' = {} THEN "done" ELSE "changing"
    BY <1>4 DEF Read
  <2>2. todo' \in SUBSET Slots
    BY <2>1 DEF plan_changes
  <2>3. whole' => todo' = {n \in Slots : table[n] # asked[n]}
    BY <2>1, PlanOfAWholeTable DEF IInv
  <2>4. TypeOK'
    BY <1>1, <1>3, <2>1, <2>2 DEF IInv, TypeOK, Places
  <2>5. PlanIsLive'
    BY <2>1 DEF PlanIsLive
  <2>6. InStep' /\ StillToDo'
    BY <1>2, <1>3, <2>1, <2>3 DEF InStep, StillToDo, Keeper!AsShown
  <2> QED BY <2>4, <2>5, <2>6 DEF IInv
<1>5. CASE ~Runs(ReadTable)
  <2>1. at' = "failed" /\ UNCHANGED <<todo, whole, quiet>>
    BY <1>5 DEF Read
  <2>2. TypeOK'
    BY <1>1, <1>3, <2>1 DEF IInv, TypeOK, Places
  <2> QED BY <2>1, <2>2 DEF IInv, PlanIsLive, InStep, StillToDo
<1> QED BY <1>4, <1>5

\* A change makes its slot as asked or leaves it, and reaches no other.
LEMMA ChangeIInv ==
  ASSUME IInv, NEW takes \in BOOLEAN, Change(takes)
  PROVE  IInv'
<1> DEFINE n == First(todo)
<1>1. /\ at = "changing" /\ at' = "reading back"
      /\ Handle(ChangeOf(n, asked[n]), takes)
      /\ UNCHANGED <<asked, todo, whole, quiet, torn, late>>
  BY DEF Change
<1>2. todo \in SUBSET Slots /\ todo # {} /\ asked \in [Slots -> Entries]
  BY <1>1 DEF IInv, TypeOK, PlanIsLive
<1>3. n \in todo
  BY <1>2, FirstIsIn
<1>4. First(todo') = n
  BY <1>1
<1> HIDE DEF n
<1>5. n \in Slots /\ asked[n] \in Entries
  BY <1>2, <1>3
<1>6. TypeOK'
  <2>1. DeviceTypeOK'
    BY <1>1, <1>5, ChangeIsARequest, HandleTypeOK DEF IInv, TypeOK
  <2> QED BY <1>1, <2>1 DEF IInv, TypeOK, Places
<1>7. PlanIsLive'
  BY <1>1, <1>2 DEF PlanIsLive
<1>8. \A m \in Slots \ {n} : table'[m] = table[m]
  <2>1. table' = table \/ table' = [table EXCEPT ![n] = asked[n]]
    BY <1>1, <1>5, ChangingWritesOneSlot
  <2> QED BY <2>1 DEF IInv, TypeOK, DeviceTypeOK
<1>9. InStep'
  BY <1>1, <1>3, <1>8 DEF IInv, InStep, Keeper!AsShown
<1>10. StillToDo'
  BY <1>1, <1>2, <1>4, <1>8 DEF IInv, StillToDo
<1> QED BY <1>6, <1>7, <1>9, <1>10 DEF IInv

\* A slot leaves the plan only when it has been shown as asked.
LEMMA ReadBackIInv ==
  ASSUME IInv, ReadBack
  PROVE  IInv'
<1> DEFINE n == First(todo)
<1>1. /\ at = "reading back"
      /\ Handle(ShowOf(n), TRUE)
      /\ UNCHANGED <<asked, whole, quiet, late>>
  BY DEF ReadBack
<1>2. todo \in SUBSET Slots /\ todo # {}
  BY <1>1 DEF IInv, TypeOK, PlanIsLive
<1>3. n \in todo /\ n \in Slots
  BY <1>2, FirstIsIn
<1>4. \/ /\ todo' = todo \ {n}
         /\ at' = IF todo' = {} THEN "done" ELSE "changing"
         /\ \/ table[n] = asked[n] /\ UNCHANGED torn
            \/ asked[n] \in CutTag[table[n]] /\ torn' = torn \cup {n}
      \/ at' = "failed" /\ UNCHANGED <<todo, torn>>
  BY DEF ReadBack, CutRow
<1>5. ASSUME at = "reading back", quiet, whole
      PROVE  \A m \in todo \ {n} : table[m] # asked[m]
  BY <1>5 DEF IInv, StillToDo
<1> HIDE DEF n
<1>6. DeviceTypeOK' /\ UNCHANGED table
  <2>1. ShowOf(n) \in Requests
    BY <1>3, ShowIsARequest
  <2>2. ShowOf(n).cmd = "show"
    BY DEF ShowOf
  <2> QED BY <1>1, <2>1, <2>2, HandleTypeOK, ReadingWritesNothing DEF IInv, TypeOK
<1>7. TypeOK'
  BY <1>1, <1>2, <1>3, <1>4, <1>6 DEF IInv, TypeOK, Places
<1>8. PlanIsLive'
  BY <1>4 DEF PlanIsLive
<1>9. InStep'
  <2> SUFFICES ASSUME quiet', whole', at' # "failed", NEW m \in Slots, m \notin todo'
               PROVE  Keeper!AsShown(m)'
    BY DEF InStep
  <2>1. torn \subseteq torn'
    BY <1>4
  <2>2. CASE m = n
    BY <1>1, <1>4, <1>6, <2>2 DEF Keeper!AsShown
  <2>3. CASE m # n
    <3>1. m \notin todo
      BY <1>4, <2>3
    <3>2. Keeper!AsShown(m)
      BY <1>1, <3>1 DEF IInv, InStep
    <3> QED BY <1>1, <1>6, <2>1, <3>2 DEF Keeper!AsShown
  <2> QED BY <2>2, <2>3
<1>10. StillToDo'
  BY <1>1, <1>4, <1>5, <1>6 DEF StillToDo
<1> QED BY <1>7, <1>8, <1>9, <1>10 DEF IInv

\* A pass that is over promises nothing more.
LEMMA BreaksIInv ==
  ASSUME IInv, Breaks
  PROVE  IInv'
<1>1. /\ at \in Running /\ at' = "failed"
      /\ UNCHANGED <<asked, todo, whole, quiet, torn>>
      /\ DeviceTypeOK'
  BY DEF Breaks, IInv, TypeOK, DeviceTypeOK, device
<1>2. late' \in [slot: Slots, entry: Entries] \cup {Nothing}
  <2>1. CASE late' = late
    BY <2>1 DEF IInv, TypeOK
  <2>2. CASE at = "changing" /\ late' = [slot |-> First(todo), entry |-> asked[First(todo)]]
    <3>1. First(todo) \in Slots
      BY <2>2, FirstIsIn DEF IInv, TypeOK, PlanIsLive
    <3>2. asked[First(todo)] \in Entries
      BY <3>1 DEF IInv, TypeOK
    <3> QED BY <2>2, <3>1, <3>2
  <2> QED BY <2>1, <2>2 DEF Breaks
<1>3. TypeOK'
  BY <1>1, <1>2 DEF IInv, TypeOK, Places
<1> QED BY <1>1, <1>3 DEF IInv, PlanIsLive, InStep, StillToDo

\* Whoever else is at the board, a table that has moved is no longer quiet.
LEMMA MeanwhileIInv ==
  ASSUME IInv, DeviceTypeOK',
         quiet' = (quiet /\ table' = table),
         UNCHANGED <<asked, todo, at, whole, torn>>,
         late' \in {late, Nothing}
  PROVE  IInv'
<1>1. TypeOK'
  BY DEF IInv, TypeOK
<1>2. quiet' => quiet /\ table' = table
  OBVIOUS
<1> QED BY <1>1, <1>2 DEF IInv, PlanIsLive, InStep, StillToDo, Keeper!AsShown

LEMMA ServeLateIInv ==
  ASSUME IInv, NEW takes \in BOOLEAN, ServeLate(takes)
  PROVE  IInv'
<1>1. late.slot \in Slots /\ late.entry \in Entries
  BY DEF ServeLate, IInv, TypeOK
<1>2. ChangeOf(late.slot, late.entry) \in Requests
  BY <1>1, ChangeIsARequest
<1>3. DeviceTypeOK'
  BY <1>2, HandleTypeOK DEF ServeLate, IInv, TypeOK
<1> QED BY <1>3, MeanwhileIInv DEF ServeLate

LEMMA OthersIInv ==
  ASSUME IInv, Others
  PROVE  IInv'
  BY NextTypeOK, MeanwhileIInv DEF Others, IInv, TypeOK

\* Every step keeps the invariant.
LEMMA NextIInv ==
  ASSUME IInv, [Next]_vars
  PROVE  IInv'
<1>1. CASE \E rows \in [FIRST_ASSIGNABLE .. NUMUSERS - 1 -> Rows] : StartPass(rows)
  BY <1>1, StartPassIInv
<1>2. CASE \E k \in 0 .. NUMUSERS, entry \in Entries : Read(k, entry)
  BY <1>2, ReadIInv
<1>3. CASE \E takes \in BOOLEAN : Change(takes)
  BY <1>3, ChangeIInv
<1>4. CASE ReadBack
  BY <1>4, ReadBackIInv
<1>5. CASE Breaks
  BY <1>5, BreaksIInv
<1>6. CASE \E takes \in BOOLEAN : ServeLate(takes)
  BY <1>6, ServeLateIInv
<1>7. CASE Others
  BY <1>7, OthersIInv
<1>8. CASE UNCHANGED vars
  BY <1>8 DEF vars, device, reconcile, IInv, TypeOK, DeviceTypeOK,
              PlanIsLive, InStep, StillToDo, Keeper!AsShown
<1> QED BY <1>1, <1>2, <1>3, <1>4, <1>5, <1>6, <1>7, <1>8 DEF Next

\* The pass, the board under it and what it left on the network are well
\* typed in every reachable state.
THEOREM TypeCorrect == Spec => []TypeOK
<1>1. IInv => TypeOK
  BY DEF IInv
<1>2. IInv /\ [Next]_vars => IInv'
  BY NextIInv
<1> QED BY InitIInv, <1>1, <1>2, PTL DEF Spec

\* A change is sent only for a slot that is not as asked, so a second pass
\* over a table that was read to its end, and left alone since, writes nothing.
THEOREM NothingIsWrittenTwice == Spec => WritesAreNeeded
<1>1. IInv /\ IInv' /\ [Next]_vars =>
        [at = "changing" /\ at' = "reading back" /\ whole /\ quiet =>
           table[First(todo)] # asked[First(todo)]]_vars
  <2> SUFFICES ASSUME IInv, at = "changing", whole, quiet
               PROVE  table[First(todo)] # asked[First(todo)]
    OBVIOUS
  <2>1. First(todo) \in todo
    BY FirstIsIn DEF IInv, TypeOK, PlanIsLive
  <2> QED BY <2>1 DEF IInv, StillToDo
<1>2. IInv /\ [Next]_vars => IInv'
  BY NextIInv
<1> QED BY InitIInv, <1>1, <1>2, PTL DEF Spec, WritesAreNeeded

-----------------------------------------------------------------------------
(* The board under a pass.                                                 *)

\* Every step of the pass and of its network is one request, served, or none.
LEMMA NextKeepsLockout ==
  ASSUME IInv, Lockout, [Next]_vars
  PROVE  Lockout'
<1>1. ASSUME UNCHANGED device
      PROVE  Lockout'
  BY <1>1, NextLockout
<1>2. ASSUME at \in {"changing", "reading back"}
      PROVE  First(todo) \in Slots /\ asked[First(todo)] \in Entries
  BY <1>2, FirstIsIn DEF IInv, TypeOK, PlanIsLive
<1>3. CASE \E rows \in [FIRST_ASSIGNABLE .. NUMUSERS - 1 -> Rows] : StartPass(rows)
  BY <1>1, <1>3 DEF StartPass
<1>4. CASE \E k \in 0 .. NUMUSERS, entry \in Entries : Read(k, entry)
  BY <1>4, ReadTableIsARequest, HandleLockout DEF Read
<1>5. CASE \E takes \in BOOLEAN : Change(takes)
  BY <1>2, <1>5, ChangeIsARequest, HandleLockout DEF Change
<1>6. CASE ReadBack
  BY <1>2, <1>6, ShowIsARequest, HandleLockout DEF ReadBack
<1>7. CASE Breaks
  BY <1>1, <1>7 DEF Breaks
<1>8. CASE \E takes \in BOOLEAN : ServeLate(takes)
  <2>1. late.slot \in Slots /\ late.entry \in Entries
    BY <1>8 DEF ServeLate, IInv, TypeOK
  <2> QED BY <1>8, <2>1, ChangeIsARequest, HandleLockout DEF ServeLate
<1>9. CASE Others
  BY <1>9, NextLockout DEF Others
<1>10. CASE UNCHANGED vars
  BY <1>1, <1>10 DEF vars
<1> QED BY <1>3, <1>4, <1>5, <1>6, <1>7, <1>8, <1>9, <1>10 DEF Next

\* While the board is locked out nobody is privileged on it, whatever a pass,
\* the requests it abandoned and the other clients send.
THEOREM LockedOutUnderAPass == Spec => []LockoutIsUnprivileged
<1>1. Init => Lockout
  BY InitLockout DEF Init
<1>2. Lockout => LockoutIsUnprivileged
  BY DEF Lockout
<1>3. IInv /\ [Next]_vars => IInv'
  BY NextIInv
<1>4. IInv /\ Lockout /\ [Next]_vars => Lockout'
  BY NextKeepsLockout
<1> QED BY InitIInv, <1>1, <1>2, <1>3, <1>4, PTL DEF Spec

-----------------------------------------------------------------------------
(* The pass implements SlotKeeper.                                         *)

\* A pass that was never started keeps a table nobody asked anything of.
LEMMA InitIsKept == Init => Keeper!Init
  BY DEF Init, DeviceInit, Keeper!Init, Slots, Entries

\* Every step of the pass, of the board, of its network and of the others
\* is a step of the keeper or leaves it where it was.
LEMMA NextIsKept ==
  ASSUME IInv, IInv', [Next]_vars
  PROVE  [Keeper!Next]_(Keeper!keeper)
<1> USE DEF Keeper!keeper
<1>1. ASSUME NEW rows \in [FIRST_ASSIGNABLE .. NUMUSERS - 1 -> Rows], StartPass(rows)
      PROVE  Keeper!Ask
  <2>1. at' # "done" /\ quiet' = FALSE /\ UNCHANGED table
    BY <1>1 DEF StartPass, device
  <2>2. asked' \in [Slots -> Entries] /\ torn' \in SUBSET Slots
    BY DEF IInv, TypeOK
  <2> QED BY <2>1, <2>2 DEF Keeper!Ask
<1>2. ASSUME NEW k \in 0 .. NUMUSERS, NEW entry \in Entries, Read(k, entry)
      PROVE  Keeper!Ask \/ Keeper!Settle
  <2>1. UNCHANGED <<table, asked>>
    <3>1. ReadTable.cmd = "table"
      BY DEF ReadTable
    <3> QED BY <1>2, <3>1, ReadTableIsARequest, ReadingWritesNothing DEF Read
  <2>2. /\ (quiet' /\ whole') \in BOOLEAN
        /\ asked' \in [Slots -> Entries] /\ torn' \in SUBSET Slots
    BY DEF IInv, TypeOK
  <2>3. CASE at' = "done"
    <3>1. quiet' /\ whole' => \A n \in Slots : Keeper!AsShown(n)'
      BY <2>3 DEF IInv, PlanIsLive, InStep
    <3> QED BY <2>1, <2>2, <2>3, <3>1 DEF Keeper!Settle
  <2>4. CASE at' # "done"
    BY <2>1, <2>2, <2>4 DEF Keeper!Ask
  <2> QED BY <2>3, <2>4
<1>3. ASSUME NEW takes \in BOOLEAN, Change(takes)
      PROVE  (\E n \in Slots : Keeper!Bring(n)) \/ UNCHANGED Keeper!keeper
  <2> DEFINE n == First(todo)
  <2>1. /\ at = "changing" /\ at' = "reading back"
        /\ Handle(ChangeOf(n, asked[n]), takes)
        /\ UNCHANGED <<asked, quiet, whole, torn>>
    BY <1>3 DEF Change
  <2>2. n \in todo /\ n \in Slots
    BY <2>1, FirstIsIn DEF IInv, TypeOK, PlanIsLive
  <2>3. quiet /\ whole => table[n] # asked[n]
    BY <2>1, <2>2 DEF IInv, StillToDo
  <2> HIDE DEF n
  <2>4. table' = table \/ table' = [table EXCEPT ![n] = asked[n]]
    BY <2>1, <2>2, ChangingWritesOneSlot
  <2>5. CASE table' = table
    BY <2>1, <2>5
  <2>6. CASE table' = [table EXCEPT ![n] = asked[n]]
    <3>1. Keeper!Bring(n)
      BY <2>1, <2>3, <2>6 DEF Keeper!Bring
    <3> QED BY <2>2, <3>1
  <2> QED BY <2>4, <2>5, <2>6
<1>4. ASSUME ReadBack
      PROVE  Keeper!Settle \/ Keeper!Ask
  <2>1. /\ at = "reading back"
        /\ Handle(ShowOf(First(todo)), TRUE)
        /\ UNCHANGED <<asked, quiet, whole>>
    BY <1>4 DEF ReadBack
  <2>2. UNCHANGED table
    <3>1. First(todo) \in Slots
      BY <2>1, FirstIsIn DEF IInv, TypeOK, PlanIsLive
    <3>2. ShowOf(First(todo)) \in Requests /\ ShowOf(First(todo)).cmd = "show"
      BY <3>1, ShowIsARequest DEF ShowOf
    <3> QED BY <2>1, <3>2, ReadingWritesNothing
  <2>3. /\ (quiet' /\ whole') \in BOOLEAN
        /\ asked' \in [Slots -> Entries] /\ torn' \in SUBSET Slots
    BY DEF IInv, TypeOK
  <2>4. CASE at' = "done"
    <3>1. quiet' /\ whole' => \A n \in Slots : Keeper!AsShown(n)'
      BY <2>4 DEF IInv, PlanIsLive, InStep
    <3> QED BY <2>1, <2>2, <2>3, <2>4, <3>1 DEF Keeper!Settle
  <2>5. CASE at' # "done"
    BY <2>1, <2>2, <2>3, <2>5 DEF Keeper!Ask
  <2> QED BY <2>4, <2>5
<1>5. ASSUME Breaks
      PROVE  UNCHANGED Keeper!keeper
  BY <1>5 DEF Breaks, Running, device
<1>6. ASSUME quiet' = (quiet /\ table' = table), UNCHANGED <<asked, at, whole, torn>>
      PROVE  Keeper!Disturb \/ UNCHANGED Keeper!keeper
  <2>1. CASE table' = table
    <3>1. quiet' = quiet
      BY <1>6, <2>1 DEF IInv, TypeOK
    <3> QED BY <1>6, <2>1, <3>1
  <2>2. CASE table' # table
    <3>1. quiet' = FALSE /\ table' \in [Slots -> Entries]
      BY <1>6, <2>2 DEF IInv, TypeOK, DeviceTypeOK
    <3> QED BY <1>6, <3>1 DEF Keeper!Disturb
  <2> QED BY <2>1, <2>2
<1>7. ASSUME UNCHANGED vars
      PROVE  UNCHANGED Keeper!keeper
  BY <1>7 DEF vars, device, reconcile
<1>8. CASE (\E takes \in BOOLEAN : ServeLate(takes)) \/ Others
  BY <1>6, <1>8 DEF ServeLate, Others, Keeper!Next
<1> QED BY <1>1, <1>2, <1>3, <1>4, <1>5, <1>7, <1>8 DEF Next, Keeper!Next

\* The pass keeps what SlotKeeper promises, through losses, late requests,
\* refusals, writes that do not take, power cuts and other clients: slots are
\* only brought to what was asked, none is written that was as asked, and it
\* is done only when the table is, unless somebody else was at it, the table
\* had been cut, or a read back was cut inside a tag, and then the slot holds a
\* card whose tag begins with the one asked for.
THEOREM PassKeepsItsPromise == Spec => ImplementsKeeper
<1>1. IInv /\ IInv' /\ [Next]_vars => [Keeper!Next]_(Keeper!keeper)
  BY NextIsKept
<1>2. IInv /\ [Next]_vars => IInv'
  BY NextIInv
<1> QED BY InitIInv, InitIsKept, <1>1, <1>2, PTL DEF Spec, ImplementsKeeper, Keeper!Spec

=============================================================================
