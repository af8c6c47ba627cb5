--------------------------- MODULE DoorController ---------------------------
(***************************************************************************)
(* The adapter OacEthernetController, its threads, and the network between *)
(* it and the board of DoorDevice.                                         *)
(*                                                                         *)
(* An operation takes the adapter's one lock, sends a request, waits for   *)
(* the answer, sends a read back after a write or a clear, and lets go of  *)
(* the lock on every way out.  SocketTransport gives up after its timeout; *)
(* the bytes it sent are then still on their way, and the board may yet    *)
(* serve them.  An answer may be lost, or cut short; a slot that is cut    *)
(* inside its tag reads as a shorter tag (_DUMP_LINE takes 1 to 8 digits). *)
(*                                                                         *)
(* Other clients on the door network are there too, without the password.  *)
(***************************************************************************)
EXTENDS DoorDevice, FiniteSets

CONSTANTS Threads,          \* callers of the adapter in one process
          NoThread,         \* the lock is free
          FIRST_ASSIGNABLE, \* the first slot a card is issued into
          CutTag,           \* the cards a record's line reads as when it is
                            \* cut inside its tag
          MaxOps            \* bound: operations started

ASSUME ControllerAssumption ==
  /\ NoThread \notin Threads
  /\ FIRST_ASSIGNABLE \in Slots
  /\ CutTag \in [Entries -> SUBSET Cards]
  /\ \A e \in Entries : \A c \in CutTag[e] : CutTag[c] \subseteq CutTag[e]
  /\ MaxOps \in Nat

\* One call of the DoorController port.  A slot may be any number and a door
\* any name.
Calls ==
  [do: {"status", "table"}, slot: {0}, entry: {NoCard}, door: {NoDoor}]
  \cup [do: {"write"}, slot: 0 .. NUMUSERS, entry: Cards, door: {NoDoor}]
  \cup [do: {"clear"}, slot: 0 .. NUMUSERS, entry: {NoCard}, door: {NoDoor}]
  \cup [do: DoorCommands, slot: {0}, entry: {NoCard}, door: Doors \cup {NoDoor}]

NoCall == [do |-> "none", slot |-> 0, entry |-> NoCard, door |-> NoDoor]

CallType == [do: {"status", "table", "write", "clear", "none"} \cup DoorCommands,
             slot: Nat, entry: Entries, door: Doors \cup {NoDoor}]

Outcomes == {"none", "ok", "refused", "not verified", "unreachable",
             "out of range", "no such door", "crashed"}

VARIABLES lock,     \* the thread that holds _lock
          call,     \* what each thread was asked to do
          serial,   \* the number of each thread's operation
          pc,       \* where each thread is
          answer,   \* what has come back for it
          net,      \* requests on their way to the board
          started,  \* operations started so far
          \* What happened, kept for the properties; no guard reads these.
          outcome,  \* how each operation ended
          done,     \* operations whose command the board ran
          torn      \* operations whose read back was cut inside its tag

adapter == <<lock, call, serial, pc, answer, net, started, outcome, done, torn>>
vars == <<device, adapter>>

Places == {"idle", "lock", "send", "wait", "read back", "wait again"}
Waiting == {"wait", "wait again"}

NoAnswer == [said |-> "nothing"]
Serials == 1 .. MaxOps

-----------------------------------------------------------------------------
(* What the adapter sends, and what it makes of the answer.                *)

ReadsBack(c) == c.do \in {"write", "clear"}

\* Faulty: the range ends at the number of slots.
InRangeOffByOne(c) ==
  /\ c.do = "write" => c.slot \in FIRST_ASSIGNABLE .. NUMUSERS
  /\ c.do = "clear" => c.slot \in 0 .. NUMUSERS

\* slot_range.check_assignable and check_addressable.
InRange(c) ==
  /\ c.do = "write" => c.slot \in FIRST_ASSIGNABLE .. NUMUSERS - 1
  /\ c.do = "clear" => c.slot \in 0 .. NUMUSERS - 1

\* wire.status_path to wire.door_action_path: every request but the status
\* carries its login and its logout.
CommandOf(c) ==
  [cmd |-> IF c.do = "clear" THEN "remove" ELSE c.do,
   login |-> IF c.do = "status" THEN "none" ELSE "right",
   slot |-> c.slot, entry |-> c.entry, door |-> c.door]

ReadBackOf(c) ==
  [cmd |-> "show", login |-> "right",
   slot |-> c.slot, entry |-> NoCard, door |-> NoDoor]

\* A refusal, an answer cut before the end of its header, and one cut after it.
Unreadable == {"refusal", "no header", "cut"}

\* Faulty: the status line of the answer is 200, so the command ran.
TrustTheStatusLine(c, a) ==
  IF ReadsBack(c) /\ a.said = "slot" /\ a.held # c.entry THEN "not verified"
  ELSE "ok"

\* The parse of the last answer: parse_status, parse_card_table,
\* parse_slot_dump with its comparison, and parse_door_action.
Verdict(c, a) ==
  IF a.said \in Unreadable THEN "refused"
  ELSE CASE ReadsBack(c) -> IF a.held = c.entry THEN "ok" ELSE "not verified"
         [] c.do = "lock" -> IF a.locked[c.door] THEN "ok" ELSE "refused"
         [] OTHER -> "ok"

-----------------------------------------------------------------------------
(* The adapter.                                                            *)

Start(t) ==
  /\ pc[t] = "idle"
  /\ started < MaxOps
  /\ \E c \in Calls : call' = [call EXCEPT ![t] = c]
  /\ started' = started + 1
  /\ serial' = [serial EXCEPT ![t] = started + 1]
  /\ pc' = [pc EXCEPT ![t] = "lock"]
  /\ UNCHANGED <<lock, answer, net, outcome, done, torn, device>>

\* Faulty: an exception leaves the lock held.
EndsHoldingLock(t, how) ==
  /\ outcome' = [outcome EXCEPT ![serial[t]] = how]
  /\ pc' = [pc EXCEPT ![t] = "idle"]
  /\ answer' = [answer EXCEPT ![t] = NoAnswer]
  /\ lock' = IF lock = t /\ how # "unreachable" THEN NoThread ELSE lock

\* How an operation ends, with the lock let go of by the with statement.
Ends(t, how) ==
  /\ outcome' = [outcome EXCEPT ![serial[t]] = how]
  /\ pc' = [pc EXCEPT ![t] = "idle"]
  /\ answer' = [answer EXCEPT ![t] = NoAnswer]
  /\ lock' = IF lock = t THEN NoThread ELSE lock

\* perform with a name the configuration does not have: nothing is sent.
UnknownDoor(t) ==
  /\ pc[t] = "lock"
  /\ call[t].do \in DoorCommands /\ call[t].door = NoDoor
  /\ Ends(t, "no such door")
  /\ UNCHANGED <<call, serial, net, started, done, torn, device>>

\* Faulty: the lock is not waited for.
AcquireAnyway(t) ==
  /\ pc[t] = "lock"
  /\ ~(call[t].do \in DoorCommands /\ call[t].door = NoDoor)
  /\ lock' = t
  /\ pc' = [pc EXCEPT ![t] = "send"]
  /\ UNCHANGED <<call, serial, answer, net, started, outcome, done, torn, device>>

Acquire(t) ==
  /\ pc[t] = "lock"
  /\ ~(call[t].do \in DoorCommands /\ call[t].door = NoDoor)
  /\ lock = NoThread
  /\ lock' = t
  /\ pc' = [pc EXCEPT ![t] = "send"]
  /\ UNCHANGED <<call, serial, answer, net, started, outcome, done, torn, device>>

\* The path is built with the lock held, and a slot out of range stops it.
OutOfRange(t) ==
  /\ pc[t] = "send"
  /\ ~InRange(call[t])
  /\ Ends(t, "out of range")
  /\ UNCHANGED <<call, serial, net, started, done, torn, device>>

Messages == [from: Threads, serial: Serials, step: Waiting, req: Request]

Message(t, step, req) ==
  [from |-> t, serial |-> serial[t], step |-> step, req |-> req]

Send(t) ==
  \/ /\ pc[t] = "send"
     /\ InRange(call[t])
     /\ net' = net \cup {Message(t, "wait", CommandOf(call[t]))}
     /\ pc' = [pc EXCEPT ![t] = "wait"]
     /\ UNCHANGED <<lock, call, serial, answer, started, outcome, done, torn, device>>
  \/ /\ pc[t] = "read back"
     /\ net' = net \cup {Message(t, "wait again", ReadBackOf(call[t]))}
     /\ pc' = [pc EXCEPT ![t] = "wait again"]
     /\ UNCHANGED <<lock, call, serial, answer, started, outcome, done, torn, device>>

\* The first answer of a write or a clear is not looked at, beyond its header.
Receive(t) ==
  /\ pc[t] \in Waiting
  /\ answer[t] # NoAnswer
  /\ IF ReadsBack(call[t]) /\ pc[t] = "wait" /\ answer[t].said # "no header"
     THEN /\ pc' = [pc EXCEPT ![t] = "read back"]
          /\ answer' = [answer EXCEPT ![t] = NoAnswer]
          /\ UNCHANGED <<lock, outcome>>
     ELSE Ends(t, Verdict(call[t], answer[t]))
  /\ UNCHANGED <<call, serial, net, started, done, torn, device>>

\* SocketTransport.send: an OSError, from connecting to reading the last byte.
Timeout(t) ==
  /\ pc[t] \in Waiting
  /\ Ends(t, "unreachable")
  /\ UNCHANGED <<call, serial, net, started, done, torn, device>>

\* The door service dies.  What it sent stays sent.
Crash ==
  /\ lock' = NoThread
  /\ pc' = [t \in Threads |-> "idle"]
  /\ answer' = [t \in Threads |-> NoAnswer]
  /\ outcome' = [n \in Serials |->
       IF \E t \in Threads : pc[t] # "idle" /\ serial[t] = n
       THEN "crashed" ELSE outcome[n]]
  /\ UNCHANGED <<call, serial, net, started, done, torn, device>>

-----------------------------------------------------------------------------
(* The network and the board.                                              *)

\* The board serves a request; whoever sent it may have given up.
Serve(m) ==
  /\ m \in net
  /\ net' = net \ {m}
  /\ \E takes \in BOOLEAN : Handle(m.req, takes)
  /\ done' = IF Runs(m.req) /\ m.step = "wait" THEN done \cup {m.serial} ELSE done
  /\ answer' = IF pc[m.from] = m.step /\ serial[m.from] = m.serial
               THEN [answer EXCEPT ![m.from] = Answer(m.req)] ELSE answer
  /\ UNCHANGED <<lock, call, serial, pc, started, outcome, torn>>

LoseRequest(m) ==
  /\ m \in net
  /\ net' = net \ {m}
  /\ UNCHANGED <<lock, call, serial, pc, answer, started, outcome, done, torn, device>>

\* A table that was cut in row k, whose line still reads as entry.
CutAt(rows, k, entry) ==
  [n \in Slots |-> IF n < k THEN rows[n] ELSE IF n = k THEN entry ELSE NoCard]

\* What is left of an answer when the connection closes early.  A card table
\* that lost its last lines still reads as a card table, and the line the cut
\* falls in may still read as a card: not the one that is there, but one whose
\* tag begins as its does.
Cuts(a) ==
  {[said |-> "no header"]} \cup
  CASE a.said = "table" ->
         UNION {{[said |-> "table", rows |-> CutAt(a.rows, k, e)] :
                   e \in {NoCard} \cup CutTag[a.rows[k]]} : k \in Slots}
    [] a.said = "slot" ->
         {[said |-> "cut"]} \cup {[said |-> "slot", held |-> e] : e \in CutTag[a.held]}
    [] OTHER -> {[said |-> "cut"]}

CutAnswer(t) ==
  /\ pc[t] \in Waiting
  /\ answer[t] # NoAnswer
  /\ \E a \in Cuts(answer[t]) :
       /\ answer' = [answer EXCEPT ![t] = a]
       /\ torn' = IF a.said = "slot" THEN torn \cup {serial[t]} ELSE torn
  /\ UNCHANGED <<lock, call, serial, pc, net, started, outcome, done, device>>

\* Another host on the door network, which does not have the password.
OtherClient ==
  /\ \E r \in Requests : r.login # "right" /\ Handle(r, TRUE)
  /\ UNCHANGED adapter

-----------------------------------------------------------------------------
Init ==
  /\ DeviceInit
  /\ lock = NoThread
  /\ call = [t \in Threads |-> NoCall]
  /\ serial = [t \in Threads |-> 0]
  /\ pc = [t \in Threads |-> "idle"]
  /\ answer = [t \in Threads |-> NoAnswer]
  /\ net = {}
  /\ started = 0
  /\ outcome = [n \in Serials |-> "none"]
  /\ done = {}
  /\ torn = {}

ThreadStep(t) ==
  \/ Start(t) \/ UnknownDoor(t) \/ Acquire(t) \/ OutOfRange(t)
  \/ Send(t) \/ Receive(t) \/ Timeout(t) \/ CutAnswer(t)

NetworkStep == \E m \in net : Serve(m) \/ LoseRequest(m)

BoardStep == (WindowElapses \/ PowerCycle) /\ UNCHANGED adapter

Next ==
  \/ \E t \in Threads : ThreadStep(t)
  \/ Crash
  \/ NetworkStep
  \/ OtherClient
  \/ BoardStep

Spec == Init /\ [][Next]_vars

\* A thread that holds the lock runs on, and its socket's timeout ends a wait
\* that nothing else does (transport.py:49-76).
HolderRuns(t) == OutOfRange(t) \/ Send(t) \/ Receive(t) \/ Timeout(t)

FairSpec == Spec /\ \A t \in Threads : WF_vars(HolderRuns(t))

-----------------------------------------------------------------------------
(* Properties.                                                             *)

Answers ==
  [said: {"nothing", "prev and cur", "refusal", "no header", "cut"}]
    \cup [said: {"slot"}, held: Entries]
    \cup [said: {"table"}, rows: [Slots -> Entries]]
    \cup [said: {"moved"}, door: Doors]
    \cup [said: {"status"}, locked: [Doors -> BOOLEAN]]

\* The adapter's variables and the network hold what their types allow.
TypeOK ==
  /\ DeviceTypeOK
  /\ lock \in Threads \cup {NoThread}
  /\ call \in [Threads -> CallType]
  /\ serial \in [Threads -> 0 .. MaxOps]
  /\ pc \in [Threads -> Places]
  /\ answer \in [Threads -> Answers]
  /\ net \subseteq Messages
  /\ started \in 0 .. MaxOps
  /\ outcome \in [Serials -> Outcomes]
  /\ done \subseteq Serials
  /\ torn \subseteq Serials

\* Between any two requests the board is not privileged, wherever the door
\* service died, whatever was lost, and whoever else is on the network
\* (controller.py:130-134, wire.py:126-132).
NoStandingPrivilege == ~privileged

\* The alarm bytes change only as a side effect of opening a door, never
\* because of a slot number (slot_range.py:16-21, device.py:204-213).
AlarmMovesOnlyOnOpen == [][alarm' # alarm => alarm' = "chime"]_vars

Abandoned == {n \in Serials : outcome[n] \in {"unreachable", "crashed"}}

\* The operation of thread t ends in this step, and this is how.
Reports(t, how) ==
  pc[t] # "idle" /\ pc'[t] = "idle" /\ outcome'[serial[t]] = how

\* As long as no operation was abandoned, a write or a clear that returns
\* without an error leaves the slot, at that moment, as it was asked to be,
\* although other threads use the same board (controller.py:88-113).  Only when
\* its read back was cut inside the tag may the slot hold something else: a record
\* whose tag begins with the one asked for (wire.py:32, 170-179); a clear is
\* never believed of a slot that holds a card.
VerifiedMeansHeld ==
  [][\A t \in Threads :
       Abandoned = {} /\ ReadsBack(call[t]) /\ Reports(t, "ok") =>
         \/ table[call[t].slot] = call[t].entry
         \/ serial[t] \in torn /\ call[t].entry \in CutTag[table[call[t].slot]]]_vars

\* A door that is reported opened, unlocked or locked is one whose command the
\* board ran for this very call (wire.py:206-231).
ReportedActionsRan ==
  [][\A t \in Threads :
       call[t].do \in DoorCommands /\ Reports(t, "ok") =>
         serial[t] \in done]_vars

\* Whoever holds the lock lets go of it: no lost answer, refusal or crash
\* keeps the other callers out for ever (controller.py:91-94, 126-128).
LockIsReleased == \A t \in Threads : lock = t ~> lock # t

\* What SocketTransport tells the caller on an OSError (transport.py:53-59):
\* the command was not completed, so the door is unchanged.
UnreachableMeansNotRun ==
  [][\A t \in Threads : Reports(t, "unreachable") => serial[t] \notin done]_vars

=============================================================================
