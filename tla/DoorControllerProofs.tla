------------------------ MODULE DoorControllerProofs ------------------------
(***************************************************************************)
(* Proofs about DoorController, for any number of threads, operations,     *)
(* slots, cards and doors.                                                 *)
(*                                                                         *)
(* The invariant comes in three layers, each proved from the ones below:   *)
(* types and what may be on the wire; who holds the lock and whose answer  *)
(* is whose; and what is left when no operation was abandoned.             *)
(***************************************************************************)
EXTENDS DoorController, TLAPS

\* Nothing on its way to the board logs in without logging out, or names a
\* slot past the end.
NetSafe ==
  \A m \in net : /\ m.req.cmd # "login"
                 /\ m.req.cmd \in {"write", "remove", "show"} => m.req.slot \in Slots

\* A thread at work was asked for something, and what it has sent for was in
\* range.
Asked ==
  \A t \in Threads :
    /\ pc[t] # "idle" => call[t].do # "none" /\ serial[t] \in Serials
    /\ pc[t] \in {"wait", "read back", "wait again"} => InRange(call[t])
    /\ pc[t] \in {"read back", "wait again"} => ReadsBack(call[t])

Inv1 == TypeOK /\ NetSafe /\ Asked /\ NoStandingPrivilege

-----------------------------------------------------------------------------
(* The board.                                                              *)

\* A request that is served leaves the board well typed.
LEMMA HandleType ==
  ASSUME DeviceTypeOK, NEW r \in Request, NEW takes \in BOOLEAN,
         Handle(r, takes)
  PROVE  DeviceTypeOK'
<1> USE DeviceAssumption
<1>1. Login(r) /\ r.login \in Logins
  BY DEF Handle, Request
<1>2. failed' \in Nat
  BY <1>1 DEF Login, DeviceTypeOK
<1>3. window' \in BOOLEAN
  BY <1>1, Zenon DEF Login, DeviceTypeOK
<1>4. privileged' \in BOOLEAN
  BY <1>1, Zenon DEF Login, DeviceTypeOK, Chained
<1>5. /\ table' \in [Slots -> Entries]
      /\ alarm' \in Entries \cup {"kept", "chime"}
      /\ locked' \in [Doors -> BOOLEAN]
  <2>1. CASE ~Runs(r)
    BY <2>1 DEF Handle, DeviceTypeOK
  <2>2. CASE Runs(r)
    <3>1. Perform(r, takes)
      BY <2>2 DEF Handle
    <3>2. r.entry \in Entries /\ r.door \in Doors \cup {NoDoor}
      BY DEF Request
    <3>3. CASE r.cmd \in {"write", "remove"} /\ takes
      BY <3>1, <3>2, <3>3 DEF Perform, Store, DeviceTypeOK
    <3>4. CASE ~(r.cmd \in {"write", "remove"} /\ takes)
      BY <3>1, <3>2, <3>4 DEF Perform, DeviceTypeOK
    <3> QED BY <3>3, <3>4
  <2> QED BY <2>1, <2>2
<1>6. spent' \in BOOLEAN
  BY DEF Handle, DeviceTypeOK
<1> QED BY <1>2, <1>3, <1>4, <1>5, <1>6 DEF DeviceTypeOK

\* What it answers is an answer.
LEMMA AnswerType ==
  ASSUME DeviceTypeOK, DeviceTypeOK', NEW r \in Request,
         r.cmd \in {"show"} => r.slot \in Slots \cup {NUMUSERS}
  PROVE  Answer(r) \in Answers
<1>1. r.cmd \in Commands /\ r.door \in Doors \cup {NoDoor} /\ r.slot \in Nat
  BY DEF Request
<1> QED BY <1>1, DeviceAssumption DEF Answer, Answers, DeviceTypeOK, Runs

\* A request that carries no right password, on a board nobody is privileged
\* on, changes nothing and leaves nobody privileged.
LEMMA OutsiderChangesNothing ==
  ASSUME ~privileged, privileged \in BOOLEAN,
         NEW r \in Request, NEW takes \in BOOLEAN,
         r.login # "right", Handle(r, takes)
  PROVE  UNCHANGED <<table, alarm, locked>> /\ ~privileged'
<1>1. r.cmd = "status" \/ ~Runs(r)
  BY DEF Runs, LoginSucceeds
<1>2. UNCHANGED <<table, alarm, locked>>
  BY <1>1 DEF Handle, Perform
<1>3. ~privileged'
  BY DEF Handle, Login, Chained
<1> QED BY <1>2, <1>3

\* No request but a bare login leaves the board privileged.
LEMMA LogsOut ==
  ASSUME ~privileged, NEW r \in Request, NEW takes \in BOOLEAN,
         r.cmd # "login", Handle(r, takes)
  PROVE  ~privileged'
BY DEF Handle, Login, Chained

\* The requests a client may send are requests.
LEMMA RequestsType ==
  ASSUME NEW r \in Requests
  PROVE  r \in Request
BY DeviceAssumption DEF Requests, Request, Commands, Logins, Entries, DoorCommands

-----------------------------------------------------------------------------
(* The adapter's operators.                                                *)

\* What an operation in range sends is a request that is safe on the wire.
LEMMA SentIsSafe ==
  ASSUME NEW c \in CallType, c.do # "none", InRange(c)
  PROVE  /\ CommandOf(c) \in Request
         /\ CommandOf(c).cmd \notin {"login", "show"}
         /\ CommandOf(c).cmd \in {"write", "remove"} => c.slot \in Slots
         /\ CommandOf(c).slot = c.slot
<1>1. c.slot \in Nat /\ c.entry \in Entries /\ c.door \in Doors \cup {NoDoor}
  BY DEF CallType
<1>2. c.do \in {"status", "table", "write", "clear"} \cup DoorCommands
  BY DEF CallType
<1>3. CommandOf(c) \in Request
  BY <1>1, <1>2 DEF CommandOf, Request, Commands, Logins, DoorCommands
<1>4. CommandOf(c).cmd \in {"write", "remove"} => c.slot \in Slots
  BY <1>1, <1>2, DeviceAssumption, ControllerAssumption
     DEF CommandOf, InRange, Slots, DoorCommands
<1> QED BY <1>2, <1>3, <1>4 DEF CommandOf, DoorCommands

\* So is the read back of a write or a clear.
LEMMA ReadBackIsSafe ==
  ASSUME NEW c \in CallType, ReadsBack(c), InRange(c)
  PROVE  /\ ReadBackOf(c) \in Request
         /\ ReadBackOf(c).cmd = "show"
         /\ ReadBackOf(c).login = "right"
         /\ ReadBackOf(c).slot = c.slot
         /\ c.slot \in Slots
<1>1. c.slot \in Nat
  BY DEF CallType
<1>2. c.slot \in Slots
  BY <1>1, DeviceAssumption, ControllerAssumption DEF InRange, ReadsBack, Slots
<1> QED BY <1>1, <1>2 DEF ReadBackOf, Request, Commands, Logins, Entries

\* What is left of an answer, case by case: it says less, or it is a shorter
\* table, or a slot cut inside its tag.
LEMMA CutsAre ==
  ASSUME NEW a, NEW b \in Cuts(a)
  PROVE  \/ b = [said |-> "no header"]
         \/ b = [said |-> "cut"]
         \/ /\ a.said = "table"
            /\ \E k \in Slots : \E e \in {NoCard} \cup CutTag[a.rows[k]] :
                 b = [said |-> "table", rows |-> CutAt(a.rows, k, e)]
         \/ /\ a.said = "slot"
            /\ \E e \in CutTag[a.held] : b = [said |-> "slot", held |-> e]
<1>1. CASE a.said = "table"
  <2>1. Cuts(a) = {[said |-> "no header"]} \cup
          UNION {{[said |-> "table", rows |-> CutAt(a.rows, k, e)] :
                    e \in {NoCard} \cup CutTag[a.rows[k]]} : k \in Slots}
    BY <1>1, Zenon DEF Cuts
  <2> QED BY <1>1, <2>1, Zenon
<1>2. CASE a.said = "slot"
  <2>1. a.said # "table"
    BY <1>2
  <2>2. Cuts(a) = {[said |-> "no header"]} \cup
          ({[said |-> "cut"]} \cup {[said |-> "slot", held |-> e] : e \in CutTag[a.held]})
    BY <1>2, <2>1, Zenon DEF Cuts
  <2> QED BY <1>2, <2>2, Zenon
<1>3. CASE a.said \notin {"table", "slot"}
  <2>0. a.said # "table" /\ a.said # "slot"
    BY <1>3
  <2>1. Cuts(a) = {[said |-> "no header"]} \cup {[said |-> "cut"]}
    BY <2>0, Zenon DEF Cuts
  <2> QED BY <2>1, Zenon
<1> QED BY <1>1, <1>2, <1>3

\* What is left of an answer is an answer.
LEMMA CutsType ==
  ASSUME NEW a \in Answers, NEW b \in Cuts(a)
  PROVE  b \in Answers
<1>1. [said |-> "no header"] \in Answers /\ [said |-> "cut"] \in Answers
  BY DEF Answers
<1>2. ASSUME a.said = "table", NEW k \in Slots, NEW e \in {NoCard} \cup CutTag[a.rows[k]]
      PROVE  [said |-> "table", rows |-> CutAt(a.rows, k, e)] \in Answers
  <2>1. a.rows \in [Slots -> Entries]
    BY <1>2 DEF Answers
  <2>2. e \in Entries
    BY <1>2, <2>1, ControllerAssumption DEF Entries
  <2>3. CutAt(a.rows, k, e) \in [Slots -> Entries]
    BY <2>1, <2>2 DEF CutAt, Entries
  <2> QED BY <2>3 DEF Answers
<1>3. ASSUME a.said = "slot", NEW e \in CutTag[a.held]
      PROVE  [said |-> "slot", held |-> e] \in Answers
  <2>0. a \in [said: {"slot"}, held: Entries]
    BY <1>3 DEF Answers
  <2>1. a.held \in Entries
    BY <2>0
  <2>2. e \in Entries
    BY <2>1, ControllerAssumption DEF Entries
  <2> QED BY <2>2 DEF Answers
<1>4. CASE /\ a.said = "table"
           /\ \E k \in Slots : \E e \in {NoCard} \cup CutTag[a.rows[k]] :
                b = [said |-> "table", rows |-> CutAt(a.rows, k, e)]
  BY <1>2, <1>4, Zenon
<1>5. CASE a.said = "slot" /\ \E e \in CutTag[a.held] : b = [said |-> "slot", held |-> e]
  BY <1>3, <1>5, Zenon
<1> QED BY <1>1, <1>4, <1>5, CutsAre, Zenon

\* An operation that ends leaves everything typed, and the thread idle.
LEMMA EndsType ==
  ASSUME TypeOK, NEW t \in Threads, NEW how \in Outcomes, Ends(t, how)
  PROVE  /\ lock' \in Threads \cup {NoThread}
         /\ pc' \in [Threads -> Places]
         /\ answer' \in [Threads -> Answers]
         /\ outcome' \in [Serials -> Outcomes]
BY DEF TypeOK, Ends, Places, Answers, NoAnswer

\* A verdict is an outcome.
LEMMA VerdictType ==
  ASSUME NEW c, NEW a
  PROVE  Verdict(c, a) \in Outcomes
BY DEF Verdict, Outcomes

-----------------------------------------------------------------------------
(* The first layer: types, and what may be on the wire.                    *)

\* The board starts locked, unprivileged, and nothing is on its way.
LEMMA InitInv1 == Init => Inv1
<1> SUFFICES ASSUME Init PROVE Inv1
  OBVIOUS
<1>1. DeviceTypeOK
  BY DeviceAssumption DEF Init, DeviceInit, DeviceTypeOK, Entries
<1>2. NoCall \in CallType
  BY DEF NoCall, CallType, Entries
<1>3. TypeOK
  BY <1>1, <1>2, ControllerAssumption
     DEF Init, TypeOK, Places, Answers, NoAnswer, Outcomes
<1> QED BY <1>3 DEF Init, DeviceInit, Inv1, NetSafe, Asked, NoStandingPrivilege

\* Whatever a thread does on its own keeps the types and adds nothing unsafe to
\* the wire.
LEMMA ThreadInv1 ==
  ASSUME Inv1, NEW t \in Threads, ThreadStep(t)
  PROVE  Inv1'
<1> USE DEF Inv1
<1>1. DeviceTypeOK' /\ UNCHANGED device
  BY DEF ThreadStep, Start, UnknownDoor, Acquire, OutOfRange, Send, Receive,
         Timeout, CutAnswer, Ends, TypeOK, DeviceTypeOK, device
<1>2. NoStandingPrivilege'
  BY <1>1 DEF NoStandingPrivilege, device
<1>3. CASE Start(t)
  <2>1. PICK c \in Calls : call' = [call EXCEPT ![t] = c]
    BY <1>3 DEF Start
  <2>2. c \in CallType /\ c.do # "none"
    BY <2>1, DeviceAssumption DEF Calls, CallType, DoorCommands, Entries
  <2>3. started + 1 \in 0 .. MaxOps /\ started + 1 \in Serials
    BY <1>3, ControllerAssumption DEF TypeOK, Start, Serials
  <2>4. TypeOK'
    BY <1>1, <1>3, <2>1, <2>2, <2>3 DEF TypeOK, Start, Places
  <2>5. Asked'
    BY <1>3, <2>1, <2>2, <2>3 DEF Start, Asked, TypeOK
  <2> QED BY <1>2, <1>3, <2>4, <2>5 DEF Start, NetSafe
<1>4. CASE UnknownDoor(t)
  <2>1. TypeOK'
    BY <1>1, <1>4, EndsType DEF TypeOK, UnknownDoor, Outcomes
  <2> QED BY <1>2, <1>4, <2>1 DEF UnknownDoor, Ends, NetSafe, Asked, TypeOK
<1>5. CASE Acquire(t)
  <2>1. TypeOK'
    BY <1>1, <1>5 DEF TypeOK, Acquire, Places
  <2> QED BY <1>2, <1>5, <2>1 DEF Acquire, NetSafe, Asked, TypeOK
<1>6. CASE OutOfRange(t)
  <2>1. TypeOK'
    BY <1>1, <1>6, EndsType DEF TypeOK, OutOfRange, Outcomes
  <2> QED BY <1>2, <1>6, <2>1 DEF OutOfRange, Ends, NetSafe, Asked, TypeOK
<1>7. CASE Send(t)
  <2>1. call[t] \in CallType /\ call[t].do # "none" /\ serial[t] \in Serials
    BY <1>7 DEF Send, TypeOK, Asked
  <2>2. CASE pc[t] = "send"
    <3> DEFINE m == Message(t, "wait", CommandOf(call[t]))
    <3>1. InRange(call[t]) /\ net' = net \cup {m} /\ pc' = [pc EXCEPT ![t] = "wait"]
      BY <1>7, <2>2 DEF Send
    <3>2. m \in Messages /\ m.req = CommandOf(call[t])
      BY <2>1, <3>1, SentIsSafe DEF Message, Messages, Waiting
    <3>3. TypeOK'
      BY <1>1, <1>7, <3>1, <3>2 DEF TypeOK, Send, Places
    <3>4. NetSafe'
      BY <2>1, <3>1, <3>2, SentIsSafe DEF NetSafe
    <3>5. Asked'
      BY <1>7, <2>1, <3>1 DEF Asked, Send, TypeOK
    <3> QED BY <1>2, <3>3, <3>4, <3>5
  <2>3. CASE pc[t] = "read back"
    <3> DEFINE m == Message(t, "wait again", ReadBackOf(call[t]))
    <3>1. /\ InRange(call[t])
          /\ net' = net \cup {m} /\ pc' = [pc EXCEPT ![t] = "wait again"]
      BY <1>7, <2>3 DEF Send, Asked
    <3>2. m \in Messages /\ m.req = ReadBackOf(call[t])
      BY <2>1, <2>3, <3>1, ReadBackIsSafe DEF Message, Messages, Waiting, Asked
    <3>3. TypeOK'
      BY <1>1, <1>7, <3>1, <3>2 DEF TypeOK, Send, Places
    <3>4. NetSafe'
      <4>1. ReadsBack(call[t])
        BY <2>3 DEF Asked
      <4>2. net' = net \cup {m} /\ m.req = ReadBackOf(call[t])
        BY <3>1, <3>2
      <4> HIDE DEF m
      <4> QED BY <2>1, <3>1, <4>1, <4>2, ReadBackIsSafe DEF NetSafe
    <3>5. Asked'
      BY <1>7, <2>1, <2>3, <3>1 DEF Asked, Send, TypeOK
    <3> QED BY <1>2, <3>3, <3>4, <3>5
  <2> QED BY <1>7, <2>2, <2>3 DEF Send
<1>8. CASE Receive(t)
  <2>1. TypeOK'
    <3>1. CASE pc' = [pc EXCEPT ![t] = "read back"]
               /\ answer' = [answer EXCEPT ![t] = NoAnswer] /\ UNCHANGED <<lock, outcome>>
      BY <1>1, <1>8, <3>1 DEF TypeOK, Receive, Places, NoAnswer, Answers
    <3>2. CASE Ends(t, Verdict(call[t], answer[t]))
      <4>1. Verdict(call[t], answer[t]) \in Outcomes
        BY VerdictType
      <4> QED BY <1>1, <1>8, <3>2, <4>1, EndsType DEF TypeOK, Receive
    <3> QED BY <1>8, <3>1, <3>2 DEF Receive
  <2> QED BY <1>2, <1>8, <2>1 DEF Receive, Ends, NetSafe, Asked, TypeOK, Waiting
<1>9. CASE Timeout(t)
  <2>1. TypeOK'
    BY <1>1, <1>9, EndsType DEF TypeOK, Timeout, Outcomes
  <2> QED BY <1>2, <1>9, <2>1 DEF Timeout, Ends, NetSafe, Asked, TypeOK
<1>10. CASE CutAnswer(t)
  <2>1. PICK a \in Cuts(answer[t]) :
          /\ answer' = [answer EXCEPT ![t] = a]
          /\ torn' = IF a.said = "slot" THEN torn \cup {serial[t]} ELSE torn
    BY <1>10 DEF CutAnswer
  <2>2. a \in Answers
    BY <2>1, CutsType DEF TypeOK
  <2>3. serial[t] \in Serials
    BY <1>10 DEF CutAnswer, Asked, Waiting
  <2>4. torn' \subseteq Serials
    BY <2>1, <2>3 DEF TypeOK
  <2>5. TypeOK'
    BY <1>1, <1>10, <2>1, <2>2, <2>4 DEF TypeOK, CutAnswer
  <2> QED BY <1>2, <1>10, <2>5 DEF CutAnswer, NetSafe, Asked
<1> QED BY <1>3, <1>4, <1>5, <1>6, <1>7, <1>8, <1>9, <1>10 DEF ThreadStep

\* What the network, the board, another client and a crash do keeps them too.
LEMMA WorldInv1 ==
  ASSUME Inv1, NetworkStep \/ OtherClient \/ BoardStep \/ Crash
  PROVE  Inv1'
<1> USE DEF Inv1
<1>1. ASSUME NEW m \in net, Serve(m) PROVE Inv1'
  <2>1. PICK takes \in BOOLEAN : Handle(m.req, takes)
    BY <1>1 DEF Serve
  <2>2. m \in Messages /\ m.req \in Request /\ m.serial \in Serials
    BY DEF TypeOK, Messages
  <2>3. DeviceTypeOK'
    BY <2>1, <2>2, HandleType DEF TypeOK
  <2>4. Answer(m.req) \in Answers
    BY <2>2, <2>3, AnswerType DEF TypeOK, NetSafe
  <2>5. TypeOK'
    BY <1>1, <2>2, <2>3, <2>4 DEF TypeOK, Serve
  <2>6. NoStandingPrivilege'
    BY <2>1, <2>2, LogsOut DEF NetSafe, NoStandingPrivilege
  <2>7. NetSafe' /\ Asked'
    BY <1>1 DEF Serve, NetSafe, Asked
  <2> QED BY <2>5, <2>6, <2>7
<1>2. ASSUME NEW m \in net, LoseRequest(m) PROVE Inv1'
  BY <1>2 DEF LoseRequest, TypeOK, DeviceTypeOK, NetSafe, Asked, NoStandingPrivilege, device
<1>3. CASE OtherClient
  <2>1. PICK r \in Requests : r.login # "right" /\ Handle(r, TRUE)
    BY <1>3 DEF OtherClient
  <2>2. r \in Request
    BY RequestsType
  <2>3. DeviceTypeOK'
    BY <2>1, <2>2, HandleType DEF TypeOK
  <2>4. ~privileged'
    BY <2>1, <2>2, OutsiderChangesNothing DEF NoStandingPrivilege, TypeOK, DeviceTypeOK
  <2> QED BY <1>3, <2>3, <2>4 DEF OtherClient, adapter, TypeOK, NetSafe, Asked, NoStandingPrivilege
<1>4. CASE BoardStep
  <2>1. DeviceTypeOK' /\ ~privileged'
    <3>1. CASE PowerCycle
      BY <3>1 DEF PowerCycle, TypeOK, DeviceTypeOK
    <3>2. CASE WindowElapses
      <4>1. spent' \in BOOLEAN
        BY <3>2, Zenon DEF WindowElapses, TypeOK, DeviceTypeOK
      <4> QED BY <3>2, <4>1 DEF WindowElapses, TypeOK, DeviceTypeOK, NoStandingPrivilege
    <3> QED BY <1>4, <3>1, <3>2 DEF BoardStep
  <2> QED BY <1>4, <2>1 DEF BoardStep, adapter, TypeOK, NetSafe, Asked, NoStandingPrivilege
<1>5. CASE Crash
  <2>1. TypeOK'
    BY <1>5 DEF Crash, TypeOK, DeviceTypeOK, device, Places, Answers, NoAnswer, Outcomes
  <2> QED BY <1>5, <2>1 DEF Crash, NetSafe, Asked, NoStandingPrivilege, TypeOK, device
<1> QED BY <1>1, <1>2, <1>3, <1>4, <1>5 DEF NetworkStep

\* A step that changes nothing keeps them.
LEMMA StutterInv1 ==
  ASSUME Inv1, UNCHANGED vars
  PROVE  Inv1'
<1>1. UNCHANGED device /\ UNCHANGED adapter
  BY DEF vars
<1>2. DeviceTypeOK'
  BY <1>1 DEF Inv1, TypeOK, DeviceTypeOK, device
<1>3. NoStandingPrivilege'
  BY <1>1 DEF Inv1, NoStandingPrivilege, device
<1> QED BY <1>1, <1>2, <1>3 DEF Inv1, TypeOK, NetSafe, Asked, adapter

\* The first layer is an invariant.
LEMMA Layer1 == Spec => []Inv1
<1>1. Inv1 /\ [Next]_vars => Inv1'
  BY ThreadInv1, WorldInv1, StutterInv1 DEF Next
<1> QED BY InitInv1, <1>1, PTL DEF Spec

\* The adapter, the board and the network only ever hold what their types allow.
THEOREM TypeCorrect == Spec => []TypeOK
<1>1. Inv1 => TypeOK
  BY DEF Inv1
<1> QED BY Layer1, <1>1, PTL

\* Whatever is lost, cut, late or crashes, and whoever else is on the network
\* without the password, the board is not left privileged.
THEOREM NeverLeftPrivileged == Spec => []NoStandingPrivilege
<1>1. Inv1 => NoStandingPrivilege
  BY DEF Inv1
<1> QED BY Layer1, <1>1, PTL

-----------------------------------------------------------------------------
(* The alarm bytes.                                                        *)

\* A request that names a slot the board has leaves the alarm bytes alone, or
\* chimes.
LEMMA ServedAlarm ==
  ASSUME NEW r \in Request, NEW takes \in BOOLEAN, Handle(r, takes),
         r.cmd \in {"write", "remove"} => r.slot \in Slots
  PROVE  alarm' = alarm \/ alarm' = "chime"
<1>1. CASE ~Runs(r)
  BY <1>1 DEF Handle
<1>2. CASE Runs(r)
  <2>1. Perform(r, takes)
    BY <1>2 DEF Handle
  <2>2. CASE r.cmd \in {"write", "remove"} /\ takes
    <3>1. r.slot # NUMUSERS
      BY <2>2, DeviceAssumption DEF Slots
    <3> QED BY <2>1, <2>2, <3>1 DEF Perform, Store
  <2>3. CASE ~(r.cmd \in {"write", "remove"} /\ takes)
    BY <2>1, <2>3 DEF Perform
  <2> QED BY <2>2, <2>3
<1> QED BY <1>1, <1>2

\* No slot number any caller passes reaches the alarm bytes: they change only as
\* the chime of a door that opens.
THEOREM AlarmIsOutOfReach == Spec => AlarmMovesOnlyOnOpen
<1>1. ASSUME Inv1, [Next]_vars
      PROVE  alarm' = alarm \/ alarm' = "chime"
  <2>1. ASSUME NEW m \in net, Serve(m) PROVE alarm' = alarm \/ alarm' = "chime"
    <3>1. PICK takes \in BOOLEAN : Handle(m.req, takes)
      BY <2>1 DEF Serve
    <3>2. m.req \in Request /\ (m.req.cmd \in {"write", "remove"} => m.req.slot \in Slots)
      BY <1>1 DEF Inv1, TypeOK, Messages, NetSafe
    <3> QED BY <3>1, <3>2, ServedAlarm
  <2>2. CASE OtherClient
    <3>1. PICK r \in Requests : r.login # "right" /\ Handle(r, TRUE)
      BY <2>2 DEF OtherClient
    <3>2. r \in Request
      BY RequestsType
    <3> QED BY <1>1, <3>1, <3>2, OutsiderChangesNothing
            DEF Inv1, NoStandingPrivilege, TypeOK, DeviceTypeOK
  <2>3. CASE ~(\E m \in net : Serve(m)) /\ ~OtherClient
    BY <1>1, <2>3 DEF Next, ThreadStep, Start, UnknownDoor, Acquire, OutOfRange, Send,
       Receive, Timeout, CutAnswer, Crash, NetworkStep, LoseRequest, BoardStep,
       WindowElapses, PowerCycle, vars, device
  <2> QED BY <2>1, <2>2, <2>3
<1>2. Inv1 /\ [Next]_vars => [alarm' # alarm => alarm' = "chime"]_vars
  BY <1>1
<1> QED BY Layer1, <1>2, PTL DEF Spec, AlarmMovesOnlyOnOpen

-----------------------------------------------------------------------------
(* The second layer: whose answer it is.                                   *)

\* An answer that reads well is the answer of a command that ran, and a thread
\* that is not waiting holds none.
AnswerRan ==
  \A t \in Threads :
    /\ pc[t] \notin Waiting => answer[t] = NoAnswer
    /\ call[t].do \in DoorCommands
         /\ answer[t].said \notin Unreadable \cup {"nothing"} => serial[t] \in done

\* The answers are the answers of commands that ran, from the first state on.
LEMMA AnswerRanInit == Init => AnswerRan
BY DEF Init, AnswerRan, NoAnswer, Waiting

\* What is left of an answer says less, or is of the kind it was.
LEMMA CutsSay ==
  ASSUME NEW a, NEW b \in Cuts(a)
  PROVE  b.said \in Unreadable \/ (b.said \in {"table", "slot"} /\ b.said = a.said)
<1>1. ASSUME NEW what \in {"cut", "no header"}, b = [said |-> what]
      PROVE  b.said \in Unreadable
  <2>1. b.said = what
    BY <1>1
  <2> QED BY <2>1 DEF Unreadable
<1>2. ASSUME NEW rows, b = [said |-> "table", rows |-> rows]
      PROVE  b.said = "table"
  BY <1>2
<1>3. ASSUME NEW e, b = [said |-> "slot", held |-> e]
      PROVE  b.said = "slot"
  BY <1>3
<1> QED BY <1>1, <1>2, <1>3, CutsAre, Zenon

\* A slot that is cut and still reads shows a card whose tag the record's begins
\* with.
LEMMA CutSlotShows ==
  ASSUME NEW a, NEW b \in Cuts(a), b.said = "slot"
  PROVE  a.said = "slot" /\ b.held \in CutTag[a.held]
<1>1. ASSUME NEW what \in {"cut", "no header"} PROVE b # [said |-> what]
  <2> SUFFICES ASSUME b = [said |-> what] PROVE FALSE
    OBVIOUS
  <2>1. b.said = what
    OBVIOUS
  <2> QED BY <2>1
<1>2. ASSUME NEW rows PROVE b # [said |-> "table", rows |-> rows]
  <2> SUFFICES ASSUME b = [said |-> "table", rows |-> rows] PROVE FALSE
    OBVIOUS
  <2>1. b.said = "table"
    OBVIOUS
  <2> QED BY <2>1
<1>3. a.said = "slot" /\ \E e \in CutTag[a.held] : b = [said |-> "slot", held |-> e]
  BY <1>1, <1>2, CutsAre, Zenon
<1> QED BY <1>3

\* A step of one thread that leaves it without an answer keeps the others'.
LEMMA AnswerDropped ==
  ASSUME AnswerRan, NEW t \in Threads, answer'[t] = NoAnswer, done' = done,
         \A u \in Threads : u # t => /\ pc'[u] = pc[u] /\ answer'[u] = answer[u]
                                     /\ call'[u] = call[u] /\ serial'[u] = serial[u]
  PROVE  AnswerRan'
<1>1. NoAnswer.said = "nothing"
  BY DEF NoAnswer
<1> QED BY <1>1 DEF AnswerRan

\* No step breaks that.
LEMMA AnswerRanStep ==
  ASSUME Inv1, AnswerRan, [Next]_vars
  PROVE  AnswerRan'
<1> USE DEF Inv1
<1>1. ASSUME NEW t \in Threads, ThreadStep(t) PROVE AnswerRan'
  <2>1. CASE Start(t)
    <3>1. answer'[t] = NoAnswer
      BY <2>1 DEF Start, AnswerRan, Waiting
    <3> QED BY <2>1, <3>1, AnswerDropped DEF Start, TypeOK
  <2>2. CASE UnknownDoor(t) \/ OutOfRange(t) \/ Timeout(t)
    BY <2>2, AnswerDropped DEF UnknownDoor, OutOfRange, Timeout, Ends, TypeOK
  <2>3. CASE Acquire(t)
    BY <2>3 DEF Acquire, AnswerRan, TypeOK, Waiting
  <2>4. CASE Send(t)
    <3>1. answer'[t] = NoAnswer
      BY <2>4 DEF Send, AnswerRan, Waiting
    <3> QED BY <2>4, <3>1, AnswerDropped DEF Send, TypeOK
  <2>5. CASE Receive(t)
    BY <2>5, AnswerDropped DEF Receive, Ends, TypeOK
  <2>6. CASE CutAnswer(t)
    <3>1. PICK a \in Cuts(answer[t]) : answer' = [answer EXCEPT ![t] = a]
      BY <2>6 DEF CutAnswer
    <3>2. a.said \in Unreadable \/ (a.said \in {"table", "slot"} /\ a.said = answer[t].said)
      BY <3>1, CutsSay
    <3>3. \A u \in Threads : u # t => answer'[u] = answer[u]
      BY <3>1 DEF TypeOK
    <3>4. answer'[t] = a
      BY <3>1 DEF TypeOK
    <3>5. UNCHANGED <<pc, call, serial, done>> /\ pc[t] \in Waiting
      BY <2>6 DEF CutAnswer
    <3> QED BY <3>2, <3>3, <3>4, <3>5 DEF AnswerRan, Unreadable
  <2> QED BY <1>1, <2>1, <2>2, <2>3, <2>4, <2>5, <2>6 DEF ThreadStep
<1>2. ASSUME NEW m \in net, Serve(m) PROVE AnswerRan'
  <2>1. m.from \in Threads /\ m.step \in Waiting /\ m.serial \in Serials
    BY DEF TypeOK, Messages
  <2>2. UNCHANGED <<pc, call, serial>> /\ done \subseteq done'
    BY <1>2 DEF Serve
  <2>3. CASE ~(pc[m.from] = m.step /\ serial[m.from] = m.serial)
    BY <1>2, <2>2, <2>3 DEF Serve, AnswerRan
  <2>4. CASE pc[m.from] = m.step /\ serial[m.from] = m.serial
    <3>1. /\ \A u \in Threads : u # m.from => answer'[u] = answer[u]
          /\ answer'[m.from] = Answer(m.req)
      BY <1>2, <2>1, <2>4 DEF Serve, TypeOK
    <3>2. ~Runs(m.req) => Answer(m.req).said = "refusal"
      BY DEF Answer
    <3>3. call[m.from].do \in DoorCommands => m.step = "wait"
      BY <2>1, <2>4 DEF Waiting, Asked, ReadsBack, DoorCommands
    <3>4. call[m.from].do \in DoorCommands /\ Runs(m.req) => serial[m.from] \in done'
      BY <1>2, <2>4, <3>3 DEF Serve
    <3> QED BY <2>1, <2>2, <2>4, <3>1, <3>2, <3>4 DEF AnswerRan, Unreadable
  <2> QED BY <2>3, <2>4
<1>3. CASE Crash
  BY <1>3 DEF Crash, AnswerRan, NoAnswer, Waiting
<1>4. CASE OtherClient \/ BoardStep \/ (\E m \in net : LoseRequest(m)) \/ UNCHANGED vars
  BY <1>4 DEF OtherClient, BoardStep, LoseRequest, AnswerRan, adapter, vars
<1> QED BY <1>1, <1>2, <1>3, <1>4 DEF Next, NetworkStep

\* An operation ends with "ok" only by receiving an answer whose verdict it is.
LEMMA OkIsReceived ==
  ASSUME Inv1, [Next]_vars, NEW t \in Threads, Reports(t, "ok")
  PROVE  Receive(t) /\ Verdict(call[t], answer[t]) = "ok"
<1> USE DEF Inv1, Reports
<1>1. serial[t] \in Serials
  BY DEF Asked
<1>2. ~Crash
  BY <1>1 DEF Crash
<1>3. \A u \in Threads : ThreadStep(u) => u = t
  BY DEF ThreadStep, Start, UnknownDoor, Acquire, OutOfRange, Send, Receive, Timeout,
         CutAnswer, Ends, TypeOK
<1>4. ~(NetworkStep \/ OtherClient \/ BoardStep \/ UNCHANGED vars)
  BY DEF NetworkStep, Serve, LoseRequest, OtherClient, BoardStep, adapter, vars
<1>5. ThreadStep(t)
  BY <1>2, <1>3, <1>4 DEF Next
<1>6. ASSUME NEW how, Ends(t, how) PROVE how = "ok"
  BY <1>1, <1>6 DEF Ends, TypeOK
<1>7. ~(Start(t) \/ Acquire(t) \/ Send(t) \/ CutAnswer(t))
  BY DEF Start, Acquire, Send, CutAnswer, TypeOK
<1>8. ~(UnknownDoor(t) \/ OutOfRange(t) \/ Timeout(t))
  BY <1>6 DEF UnknownDoor, OutOfRange, Timeout
<1>9. Receive(t)
  BY <1>5, <1>7, <1>8 DEF ThreadStep
<1>10. Ends(t, Verdict(call[t], answer[t]))
  BY <1>9 DEF Receive, TypeOK
<1> QED BY <1>6, <1>9, <1>10

\* A door reported opened, unlocked or locked is one whose command ran for that
\* very call.
THEOREM ReportedDoorsMoved == Spec => ReportedActionsRan
<1> DEFINE Step == \A t \in Threads :
             call[t].do \in DoorCommands /\ Reports(t, "ok") => serial[t] \in done
<1>1. ASSUME Inv1, AnswerRan, [Next]_vars PROVE Step
  <2> SUFFICES ASSUME NEW t \in Threads, call[t].do \in DoorCommands, Reports(t, "ok")
               PROVE  serial[t] \in done
    OBVIOUS
  <2>1. Receive(t) /\ Verdict(call[t], answer[t]) = "ok"
    BY <1>1, OkIsReceived
  <2>2. answer[t].said \notin Unreadable
    BY <2>1 DEF Verdict
  <2>3. answer[t] # NoAnswer /\ answer[t] \in Answers
    BY <1>1, <2>1 DEF Receive, Inv1, TypeOK
  <2>4. answer[t].said # "nothing"
    BY <2>3 DEF Answers, NoAnswer
  <2> QED BY <1>1, <2>2, <2>4 DEF AnswerRan
<1>2. Inv1 /\ AnswerRan /\ [Next]_vars => [Step]_vars
  BY <1>1
<1>3. Inv1 /\ AnswerRan /\ [Next]_vars => AnswerRan'
  BY AnswerRanStep
<1>4. Spec => []AnswerRan
  BY Layer1, AnswerRanInit, <1>3, PTL DEF Spec
<1> QED BY Layer1, <1>2, <1>4, PTL DEF Spec, ReportedActionsRan

-----------------------------------------------------------------------------
(* The third layer: what a read back shows while no operation was abandoned. *)

\* Between its first request and its last answer a thread holds the lock.
LockSound ==
  \A t \in Threads :
    pc[t] \in {"send", "wait", "read back", "wait again"} => lock = t

\* Operations are numbered as they start, and one that is still running has no
\* outcome yet.
SerialSound ==
  /\ \A t \in Threads : /\ serial[t] <= started
                        /\ pc[t] # "idle" => outcome[serial[t]] = "none"
  /\ \A t, u \in Threads :
       t # u /\ pc[t] # "idle" /\ pc[u] # "idle" => serial[t] # serial[u]
  /\ \A n \in Serials : n > started => outcome[n] = "none"

Inv2 == LockSound /\ SerialSound

\* The lock is free and nothing is numbered when the service starts.
LEMMA Inv2Init == Init => Inv2
BY ControllerAssumption DEF Init, Inv2, LockSound, SerialSound

\* No step lets a second thread in, or starts two operations with one number.
LEMMA Inv2Step ==
  ASSUME Inv1, Inv2, [Next]_vars
  PROVE  Inv2'
<1> USE DEF Inv1, Inv2
<1>1. ASSUME NEW t \in Threads, ThreadStep(t) PROVE Inv2'
  <2>1. CASE Start(t)
    <3>1. /\ started \in Nat /\ started' = started + 1 /\ started + 1 \in Serials
          /\ \A u \in Threads : serial[u] \in Nat
      BY <2>1, ControllerAssumption DEF Start, TypeOK, Serials
    <3>2. LockSound'
      BY <2>1 DEF Start, TypeOK, LockSound
    <3>3. /\ serial'[t] = started + 1 /\ outcome' = outcome /\ pc[t] = "idle"
          /\ \A u \in Threads : u # t => serial'[u] = serial[u] /\ pc'[u] = pc[u]
      BY <2>1 DEF Start, TypeOK
    <3> QED BY <3>1, <3>2, <3>3 DEF SerialSound, Serials
  <2>2. ASSUME NEW how, Ends(t, how), pc[t] # "idle", UNCHANGED <<serial, started>>
        PROVE  Inv2'
    <3>1. /\ pc'[t] = "idle"
          /\ \A u \in Threads : u # t => pc'[u] = pc[u]
          /\ \A n \in Serials : n # serial[t] => outcome'[n] = outcome[n]
      BY <2>2 DEF Ends, TypeOK
    <3>2. LockSound'
      BY <2>2, <3>1 DEF Ends, LockSound
    <3>3. /\ \A u \in Threads : pc[u] # "idle" => serial[u] \in Serials
          /\ serial[t] <= started
      BY DEF Asked, SerialSound
    <3>4. serial[t] \in Nat /\ started \in Nat /\ \A n \in Serials : n \in Nat
      BY ControllerAssumption DEF Serials, TypeOK
    <3>5. \A u \in Threads : pc'[u] # "idle" => outcome'[serial[u]] = "none"
      BY <2>2, <3>1, <3>3 DEF SerialSound
    <3>6. \A n \in Serials : n > started => outcome'[n] = "none"
      <4> SUFFICES ASSUME NEW n \in Serials, n > started PROVE outcome'[n] = "none"
        OBVIOUS
      <4>1. n # serial[t]
        BY <3>3, <3>4
      <4> QED BY <3>1, <4>1 DEF SerialSound
    <3> QED BY <2>2, <3>1, <3>2, <3>5, <3>6 DEF SerialSound
  <2>3. CASE UnknownDoor(t) \/ OutOfRange(t) \/ Timeout(t)
    BY <2>2, <2>3 DEF UnknownDoor, OutOfRange, Timeout, Waiting
  <2>4. ASSUME UNCHANGED <<serial, started, outcome>>, pc[t] # "idle",
               \A u \in Threads : u # t => pc'[u] = pc[u]
        PROVE  SerialSound'
    BY <2>4 DEF SerialSound
  <2>5. CASE Acquire(t)
    <3>1. LockSound'
      BY <2>5, ControllerAssumption DEF Acquire, TypeOK, LockSound
    <3> QED BY <2>4, <2>5, <3>1 DEF Acquire, TypeOK
  <2>6. CASE Send(t)
    <3>1. LockSound'
      BY <2>6 DEF Send, TypeOK, LockSound
    <3> QED BY <2>4, <2>6, <3>1 DEF Send, TypeOK
  <2>7. CASE Receive(t)
    <3>1. CASE Ends(t, Verdict(call[t], answer[t]))
      BY <2>2, <2>7, <3>1 DEF Receive, Waiting
    <3>2. CASE pc' = [pc EXCEPT ![t] = "read back"] /\ UNCHANGED <<lock, outcome>>
      <4>1. LockSound'
        BY <2>7, <3>2 DEF Receive, Waiting, TypeOK, LockSound
      <4> QED BY <2>4, <2>7, <3>2, <4>1 DEF Receive, Waiting, TypeOK
    <3> QED BY <2>7, <3>1, <3>2 DEF Receive
  <2>8. CASE CutAnswer(t)
    BY <2>8 DEF CutAnswer, LockSound, SerialSound
  <2> QED BY <1>1, <2>1, <2>3, <2>5, <2>6, <2>7, <2>8 DEF ThreadStep
<1>2. CASE NetworkStep \/ OtherClient \/ BoardStep \/ UNCHANGED vars
  BY <1>2 DEF NetworkStep, Serve, LoseRequest, OtherClient, BoardStep, adapter, vars,
              LockSound, SerialSound
<1>3. CASE Crash
  <2>1. LockSound'
    BY <1>3 DEF Crash, LockSound
  <2>2. \A n \in Serials : n > started => outcome'[n] = "none"
    <3> SUFFICES ASSUME NEW n \in Serials, n > started PROVE outcome'[n] = "none"
      OBVIOUS
    <3>1. \A t \in Threads : serial[t] # n
      BY ControllerAssumption DEF SerialSound, TypeOK, Serials
    <3> QED BY <1>3, <3>1 DEF Crash, SerialSound
  <2> QED BY <1>3, <2>1, <2>2 DEF Crash, SerialSound
<1> QED BY <1>1, <1>2, <1>3 DEF Next

\* How an operation ended is not rewritten.
LEMMA OutcomesStay ==
  ASSUME Inv1, Inv2, [Next]_vars, NEW n \in Serials, outcome[n] # "none"
  PROVE  outcome'[n] = outcome[n]
<1> USE DEF Inv1, Inv2
<1>1. ASSUME NEW t \in Threads, NEW how, Ends(t, how), pc[t] # "idle"
      PROVE  outcome'[n] = outcome[n]
  <2>1. n # serial[t]
    BY <1>1 DEF SerialSound
  <2> QED BY <1>1, <2>1 DEF Ends, TypeOK
<1>2. ASSUME NEW t \in Threads, ThreadStep(t) PROVE outcome'[n] = outcome[n]
  BY <1>1, <1>2 DEF ThreadStep, Start, UnknownDoor, Acquire, OutOfRange, Send, Receive,
     Timeout, CutAnswer, Waiting
<1>3. CASE Crash
  BY <1>3 DEF Crash, SerialSound
<1>4. CASE NetworkStep \/ OtherClient \/ BoardStep \/ UNCHANGED vars
  BY <1>4 DEF NetworkStep, Serve, LoseRequest, OtherClient, BoardStep, adapter, vars
<1> QED BY <1>2, <1>3, <1>4 DEF Next

\* Every request on its way is the one its sender is waiting for.
Quiet ==
  \A m \in net :
    /\ pc[m.from] = m.step /\ serial[m.from] = m.serial /\ answer[m.from] = NoAnswer
    /\ m.req = IF m.step = "wait" THEN CommandOf(call[m.from])
                                 ELSE ReadBackOf(call[m.from])

\* What a read back of thread t shows: the slot, or, when it was cut inside its
\* tag, a card whose tag the slot's begins with.
Shows(t) ==
  /\ answer[t].said = "slot"
  /\ \/ answer[t].held = table[call[t].slot]
     \/ serial[t] \in torn /\ answer[t].held \in CutTag[table[call[t].slot]]

\* A read back that has come in, if it reads at all, shows that.
HeldSound ==
  \A t \in Threads :
    pc[t] = "wait again" /\ answer[t] # NoAnswer =>
      answer[t].said \in Unreadable \/ Shows(t)

Inv3 == Abandoned = {} => Quiet /\ HeldSound

\* Nothing is on its way when the service starts.
LEMMA Inv3Init == Init => Inv3
BY DEF Init, Inv3, Quiet, HeldSound

\* Only a thread that is waiting with no answer yet has a request on its way.
LEMMA WireIsMine ==
  ASSUME Inv1, Inv2, Quiet, NEW t \in Threads,
         \/ pc[t] \in {"send", "read back"}
         \/ pc[t] \in Waiting /\ answer[t] # NoAnswer
  PROVE  net = {}
<1> SUFFICES ASSUME NEW m \in net PROVE FALSE
  OBVIOUS
<1>1. m.from \in Threads /\ m.step \in Waiting
  BY DEF Inv1, TypeOK, Messages
<1>2. pc[m.from] \in Waiting /\ answer[m.from] = NoAnswer
  BY <1>1 DEF Quiet
<1>3. lock = t /\ lock = m.from
  BY <1>1, <1>2 DEF Inv2, LockSound, Waiting
<1> QED BY <1>2, <1>3 DEF Waiting

\* While nothing is abandoned, no thread's step disturbs what another one reads.
LEMMA ThreadInv3 ==
  ASSUME Inv1, AnswerRan, Inv2, Quiet, HeldSound, Abandoned' = {},
         NEW t \in Threads, ThreadStep(t)
  PROVE  Quiet' /\ HeldSound'
<1> USE DEF Inv1
<1>1. UNCHANGED table
  BY DEF ThreadStep, Start, UnknownDoor, Acquire, OutOfRange, Send, Receive, Timeout,
         CutAnswer, device
<1>2. \A u \in Threads : u # t => /\ pc'[u] = pc[u] /\ answer'[u] = answer[u]
                                  /\ call'[u] = call[u] /\ serial'[u] = serial[u]
  BY DEF ThreadStep, Start, UnknownDoor, Acquire, OutOfRange, Send, Receive, Timeout,
         CutAnswer, Ends, TypeOK
<1>3. \A m \in net : m.from \in Threads /\ m.step \in Waiting
  BY DEF TypeOK, Messages
<1>t. torn \subseteq torn'
  BY DEF ThreadStep, Start, UnknownDoor, Acquire, OutOfRange, Send, Receive, Timeout,
         CutAnswer
<1>h. ASSUME pc'[t] # "wait again" \/ answer'[t] = NoAnswer
      PROVE  HeldSound'
  <2> SUFFICES ASSUME NEW u \in Threads, pc'[u] = "wait again", answer'[u] # NoAnswer
               PROVE  answer'[u].said \in Unreadable \/ Shows(u)'
    BY DEF HeldSound
  <2>1. u # t
    BY <1>h
  <2>2. /\ pc[u] = "wait again" /\ answer'[u] = answer[u] /\ answer[u] # NoAnswer
        /\ call'[u] = call[u] /\ table' = table
        /\ serial'[u] = serial[u] /\ torn \subseteq torn'
    BY <1>1, <1>2, <1>t, <2>1
  <2> QED BY <2>2 DEF HeldSound, Shows
<1>4. CASE Start(t) \/ UnknownDoor(t) \/ Acquire(t) \/ OutOfRange(t)
  <2>1. pc[t] \notin Waiting /\ pc'[t] \notin Waiting /\ net' = net
    BY <1>4 DEF Start, UnknownDoor, Acquire, OutOfRange, Ends, TypeOK, Waiting
  <2>2. \A m \in net : m.from # t
    BY <1>3, <2>1 DEF Quiet
  <2>3. Quiet'
    BY <1>2, <1>3, <2>1, <2>2 DEF Quiet
  <2> QED BY <1>h, <2>1, <2>3 DEF Waiting
<1>5. CASE Send(t)
  <2>1. net = {} /\ answer[t] = NoAnswer
    BY <1>5, WireIsMine DEF Send, AnswerRan, Waiting
  <2>2. UNCHANGED <<answer, call, serial>>
    BY <1>5 DEF Send
  <2>3. ASSUME NEW step \in Waiting,
               NEW req, req = IF step = "wait" THEN CommandOf(call[t])
                                               ELSE ReadBackOf(call[t]),
               net' = net \cup {Message(t, step, req)}, pc'[t] = step
        PROVE  Quiet'
    <3>1. \A m \in net' : m = [from |-> t, serial |-> serial[t], step |-> step, req |-> req]
      BY <2>1, <2>3 DEF Message
    <3>2. \A m \in net' : m.from = t /\ m.serial = serial[t] /\ m.step = step /\ m.req = req
      BY <3>1
    <3> QED BY <2>1, <2>2, <2>3, <3>2 DEF Quiet
  <2>4. Quiet'
    BY <1>5, <2>3 DEF Send, TypeOK, Waiting
  <2>5. answer'[t] = NoAnswer
    BY <2>1, <2>2
  <2> QED BY <1>h, <2>4, <2>5
<1>6. CASE Receive(t)
  <2>1. net' = {}
    BY <1>6, WireIsMine DEF Receive
  <2>2. pc'[t] \notin Waiting
    BY <1>6 DEF Receive, Ends, TypeOK, Waiting
  <2>3. Quiet'
    BY <2>1 DEF Quiet
  <2> QED BY <1>h, <2>2, <2>3 DEF Waiting
<1>7. CASE Timeout(t)
  <2>1. serial[t] \in Serials /\ outcome'[serial[t]] = "unreachable"
    BY <1>7 DEF Timeout, Ends, TypeOK, Asked, Waiting
  <2> QED BY <2>1 DEF Abandoned
<1>8. CASE CutAnswer(t)
  <2>1. net' = {} /\ UNCHANGED <<call, pc>> /\ answer[t] # NoAnswer
    BY <1>8, WireIsMine DEF CutAnswer
  <2>2. PICK a \in Cuts(answer[t]) :
          /\ answer' = [answer EXCEPT ![t] = a]
          /\ torn' = IF a.said = "slot" THEN torn \cup {serial[t]} ELSE torn
    BY <1>8 DEF CutAnswer
  <2>3. answer'[t] = a /\ serial' = serial
    BY <1>8, <2>2 DEF TypeOK, CutAnswer
  <2>4. ASSUME pc[t] = "wait again" PROVE a.said \in Unreadable \/ Shows(t)'
    <3>1. answer[t].said \in Unreadable \/ Shows(t)
      BY <2>1, <2>4 DEF HeldSound
    <3>2. CASE a.said # "slot"
      <4>1. a.said \in Unreadable \/ (a.said = "table" /\ answer[t].said = "table")
        BY <2>2, <3>2, CutsSay
      <4>2. answer[t].said # "table"
        BY <3>1 DEF Shows, Unreadable
      <4> QED BY <4>1, <4>2
    <3>3. CASE a.said = "slot"
      <4>1. answer[t].said = "slot" /\ a.held \in CutTag[answer[t].held]
        BY <2>2, <3>3, CutSlotShows
      <4>2. Shows(t)
        BY <3>1, <4>1 DEF Unreadable
      <4>3. call[t].slot \in Slots
        BY <2>4, ReadBackIsSafe DEF Asked, TypeOK
      <4>4. table[call[t].slot] \in Entries
        BY <4>3 DEF TypeOK, DeviceTypeOK
      <4>5. a.held \in CutTag[table[call[t].slot]]
        BY <4>1, <4>2, <4>4, ControllerAssumption DEF Shows
      <4>6. serial[t] \in torn'
        BY <2>2, <3>3
      <4> QED BY <1>1, <2>1, <2>3, <3>3, <4>5, <4>6 DEF Shows
    <3> QED BY <3>2, <3>3
  <2>5. Quiet'
    BY <2>1 DEF Quiet
  <2>6. HeldSound'
    <3> SUFFICES ASSUME NEW u \in Threads, pc[u] = "wait again", answer'[u] # NoAnswer
                 PROVE  answer'[u].said \in Unreadable \/ Shows(u)'
      BY <2>1 DEF HeldSound
    <3>1. CASE u = t
      BY <2>3, <2>4, <3>1
    <3>2. CASE u # t
      <4>1. answer[u].said \in Unreadable \/ Shows(u)
        BY <1>2, <3>2 DEF HeldSound
      <4> QED BY <1>1, <1>2, <1>t, <2>1, <3>2, <4>1 DEF Shows
    <3> QED BY <3>1, <3>2
  <2> QED BY <2>5, <2>6
<1> QED BY <1>4, <1>5, <1>6, <1>7, <1>8 DEF ThreadStep

\* A read back that is served shows the slot, or is refused.
LEMMA ReadBackShows ==
  ASSUME Inv1, NEW c \in CallType, ReadsBack(c), InRange(c),
         NEW takes \in BOOLEAN, Handle(ReadBackOf(c), takes)
  PROVE  /\ UNCHANGED table
         /\ \/ Answer(ReadBackOf(c)).said = "refusal"
            \/ /\ Answer(ReadBackOf(c)).said = "slot"
               /\ Answer(ReadBackOf(c)).held = table[c.slot]
<1> DEFINE r == ReadBackOf(c)
<1>1. r.cmd = "show" /\ r.slot = c.slot /\ r.slot \in Slots
  BY ReadBackIsSafe
<1>2. r.slot # NUMUSERS
  BY <1>1, DeviceAssumption DEF Slots
<1> HIDE DEF r
<1>3. UNCHANGED table
  <2>1. CASE ~Runs(r)
    BY <2>1 DEF Handle, r
  <2>2. CASE Runs(r)
    <3>1. Perform(r, takes)
      BY <2>2 DEF Handle, r
    <3> QED BY <1>1, <3>1 DEF Perform
  <2> QED BY <2>1, <2>2
<1>4. CASE ~Runs(r)
  BY <1>3, <1>4 DEF Answer, r
<1>5. CASE Runs(r)
  <2>1. Answer(r) = [said |-> "slot", held |-> table[r.slot]]
    BY <1>1, <1>2, <1>5 DEF Answer
  <2> QED BY <1>1, <1>3, <2>1 DEF r
<1> QED BY <1>4, <1>5

\* While nothing is abandoned, what the world does disturbs no read back either.
LEMMA WorldInv3 ==
  ASSUME Inv1, Inv2, Quiet, HeldSound, Abandoned' = {},
         NetworkStep \/ OtherClient \/ BoardStep \/ Crash \/ UNCHANGED vars
  PROVE  Quiet' /\ HeldSound'
<1> USE DEF Inv1
<1>1. ASSUME NEW m \in net, Serve(m) PROVE Quiet' /\ HeldSound'
  <2> DEFINE t == m.from
  <2>1. /\ t \in Threads /\ m.step \in Waiting /\ m.serial \in Serials /\ call[t] \in CallType
        /\ m = [from |-> t, serial |-> m.serial, step |-> m.step, req |-> m.req]
    BY DEF TypeOK, Messages
  <2>2. pc[t] = m.step /\ serial[t] = m.serial /\ lock = t
    BY <2>1 DEF Quiet, Inv2, LockSound, Waiting
  <2>3. /\ UNCHANGED <<lock, call, serial, pc>>
        /\ answer' = [answer EXCEPT ![t] = Answer(m.req)] /\ net' = net \ {m}
    BY <1>1, <2>2 DEF Serve
  <2>4. ASSUME NEW n \in net PROVE n = m
    <3>1. /\ n.from \in Threads /\ n.step \in Waiting
          /\ n = [from |-> n.from, serial |-> n.serial, step |-> n.step, req |-> n.req]
      BY DEF TypeOK, Messages
    <3>2. n.from = t
      BY <2>2, <3>1 DEF Quiet, Inv2, LockSound, Waiting
    <3>3. n.serial = m.serial /\ n.step = m.step /\ n.req = m.req
      BY <2>1, <2>2, <3>1, <3>2 DEF Quiet
    <3> QED BY <2>1, <3>1, <3>2, <3>3
  <2>5. Quiet'
    BY <2>3, <2>4 DEF Quiet
  <2>6. HeldSound'
    <3> SUFFICES ASSUME NEW u \in Threads, pc[u] = "wait again"
                 PROVE  answer'[u].said \in Unreadable \/ Shows(u)'
      BY <2>3 DEF HeldSound
    <3>1. u = t
      BY <2>2 DEF Inv2, LockSound
    <3>2. answer'[t] = Answer(m.req)
      BY <2>1, <2>3 DEF TypeOK
    <3>3. m.req = ReadBackOf(call[t]) /\ ReadsBack(call[t]) /\ InRange(call[t])
      BY <2>1, <2>2, <3>1 DEF Quiet, Asked
    <3>4. PICK takes \in BOOLEAN : Handle(m.req, takes)
      BY <1>1 DEF Serve
    <3>5. /\ UNCHANGED table
          /\ \/ answer'[t].said = "refusal"
             \/ answer'[t].said = "slot" /\ answer'[t].held = table[call[t].slot]
      BY <2>1, <3>2, <3>3, <3>4, ReadBackShows
    <3> QED BY <2>3, <3>1, <3>5 DEF Unreadable, Shows
  <2> QED BY <2>5, <2>6
<1>2. ASSUME NEW m \in net, LoseRequest(m) PROVE Quiet' /\ HeldSound'
  BY <1>2 DEF LoseRequest, Quiet, HeldSound, Shows, device
<1>3. CASE OtherClient
  <2>1. UNCHANGED table
    <3>1. PICK r \in Requests : r.login # "right" /\ Handle(r, TRUE)
      BY <1>3 DEF OtherClient
    <3>2. r \in Request
      BY RequestsType
    <3> QED BY <3>1, <3>2, OutsiderChangesNothing
            DEF NoStandingPrivilege, TypeOK, DeviceTypeOK
  <2> QED BY <1>3, <2>1 DEF OtherClient, adapter, Quiet, HeldSound, Shows
<1>4. CASE BoardStep \/ UNCHANGED vars
  BY <1>4 DEF BoardStep, WindowElapses, PowerCycle, vars, device, adapter, Quiet, HeldSound, Shows
<1>5. CASE Crash
  <2>1. \A t \in Threads : pc[t] = "idle"
    BY <1>5 DEF Crash, Abandoned, Asked
  <2>2. net = {}
    BY <2>1 DEF Quiet, TypeOK, Messages, Waiting
  <2> QED BY <1>5, <2>2 DEF Crash, Quiet, HeldSound, Shows
<1> QED BY <1>1, <1>2, <1>3, <1>4, <1>5 DEF NetworkStep

\* As long as nothing is abandoned, a write or a clear that reports no error has
\* left its slot as it was asked to, whatever the other threads do, or was told
\* by a cut read back of a tag that only begins with the one asked for.
THEOREM ReportedWritesHeld == Spec => VerifiedMeansHeld
<1> DEFINE Inv == Inv1 /\ AnswerRan /\ Inv2 /\ Inv3
           Step == \A t \in Threads :
             Abandoned = {} /\ ReadsBack(call[t]) /\ Reports(t, "ok") =>
               \/ table[call[t].slot] = call[t].entry
               \/ serial[t] \in torn /\ call[t].entry \in CutTag[table[call[t].slot]]
<1>1. ASSUME Inv, [Next]_vars PROVE Inv3'
  <2> SUFFICES ASSUME Abandoned' = {} PROVE Quiet' /\ HeldSound'
    BY DEF Inv3
  <2>1. Abandoned = {}
    BY <1>1, OutcomesStay DEF Abandoned
  <2> QED BY <1>1, <2>1, ThreadInv3, WorldInv3 DEF Inv3, Next
<1>2. ASSUME Inv, [Next]_vars PROVE Step
  <2> SUFFICES ASSUME NEW t \in Threads, Abandoned = {}, ReadsBack(call[t]), Reports(t, "ok")
               PROVE  \/ table[call[t].slot] = call[t].entry
                      \/ serial[t] \in torn /\ call[t].entry \in CutTag[table[call[t].slot]]
    OBVIOUS
  <2>1. Receive(t) /\ Verdict(call[t], answer[t]) = "ok"
    BY <1>2, OkIsReceived
  <2>2. answer[t].said \notin Unreadable /\ answer[t].held = call[t].entry
    <3>1. answer[t].said \notin Unreadable
      BY <2>1 DEF Verdict
    <3>2. call[t].do # "lock"
      BY DEF ReadsBack
    <3>3. Verdict(call[t], answer[t]) =
            IF answer[t].held = call[t].entry THEN "ok" ELSE "not verified"
      BY <3>1, <3>2 DEF Verdict
    <3> QED BY <2>1, <3>1, <3>3
  <2>3. pc[t] = "wait again" /\ answer[t] # NoAnswer
    BY <1>2, <2>1, <2>2 DEF Receive, Waiting, Unreadable, Reports, Inv1, TypeOK
  <2> QED BY <1>2, <2>2, <2>3 DEF Inv3, HeldSound, Shows
<1>3. Inv1 /\ AnswerRan /\ [Next]_vars => AnswerRan'
  BY AnswerRanStep
<1>4. Inv1 /\ Inv2 /\ [Next]_vars => Inv2'
  BY Inv2Step
<1>5. Inv /\ [Next]_vars => Inv3'
  BY <1>1
<1>6. Inv /\ [Next]_vars => [Step]_vars
  BY <1>2
<1>7. Spec => []Inv
  <2> HIDE DEF Step
  <2> QED BY Layer1, AnswerRanInit, Inv2Init, Inv3Init, <1>3, <1>4, <1>5, PTL DEF Spec
<1> QED BY <1>6, <1>7, PTL DEF Spec, VerifiedMeansHeld

=============================================================================
